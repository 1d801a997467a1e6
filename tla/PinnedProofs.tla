---------------------------- MODULE PinnedProofs ----------------------------
(* Proofs about PinnedStatus, for any number of tasks and any bounds. *)
EXTENDS PinnedStatus, FiniteSetTheorems, TLAPS

-----------------------------------------------------------------------------
(* The invariant *)

\* The tasks that have sent a message and not stored its id yet, and what the
\* chat and those tasks have of status messages.
Owed == {t \in Running : made[t] # 0}
InHand == Alive \union {made[t] : t \in Owed}

\* Ids are of messages that were sent, and a task has the id of its message
\* from the moment Telegram accepted it.
IdsAreSent ==
  /\ known \in 0..sent /\ floor <= version
  /\ \A t \in Tasks :
       /\ made[t] \in 0..sent
       /\ pc[t] \in {"new", "edit", "send"} => made[t] = 0
       /\ pc[t] \in {"pin", "settle"} => made[t] # 0
       /\ pc[t] = "edit" => sync[t].known \in 1..sent

\* A task that runs alone knows what is stored, and sends a message only if
\* there is none.
AloneKnows ==
  \A t \in alone :
    /\ t \in Running => Running = {t}
    /\ pc[t] \in {"edit", "send"} => sync[t].known = known
    /\ pc[t] = "send" => known \notin Alive

\* With nothing stored and nothing to store, every message is in excess.
InHandCounted ==
  /\ Cardinality(InHand) <= 1 + excess
  /\ known \notin Alive /\ Owed = {} => Cardinality(InHand) <= excess

\* A message with the text of one of the syncs that run, or a later one.
Fresh(m) == m \in Alive /\ text[m] >= floor

\* As long as nothing goes wrong, every message to be stored is fresh, and the
\* one that is stored is so already or is still to be edited.
FreshWhenCalm ==
  smooth =>
    \A t \in Running :
      /\ sync[t].text >= floor
      /\ made[t] # 0 => Fresh(made[t])
      /\ pc[t] = "edit" => sync[t].known = known \/ Fresh(known)

PinnedInv ==
  TypeOK /\ IdsAreSent /\ AloneKnows /\ InHandCounted /\ FreshWhenCalm

LEMMA PinnedInit == Init => PinnedInv
<1> SUFFICES ASSUME Init PROVE PinnedInv
    OBVIOUS
<1> USE ConstantAssumption DEF Init
<1>1. Running = {} /\ Owed = {} /\ Alive = {} /\ InHand = {}
      BY DEF Running, Owed, Alive, InHand
<1>2. TypeOK
      BY DEF TypeOK, Versions, Ids, PCs, PinnedSync
<1>3. IdsAreSent /\ AloneKnows /\ FreshWhenCalm
      BY <1>1 DEF IdsAreSent, AloneKnows, FreshWhenCalm
<1>4. InHandCounted
      BY <1>1, FS_EmptySet DEF InHandCounted
<1> QED
    BY <1>2, <1>3, <1>4 DEF PinnedInv

-----------------------------------------------------------------------------
(* Tasks and messages *)

LEMMA TaskMoves ==
  ASSUME NEW t \in Tasks, NEW x \in PCs, TypeOK, pc' = [pc EXCEPT ![t] = x]
  PROVE  /\ pc'[t] = x /\ \A u \in Tasks \ {t} : pc'[u] = pc[u]
         /\ Running' = IF x \in {"new", "done"} THEN Running \ {t}
                                                ELSE Running \union {t}
BY DEF TypeOK, Running

\* A task without a message of its own may go on, or be done, unnoticed.
LEMMA NothingOwed ==
  ASSUME NEW t \in Tasks, NEW x \in PCs, TypeOK, IdsAreSent,
         pc' = [pc EXCEPT ![t] = x], made[t] = 0, made' = made
  PROVE  Owed' = Owed
BY TaskMoves DEF Owed

LEMMA InHandSent ==
  ASSUME TypeOK, IdsAreSent
  PROVE  /\ InHand \subseteq 1..sent /\ Alive \subseteq InHand
         /\ IsFiniteSet(InHand) /\ Cardinality(InHand) \in Nat
         /\ Cardinality(Alive) <= Cardinality(InHand)
<1>1. sent \in Nat
      BY ConstantAssumption DEF TypeOK, Ids
<1>2. InHand \subseteq 1..sent
      BY <1>1 DEF InHand, Alive, Owed, Running, IdsAreSent
<1>3. IsFiniteSet(1..sent)
      BY <1>1, FS_Interval
<1>4. IsFiniteSet(InHand)
      BY <1>2, <1>3, FS_Subset
<1>5. Alive \subseteq InHand
      BY DEF InHand
<1> QED
    BY <1>2, <1>4, <1>5, FS_Subset, FS_CardinalityType

\* Messages are lost or let go of, and none comes.
LEMMA NoMoreInHand ==
  ASSUME TypeOK, IdsAreSent, InHandCounted,
         InHand' \subseteq InHand, excess' \in Nat, excess' >= excess,
         known' \notin Alive' /\ Owed' = {} =>
           \/ (known \notin Alive /\ Owed = {})
           \/ excess' > excess
           \/ InHand' # InHand
  PROVE  InHandCounted'
<1>1. IsFiniteSet(InHand) /\ Cardinality(InHand) \in Nat
      BY InHandSent
<1>2. /\ Cardinality(InHand') \in Nat
      /\ Cardinality(InHand') <= Cardinality(InHand)
      /\ Cardinality(InHand') = Cardinality(InHand) => InHand' = InHand
      BY <1>1, FS_Subset, FS_CardinalityType
<1>3. excess \in Nat
      BY DEF TypeOK
<1> QED
    BY <1>1, <1>2, <1>3 DEF InHandCounted

\* A message is accepted: in excess, or the only one.
LEMMA OneMoreInHand ==
  ASSUME TypeOK, IdsAreSent, InHandCounted, InHand' = InHand \union {sent + 1},
         (known \notin Alive /\ Owed = {}) \/ excess' = excess + 1,
         excess' \in {excess, excess + 1},
         known' \notin Alive' /\ Owed' = {} =>
           known \notin Alive /\ Owed = {} /\ excess' = excess + 1
  PROVE  InHandCounted'
<1>1. /\ IsFiniteSet(InHand) /\ Cardinality(InHand) \in Nat
      /\ sent + 1 \notin InHand
      BY InHandSent, ConstantAssumption DEF TypeOK, Ids
<1>2. Cardinality(InHand') = Cardinality(InHand) + 1
      BY <1>1, FS_AddElement
<1>3. excess \in Nat
      BY DEF TypeOK
<1> QED
    BY <1>1, <1>2, <1>3 DEF InHandCounted

-----------------------------------------------------------------------------
(* The invariant is kept, action by action *)

LEMMA ChangeKeeps ==
  ASSUME PinnedInv, NEW t \in Tasks, Change(t)
  PROVE  PinnedInv'
<1> USE ConstantAssumption
<1>1. /\ TypeOK /\ IdsAreSent /\ AloneKnows /\ InHandCounted /\ FreshWhenCalm
      BY DEF PinnedInv
<1> DEFINE x == IF known = 0 THEN "send" ELSE "edit"
<1>2. /\ pc[t] = "new" /\ version < MaxVersion /\ version' = version + 1
      /\ sync' = [sync EXCEPT ![t] = [text |-> version + 1, known |-> known]]
      /\ pc' = [pc EXCEPT ![t] = x]
      /\ UNCHANGED <<known, made, sent, text, gone, excess, losses, faults,
                     crashes>>
      BY DEF Change, Reads, bounds
<1>3. \/ /\ Running = {} /\ alone' = {t} /\ floor' = version + 1
         /\ smooth' = TRUE
      \/ Running # {} /\ alone' = {} /\ floor' = floor /\ smooth' = smooth
      BY DEF Change
<1>4. x \in PCs \ {"new", "done"} /\ (x = "send" <=> known = 0)
      /\ x \in {"send", "edit"}
      BY DEF PCs
<1> HIDE DEF x
<1>5. /\ pc'[t] = x /\ \A u \in Tasks \ {t} : pc'[u] = pc[u]
      /\ Running' = Running \union {t}
      BY <1>1, <1>2, <1>4, TaskMoves
<1>6. /\ sync'[t] = [text |-> version + 1, known |-> known]
      /\ \A u \in Tasks \ {t} : sync'[u] = sync[u]
      /\ sync' \in [Tasks -> PinnedSync] /\ pc' \in [Tasks -> PCs]
      /\ version' \in Versions /\ t \notin Running
      BY <1>1, <1>2, <1>4 DEF TypeOK, PinnedSync, Versions, Running
<1>7. made[t] = 0
      BY <1>1, <1>2 DEF IdsAreSent
<1>8. Owed' = Owed /\ Alive' = Alive
      BY <1>1, <1>2, <1>4, <1>7, NothingOwed DEF Alive
<1>9. InHand' = InHand
      BY <1>2, <1>8 DEF InHand
<1>10. TypeOK'
       BY <1>1, <1>2, <1>3, <1>6 DEF TypeOK
<1>11. known \in 0..sent
       BY <1>1 DEF IdsAreSent
<1>12. IdsAreSent'
  <2>1. known' \in 0..sent' /\ floor' <= version'
        BY <1>1, <1>2, <1>3, <1>11 DEF IdsAreSent, TypeOK, Versions
  <2>2. ASSUME NEW u \in Tasks
        PROVE  /\ made'[u] \in 0..sent'
               /\ pc'[u] \in {"new", "edit", "send"} => made'[u] = 0
               /\ pc'[u] \in {"pin", "settle"} => made'[u] # 0
               /\ pc'[u] = "edit" => sync'[u].known \in 1..sent'
    <3>1. CASE u = t
          BY <1>1, <1>2, <1>4, <1>5, <1>6, <1>7, <1>11, <3>1
             DEF IdsAreSent, TypeOK, Ids
    <3>2. CASE u # t
          BY <1>1, <1>2, <1>5, <1>6, <3>2 DEF IdsAreSent
    <3> QED
        BY <3>1, <3>2
  <2> QED
      BY <2>1, <2>2 DEF IdsAreSent
<1>13. AloneKnows'
       BY <1>1, <1>2, <1>3, <1>4, <1>5, <1>6, <1>8
          DEF AloneKnows, Alive, Ids, TypeOK
<1>14. InHandCounted'
       BY <1>1, <1>2, <1>8, <1>9, NoMoreInHand DEF TypeOK
<1>15. FreshWhenCalm'
  <2>1. version \in Int /\ floor \in Int /\ floor <= version
        BY <1>1 DEF IdsAreSent, TypeOK, Versions
  <2>2. Running \subseteq Tasks
        BY DEF Running
  <2>3. /\ sync'[t].text >= floor' /\ made'[t] = 0
        /\ sync'[t].known = known'
        BY <1>2, <1>3, <1>6, <1>7, <2>1
  <2>4. ASSUME smooth', NEW u \in Running' \ {t}
        PROVE  /\ sync'[u].text >= floor'
               /\ made'[u] # 0 => Fresh(made[u])'
               /\ pc'[u] = "edit" => sync'[u].known = known' \/ Fresh(known)'
        BY <1>1, <1>2, <1>3, <1>5, <1>6, <1>8, <2>2, <2>4
           DEF FreshWhenCalm, Fresh
  <2> QED
      BY <2>3, <2>4 DEF FreshWhenCalm
<1> QED
    BY <1>10, <1>12, <1>13, <1>14, <1>15 DEF PinnedInv

\* A sync that has sent nothing is over, after an edit or a failure.
LEMMA EndKeeps ==
  ASSUME PinnedInv, NEW t \in Tasks, pc[t] \in {"edit", "send"}, Over(t),
         UNCHANGED <<version, known, sync, made, sent, gone, alone, floor,
                     excess>>,
         \/ text' = text
         \/ pc[t] = "edit" /\ Shows(sync[t].known, sync[t].text),
         smooth' \in {smooth, FALSE},
         losses' \in 0..MaxLosses, UNCHANGED <<faults, crashes>>
  PROVE  PinnedInv'
<1> USE ConstantAssumption
<1>1. /\ TypeOK /\ IdsAreSent /\ AloneKnows /\ InHandCounted /\ FreshWhenCalm
      BY DEF PinnedInv
<1>2. made[t] = 0 /\ "done" \in PCs
      BY <1>1 DEF IdsAreSent, PCs
<1>3. pc' = [pc EXCEPT ![t] = "done"]
      BY <1>2 DEF Over
<1>4. /\ pc'[t] = "done" /\ \A u \in Tasks \ {t} : pc'[u] = pc[u]
      /\ Running' = Running \ {t} /\ pc' \in [Tasks -> PCs] /\ t \in Running
      BY <1>1, <1>2, <1>3, TaskMoves DEF TypeOK, Running
<1>5. Owed' = Owed /\ Alive' = Alive
      BY <1>1, <1>2, <1>3, NothingOwed DEF Alive
<1>6. InHand' = InHand
      BY <1>5 DEF InHand
<1>7. /\ text' \in [Ids -> Versions]
      /\ \A m \in Ids : text'[m] = text[m] \/ text'[m] = sync[t].text
      BY <1>1 DEF TypeOK, Shows, PinnedSync
<1>8. TypeOK'
      BY <1>1, <1>4, <1>7 DEF TypeOK
<1>9. IdsAreSent'
      BY <1>1, <1>4 DEF IdsAreSent
<1>10. AloneKnows'
       BY <1>1, <1>4, <1>5 DEF AloneKnows, TypeOK
<1>11. InHandCounted'
       BY <1>1, <1>5, <1>6, NoMoreInHand DEF TypeOK
<1>12. FreshWhenCalm'
  <2>1. Alive \subseteq Ids
        BY <1>1 DEF Alive, TypeOK, Ids
  <2>2. \A m \in Alive : smooth /\ text[m] >= floor => text'[m] >= floor
        BY <1>1, <1>4, <1>7, <2>1 DEF FreshWhenCalm
  <2>3. smooth' => smooth
        BY <1>1 DEF TypeOK
  <2>4. Running' \subseteq Running /\ Running \subseteq Tasks
        BY <1>4 DEF Running
  <2> QED
      BY <1>1, <1>4, <1>5, <2>2, <2>3, <2>4 DEF FreshWhenCalm, Fresh
<1> QED
    BY <1>8, <1>9, <1>10, <1>11, <1>12 DEF PinnedInv

LEMMA EditRejectedKeeps ==
  ASSUME PinnedInv, NEW t \in Tasks, EditRejected(t)
  PROVE  PinnedInv'
<1> USE ConstantAssumption
<1>1. /\ TypeOK /\ IdsAreSent /\ AloneKnows /\ InHandCounted /\ FreshWhenCalm
      BY DEF PinnedInv
<1>2. /\ pc[t] = "edit" /\ sync[t].known \in gone
      /\ pc' = [pc EXCEPT ![t] = "send"]
      /\ UNCHANGED <<version, known, sync, made, sent, text, gone, alone,
                     floor, smooth, excess, losses, faults, crashes>>
      BY DEF EditRejected, bounds
<1>3. made[t] = 0 /\ "send" \in PCs
      BY <1>1, <1>2 DEF IdsAreSent, PCs
<1>4. /\ pc'[t] = "send" /\ \A u \in Tasks \ {t} : pc'[u] = pc[u]
      /\ Running' = Running /\ pc' \in [Tasks -> PCs]
      BY <1>1, <1>2, <1>3, TaskMoves DEF TypeOK, Running
<1>5. Owed' = Owed /\ Alive' = Alive
      BY <1>1, <1>2, <1>3, NothingOwed DEF Alive
<1>6. InHand' = InHand
      BY <1>2, <1>5 DEF InHand
<1>7. TypeOK'
      BY <1>1, <1>2, <1>4 DEF TypeOK
<1>8. IdsAreSent'
      BY <1>1, <1>2, <1>3, <1>4 DEF IdsAreSent
<1>9. AloneKnows'
  <2>1. ASSUME NEW u \in alone, u # t
        PROVE  pc'[u] = pc[u]
        BY <1>1, <1>4, <2>1 DEF TypeOK
  <2>2. t \in alone => sync[t].known = known /\ known \notin Alive
        BY <1>1, <1>2 DEF AloneKnows, Alive
  <2> QED
      BY <1>1, <1>2, <1>4, <1>5, <2>1, <2>2 DEF AloneKnows
<1>10. InHandCounted'
       BY <1>1, <1>2, <1>5, <1>6, NoMoreInHand DEF TypeOK
<1>11. FreshWhenCalm'
  <2>1. Running \subseteq Tasks
        BY DEF Running
  <2> QED
      BY <1>1, <1>2, <1>4, <1>5, <2>1 DEF FreshWhenCalm, Fresh
<1> QED
    BY <1>7, <1>8, <1>9, <1>10, <1>11 DEF PinnedInv

\* What a new message changes, whether its task hears of it or not.
LEMMA AppearsKeeps ==
  ASSUME PinnedInv, NEW t \in Tasks, NEW toomany \in BOOLEAN,
         Appears(t, toomany), toomany \/ t \in alone,
         \/ /\ pc' = [pc EXCEPT ![t] = "pin"]
            /\ made' = [made EXCEPT ![t] = sent + 1]
            /\ smooth' = smooth
         \/ /\ pc' = [pc EXCEPT ![t] = "done"] /\ made' = made
            /\ smooth' = FALSE /\ toomany,
         losses' \in 0..MaxLosses, UNCHANGED <<faults, crashes>>
  PROVE  PinnedInv'
<1> USE ConstantAssumption
<1>1. /\ TypeOK /\ IdsAreSent /\ AloneKnows /\ InHandCounted /\ FreshWhenCalm
      BY DEF PinnedInv
<1>2. /\ pc[t] = "send" /\ sent < MaxMessage /\ sent' = sent + 1
      /\ text' = [text EXCEPT ![sent + 1] = sync[t].text]
      /\ excess' = (IF toomany THEN excess + 1 ELSE excess)
      /\ UNCHANGED <<version, known, sync, gone, alone, floor>>
      BY DEF Appears, Shows
<1>3. /\ sent \in Nat /\ sent + 1 \in Ids /\ excess \in Nat
      /\ excess' \in {excess, excess + 1}
      /\ toomany => excess' = excess + 1
      BY <1>1, <1>2 DEF TypeOK, Ids
<1>4. made[t] = 0 /\ t \in Running /\ "pin" \in PCs /\ "done" \in PCs
      BY <1>1, <1>2 DEF IdsAreSent, PCs, Running
<1>5. /\ \A u \in Tasks \ {t} : pc'[u] = pc[u] /\ made'[u] = made[u]
      /\ made' \in [Tasks -> Ids \union {0}] /\ pc' \in [Tasks -> PCs]
      BY <1>1, <1>3, <1>4 DEF TypeOK
<1>6. Alive' = Alive \union {sent + 1}
      BY <1>1, <1>2, <1>3 DEF Alive, TypeOK
<1>7. \/ /\ pc'[t] = "pin" /\ made'[t] = sent + 1 /\ Running' = Running
         /\ smooth' = smooth
      \/ /\ pc'[t] = "done" /\ made'[t] = 0 /\ Running' = Running \ {t}
         /\ smooth' = FALSE /\ toomany
      BY <1>1, <1>4, <1>5, TaskMoves DEF TypeOK
<1>8. \/ Owed' = Owed \union {t} /\ made'[t] = sent + 1
      \/ Owed' = Owed /\ toomany
  <2>1. t \notin Owed /\ Running \subseteq Tasks /\ sent + 1 # 0
        BY <1>3, <1>4 DEF Owed, Running
  <2> QED
      BY <1>4, <1>5, <1>7, <2>1 DEF Owed
<1>9. InHand' = InHand \union {sent + 1}
  <2>1. t \notin Owed /\ Owed \subseteq Tasks
        BY <1>4 DEF Owed, Running
  <2>2. \A u \in Owed : made'[u] = made[u]
        BY <1>5, <2>1
  <2>3. {made'[u] : u \in Owed} = {made[u] : u \in Owed}
        BY <2>2
  <2>4. {made'[u] : u \in Owed \union {t}}
          = {made[u] : u \in Owed} \union {made'[t]}
        BY <2>2
  <2>5. InHand' = Alive' \union {made'[u] : u \in Owed'}
        BY DEF InHand
  <2>6. CASE Owed' = Owed
        BY <1>6, <2>3, <2>5, <2>6 DEF InHand
  <2>7. CASE Owed' = Owed \union {t} /\ made'[t] = sent + 1
        BY <1>6, <2>4, <2>5, <2>7 DEF InHand
  <2> QED
      BY <1>8, <2>6, <2>7
<1>10. TypeOK'
  <2>1. text' \in [Ids -> Versions]
        BY <1>1, <1>2 DEF TypeOK, PinnedSync
  <2>2. gone' \subseteq 1..sent' /\ sent' \in Ids
        BY <1>1, <1>2, <1>3 DEF TypeOK
  <2>3. excess' \in Nat
        BY <1>3
  <2>4. smooth' \in BOOLEAN
        BY <1>1, <1>7 DEF TypeOK
  <2> QED
      BY <1>1, <1>2, <1>5, <2>1, <2>2, <2>3, <2>4 DEF TypeOK
<1>11. IdsAreSent'
  <2>1. known' \in 0..sent' /\ floor' <= version'
        BY <1>1, <1>2, <1>3 DEF IdsAreSent
  <2>2. ASSUME NEW u \in Tasks
        PROVE  /\ made'[u] \in 0..sent'
               /\ pc'[u] \in {"new", "edit", "send"} => made'[u] = 0
               /\ pc'[u] \in {"pin", "settle"} => made'[u] # 0
               /\ pc'[u] = "edit" => sync'[u].known \in 1..sent'
    <3>1. CASE u = t
          BY <1>2, <1>3, <1>7, <3>1
    <3>2. CASE u # t
          BY <1>1, <1>2, <1>3, <1>5, <3>2 DEF IdsAreSent
    <3> QED
        BY <3>1, <3>2
  <2> QED
      BY <2>1, <2>2 DEF IdsAreSent
<1>12. AloneKnows'
  <2>1. ASSUME NEW u \in alone, u # t PROVE u \notin Running
        BY <1>1, <1>4, <2>1 DEF AloneKnows
  <2>2. \A u \in Tasks \ Running : pc[u] \in {"new", "done"}
        BY DEF Running
  <2> QED
      BY <1>1, <1>2, <1>4, <1>5, <1>7, <2>1, <2>2 DEF AloneKnows, TypeOK
<1>13. InHandCounted'
  <2>1. t \in alone => known \notin Alive /\ Owed = {}
        BY <1>1, <1>2, <1>4 DEF AloneKnows, Owed
  <2>2. ASSUME known' \notin Alive', Owed' = {}
        PROVE  known \notin Alive /\ Owed = {} /\ excess' = excess + 1
        BY <1>2, <1>3, <1>6, <1>8, <2>2
  <2> QED
      BY <1>1, <1>3, <1>9, <2>1, <2>2, OneMoreInHand
<1>14. FreshWhenCalm'
  <2>1. CASE smooth' = FALSE
        BY <2>1 DEF FreshWhenCalm
  <2>2. CASE pc'[t] = "pin" /\ made'[t] = sent + 1 /\ Running' = Running
    <3> SUFFICES ASSUME smooth
                 PROVE  FreshWhenCalm'
        BY <1>7, <2>1 DEF FreshWhenCalm
    <3>1. /\ sync[t].text >= floor /\ Running \subseteq Tasks
          /\ sent + 1 \in Alive'
          BY <1>1, <1>4, <1>6 DEF FreshWhenCalm, Running
    <3>2. \A m \in Alive : m \in Alive' /\ (text[m] >= floor => text'[m] >= floor)
          BY <1>1, <1>2, <1>3, <1>6, <3>1 DEF Alive, TypeOK, Ids
    <3>3. text'[sent + 1] >= floor
          BY <1>1, <1>2, <1>3, <3>1 DEF TypeOK
    <3> QED
        BY <1>1, <1>2, <1>5, <2>2, <3>1, <3>2, <3>3 DEF FreshWhenCalm, Fresh
  <2> QED
      BY <1>7, <2>1, <2>2
<1> QED
    BY <1>10, <1>11, <1>12, <1>13, <1>14 DEF PinnedInv

LEMMA PinsKeeps ==
  ASSUME PinnedInv, NEW t \in Tasks, Pins(t)
  PROVE  PinnedInv'
<1> USE ConstantAssumption
<1>1. /\ TypeOK /\ IdsAreSent /\ AloneKnows /\ InHandCounted /\ FreshWhenCalm
      BY DEF PinnedInv
<1>2. /\ pc[t] = "pin"
      /\ UNCHANGED <<version, known, sync, made, sent, text, gone, alone,
                     floor, smooth, excess, losses, faults, crashes>>
      BY DEF Pins, bounds
<1>3. pc' = [pc EXCEPT ![t] = "settle"] /\ "settle" \in PCs /\ made[t] # 0
      BY <1>1, <1>2 DEF Pins, Over, IdsAreSent, PCs
<1>4. /\ pc'[t] = "settle" /\ \A u \in Tasks \ {t} : pc'[u] = pc[u]
      /\ Running' = Running /\ pc' \in [Tasks -> PCs]
      BY <1>1, <1>2, <1>3, TaskMoves DEF TypeOK, Running
<1>5. Owed' = Owed /\ Alive' = Alive
      BY <1>2, <1>4 DEF Alive, Owed
<1>6. InHand' = InHand
      BY <1>2, <1>5 DEF InHand
<1>7. TypeOK'
      BY <1>1, <1>2, <1>4 DEF TypeOK
<1>8. IdsAreSent'
      BY <1>1, <1>2, <1>3, <1>4 DEF IdsAreSent
<1>9. AloneKnows'
      BY <1>1, <1>2, <1>4, <1>5 DEF AloneKnows, TypeOK
<1>10. InHandCounted'
       BY <1>1, <1>2, <1>5, <1>6, NoMoreInHand DEF TypeOK
<1>11. FreshWhenCalm'
  <2>1. Running \subseteq Tasks
        BY DEF Running
  <2> QED
      BY <1>1, <1>2, <1>4, <1>5, <2>1 DEF FreshWhenCalm, Fresh
<1> QED
    BY <1>7, <1>8, <1>9, <1>10, <1>11 DEF PinnedInv

LEMMA SettleKeeps ==
  ASSUME PinnedInv, NEW t \in Tasks, Settle(t)
  PROVE  PinnedInv'
<1> USE ConstantAssumption
<1>1. /\ TypeOK /\ IdsAreSent /\ AloneKnows /\ InHandCounted /\ FreshWhenCalm
      BY DEF PinnedInv
<1>2. /\ pc[t] = "settle" /\ known' = made[t]
      /\ made' = [made EXCEPT ![t] = 0] /\ pc' = [pc EXCEPT ![t] = "done"]
      /\ UNCHANGED <<version, sync, sent, text, gone, alone, floor, smooth,
                     excess, losses, faults, crashes>>
      BY DEF Settle, bounds
<1>3. /\ made[t] # 0 /\ made[t] \in 0..sent /\ t \in Running /\ t \in Owed
      /\ "done" \in PCs /\ sent \in Nat
      BY <1>1, <1>2 DEF IdsAreSent, PCs, Running, Owed, TypeOK, Ids
<1>4. /\ pc'[t] = "done" /\ \A u \in Tasks \ {t} : pc'[u] = pc[u]
      /\ Running' = Running \ {t} /\ pc' \in [Tasks -> PCs]
      BY <1>1, <1>2, <1>3, TaskMoves DEF TypeOK
<1>5. /\ made'[t] = 0 /\ \A u \in Tasks \ {t} : made'[u] = made[u]
      /\ made' \in [Tasks -> Ids \union {0}]
      BY <1>1, <1>2 DEF TypeOK
<1>6. Running \subseteq Tasks
      BY DEF Running
<1>7. Owed' = Owed \ {t} /\ Alive' = Alive
      BY <1>2, <1>4, <1>5, <1>6 DEF Owed, Alive
<1>8. \A u \in Owed' : u \in Owed /\ made'[u] = made[u]
      BY <1>5, <1>6, <1>7 DEF Owed
<1>9. InHand' \subseteq InHand
      BY <1>7, <1>8 DEF InHand
<1>10. TypeOK'
       BY <1>1, <1>2, <1>3, <1>4, <1>5 DEF TypeOK
<1>11. IdsAreSent'
  <2>1. known' \in 0..sent' /\ floor' <= version'
        BY <1>1, <1>2, <1>3 DEF IdsAreSent
  <2>2. ASSUME NEW u \in Tasks
        PROVE  /\ made'[u] \in 0..sent'
               /\ pc'[u] \in {"new", "edit", "send"} => made'[u] = 0
               /\ pc'[u] \in {"pin", "settle"} => made'[u] # 0
               /\ pc'[u] = "edit" => sync'[u].known \in 1..sent'
    <3>1. CASE u = t
          BY <1>2, <1>3, <1>4, <1>5, <3>1
    <3>2. CASE u # t
          BY <1>1, <1>2, <1>4, <1>5, <3>2 DEF IdsAreSent
    <3> QED
        BY <3>1, <3>2
  <2> QED
      BY <2>1, <2>2 DEF IdsAreSent
<1>12. AloneKnows'
  <2>1. ASSUME NEW u \in alone, u # t PROVE u \notin Running
        BY <1>1, <1>3, <2>1 DEF AloneKnows
  <2>2. \A u \in Tasks \ Running : pc[u] \in {"new", "done"}
        BY DEF Running
  <2> QED
      BY <1>1, <1>2, <1>4, <2>1, <2>2 DEF AloneKnows, TypeOK
<1>13. InHandCounted'
  <2>1. ASSUME known' \notin Alive', Owed' = {} PROVE InHand' # InHand
    <3>1. known' \in InHand
          BY <1>2, <1>3 DEF InHand
    <3>2. InHand' = Alive'
          BY <2>1 DEF InHand
    <3> QED
        BY <2>1, <3>1, <3>2
  <2> QED
      BY <1>1, <1>2, <1>9, <2>1, NoMoreInHand DEF TypeOK
<1>14. FreshWhenCalm'
       BY <1>1, <1>2, <1>3, <1>4, <1>5, <1>6, <1>7 DEF FreshWhenCalm, Fresh
<1> QED
    BY <1>10, <1>11, <1>12, <1>13, <1>14 DEF PinnedInv

LEMMA SettleFailsKeeps ==
  ASSUME PinnedInv, NEW t \in Tasks, SettleFails(t)
  PROVE  PinnedInv'
<1> USE ConstantAssumption
<1>1. /\ TypeOK /\ IdsAreSent /\ AloneKnows /\ InHandCounted /\ FreshWhenCalm
      BY DEF PinnedInv
<1>2. /\ pc[t] = "settle" /\ pc' = [pc EXCEPT ![t] = "done"]
      /\ faults < MaxFaults /\ faults' = faults + 1
      /\ smooth' = FALSE /\ excess' = excess + 1
      /\ UNCHANGED <<version, known, sync, made, sent, text, gone, alone,
                     floor, losses, crashes>>
      BY DEF SettleFails
<1>3. "done" \in PCs
      BY DEF PCs
<1>4. /\ pc'[t] = "done" /\ \A u \in Tasks \ {t} : pc'[u] = pc[u]
      /\ Running' = Running \ {t} /\ pc' \in [Tasks -> PCs]
      BY <1>1, <1>2, <1>3, TaskMoves DEF TypeOK
<1>5. Owed' \subseteq Owed /\ Alive' = Alive
      BY <1>2, <1>4 DEF Owed, Alive
<1>6. InHand' \subseteq InHand
      BY <1>2, <1>5 DEF InHand
<1>7. faults' \in 0..MaxFaults /\ excess' \in Nat
      BY <1>1, <1>2 DEF TypeOK
<1>8. TypeOK'
      BY <1>1, <1>2, <1>4, <1>7 DEF TypeOK
<1>9. IdsAreSent'
      BY <1>1, <1>2, <1>4 DEF IdsAreSent
<1>10. AloneKnows'
       BY <1>1, <1>2, <1>4, <1>5 DEF AloneKnows, TypeOK
<1>11. InHandCounted'
       BY <1>1, <1>2, <1>6, <1>7, NoMoreInHand DEF TypeOK
<1>12. FreshWhenCalm'
       BY <1>2 DEF FreshWhenCalm
<1> QED
    BY <1>8, <1>9, <1>10, <1>11, <1>12 DEF PinnedInv

LEMMA DeleteKeeps ==
  ASSUME PinnedInv, NEW m \in Alive, Delete(m)
  PROVE  PinnedInv'
<1> USE ConstantAssumption
<1>1. /\ TypeOK /\ IdsAreSent /\ AloneKnows /\ InHandCounted /\ FreshWhenCalm
      BY DEF PinnedInv
<1>2. /\ gone' = gone \union {m} /\ smooth' = FALSE
      /\ UNCHANGED <<version, known, pc, sync, made, sent, text, alone, floor,
                     excess, losses, faults, crashes>>
      BY DEF Delete, bounds
<1>3. /\ Running' = Running /\ Owed' = Owed /\ Alive' = Alive \ {m}
      /\ m \in 1..sent
      BY <1>2 DEF Running, Owed, Alive
<1>4. InHand' \subseteq InHand
      BY <1>2, <1>3 DEF InHand
<1>5. TypeOK'
      BY <1>1, <1>2, <1>3 DEF TypeOK
<1>6. IdsAreSent'
      BY <1>1, <1>2 DEF IdsAreSent
<1>7. AloneKnows'
      BY <1>1, <1>2, <1>3 DEF AloneKnows
<1>8. InHandCounted'
  <2>1. ASSUME known' \notin Alive', Owed' = {}
        PROVE  known \notin Alive \/ InHand' # InHand
        BY <1>2, <1>3, <2>1 DEF InHand
  <2> QED
      BY <1>1, <1>2, <1>3, <1>4, <2>1, NoMoreInHand DEF TypeOK
<1>9. FreshWhenCalm'
      BY <1>2 DEF FreshWhenCalm
<1> QED
    BY <1>5, <1>6, <1>7, <1>8, <1>9 DEF PinnedInv

LEMMA CrashKeeps ==
  ASSUME PinnedInv, Crash
  PROVE  PinnedInv'
<1> USE ConstantAssumption
<1>1. /\ TypeOK /\ IdsAreSent /\ AloneKnows /\ InHandCounted /\ FreshWhenCalm
      BY DEF PinnedInv
<1>2. /\ crashes < MaxCrashes /\ crashes' = crashes + 1
      /\ excess' = excess + Cardinality(Owed)
      /\ pc' = [t \in Tasks |-> IF t \in Running THEN "done" ELSE pc[t]]
      /\ made' = [t \in Tasks |-> 0] /\ smooth' = FALSE
      /\ UNCHANGED <<version, known, sync, sent, text, gone, alone, floor,
                     losses, faults>>
      BY DEF Crash, Owed
<1>3. /\ IsFiniteSet(Owed) /\ Cardinality(Owed) \in Nat
      /\ Cardinality(Owed) = 0 => Owed = {}
  <2>1. Owed \in SUBSET Tasks
        BY DEF Owed, Running
  <2>2. IsFiniteSet(Owed)
        BY <2>1, FS_Subset
  <2> QED
      BY <2>2, FS_CardinalityType, FS_EmptySet
<1>4. /\ excess \in Nat /\ excess' \in Nat /\ excess' >= excess
      /\ Owed # {} => excess' > excess
      BY <1>1, <1>2, <1>3 DEF TypeOK
<1>5. pc' \in [Tasks -> PCs] /\ \A t \in Tasks : pc'[t] \in {"new", "done"}
      BY <1>1, <1>2 DEF TypeOK, Running, PCs
<1>6. Running' = {} /\ Owed' = {} /\ Alive' = Alive
      BY <1>2, <1>5 DEF Running, Owed, Alive
<1>7. InHand' \subseteq InHand
      BY <1>6 DEF InHand
<1>8. crashes' \in 0..MaxCrashes /\ made' \in [Tasks -> Ids \union {0}]
      BY <1>1, <1>2 DEF TypeOK
<1>9. TypeOK'
      BY <1>1, <1>2, <1>4, <1>5, <1>8 DEF TypeOK
<1>10. IdsAreSent'
       BY <1>1, <1>2, <1>5 DEF IdsAreSent, TypeOK, Ids
<1>11. AloneKnows'
       BY <1>1, <1>2, <1>5, <1>6 DEF AloneKnows, TypeOK
<1>12. InHandCounted'
       BY <1>1, <1>2, <1>4, <1>6, <1>7, NoMoreInHand
<1>13. FreshWhenCalm'
       BY <1>2 DEF FreshWhenCalm
<1> QED
    BY <1>9, <1>10, <1>11, <1>12, <1>13 DEF PinnedInv

\* A change that is not synced leaves tasks and messages alone.
LEMMA UnsyncedKeeps ==
  ASSUME PinnedInv, ChangeUnsynced \/ UNCHANGED vars
  PROVE  PinnedInv'
<1> USE ConstantAssumption
<1>1. /\ TypeOK /\ IdsAreSent /\ AloneKnows /\ InHandCounted /\ FreshWhenCalm
      BY DEF PinnedInv
<1>2. UNCHANGED <<known, pc, sync, made, sent, text, gone, alone, floor,
                  smooth, excess, losses, faults, crashes>>
      BY DEF ChangeUnsynced, vars, bounds
<1>3. version' \in Versions /\ version' >= version
      BY <1>1 DEF ChangeUnsynced, vars, TypeOK, Versions
<1>4. /\ Running' = Running /\ Owed' = Owed /\ Alive' = Alive
      /\ InHand' = InHand
      BY <1>2 DEF Running, Owed, Alive, InHand
<1>5. TypeOK'
      BY <1>1, <1>2, <1>3 DEF TypeOK
<1>6. IdsAreSent'
      BY <1>1, <1>2, <1>3 DEF IdsAreSent, TypeOK, Versions
<1>7. AloneKnows' /\ InHandCounted'
      BY <1>1, <1>2, <1>4 DEF AloneKnows, InHandCounted
<1>8. FreshWhenCalm'
      BY <1>1, <1>2, <1>4 DEF FreshWhenCalm, Fresh
<1> QED
    BY <1>5, <1>6, <1>7, <1>8 DEF PinnedInv

LEMMA PinnedStep == PinnedInv /\ [Next]_vars => PinnedInv'
<1> SUFFICES ASSUME PinnedInv, [Next]_vars
             PROVE  PinnedInv'
    OBVIOUS
<1>1. TypeOK
      BY DEF PinnedInv
<1>2. ASSUME NEW t \in Tasks, Edits(t) PROVE PinnedInv'
  <2>1. losses' \in 0..MaxLosses /\ UNCHANGED <<faults, crashes>>
        BY <1>1, <1>2 DEF Edits, bounds, TypeOK
  <2> QED
      BY <1>2, <2>1, EndKeeps DEF Edits
<1>3. ASSUME losses < MaxLosses, losses' = losses + 1
      PROVE  losses' \in 0..MaxLosses
      BY <1>1, <1>3, ConstantAssumption DEF TypeOK
<1>4. ASSUME NEW t \in Tasks, EditLost(t) PROVE PinnedInv'
      BY <1>3, <1>4, EndKeeps DEF EditLost, Loses
<1>5. ASSUME NEW t \in Tasks, Sends(t) PROVE PinnedInv'
  <2>1. losses' \in 0..MaxLosses /\ UNCHANGED <<faults, crashes>>
        BY <1>1, <1>5 DEF Sends, bounds, TypeOK
  <2>2. PICK toomany \in BOOLEAN : toomany = (t \notin alone)
        OBVIOUS
  <2>3. Appears(t, toomany) /\ (toomany \/ t \in alone)
        BY <1>5, <2>2 DEF Sends
  <2> QED
      BY <1>5, <2>1, <2>3, AppearsKeeps DEF Sends
<1>6. ASSUME NEW t \in Tasks, SendLost(t) PROVE PinnedInv'
  <2>1. Loses(t) /\ made' = made /\ losses' \in 0..MaxLosses
        BY <1>3, <1>6 DEF SendLost, Loses
  <2>2. pc[t] = "send" /\ made[t] = 0
        BY <1>6 DEF SendLost, Appears, PinnedInv, IdsAreSent
  <2>3. pc' = [pc EXCEPT ![t] = "done"] /\ smooth' = FALSE
        BY <2>1, <2>2 DEF Loses, Over
  <2>4. CASE Appears(t, TRUE)
        BY <2>1, <2>3, <2>4, AppearsKeeps DEF Loses
  <2>5. CASE UNCHANGED <<version, known, sync, sent, text, gone, alone, floor,
                         excess>>
        BY <2>1, <2>2, <2>3, <2>5, EndKeeps DEF Loses
  <2> QED
      BY <1>6, <2>4, <2>5 DEF SendLost
<1> QED
    BY <1>2, <1>4, <1>5, <1>6, ChangeKeeps, EditRejectedKeeps, PinsKeeps,
       SettleKeeps, SettleFailsKeeps, DeleteKeeps, CrashKeeps, UnsyncedKeeps
       DEF Next, Flush

-----------------------------------------------------------------------------
(* The theorems *)

\* The pinned status stays well typed: users.pinned_message_id, the syncs and
\* pinned_updates of bot/ui.py name no message that was not sent.
THEOREM TypeCorrect == Spec => []TypeOK
<1>1. PinnedInv => TypeOK
      BY DEF PinnedInv
<1> QED
    BY <1>1, PinnedInit, PinnedStep, PTL DEF Spec

\* The chat does not fill up with status messages, however many tasks, losses,
\* deletions and crashes there are: beyond one, each is due to a lost answer, a
\* failed transaction, a crash or a sync that overlapped another
\* (_do_sync_pinned records the id before the pin).
THEOREM NoPileOfMessages == Spec => []OneMessageOrExcess
<1>1. ASSUME PinnedInv PROVE OneMessageOrExcess
  <2>1. /\ Cardinality(Alive) \in Nat /\ Cardinality(InHand) \in Nat
        /\ Cardinality(Alive) <= Cardinality(InHand) /\ excess \in Nat
    <3>1. TypeOK /\ IdsAreSent
          BY <1>1 DEF PinnedInv
    <3>2. IsFiniteSet(Alive)
          BY <3>1, InHandSent, FS_Subset
    <3> QED
        BY <3>1, <3>2, InHandSent, FS_CardinalityType DEF TypeOK
  <2> QED
      BY <1>1, <2>1 DEF PinnedInv, InHandCounted, OneMessageOrExcess
<1> QED
    BY <1>1, PinnedInit, PinnedStep, PTL DEF Spec

\* Only these end the last sync of a chat while all goes well.
LEMMA LastSync ==
  ASSUME PinnedInv, [Next]_vars, Running # {}, Running' = {}, smooth'
  PROVE  \E t \in Tasks : t \in Running /\ (Edits(t) \/ Settle(t)) /\ smooth
<1>1. TypeOK /\ IdsAreSent
      BY DEF PinnedInv
<1>2. ASSUME NEW t \in Tasks, NEW x \in PCs \ {"new", "done"},
             pc' = [pc EXCEPT ![t] = x]
      PROVE  FALSE
      BY <1>1, <1>2, TaskMoves
<1>3. {"edit", "send", "pin", "settle"} \subseteq PCs \ {"new", "done"}
      BY DEF PCs
<1>4. ASSUME NEW t \in Tasks PROVE ~Change(t) /\ ~EditRejected(t) /\ ~Sends(t)
      BY <1>2, <1>3 DEF Change, EditRejected, Sends
<1>5. ASSUME NEW t \in Tasks PROVE ~Pins(t)
  <2> SUFFICES ASSUME Pins(t) PROVE FALSE
      OBVIOUS
  <2>1. made[t] # 0
        BY <1>1 DEF Pins, IdsAreSent
  <2> QED
      BY <1>2, <1>3, <2>1 DEF Pins, Over
<1>6. ASSUME NEW t \in Tasks
      PROVE  ~EditLost(t) /\ ~SendLost(t) /\ ~SettleFails(t)
      BY DEF EditLost, SendLost, Loses, SettleFails
<1>7. ~UNCHANGED pc
      BY DEF Running
<1>8. \A m \in Alive : ~Delete(m)
      BY DEF Delete
<1>9. ~Crash /\ ~ChangeUnsynced /\ ~UNCHANGED vars
      BY <1>7 DEF Crash, ChangeUnsynced, vars
<1>10. PICK t \in Tasks : Edits(t) \/ Settle(t)
       BY <1>4, <1>5, <1>6, <1>8, <1>9 DEF Next, Flush
<1>11. t \in Running /\ smooth
       BY <1>10 DEF Edits, Settle, Running
<1> QED
    BY <1>10, <1>11

\* The status rebuilds itself (D10): when the syncs of a chat are over and all
\* of them went through, the stored message exists and shows nothing from
\* before the first of them, whatever went wrong earlier.
THEOREM StatusHeals == Spec => HealsWhenCalm
<1> DEFINE A == Running # {} /\ Running' = {} /\ smooth' =>
                  known' \in Alive /\ text'[known'] >= floor
<1>1. ASSUME PinnedInv, [Next]_vars, Running # {}, Running' = {}, smooth'
      PROVE  known' \in Alive /\ text'[known'] >= floor
  <2>1. /\ TypeOK /\ IdsAreSent /\ FreshWhenCalm
        BY <1>1 DEF PinnedInv
  <2>2. PICK t \in Tasks : t \in Running /\ (Edits(t) \/ Settle(t)) /\ smooth
        BY <1>1, LastSync
  <2>3. CASE Settle(t)
        BY <2>1, <2>2, <2>3 DEF Settle, FreshWhenCalm, Fresh, IdsAreSent
  <2>4. CASE Edits(t)
    <3> DEFINE m == sync[t].known
    <3>1. /\ pc[t] = "edit" /\ m \notin gone /\ known' = known
          /\ text' = [text EXCEPT ![m] = sync[t].text]
          BY <2>4 DEF Edits, Shows
    <3>2. m \in 1..sent /\ m \in Alive /\ m \in Ids
          BY <2>1, <3>1, ConstantAssumption DEF IdsAreSent, Alive, TypeOK, Ids
    <3>3. sync[t].text >= floor
          BY <2>1, <2>2 DEF FreshWhenCalm
    <3>4. m = known \/ Fresh(known)
          BY <2>1, <2>2, <3>1 DEF FreshWhenCalm
    <3>5. Alive \subseteq Ids /\ text \in [Ids -> Versions]
          BY <2>1, ConstantAssumption DEF Alive, TypeOK, Ids
    <3> HIDE DEF m
    <3> QED
        BY <3>1, <3>2, <3>3, <3>4, <3>5 DEF Fresh
  <2> QED
      BY <2>2, <2>3, <2>4
<1>2. PinnedInv /\ [Next]_vars => [A]_vars
      BY <1>1
<1> QED
    BY <1>2, PinnedInit, PinnedStep, PTL DEF Spec, HealsWhenCalm
=============================================================================
