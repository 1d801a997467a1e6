---------------------------- MODULE GarageProofs ----------------------------
(***************************************************************************)
(* Proofs about Garage, for any users and any numbers of groups, chains,   *)
(* rides, instants and days.                                               *)
(***************************************************************************)
EXTENDS Garage, TLAPS

\* Chains that have no row are neither mounted nor retired; a row's group is
\* somebody's.
RowsInOrder ==
  /\ \A c \in active \union retired : groupOf[c] # 0
  /\ \A c \in Chains : groupOf[c] # 0 => owner[groupOf[c]] \in Users

\* A chain the transaction is about to mount: it may be, the last who acted
\* owns it, and nothing in its group is mounted by then but what goes first.
Mountable(c, off) ==
  /\ c \in Chains /\ groupOf[c] # 0 /\ c \notin retired /\ c \notin active
  /\ ActiveIn(groupOf[c]) = off
  /\ owner[groupOf[c]] = last.actor
  /\ now < MaxNow

Swap(d, c) == <<Turns(d, FALSE), Turns(c, TRUE)>>

\* The open transaction is one of the two that Flushes may leave, or its rest.
PlanOK ==
  \/ plan = <<>>
  \/ \E c \in Chains : plan = Activation(c) /\ Mountable(c, {})
  \/ \E c, d \in Chains : plan = Swap(d, c) /\ Mountable(c, {d})

Statements == [chain : Chains, on : BOOLEAN]

Inv == TypeOK /\ RowsInOrder /\ PlanOK /\ OneActivePerGroup /\ ActiveIsUsable
         /\ OwnGarage

LEMMA GarageInit == Init => Inv
<1>. SUFFICES ASSUME Init PROVE Inv
  OBVIOUS
<1>. USE ConstantAssumption DEF Init
<1>1. TypeOK
  BY DEF TypeOK, Groups, Chains, RideIds, Days, Acts
<1>2. RowsInOrder /\ PlanOK
  BY DEF RowsInOrder, PlanOK
<1>3. OneActivePerGroup /\ ActiveIsUsable /\ OwnGarage
  BY DEF OneActivePerGroup, ActiveIsUsable, OwnGarage
<1>. QED
  BY <1>1, <1>2, <1>3 DEF Inv
-----------------------------------------------------------------------------
(* Rows *)

\* What TypeOK and ConstantAssumption say of one row.
LEMMA RowTypes ==
  ASSUME TypeOK
  PROVE  /\ \A g \in Groups : g # 0 /\ (owner[g] \in Users \/ owner[g] = Nobody)
         /\ \A c \in Chains : groupOf[c] # 0 => groupOf[c] \in Groups
         /\ \A u \in Users : u # Nobody /\ (current[u] # 0 => current[u] \in Groups)
         /\ \A i \in RideIds : rides[i] # NoRide =>
              /\ rides[i] \in Ride /\ rides[i].user \in Users
              /\ rides[i].chain \in Chains
BY ConstantAssumption DEF TypeOK, Groups, Ride

\* The transactions there are, and their statements.
LEMMA Plans ==
  ASSUME NEW c \in Chains, NEW d \in Chains
  PROVE  /\ Activation(c) \in Seq(Statements)
         /\ Activation(c) # <<>> /\ Tail(Activation(c)) = <<>>
         /\ Head(Activation(c)) = Turns(c, TRUE)
         /\ Swap(d, c) \in Seq(Statements)
         /\ Swap(d, c) # <<>> /\ Tail(Swap(d, c)) = Activation(c)
         /\ Head(Swap(d, c)) = Turns(d, FALSE)
<1>. DEFINE a == Turns(d, FALSE)
            b == Turns(c, TRUE)
<1>1. a \in Statements /\ b \in Statements
  BY DEF Statements, Turns
<1>. HIDE DEF a, b
<1>2. /\ <<b>> \in Seq(Statements) /\ <<a, b>> \in Seq(Statements)
      /\ <<b>> # <<>> /\ Tail(<<b>>) = <<>> /\ Head(<<b>>) = b
      /\ <<a, b>> # <<>> /\ Tail(<<a, b>>) = <<b>> /\ Head(<<a, b>>) = a
  BY <1>1
<1>. QED
  BY <1>2 DEF a, b, Activation, Swap

\* A new group was no chain's, and nobody's current one.
LEMMA NewGroup ==
  ASSUME TypeOK, RowsInOrder, OwnGarage,
         NEW u \in Users, NEW g \in Groups, WithGroup(u, g)
  PROVE  /\ owner' \in [Groups -> Users \union {Nobody}]
         /\ current' \in [Users -> Groups \union {0}]
         /\ owner'[g] = u
         /\ \A h \in Groups \ {g} : owner'[h] = owner[h]
         /\ \A c \in Chains : groupOf[c] # 0 => groupOf[c] # g
         /\ \A v \in Users : current'[v] # 0 => owner'[current'[v]] = v
<1>. USE RowTypes
<1>1. owner[g] = Nobody /\ owner' = [owner EXCEPT ![g] = u]
  BY DEF WithGroup, IsNewGroup
<1>2. /\ owner' \in [Groups -> Users \union {Nobody}]
      /\ owner'[g] = u /\ \A h \in Groups \ {g} : owner'[h] = owner[h]
  BY <1>1 DEF TypeOK
<1>3. current' \in [Users -> Groups \union {0}]
  BY DEF WithGroup, TypeOK
<1>4. \A c \in Chains : groupOf[c] # 0 => groupOf[c] # g
  BY <1>1 DEF RowsInOrder
<1>5. ASSUME NEW v \in Users, current'[v] # 0
      PROVE  owner'[current'[v]] = v
  <2>1. CASE v = u /\ current[u] = 0
    BY <2>1, <1>2 DEF WithGroup, TypeOK
  <2>2. CASE current[v] # 0
    <3>1. current'[v] = current[v]
      BY <2>2 DEF WithGroup, TypeOK
    <3>2. owner[current[v]] = v /\ current[v] \in Groups
      BY <2>2 DEF OwnGarage
    <3>. QED
      BY <3>1, <3>2, <1>1, <1>2
  <2>3. CASE v # u /\ current[v] = 0
    BY <2>3, <1>5 DEF WithGroup, TypeOK
  <2>. QED
    BY <2>1, <2>2, <2>3
<1>. QED
  BY <1>2, <1>3, <1>4, <1>5

\* A new chain joins a group.
LEMMA NewChain ==
  ASSUME TypeOK, RowsInOrder, NEW c \in Chains, NEW g \in Groups,
         IsNewChain(c), groupOf' = [groupOf EXCEPT ![c] = g]
  PROVE  /\ groupOf' \in [Chains -> Groups \union {0}]
         /\ groupOf'[c] = g /\ c \notin active /\ c \notin retired
         /\ groupOf[c] = 0
         /\ \A d \in Chains \ {c} : groupOf'[d] = groupOf[d]
BY DEF TypeOK, RowsInOrder, IsNewChain

\* Rows that were there stay where they are: what rides and mounted chains say
\* of them stays true.
LEMMA RowsStay ==
  ASSUME Inv, UNCHANGED <<active, rides>>, retired' = retired,
         \A d \in Chains : groupOf[d] # 0 => /\ groupOf'[d] = groupOf[d]
                                           /\ owner'[groupOf[d]] = owner[groupOf[d]]
  PROVE  /\ OneActivePerGroup' /\ ActiveIsUsable'
         /\ \A i \in RideIds : rides[i] # NoRide =>
              RequireChain(rides[i].user, rides[i].chain)'
<1>1. active \subseteq Chains
  BY DEF Inv, TypeOK
<1>2. OneActivePerGroup' /\ ActiveIsUsable'
  BY <1>1 DEF Inv, OneActivePerGroup, ActiveIsUsable
<1>3. ASSUME NEW i \in RideIds, rides[i] # NoRide
      PROVE  RequireChain(rides[i].user, rides[i].chain)'
  <2>1. rides[i].chain \in Chains /\ RequireChain(rides[i].user, rides[i].chain)
    BY <1>3, RowTypes DEF Inv, OwnGarage
  <2>2. rides'[i] = rides[i]
    OBVIOUS
  <2>. QED
    BY <2>1, <2>2 DEF RequireChain, RequireGroup
<1>. QED
  BY <1>2, <1>3

-----------------------------------------------------------------------------
(* Operations *)

LEMMA CreateGroupStep ==
  ASSUME Inv, NEW u \in Users, NEW g \in Groups, CreateGroup(u, g)
  PROVE  Inv'
<1>. USE DEF CreateGroup
<1>1. /\ owner' \in [Groups -> Users \union {Nobody}]
      /\ current' \in [Users -> Groups \union {0}]
      /\ owner'[g] = u
      /\ \A h \in Groups \ {g} : owner'[h] = owner[h]
      /\ \A c \in Chains : groupOf[c] # 0 => groupOf[c] # g
      /\ \A v \in Users : current'[v] # 0 => owner'[current'[v]] = v
  BY NewGroup DEF Inv
<1>2. \A d \in Chains : groupOf[d] # 0 =>
        owner'[groupOf[d]] = owner[groupOf[d]]
  BY <1>1, RowTypes DEF Inv
<1>3. TypeOK'
  BY <1>1, ConstantAssumption DEF Inv, TypeOK, Acts
<1>4. RowsInOrder'
  BY <1>2 DEF Inv, RowsInOrder
<1>5. PlanOK'
  BY DEF Idle, PlanOK
<1>6. OneActivePerGroup' /\ ActiveIsUsable' /\ OwnGarage'
  BY <1>1, <1>2, RowsStay DEF OwnGarage
<1>. QED
  BY <1>3, <1>4, <1>5, <1>6 DEF Inv

LEMMA AddChainStep ==
  ASSUME Inv, NEW u \in Users, NEW g \in Groups, NEW c \in Chains,
         AddChain(u, g, c)
  PROVE  Inv'
<1>. USE DEF AddChain
<1>1. /\ groupOf' \in [Chains -> Groups \union {0}]
      /\ groupOf'[c] = g /\ c \notin active /\ c \notin retired
      /\ groupOf[c] = 0
      /\ \A d \in Chains \ {c} : groupOf'[d] = groupOf[d]
  BY NewChain DEF Inv
<1>2. g # 0 /\ owner[g] = u
  BY RowTypes DEF Inv, RequireGroup
<1>3. plan' = <<>> \/ (plan' = Activation(c) /\ ActiveIn(g) = {})
  OBVIOUS
<1>4. TypeOK'
  <2>1. plan' \in Seq([chain : Chains, on : BOOLEAN])
    <3>1. Activation(c) \in Seq(Statements)
      BY Plans
    <3>2. <<>> \in Seq(Statements)
      OBVIOUS
    <3>. QED
      BY <1>3, <3>1, <3>2 DEF Statements
  <2>. QED
    BY <2>1, <1>1, ConstantAssumption DEF Inv, TypeOK, Acts
<1>5. RowsInOrder'
  <2>1. \A d \in active \union retired : d \in Chains /\ groupOf[d] # 0
    BY DEF Inv, TypeOK, RowsInOrder
  <2>2. \A d \in active \union retired : groupOf'[d] # 0
    BY <2>1, <1>1
  <2>3. \A d \in Chains : groupOf'[d] # 0 => owner[groupOf'[d]] \in Users
    BY <1>1, <1>2 DEF Inv, RowsInOrder
  <2>. QED
    BY <2>2, <2>3 DEF RowsInOrder
<1>6. PlanOK'
  <2>1. CASE plan' = <<>>
    BY <2>1 DEF PlanOK
  <2>2. CASE plan' = Activation(c) /\ ActiveIn(g) = {}
    <3>1. ActiveIn(groupOf[c])' = {}
      BY <2>2, <1>1 DEF ActiveIn, Inv, TypeOK
    <3>2. Mountable(c, {})'
      BY <3>1, <1>1, <1>2 DEF Mountable, Acts
    <3>. QED
      BY <2>2, <3>2 DEF PlanOK, Activation, Turns
  <2>. QED
    BY <1>3, <2>1, <2>2
<1>7. OneActivePerGroup' /\ ActiveIsUsable' /\ OwnGarage'
  BY <1>1, RowsStay DEF Inv, OwnGarage
<1>. QED
  BY <1>4, <1>5, <1>6, <1>7 DEF Inv

LEMMA OnboardStep ==
  ASSUME Inv, NEW u \in Users, NEW g \in Groups, NEW c \in Chains,
         Onboard(u, g, c)
  PROVE  Inv'
<1>. USE DEF Onboard
<1>1. /\ owner' \in [Groups -> Users \union {Nobody}]
      /\ current' \in [Users -> Groups \union {0}]
      /\ owner'[g] = u /\ g # 0
      /\ \A h \in Groups \ {g} : owner'[h] = owner[h]
      /\ \A d \in Chains : groupOf[d] # 0 => groupOf[d] # g
      /\ \A v \in Users : current'[v] # 0 => owner'[current'[v]] = v
  BY NewGroup, RowTypes DEF Inv
<1>2. /\ groupOf' \in [Chains -> Groups \union {0}]
      /\ groupOf'[c] = g /\ c \notin active /\ c \notin retired
      /\ groupOf[c] = 0
      /\ \A d \in Chains \ {c} : groupOf'[d] = groupOf[d]
  BY NewChain DEF Inv
<1>3. \A d \in Chains : groupOf[d] # 0 =>
        groupOf'[d] = groupOf[d] /\ owner'[groupOf[d]] = owner[groupOf[d]]
  BY <1>1, <1>2, RowTypes DEF Inv
<1>4. TypeOK'
  <2>1. plan' \in Seq([chain : Chains, on : BOOLEAN])
    BY Plans DEF Statements
  <2>. QED
    BY <2>1, <1>1, <1>2, ConstantAssumption DEF Inv, TypeOK, Acts
<1>5. RowsInOrder'
  <2>1. \A d \in active \union retired : d \in Chains /\ groupOf[d] # 0
    BY DEF Inv, TypeOK, RowsInOrder
  <2>2. \A d \in active \union retired : groupOf'[d] # 0
    BY <2>1, <1>3
  <2>3. \A d \in Chains : groupOf'[d] # 0 => owner'[groupOf'[d]] \in Users
    BY <1>1, <1>2, <1>3 DEF Inv, RowsInOrder
  <2>. QED
    BY <2>2, <2>3 DEF RowsInOrder
<1>6. PlanOK'
  <2>1. ActiveIn(groupOf[c])' = {}
    BY <1>1, <1>2 DEF ActiveIn, Inv, TypeOK, RowsInOrder
  <2>2. Mountable(c, {})'
    BY <2>1, <1>1, <1>2 DEF Mountable, Acts
  <2>. QED
    BY <2>2 DEF PlanOK, Activation, Turns
<1>7. OneActivePerGroup' /\ ActiveIsUsable' /\ OwnGarage'
  BY <1>1, <1>3, RowsStay DEF OwnGarage
<1>. QED
  BY <1>4, <1>5, <1>6, <1>7 DEF Inv

LEMMA SetCurrentGroupStep ==
  ASSUME Inv, NEW u \in Users, NEW g \in Groups, SetCurrentGroup(u, g)
  PROVE  Inv'
<1>. USE DEF SetCurrentGroup
<1>1. TypeOK'
  BY ConstantAssumption DEF Inv, TypeOK, Acts
<1>2. RowsInOrder' /\ PlanOK'
  BY DEF Inv, RowsInOrder, PlanOK, Idle
<1>3. \A v \in Users : current'[v] # 0 => owner[current'[v]] = v
  BY DEF Inv, TypeOK, OwnGarage, RequireGroup
<1>4. OneActivePerGroup' /\ ActiveIsUsable' /\ OwnGarage'
  BY <1>3, RowsStay DEF OwnGarage
<1>. QED
  BY <1>1, <1>2, <1>4 DEF Inv

\* The chain that is off before the new one goes on.
LEMMA RotateStep ==
  ASSUME Inv, NEW u \in Users, NEW c \in Chains, NEW g \in Groups,
         Rotate(u, c, g)
  PROVE  Inv'
<1>. USE DEF Rotate
<1>1. /\ groupOf[c] # 0 /\ owner[groupOf[c]] = u
      /\ c \notin retired /\ c \notin active
  BY DEF RequireChain, RequireGroup, MayRotate
<1>2. \/ ActiveIn(groupOf[c]) = {} /\ plan' = Activation(c)
      \/ \E d \in Chains : /\ ActiveIn(groupOf[c]) = {d}
                          /\ plan' = Swap(d, c)
  <2>. DEFINE off == ActiveIn(groupOf[c])
  <2>1. off \ {c} = off /\ off \subseteq Chains
    BY <1>1 DEF ActiveIn, Inv, TypeOK
  <2>2. \A d, e \in off : d = e
    BY DEF ActiveIn, Inv, OneActivePerGroup
  <2>3. CASE off = {}
    BY <2>1, <2>3 DEF Flushes
  <2>4. CASE off # {}
    <3>1. PICK d \in off : d = CHOOSE e \in off : TRUE
      BY <2>4
    <3>2. off = {d} /\ d \in Chains
      BY <2>1, <2>2, <3>1
    <3>3. plan' = Swap(d, c)
      BY <2>1, <2>4, <3>1 DEF Flushes, Swap
    <3>. QED
      BY <3>2, <3>3
  <2>. QED
    BY <2>3, <2>4
<1>3. TypeOK'
  <2>1. plan' \in Seq([chain : Chains, on : BOOLEAN])
    BY <1>2, Plans DEF Statements
  <2>. QED
    BY <2>1, ConstantAssumption DEF Inv, TypeOK, Acts
<1>4. RowsInOrder'
  BY DEF Inv, RowsInOrder
<1>5. PlanOK'
  <2>1. \A off : ActiveIn(groupOf[c]) = off => Mountable(c, off)'
    BY <1>1 DEF Mountable, ActiveIn, Acts
  <2>2. CASE ActiveIn(groupOf[c]) = {} /\ plan' = Activation(c)
    <3>1. Mountable(c, {})'
      BY <2>1, <2>2
    <3>. QED
      BY <2>2, <3>1 DEF PlanOK, Activation, Turns
  <2>3. ASSUME NEW d \in Chains, ActiveIn(groupOf[c]) = {d},
               plan' = Swap(d, c)
        PROVE  PlanOK'
    <3>1. Mountable(c, {d})'
      BY <2>1, <2>3
    <3>. QED
      BY <2>3, <3>1 DEF PlanOK, Swap, Turns
  <2>. QED
    BY <1>2, <2>2, <2>3
<1>6. OneActivePerGroup' /\ ActiveIsUsable' /\ OwnGarage'
  BY RowsStay DEF Inv, OwnGarage
<1>. QED
  BY <1>3, <1>4, <1>5, <1>6 DEF Inv

LEMMA RetireStep ==
  ASSUME Inv, NEW u \in Users, NEW c \in Chains, Retire(u, c)
  PROVE  Inv'
<1>. USE DEF Retire
<1>1. groupOf[c] # 0
  BY DEF RequireChain
<1>2. TypeOK'
  BY ConstantAssumption DEF Inv, TypeOK, Acts
<1>3. RowsInOrder' /\ PlanOK'
  BY <1>1 DEF Inv, RowsInOrder, PlanOK, Idle
<1>4. OneActivePerGroup' /\ ActiveIsUsable' /\ OwnGarage'
  BY DEF Inv, OneActivePerGroup, ActiveIsUsable, OwnGarage, RequireChain,
         RequireGroup
<1>. QED
  BY <1>2, <1>3, <1>4 DEF Inv

\* What the next statement finds.
LEMMA NextStatement ==
  ASSUME Inv, Statement
  PROVE  \/ \E c \in Chains : /\ plan = Activation(c) /\ Mountable(c, {})
                             /\ Head(plan) = Turns(c, TRUE)
                             /\ active' = active \union {c}
                             /\ now' = now + 1 /\ plan' = <<>>
                             /\ rotations' = rotations \union
                                  {[chain |-> c, dt |-> day, at |-> now + 1]}
         \/ \E c, d \in Chains : /\ plan = Swap(d, c) /\ Mountable(c, {d})
                                /\ Head(plan) = Turns(d, FALSE)
                                /\ active' = active \ {d}
                                /\ plan' = Activation(c)
                                /\ UNCHANGED <<now, rotations>>
<1>1. ASSUME NEW c \in Chains, plan = Activation(c)
      PROVE  /\ Head(plan) = Turns(c, TRUE)
             /\ active' = active \union {c}
             /\ now' = now + 1 /\ plan' = <<>>
             /\ rotations' = rotations \union
                  {[chain |-> c, dt |-> day, at |-> now + 1]}
  <2>1. Head(plan) = Turns(c, TRUE) /\ Tail(plan) = <<>>
    BY <1>1, Plans
  <2>. QED
    BY <2>1 DEF Statement, Turns, ActivationDay
<1>2. ASSUME NEW c \in Chains, NEW d \in Chains, plan = Swap(d, c)
      PROVE  /\ Head(plan) = Turns(d, FALSE)
             /\ active' = active \ {d}
             /\ plan' = Activation(c)
             /\ UNCHANGED <<now, rotations>>
  <2>1. Head(plan) = Turns(d, FALSE) /\ Tail(plan) = Activation(c)
    BY <1>2, Plans
  <2>. QED
    BY <2>1 DEF Statement, Turns
<1>. QED
  BY <1>1, <1>2 DEF Inv, PlanOK, Statement

LEMMA StatementStep ==
  ASSUME Inv, Statement
  PROVE  Inv'
<1>1. UNCHANGED <<owner, current, groupOf, retired, rides, day, shown, last>>
  BY DEF Statement
<1>2. OwnGarage'
  BY <1>1 DEF Inv, OwnGarage, RequireChain, RequireGroup
<1>3. ASSUME NEW c \in Chains, Mountable(c, {}), active' = active \union {c},
             now' = now + 1, plan' = <<>>,
             rotations' = rotations \union
               {[chain |-> c, dt |-> day, at |-> now + 1]}
      PROVE  Inv'
  <2>1. now + 1 \in 1..MaxNow /\ now \in Nat
    BY <1>3, ConstantAssumption DEF Mountable, Inv, TypeOK
  <2>2. [chain |-> c, dt |-> day, at |-> now + 1] \in Rotation
    BY <2>1 DEF Inv, TypeOK, Rotation, Instants
  <2>3. now' \in 0..MaxNow
    BY <2>1, <1>3
  <2>4. plan' \in Seq([chain : Chains, on : BOOLEAN])
    BY <1>3
  <2>5. TypeOK'
    BY <1>1, <1>3, <2>2, <2>3, <2>4 DEF Inv, TypeOK
  <2>6. RowsInOrder' /\ PlanOK' /\ ActiveIsUsable'
    BY <1>1, <1>3 DEF Inv, RowsInOrder, PlanOK, ActiveIsUsable, Mountable
  <2>7. OneActivePerGroup'
    BY <1>1, <1>3 DEF Inv, OneActivePerGroup, Mountable, ActiveIn
  <2>. QED
    BY <1>2, <2>5, <2>6, <2>7 DEF Inv
<1>4. ASSUME NEW c \in Chains, NEW d \in Chains, Mountable(c, {d}),
             active' = active \ {d}, plan' = Activation(c),
             UNCHANGED <<now, rotations>>
      PROVE  Inv'
  <2>1. plan' \in Seq([chain : Chains, on : BOOLEAN])
    BY <1>4, Plans DEF Statements
  <2>2. TypeOK'
    BY <1>1, <1>4, <2>1 DEF Inv, TypeOK
  <2>3. Mountable(c, {})'
    BY <1>1, <1>4 DEF Mountable, ActiveIn
  <2>4. PlanOK'
    BY <1>4, <2>3 DEF PlanOK, Activation, Turns
  <2>5. RowsInOrder' /\ ActiveIsUsable' /\ OneActivePerGroup'
    BY <1>1, <1>4 DEF Inv, RowsInOrder, ActiveIsUsable, OneActivePerGroup
  <2>. QED
    BY <1>2, <2>2, <2>4, <2>5 DEF Inv
<1>. QED
  BY <1>3, <1>4, NextStatement

LEMMA RecordRideStep ==
  ASSUME Inv, NEW u \in Users, NEW i \in RideIds, RecordRide(u, i)
  PROVE  Inv'
<1>. USE DEF RecordRide
<1>1. PICK c \in CurrentActiveChain(u) :
        rides' = [rides EXCEPT ![i] =
                    [user |-> u, chain |-> c, dt |-> day, at |-> now + 1]]
  OBVIOUS
<1>2. c \in active /\ RequireChain(u, c)
  BY DEF CurrentActiveChain, CurrentGroup, ActiveIn, RequireChain,
         RequireGroup, Inv, ActiveIsUsable
<1>3. now + 1 \in 1..MaxNow /\ c \in Chains
  BY <1>2, ConstantAssumption DEF Inv, TypeOK
<1>4. [user |-> u, chain |-> c, dt |-> day, at |-> now + 1] \in Ride
  BY <1>3 DEF Inv, TypeOK, Ride, Instants
<1>5. TypeOK'
  <2>1. rides' \in [RideIds -> Ride \union {NoRide}]
    BY <1>1, <1>4 DEF Inv, TypeOK
  <2>2. shown' \in [Users -> SUBSET Button]
    BY <1>3 DEF Inv, TypeOK, Listed, Button, Instants
  <2>3. now' \in 0..MaxNow
    BY <1>3
  <2>. QED
    BY <2>1, <2>2, <2>3, ConstantAssumption DEF Inv, TypeOK, Acts
<1>6. RowsInOrder' /\ PlanOK' /\ OneActivePerGroup' /\ ActiveIsUsable'
  BY DEF Inv, RowsInOrder, PlanOK, Idle, OneActivePerGroup, ActiveIsUsable
<1>7. OwnGarage'
  <2>1. ASSUME NEW j \in RideIds, rides'[j] # NoRide
        PROVE  RequireChain(rides[j].user, rides[j].chain)'
    <3>1. CASE j = i
      BY <3>1, <1>1, <1>2 DEF Inv, TypeOK, RequireChain, RequireGroup
    <3>2. CASE j # i
      BY <3>2, <2>1, <1>1 DEF Inv, TypeOK, OwnGarage, RequireChain,
                              RequireGroup
    <3>. QED
      BY <3>1, <3>2
  <2>. QED
    BY <2>1 DEF Inv, OwnGarage
<1>. QED
  BY <1>5, <1>6, <1>7 DEF Inv

LEMMA ButtonStep ==
  ASSUME Inv, NEW u \in Users, NEW b \in shown[u],
         DeleteRide(u, b) \/ EditRide(u, b)
  PROVE  Inv'
<1>. USE DEF DeleteRide, EditRide, Presses
<1>1. /\ b \in Button /\ rides[b.id] \in Ride
      /\ rides' \in [RideIds -> Ride \union {NoRide}]
      /\ \A i \in RideIds : rides'[i] \in {rides[i], NoRide}
  BY DEF Inv, TypeOK, RequireRide, Button
<1>2. TypeOK'
  <2>1. b.at \in 0..MaxNow /\ rides[b.id].at \in 0..MaxNow
    BY <1>1, ConstantAssumption DEF Button, Ride, Instants
  <2>. QED
    BY <1>1, <2>1 DEF Inv, TypeOK
<1>3. RowsInOrder' /\ PlanOK' /\ OneActivePerGroup' /\ ActiveIsUsable'
  BY DEF Inv, RowsInOrder, PlanOK, Idle, OneActivePerGroup, ActiveIsUsable
<1>4. OwnGarage'
  BY <1>1 DEF Inv, OwnGarage, RequireChain, RequireGroup
<1>. QED
  BY <1>2, <1>3, <1>4 DEF Inv

LEMMA DayStep == ASSUME Inv, NextDay \/ UNCHANGED vars PROVE Inv'
<1>. USE DEF NextDay, vars
<1>1. TypeOK'
  BY ConstantAssumption DEF Inv, TypeOK, Days
<1>2. RowsInOrder' /\ PlanOK' /\ OneActivePerGroup' /\ ActiveIsUsable'
  BY DEF Inv, RowsInOrder, PlanOK, OneActivePerGroup, ActiveIsUsable,
         Mountable, ActiveIn
<1>3. OwnGarage'
  BY DEF Inv, OwnGarage, RequireChain, RequireGroup
<1>. QED
  BY <1>1, <1>2, <1>3 DEF Inv

LEMMA GarageStep == Inv /\ [Next]_vars => Inv'
<1>. SUFFICES ASSUME Inv, [Next]_vars PROVE Inv'
  OBVIOUS
<1>1. CASE Statement
  BY <1>1, StatementStep
<1>2. CASE NextDay \/ UNCHANGED vars
  BY <1>2, DayStep
<1>3. ASSUME NEW u \in Users, Operation(u) PROVE Inv'
  BY <1>3, CreateGroupStep, SetCurrentGroupStep, AddChainStep, OnboardStep,
     RotateStep, RetireStep, RecordRideStep, ButtonStep DEF Operation
<1>. QED
  BY <1>1, <1>2, <1>3 DEF Next

LEMMA GarageInvariant == Spec => []Inv
BY GarageInit, GarageStep, PTL DEF Spec

-----------------------------------------------------------------------------
(* Theorems *)

\* Every variable of Garage stays in its type.
THEOREM TypeCorrect == Spec => []TypeOK
<1>1. Inv => TypeOK
  BY DEF Inv
<1>. QED
  BY <1>1, GarageInvariant, PTL

\* The partial unique index never fires: after every statement a group has at
\* most one active chain (rotate and add_chain).
THEOREM IndexNeverFires == Spec => []OneActivePerGroup
<1>1. Inv => OneActivePerGroup
  BY DEF Inv
<1>. QED
  BY <1>1, GarageInvariant, PTL

\* A chain that was taken off for good is never mounted (rotate, retire_chain).
THEOREM RetiredStaysOff == Spec => []ActiveIsUsable
<1>1. Inv => ActiveIsUsable
  BY DEF Inv
<1>. QED
  BY <1>1, GarageInvariant, PTL

\* Rides and current groups are their owner's (the require_* resolvers).
THEOREM EveryoneOwnsTheirGarage == Spec => []OwnGarage
<1>1. Inv => OwnGarage
  BY DEF Inv
<1>. QED
  BY <1>1, GarageInvariant, PTL

\* A chain that is turned on or off, retired, and a ride that is changed, are
\* the actor's.
OnlyOwn ==
  /\ \A c \in Chains :
       (c \in active) # (c \in active') \/ (c \in retired) # (c \in retired')
         => owner[groupOf[c]] = last'.actor
  /\ \A i \in RideIds :
       rides[i] # NoRide /\ rides'[i] # rides[i]
         => rides[i].user = last'.actor

LEMMA OwnStep == Inv /\ [Next]_vars => OnlyOwn
<1>. SUFFICES ASSUME Inv, [Next]_vars PROVE OnlyOwn
  OBVIOUS
<1>. USE DEF OnlyOwn
<1>1. CASE UNCHANGED <<active, retired, rides>>
  BY <1>1
<1>2. CASE Statement
  <2>1. UNCHANGED <<retired, rides, last>>
    BY <1>2 DEF Statement
  <2>2. ASSUME NEW c \in Chains, Mountable(c, {}), active' = active \union {c}
        PROVE  OnlyOwn
    BY <2>1, <2>2 DEF Mountable
  <2>3. ASSUME NEW c \in Chains, NEW d \in Chains, Mountable(c, {d}),
               active' = active \ {d}
        PROVE  OnlyOwn
    <3>1. groupOf[d] = groupOf[c]
      BY <2>3 DEF Mountable, ActiveIn
    <3>. QED
      BY <2>1, <2>3, <3>1 DEF Mountable
  <2>. QED
    BY <1>2, <2>2, <2>3, NextStatement
<1>3. ASSUME NEW u \in Users, NEW c \in Chains, Retire(u, c) PROVE OnlyOwn
  BY <1>3 DEF Retire, RequireChain, RequireGroup, Acts
<1>4. ASSUME NEW u \in Users, NEW i \in RideIds, RecordRide(u, i)
      PROVE  OnlyOwn
  <2>1. rides[i] = NoRide
    BY <1>4 DEF RecordRide, IsNewRide, RideIds
  <2>2. UNCHANGED <<active, retired>>
    BY <1>4 DEF RecordRide
  <2>3. \A j \in RideIds \ {i} : rides'[j] = rides[j]
    BY <1>4 DEF RecordRide, Inv, TypeOK
  <2>. QED
    BY <2>1, <2>2, <2>3
<1>5. ASSUME NEW u \in Users, NEW b \in shown[u],
             DeleteRide(u, b) \/ EditRide(u, b)
      PROVE  OnlyOwn
  <2>1. /\ UNCHANGED <<active, retired>>
        /\ rides[b.id].user = u /\ last'.actor = u
    BY <1>5 DEF DeleteRide, EditRide, Presses, RequireRide
  <2>2. \A j \in RideIds : j # b.id => rides'[j] = rides[j]
    BY <1>5 DEF DeleteRide, EditRide, Inv, TypeOK
  <2>. QED
    BY <2>1, <2>2
<1>6. ASSUME NEW u \in Users, Operation(u) PROVE OnlyOwn
  BY <1>1, <1>3, <1>4, <1>5, <1>6
     DEF Operation, CreateGroup, SetCurrentGroup, AddChain, Onboard, Rotate
<1>. QED
  BY <1>1, <1>2, <1>6 DEF Next, NextDay, vars

\* Nobody's step changes another's chains or rides, whatever ids the buttons
\* carry (D15).
THEOREM OthersAreSafe == Spec => ChangesOnlyOwn
BY GarageInvariant, OwnStep, PTL DEF Spec, ChangesOnlyOwn, OnlyOwn
=============================================================================
