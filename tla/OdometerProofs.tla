--------------------------- MODULE OdometerProofs ---------------------------
(***************************************************************************)
(* Garage implements Odometer: the cycle computed from dates and instants  *)
(* is the cycle of an odometer, for any garage and any number of midnights.*)
(***************************************************************************)
EXTENDS GarageProofs

\* Stamps lie in the past, and no two rides have the same.  A rotation is later
\* than everything before it, because both halves of its stamp are.
Stamped ==
  /\ \A i \in RideIds : rides[i] # NoRide =>
       rides[i].at <= now /\ rides[i].dt <= day
  /\ \A r \in rotations : r.at <= now /\ r.dt <= day
  /\ \A i, j \in RideIds :
       rides[i] # NoRide /\ rides[j] # NoRide /\ rides[i].at = rides[j].at
         => i = j

-----------------------------------------------------------------------------
LEMMA StampedInit == Init => Stamped
BY DEF Init, Stamped

\* The row that a new ride gets was free.
LEMMA Recorded ==
  ASSUME Inv, NEW u \in Users, NEW i \in RideIds, RecordRide(u, i)
  PROVE  \E c \in active :
           LET new == [user |-> u, chain |-> c, dt |-> day, at |-> now + 1] IN
           /\ new \in Ride /\ rides[i] = NoRide
           /\ rides'[i] = new /\ rides'[i] # NoRide
           /\ \A j \in RideIds \ {i} : rides'[j] = rides[j]
<1>1. PICK c \in CurrentActiveChain(u) :
        rides' = [rides EXCEPT ![i] =
                    [user |-> u, chain |-> c, dt |-> day, at |-> now + 1]]
  BY DEF RecordRide
<1>2. c \in active
  BY DEF CurrentActiveChain, ActiveIn
<1>3. now + 1 \in Instants /\ c \in Chains
  BY <1>2, ConstantAssumption DEF RecordRide, Inv, TypeOK, Instants
<1>4. [user |-> u, chain |-> c, dt |-> day, at |-> now + 1] \in Ride
  BY <1>3 DEF Inv, TypeOK, Ride
<1>5. rides[i] = NoRide
  BY DEF RecordRide, IsNewRide, RideIds
<1>. QED
  BY <1>1, <1>2, <1>4, <1>5, ConstantAssumption DEF Inv, TypeOK

LEMMA StampedStep == Inv /\ Stamped /\ [Next]_vars => Stamped'
<1>. SUFFICES ASSUME Inv, Stamped, [Next]_vars PROVE Stamped'
  OBVIOUS
<1>0. /\ now \in Nat /\ day \in Nat
      /\ \A i \in RideIds : rides[i] # NoRide =>
           rides[i].at \in Nat /\ rides[i].dt \in Nat
      /\ \A r \in rotations : r.at \in Nat /\ r.dt \in Nat
  BY ConstantAssumption DEF Inv, TypeOK, Ride, Rotation, Instants, Days
<1>1. CASE UNCHANGED <<rides, rotations, now, day>>
  BY <1>1 DEF Stamped
<1>2. CASE NextDay
  BY <1>0, <1>2 DEF NextDay, Stamped
<1>3. CASE Statement
  <2>1. UNCHANGED <<rides, day>>
    BY <1>3 DEF Statement
  <2>2. ASSUME NEW c \in Chains, now' = now + 1,
               rotations' = rotations \union
                 {[chain |-> c, dt |-> day, at |-> now + 1]}
        PROVE  Stamped'
    BY <1>0, <2>1, <2>2 DEF Stamped
  <2>. QED
    BY <1>1, <1>3, <2>1, <2>2, NextStatement
<1>4. ASSUME NEW u \in Users, NEW i \in RideIds, RecordRide(u, i)
      PROVE  Stamped'
  <2>1. PICK c \in active :
          /\ rides'[i] = [user |-> u, chain |-> c, dt |-> day, at |-> now + 1]
          /\ \A j \in RideIds \ {i} : rides'[j] = rides[j]
    BY <1>4, Recorded
  <2>2. now' = now + 1 /\ UNCHANGED <<rotations, day>>
    BY <1>4 DEF RecordRide
  <2>3. rides'[i].at = now + 1 /\ rides'[i].dt = day
    BY <2>1
  <2>. QED
    BY <1>0, <2>1, <2>2, <2>3 DEF Stamped
<1>5. ASSUME NEW u \in Users, NEW b \in shown[u],
             DeleteRide(u, b) \/ EditRide(u, b)
      PROVE  Stamped'
  <2>1. \A i \in RideIds : rides'[i] \in {rides[i], NoRide}
    BY <1>5 DEF DeleteRide, EditRide, Presses, Inv, TypeOK
  <2>2. UNCHANGED <<rotations, now, day>>
    BY <1>5 DEF DeleteRide, EditRide, Presses
  <2>. QED
    BY <2>1, <2>2 DEF Stamped
<1>6. ASSUME NEW u \in Users, Operation(u) PROVE Stamped'
  BY <1>1, <1>4, <1>5, <1>6
     DEF Operation, CreateGroup, SetCurrentGroup, AddChain, Onboard, Rotate,
         Retire
<1>. QED
  BY <1>1, <1>2, <1>3, <1>6 DEF Next, vars

LEMMA StampedInvariant == Spec => [](Inv /\ Stamped)
BY StampedInit, StampedStep, GarageInit, GarageStep, PTL DEF Spec

-----------------------------------------------------------------------------
(* The mapping *)

Cycle(c) == Stamps(CycleOf(c))
Past(c) == Stamps(RidesOf(c) \ CycleOf(c))

\* A step that leaves rides and rotations alone leaves the odometer alone.
LEMMA SameCycles ==
  ASSUME UNCHANGED <<rides, rotations>>, NEW c
  PROVE  Cycle(c)' = Cycle(c) /\ Past(c)' = Past(c)
<1>1. RidesOf(c)' = RidesOf(c) /\ LastActivation(c)' = LastActivation(c)
  BY DEF RidesOf, LastActivation
<1>2. CycleOf(c)' = CycleOf(c)
  BY <1>1 DEF CycleOf
<1>. QED
  BY <1>1, <1>2 DEF Cycle, Past, Stamps

\* A new ride is later than every rotation: it belongs to the cycle.
LEMMA RecordMaps ==
  ASSUME Inv, Stamped, NEW u \in Users, NEW i \in RideIds, RecordRide(u, i)
  PROVE  \E c \in active :
           /\ \A d \in Chains : Cycle(d)' = IF d = c THEN Cycle(d) \union {now + 1}
                                            ELSE Cycle(d)
           /\ \A d \in Chains : Past(d)' = Past(d)
<1>1. PICK c \in active :
        LET new == [user |-> u, chain |-> c, dt |-> day, at |-> now + 1] IN
        /\ new \in Ride /\ rides[i] = NoRide
        /\ rides'[i] = new /\ rides'[i] # NoRide
        /\ \A j \in RideIds \ {i} : rides'[j] = rides[j]
  BY Recorded
<1>. DEFINE new == [user |-> u, chain |-> c, dt |-> day, at |-> now + 1]
<1>2. rotations' = rotations
  BY DEF RecordRide
<1>3. \A d : LastActivation(d)' = LastActivation(d)
  BY <1>2 DEF LastActivation
<1>4. \A r \in rotations : InCycle(new, r)
  <2>. SUFFICES ASSUME NEW r \in rotations PROVE InCycle(new, r)
    OBVIOUS
  <2>1. /\ now \in Nat /\ day \in Nat /\ r.at \in Nat /\ r.dt \in Nat
        /\ r.at <= now /\ r.dt <= day
    BY ConstantAssumption
       DEF Inv, TypeOK, Rotation, Instants, Days, Stamped
  <2>. QED
    BY <2>1 DEF InCycle
<1>5. ASSUME NEW d \in Chains
      PROVE  RidesOf(d)' = IF d = c THEN RidesOf(d) \union {new} ELSE RidesOf(d)
  BY <1>1 DEF RidesOf
<1>6. \A d : LastActivation(d) \subseteq rotations
  BY DEF LastActivation
<1>7. ASSUME NEW d \in Chains
      PROVE  CycleOf(d)' = IF d = c THEN CycleOf(d) \union {new} ELSE CycleOf(d)
  BY <1>3, <1>4, <1>5, <1>6 DEF CycleOf, InCycle
<1>8. \A d \in Chains : new \notin RidesOf(d)
  <2>1. \A j \in RideIds : rides[j] # NoRide => rides[j].at <= now
    BY DEF Stamped
  <2>2. now \in Nat /\ new.at = now + 1
    BY ConstantAssumption DEF Inv, TypeOK
  <2>3. ~(now + 1 <= now)
    BY <2>2
  <2>. QED
    BY <2>1, <2>2, <2>3 DEF RidesOf
<1>9. ASSUME NEW d \in Chains
      PROVE  (RidesOf(d) \ CycleOf(d))' = RidesOf(d) \ CycleOf(d)
  BY <1>5, <1>7, <1>8
<1>10. ASSUME NEW d \in Chains
       PROVE  /\ Cycle(d)' = IF d = c THEN Cycle(d) \union {now + 1} ELSE Cycle(d)
              /\ Past(d)' = Past(d)
  <2>1. Past(d)' = Past(d)
    BY <1>9 DEF Past, Stamps
  <2>2. new.at = now + 1
    OBVIOUS
  <2>. HIDE DEF new
  <2>3. CASE d = c
    BY <1>7, <2>1, <2>2, <2>3 DEF Cycle, Stamps
  <2>4. CASE d # c
    BY <1>7, <2>1, <2>4 DEF Cycle, Stamps
  <2>. QED
    BY <2>3, <2>4
<1>. QED
  BY <1>10

\* A rotation is later than every ride and rotation before: the cycle of its
\* chain is empty, and all of the chain's rides are past.
LEMMA MountMaps ==
  ASSUME Inv, Stamped, NEW c \in Chains, rides' = rides,
         rotations' = rotations \union
           {[chain |-> c, dt |-> day, at |-> now + 1]}
  PROVE  \A d \in Chains :
           /\ Cycle(d)' = IF d = c THEN {} ELSE Cycle(d)
           /\ Past(d)' = IF d = c THEN Past(d) \union Cycle(d) ELSE Past(d)
<1>. DEFINE new == [chain |-> c, dt |-> day, at |-> now + 1]
<1>1. \A d : RidesOf(d)' = RidesOf(d)
  BY DEF RidesOf
<1>2. now \in Nat /\ day \in Nat
  BY ConstantAssumption DEF Inv, TypeOK, Days
<1>3. LastActivation(c)' = {new}
  <2>1. \A r \in rotations : r.at \in Nat /\ r.at <= now
    BY DEF Stamped, Inv, TypeOK, Rotation, Instants
  <2>2. \A r \in rotations : r.at <= new.at /\ ~(new.at <= r.at)
    BY <1>2, <2>1
  <2>3. new.at <= new.at /\ new.chain = c
    BY <1>2
  <2>. HIDE DEF new
  <2>4. rotations' = rotations \union {new}
    BY DEF new
  <2>. QED
    BY <2>2, <2>3, <2>4 DEF LastActivation
<1>4. \A d : d # c => LastActivation(d)' = LastActivation(d)
  BY DEF LastActivation
<1>5. \A ride \in RidesOf(c) : ~InCycle(ride, new)
  <2>. SUFFICES ASSUME NEW ride \in RidesOf(c) PROVE ~InCycle(ride, new)
    OBVIOUS
  <2>1. /\ ride.at \in Nat /\ ride.dt \in Nat
        /\ ride.at <= now /\ ride.dt <= day
    BY DEF RidesOf, Stamped, Inv, TypeOK, Ride, Instants, Days
  <2>. QED
    BY <1>2, <2>1 DEF InCycle
<1>6. CycleOf(c)' = {}
  BY <1>1, <1>3, <1>5 DEF CycleOf, InCycle
<1>7. \A d : d # c => CycleOf(d)' = CycleOf(d)
  BY <1>1, <1>4 DEF CycleOf, InCycle
<1>8. CycleOf(c) \subseteq RidesOf(c)
  BY DEF CycleOf
<1>9. Cycle(c)' = {} /\ Past(c)' = Past(c) \union Cycle(c)
  BY <1>1, <1>6, <1>8 DEF Cycle, Past, Stamps
<1>10. \A d : d # c => Cycle(d)' = Cycle(d) /\ Past(d)' = Past(d)
  BY <1>1, <1>7 DEF Cycle, Past, Stamps
<1>. QED
  BY <1>9, <1>10

\* A deleted ride leaves the sum it was in, and no other ride has its stamp.
LEMMA DeleteMaps ==
  ASSUME Inv, Stamped, NEW u \in Users, NEW b \in shown[u], DeleteRide(u, b)
  PROVE  LET at == rides[b.id].at IN
         /\ at \in Instants
         /\ \A c \in Chains : Cycle(c)' = Cycle(c) \ {at}
         /\ \A c \in Chains : Past(c)' = Past(c) \ {at}
<1>. DEFINE old == rides[b.id]
<1>1. /\ b.id \in RideIds /\ old # NoRide /\ old \in Ride
      /\ rides'[b.id] = NoRide
      /\ \A j \in RideIds \ {b.id} : rides'[j] = rides[j]
      /\ rotations' = rotations
  BY DEF DeleteRide, Presses, RequireRide, Inv, TypeOK, Button
<1>2. \A j \in RideIds : rides[j] # NoRide /\ rides[j].at = old.at => j = b.id
  BY <1>1 DEF Stamped
<1>3. \A c : LastActivation(c)' = LastActivation(c)
  BY <1>1 DEF LastActivation
<1>4. \A c : RidesOf(c)' = {ride \in RidesOf(c) : ride.at # old.at}
  BY <1>1, <1>2 DEF RidesOf
<1>5. \A c : CycleOf(c)' = {ride \in CycleOf(c) : ride.at # old.at}
  BY <1>3, <1>4 DEF CycleOf, InCycle
<1>6. \A c : Cycle(c)' = Cycle(c) \ {old.at}
  BY <1>5 DEF Cycle, Stamps
<1>7. \A c : Past(c)' = Past(c) \ {old.at}
  BY <1>4, <1>5 DEF Past, Stamps
<1>8. old.at \in Instants
  BY <1>1 DEF Ride
<1>. QED
  BY <1>6, <1>7, <1>8

-----------------------------------------------------------------------------
(* Initial states and steps *)

\* The stamps an odometer knows are not in the future.
LEMMA KnownIsPast ==
  ASSUME Inv, Stamped
  PROVE  now + 1 \notin Odo!Known
<1>1. \A c, s : s \in Cycle(c) \union Past(c) =>
        \E i \in RideIds : rides[i] # NoRide /\ rides[i].at = s
  BY DEF Cycle, Past, Stamps, CycleOf, RidesOf
<1>2. now \in Nat /\ ~(now + 1 <= now)
  BY ConstantAssumption DEF Inv, TypeOK
<1>3. \A c : now + 1 \notin Cycle(c) \union Past(c)
  BY <1>1, <1>2 DEF Stamped
<1>. QED
  BY <1>3 DEF Odo!Known, Cycle, Past

LEMMA InitMaps == Init => Odo!Init
<1>. SUFFICES ASSUME Init PROVE Odo!Init
  OBVIOUS
<1>1. \A c : RidesOf(c) = {}
  BY DEF Init, RidesOf
<1>2. \A c : Stamps(CycleOf(c)) = {} /\ Stamps(RidesOf(c) \ CycleOf(c)) = {}
  BY <1>1 DEF CycleOf, Stamps
<1>. QED
  BY <1>2 DEF Init, Odo!Init

\* Every step of the garage is one of the odometer, or none.
LEMMA StepMaps ==
  Inv /\ Stamped /\ [Next]_vars => [Odo!Next]_Odo!odometer
<1>. SUFFICES ASSUME Inv, Stamped, [Next]_vars
              PROVE  [Odo!Next]_Odo!odometer
  OBVIOUS
<1>. DEFINE cycle == [c \in Chains |-> Cycle(c)]
            past == [c \in Chains |-> Past(c)]
<1>0. /\ cycle = [c \in Chains |-> Stamps(CycleOf(c))]
      /\ past = [c \in Chains |-> Stamps(RidesOf(c) \ CycleOf(c))]
  BY DEF Cycle, Past
<1>1. ASSUME UNCHANGED <<rides, rotations>>
      PROVE  cycle' = cycle /\ past' = past
  BY <1>1, SameCycles
<1>2. CASE UNCHANGED <<active, rides, rotations>>
  <2>1. cycle' = cycle /\ past' = past
    BY <1>1, <1>2
  <2>. QED
    BY <1>2, <2>1 DEF Odo!odometer, Cycle, Past
<1>3. ASSUME NEW c \in Chains, active' = active \ {c},
             UNCHANGED <<rides, rotations>>
      PROVE  Odo!Next
  <2>1. cycle' = cycle /\ past' = past
    BY <1>1, <1>3
  <2>2. Odo!Unmount(c)
    BY <1>3, <2>1 DEF Odo!Unmount, Cycle, Past
  <2>. QED
    BY <2>2 DEF Odo!Next
<1>4. ASSUME Statement PROVE [Odo!Next]_Odo!odometer
  <2>1. rides' = rides
    BY <1>4 DEF Statement
  <2>2. ASSUME NEW c \in Chains, Mountable(c, {}), active' = active \union {c},
               rotations' = rotations \union
                 {[chain |-> c, dt |-> day, at |-> now + 1]}
        PROVE  Odo!Next
    <3>1. \A d \in Chains :
            /\ Cycle(d)' = IF d = c THEN {} ELSE Cycle(d)
            /\ Past(d)' = IF d = c THEN Past(d) \union Cycle(d) ELSE Past(d)
      BY <2>1, <2>2, MountMaps
    <3>2. /\ cycle' = [cycle EXCEPT ![c] = {}]
          /\ past' = [past EXCEPT ![c] = @ \union cycle[c]]
      BY <3>1
    <3>3. Odo!Mount(c)
      BY <2>2, <3>2 DEF Odo!Mount, Mountable, Cycle, Past
    <3>. QED
      BY <3>3 DEF Odo!Next
  <2>3. ASSUME NEW d \in Chains, active' = active \ {d},
               rotations' = rotations
        PROVE  Odo!Next
    BY <1>3, <2>1, <2>3
  <2>. QED
    BY <1>4, <2>2, <2>3, NextStatement
<1>5. ASSUME NEW u \in Users, NEW i \in RideIds, RecordRide(u, i)
      PROVE  Odo!Next
  <2>1. PICK c \in active :
          /\ \A d \in Chains : Cycle(d)' = IF d = c THEN Cycle(d) \union {now + 1}
                                           ELSE Cycle(d)
          /\ \A d \in Chains : Past(d)' = Past(d)
    BY <1>5, RecordMaps
  <2>2. c \in Chains /\ active' = active
    BY <1>5 DEF RecordRide, Inv, TypeOK
  <2>3. now + 1 \in Instants
    BY <1>5, ConstantAssumption DEF RecordRide, Inv, TypeOK, Instants
  <2>4. /\ cycle' = [cycle EXCEPT ![c] = @ \union {now + 1}]
        /\ past' = past
    BY <2>1
  <2>5. Odo!Record(c, now + 1)
    BY <2>2, <2>4, KnownIsPast DEF Odo!Record, Cycle, Past
  <2>. QED
    BY <2>2, <2>3, <2>5 DEF Odo!Next
<1>6. ASSUME NEW u \in Users, NEW b \in shown[u], DeleteRide(u, b)
      PROVE  Odo!Next
  <2>1. PICK at \in Instants :
          /\ \A c \in Chains : Cycle(c)' = Cycle(c) \ {at}
          /\ \A c \in Chains : Past(c)' = Past(c) \ {at}
    BY <1>6, DeleteMaps
  <2>2. active' = active
    BY <1>6 DEF DeleteRide, Presses
  <2>3. /\ cycle' = [c \in Chains |-> cycle[c] \ {at}]
        /\ past' = [c \in Chains |-> past[c] \ {at}]
    BY <2>1
  <2>4. Odo!Forget(at)
    BY <2>2, <2>3 DEF Odo!Forget, Cycle, Past
  <2>. QED
    BY <2>4 DEF Odo!Next
<1>7. ASSUME NEW u \in Users, Operation(u)
      PROVE  [Odo!Next]_Odo!odometer
  BY <1>2, <1>3, <1>5, <1>6, <1>7
     DEF Operation, CreateGroup, SetCurrentGroup, AddChain, Onboard, Rotate,
         Retire, EditRide, Presses
<1>. QED
  BY <1>2, <1>4, <1>7 DEF Next, NextDay, vars

\* The mileage a chain shows is that of an odometer zeroed when the chain was
\* last mounted, whatever midnights fall between rides and rotations
\* (RideService._cycle_predicate, GarageService.rotate).
THEOREM ImplementsOdometer == Spec => KeepsOdometer
BY InitMaps, StepMaps, StampedInvariant, PTL
   DEF Spec, KeepsOdometer, Odo!Spec
=============================================================================
