------------------------------- MODULE Garage -------------------------------
(***************************************************************************)
(* Groups (bikes), their chains, the rotations of chains and the rides:    *)
(* services/garage.py, services/rides.py, services/mileage.py and the      *)
(* handlers that call them, over the tables of db/models.py.               *)
(*                                                                         *)
(* Request scopes are serialized by the write lock (module Delivery), so   *)
(* an operation is one step; only the statements by which a rotation       *)
(* reaches the database are steps of their own, because the partial unique *)
(* index is checked after each of them.  Which button is pressed is not    *)
(* constrained by what the bot would offer now: every message the bot ever *)
(* sent is still in the chat.  An operation the code refuses (NotFoundError,*)
(* InvalidOperationError, NoActiveChainError) changes nothing.             *)
(*                                                                         *)
(* Mileages are left out: total_km and cycle_km are sums over the sets of  *)
(* rides defined here, and limits are compared with those sums elsewhere.  *)
(***************************************************************************)
EXTENDS Integers, Sequences

CONSTANTS
  Users,
  Nobody, NoRide,               \* the owner, and the row, of an unused id
  MaxGroup, MaxChain, MaxRide,  \* bounds on row ids
  MaxNow,                       \* bound on rides recorded and chains activated
  MaxDay                        \* bound on local days

Groups == 1..MaxGroup
Chains == 1..MaxChain
RideIds == 1..MaxRide
Instants == 1..MaxNow
Days == 0..MaxDay

Ride == [user : Users, chain : Chains, dt : Days, at : Instants]
Rotation == [chain : Chains, dt : Days, at : Instants]

\* A button of a list of rides carries the row id; at names the ride its user
\* saw beside it.
Button == [id : RideIds, at : Instants]

ASSUME ConstantAssumption ==
  /\ MaxGroup \in Nat /\ MaxChain \in Nat /\ MaxRide \in Nat
  /\ MaxNow \in Nat /\ MaxDay \in Nat
  /\ Nobody \notin Users
  /\ NoRide \notin Ride

VARIABLES
  owner,      \* owner[g]: groups.user_id, Nobody while there is no such row
  current,    \* current[u]: users.current_group_id, 0 = none
  groupOf,    \* groupOf[c]: chains.group_id, 0 while there is no such row
  active,     \* chains with is_active
  retired,    \* chains with is_retired
  rotations,  \* the rotations table
  rides,      \* rides[i]: the row with id i, or NoRide
  plan,       \* statements of the open transaction not executed yet
  now, day,   \* the last instant a row was stamped with, the local date
  shown,      \* shown[u]: the buttons beside rides in u's chat
  last        \* who acted last, and for a button: the ride meant and the one hit

vars == <<owner, current, groupOf, active, retired, rotations, rides, plan,
          now, day, shown, last>>

Acts(u) == [actor |-> u, meant |-> 0, hit |-> 0]

TypeOK ==
  /\ owner \in [Groups -> Users \union {Nobody}]
  /\ current \in [Users -> Groups \union {0}]
  /\ groupOf \in [Chains -> Groups \union {0}]
  /\ active \subseteq Chains
  /\ retired \subseteq Chains
  /\ rotations \subseteq Rotation
  /\ rides \in [RideIds -> Ride \union {NoRide}]
  /\ plan \in Seq([chain : Chains, on : BOOLEAN])
  /\ now \in 0..MaxNow
  /\ day \in Days
  /\ shown \in [Users -> SUBSET Button]
  /\ last \in [actor : Users \union {Nobody}, meant : 0..MaxNow, hit : 0..MaxNow]

Init ==
  /\ owner = [g \in Groups |-> Nobody]
  /\ current = [u \in Users |-> 0]
  /\ groupOf = [c \in Chains |-> 0]
  /\ active = {}
  /\ retired = {}
  /\ rotations = {}
  /\ rides = [i \in RideIds |-> NoRide]
  /\ plan = <<>>
  /\ now = 0
  /\ day = 0
  /\ shown = [u \in Users |-> {}]
  /\ last = Acts(Nobody)

-----------------------------------------------------------------------------
(* Rows, and what a user may name *)

\* Groups and chains are never deleted: their ids are 1, 2, 3...
IsNewGroup(g) ==
  /\ owner[g] = Nobody
  /\ \A h \in Groups : h < g => owner[h] # Nobody

IsNewChain(c) ==
  /\ groupOf[c] = 0
  /\ \A d \in Chains : d < c => groupOf[d] # 0

\* One more than the largest id in use: SQLite without AUTOINCREMENT.
IsNewRide(i) ==
  LET used == {j \in RideIds : rides[j] # NoRide}
  IN  i - 1 \in used \union {0} /\ \A j \in used : j < i

\* (Mutants: a resolver that does not look at the owner.)
AnyGroup(u, g) == owner[g] # Nobody

AnyChain(u, c) == groupOf[c] # 0

\* The scoped resolvers: the only way from an id to a row.
RequireGroup(u, g) == owner[g] = u

RequireChain(u, c) == groupOf[c] # 0 /\ RequireGroup(u, groupOf[c])

RequireRide(u, i) == rides[i] # NoRide /\ rides[i].user = u

ActiveIn(g) == {c \in active : groupOf[c] = g}

CurrentGroup(u) == {g \in Groups : current[u] = g /\ owner[g] = u}

\* (Mutant: no active chain is taken for a chain.)
CurrentChainOrNone(u) ==
  {IF ActiveIn(g) = {} THEN 0 ELSE CHOOSE c \in ActiveIn(g) : TRUE :
     g \in CurrentGroup(u)}

\* The active chain of the current group, if there is one.
CurrentActiveChain(u) == UNION {ActiveIn(g) : g \in CurrentGroup(u)}

-----------------------------------------------------------------------------
(* GarageService *)

Idle == plan = <<>>

\* The user's first group becomes the current one.
WithGroup(u, g) ==
  /\ IsNewGroup(g)
  /\ owner' = [owner EXCEPT ![g] = u]
  /\ current' = [current EXCEPT ![u] = IF @ = 0 THEN g ELSE @]

\* An UPDATE of is_active.
Turns(c, on) == [chain |-> c, on |-> on]

Activation(c) == <<Turns(c, TRUE)>>

CreateGroup(u, g) ==
  /\ Idle
  /\ WithGroup(u, g)
  /\ last' = Acts(u)
  /\ UNCHANGED <<groupOf, active, retired, rotations, rides, plan, now, day,
                 shown>>

\* A group's chain becomes active on arrival when no other is.
AddChain(u, g, c) ==
  /\ Idle
  /\ RequireGroup(u, g)
  /\ IsNewChain(c)
  /\ now < MaxNow
  /\ groupOf' = [groupOf EXCEPT ![c] = g]
  /\ plan' = IF ActiveIn(g) = {} THEN Activation(c) ELSE <<>>
  /\ last' = Acts(u)
  /\ UNCHANGED <<owner, current, active, retired, rotations, rides, now, day,
                 shown>>

\* The end of the onboarding dialog: a group and its first chain at once.
Onboard(u, g, c) ==
  /\ Idle
  /\ WithGroup(u, g)
  /\ IsNewChain(c)
  /\ now < MaxNow
  /\ groupOf' = [groupOf EXCEPT ![c] = g]
  /\ plan' = Activation(c)
  /\ last' = Acts(u)
  /\ UNCHANGED <<active, retired, rotations, rides, now, day, shown>>

SetCurrentGroup(u, g) ==
  /\ Idle
  /\ RequireGroup(u, g)
  /\ current' = [current EXCEPT ![u] = g]
  /\ last' = Acts(u)
  /\ UNCHANGED <<owner, groupOf, active, retired, rotations, rides, plan, now,
                 day, shown>>

\* (Mutant: both changes in one flush, which the ORM emits by primary key.)
OneFlush(off, c) ==
  IF off = {} THEN Activation(c)
  ELSE LET d == CHOOSE d \in off : TRUE IN
       IF d > c THEN <<Turns(c, TRUE), Turns(d, FALSE)>>
       ELSE <<Turns(d, FALSE), Turns(c, TRUE)>>

\* The deactivation is flushed on its own, before the activation.
Flushes(off, c) ==
  IF off = {} THEN Activation(c)
  ELSE <<Turns(CHOOSE d \in off : TRUE, FALSE), Turns(c, TRUE)>>

MayRotate(c) == c \notin retired /\ c \notin active

\* The button carries a chain and a group, g, which must agree.
Rotate(u, c, g) ==
  /\ Idle
  /\ RequireChain(u, c)
  /\ groupOf[c] = g
  /\ MayRotate(c)
  /\ now < MaxNow
  /\ plan' = Flushes(ActiveIn(groupOf[c]) \ {c}, c)
  /\ last' = Acts(u)
  /\ UNCHANGED <<owner, current, groupOf, active, retired, rotations, rides,
                 now, day, shown>>

\* (Mutant: a chain is retired and stays mounted.)
RetireMounted(u, c) ==
  /\ Idle
  /\ RequireChain(u, c)
  /\ retired' = retired \union {c}
  /\ last' = Acts(u)
  /\ UNCHANGED <<owner, current, groupOf, active, rotations, rides, plan, now,
                 day, shown>>

\* Nothing refuses a chain that is retired already.
Retire(u, c) ==
  /\ Idle
  /\ RequireChain(u, c)
  /\ active' = active \ {c}
  /\ retired' = retired \union {c}
  /\ last' = Acts(u)
  /\ UNCHANGED <<owner, current, groupOf, rotations, rides, plan, now, day,
                 shown>>

\* (Mutant: the date of a rotation comes from another clock.)
LateActivationDay == IF day < MaxDay THEN day + 1 ELSE day

\* Both halves of the boundary come from one reading of the clock.
ActivationDay == day

\* The next statement of the transaction.  An activation writes the chain and
\* the rotation that starts its cycle.
Statement ==
  /\ plan # <<>>
  /\ LET s == Head(plan) IN
       IF s.on THEN
         /\ active' = active \union {s.chain}
         /\ now' = now + 1
         /\ rotations' = rotations \union
              {[chain |-> s.chain, dt |-> ActivationDay, at |-> now + 1]}
       ELSE
         /\ active' = active \ {s.chain}
         /\ UNCHANGED <<now, rotations>>
  /\ plan' = Tail(plan)
  /\ UNCHANGED <<owner, current, groupOf, retired, rides, day, shown, last>>

-----------------------------------------------------------------------------
(* MileageService and RideService *)

\* A list of rides sent after this ride shows it, and stays in the chat.
Listed(i, at) == {[id |-> i, at |-> at]}

\* A number typed outside a dialog: a ride of today on the active chain of the
\* current group.  Midnight may fall between the two stamps of a ride (ride_dt
\* is read first); that is NextDay coming after this step.
RecordRide(u, i) ==
  /\ Idle
  /\ now < MaxNow
  /\ IsNewRide(i)
  /\ \E c \in CurrentActiveChain(u) :
       rides' = [rides EXCEPT ![i] =
                   [user |-> u, chain |-> c, dt |-> day, at |-> now + 1]]
  /\ now' = now + 1
  /\ shown' = [shown EXCEPT ![u] = @ \union Listed(i, now + 1)]
  /\ last' = Acts(u)
  /\ UNCHANGED <<owner, current, groupOf, active, retired, rotations, plan,
                 day>>

Presses(u, b) ==
  /\ Idle
  /\ b \in shown[u]
  /\ RequireRide(u, b.id)
  /\ last' = [actor |-> u, meant |-> b.at, hit |-> rides[b.id].at]
  /\ UNCHANGED <<owner, current, groupOf, active, retired, rotations, plan,
                 now, day, shown>>

DeleteRide(u, b) ==
  /\ Presses(u, b)
  /\ rides' = [rides EXCEPT ![b.id] = NoRide]

\* The distance is all that changes, and distances are left out.
EditRide(u, b) ==
  /\ Presses(u, b)
  /\ UNCHANGED rides

NextDay ==
  /\ day < MaxDay
  /\ day' = day + 1
  /\ UNCHANGED <<owner, current, groupOf, active, retired, rotations, rides,
                 plan, now, shown, last>>

-----------------------------------------------------------------------------

Operation(u) ==
  \/ \E g \in Groups : CreateGroup(u, g) \/ SetCurrentGroup(u, g)
  \/ \E g \in Groups, c \in Chains :
       AddChain(u, g, c) \/ Onboard(u, g, c) \/ Rotate(u, c, g)
  \/ \E c \in Chains : Retire(u, c)
  \/ \E i \in RideIds : RecordRide(u, i)
  \/ \E b \in shown[u] : DeleteRide(u, b) \/ EditRide(u, b)

Next == (\E u \in Users : Operation(u)) \/ Statement \/ NextDay

Spec == Init /\ [][Next]_vars

-----------------------------------------------------------------------------
(* What is shown: the cycle of a chain *)

LastActivation(c) ==
  {r \in rotations : r.chain = c /\
     \A q \in rotations : q.chain = c => q.at <= r.at}

InCycle(ride, r) ==
  \/ ride.dt > r.dt
  \/ ride.dt = r.dt /\ ride.at >= r.at

RidesOf(c) == {rides[i] : i \in {j \in RideIds :
                 rides[j] # NoRide /\ rides[j].chain = c}}

\* All of its rides while the chain was never activated.
CycleOf(c) ==
  {ride \in RidesOf(c) : \A r \in LastActivation(c) : InCycle(ride, r)}

Stamps(S) == {ride.at : ride \in S}

Odo == INSTANCE Odometer WITH
  Rides <- Instants,
  mounted <- active,
  cycle <- [c \in Chains |-> Stamps(CycleOf(c))],
  past <- [c \in Chains |-> Stamps(RidesOf(c) \ CycleOf(c))]

-----------------------------------------------------------------------------
(* Properties *)

\* The cycle the date-and-instant predicate computes is the cycle of the
\* odometer, whatever midnights fall between rides and rotations: a rotation
\* starts the new chain from nothing, no ride is lost, moved or counted in
\* two cycles, and a repeated rotation button never restarts a running cycle
\* (GarageService.rotate, RideService._cycle_predicate).
KeepsOdometer == Odo!Spec

\* After every statement the database executes, inside a transaction too, a
\* group has at most one active chain: the partial unique index never fires
\* (Chain.__table_args__, the flush before _activate).
OneActivePerGroup ==
  \A c, d \in active : groupOf[c] = groupOf[d] => c = d

\* No ride can land on a chain that was taken off for good: an active chain
\* is in a group and is not retired (retire_chain, rotate).
ActiveIsUsable == \A c \in active : groupOf[c] # 0 /\ c \notin retired

\* A ride counts towards a chain of the user who logged it, and the current
\* group is the user's own, through every order of creating, switching,
\* rotating and retiring (require_group, require_chain, current_group).
OwnGarage ==
  /\ \A i \in RideIds : rides[i] # NoRide =>
       RequireChain(rides[i].user, rides[i].chain)
  /\ \A u \in Users : current[u] # 0 => owner[current[u]] = u

\* A step on behalf of one user changes no chain, cycle or ride of another,
\* whatever ids the pressed buttons carry (D15).
ChangesOnlyOwn ==
  [][/\ \A c \in Chains :
          (c \in active) # (c \in active') \/ (c \in retired) # (c \in retired')
            => owner[groupOf[c]] = last'.actor
     /\ \A i \in RideIds :
          rides[i] # NoRide /\ rides'[i] # rides[i]
            => rides[i].user = last'.actor]_vars

\* What domain/errors.py says of a stale button, that it finds nothing: a
\* button never acts on another ride than the one it was shown beside.
ButtonMeansItsRide == last.hit = last.meant
=============================================================================
