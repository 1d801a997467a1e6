------------------------------ MODULE Odometer ------------------------------
(***************************************************************************)
(* What a garage promises about mileage.  A ride counts towards the chain  *)
(* that was mounted when it was recorded, for ever; it belongs to that     *)
(* chain's current cycle until the chain is mounted again, which starts    *)
(* the cycle from nothing.                                                 *)
(***************************************************************************)
CONSTANTS Chains, Rides

VARIABLES
  mounted,  \* the chains that are on a bike
  cycle,    \* cycle[c]: the rides of c's current cycle
  past      \* past[c]: those of its earlier cycles

odometer == <<mounted, cycle, past>>

Init ==
  /\ mounted = {}
  /\ cycle = [c \in Chains |-> {}]
  /\ past = [c \in Chains |-> {}]

Known == UNION {cycle[c] \union past[c] : c \in Chains}

Record(c, r) ==
  /\ c \in mounted
  /\ r \notin Known
  /\ cycle' = [cycle EXCEPT ![c] = @ \union {r}]
  /\ UNCHANGED <<mounted, past>>

Mount(c) ==
  /\ c \notin mounted
  /\ mounted' = mounted \union {c}
  /\ past' = [past EXCEPT ![c] = @ \union cycle[c]]
  /\ cycle' = [cycle EXCEPT ![c] = {}]

Unmount(c) ==
  /\ mounted' = mounted \ {c}
  /\ UNCHANGED <<cycle, past>>

\* A deleted ride leaves every total.
Forget(r) ==
  /\ cycle' = [c \in Chains |-> cycle[c] \ {r}]
  /\ past' = [c \in Chains |-> past[c] \ {r}]
  /\ UNCHANGED mounted

Next ==
  \/ \E c \in Chains : Mount(c) \/ Unmount(c) \/ \E r \in Rides : Record(c, r)
  \/ \E r \in Rides : Forget(r)

Spec == Init /\ [][Next]_odometer
=============================================================================
