---------------------------- MODULE ReplyPromise ----------------------------
(***************************************************************************)
(* What the bot promises about the report of a change, whatever happens    *)
(* between the commit and the user's screen: docs of db.models.OutboxMessage*)
(* and runtime/outbox.py, "at-least-once".  A promise is made once, by the *)
(* commit of the change; it stays owed until the user has the reply; it is *)
(* dropped only when the reply can no longer be wanted, and then it is late.*)
(***************************************************************************)
CONSTANT Updates

VARIABLES
  promise,  \* promise[u]: the report of u's change
  late      \* promises that are too old, or rejected for good

States == {"none", "owed", "told", "dropped"}

PromiseTypeOK ==
  /\ promise \in [Updates -> States]
  /\ late \subseteq Updates

Init ==
  /\ promise = [u \in Updates |-> "none"]
  /\ late = {}

\* Being late only ever grows.
Ages == late' \in {l \in SUBSET Updates : late \subseteq l}

Make(u) ==
  /\ promise[u] = "none"
  /\ promise' = [promise EXCEPT ![u] = "owed"]
  /\ Ages

\* The message may still get through after the bot has given it up.
Keep(u) ==
  /\ promise[u] \in {"owed", "dropped"}
  /\ promise' = [promise EXCEPT ![u] = "told"]
  /\ Ages

\* Several promises may be given up at once, all of them late.
Drop(S) ==
  /\ S \subseteq {u \in Updates : promise[u] = "owed"}
  /\ promise' = [u \in Updates |-> IF u \in S THEN "dropped" ELSE promise[u]]
  /\ Ages
  /\ S \subseteq late'

Resolve(u) ==
  /\ promise[u] = "owed"
  /\ Keep(u) \/ \E S \in SUBSET Updates : u \in S /\ Drop(S)

Next ==
  \/ \E u \in Updates : Make(u) \/ Keep(u)
  \/ \E S \in SUBSET Updates : Drop(S)

Spec == Init /\ [][Next]_<<promise, late>>

FairSpec == Spec /\ \A u \in Updates : WF_<<promise, late>>(Resolve(u))
=============================================================================
