----------------------------- MODULE MCDialogs -----------------------------
(* Small instances of Dialogs: what the user sends. *)
EXTENDS Dialogs, TLC

Open(d, i) == [is |-> "open", dialog |-> d, id |-> i]
Other(x) == [is |-> x]
Text(x) == [is |-> "text", text |-> x]

\* Every dialog, two ids for dialogs over one key, an escape, and texts that
\* all dialogs or only some of them take.
Varied ==
  {Open("AddChain", "a"), Open("EditGroupLimit", "b"),
   Open("EditChainLimit", "a"), Open("EditChainResource", "b"),
   Open("EditRideAmount", "a"),
   Other("add group"), Other("escape"), Other("/start"),
   Text("number"), Text("word")}

\* A dialog, a way out and a number.
OneDialog == {Open("EditChainLimit", "a"), Other("escape"), Text("number")}
=============================================================================
