----------------------------- MODULE MCDelivery -----------------------------
(* Small instances of Delivery: the queues of calls a handler may record. *)
EXTENDS Delivery, TLC

\* Nothing, as when no handler matches; a screen that is edited; the report of
\* a change alone, or followed by a call that is not durable.
SomeReplies == {<<>>, <<"edit">>, <<"send">>, <<"send", "edit">>}
ReportThenEdit == {<<"send", "edit">>}
Reports == {<<"send">>}

\* The updates play the same part whatever they are.
Interchangeable == Permutations(Updates)
=============================================================================
