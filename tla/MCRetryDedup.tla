----------------------------- MODULE MCRetryDedup -----------------------------
(* Instance of RetryDedup for TLC.                                           *)
EXTENDS RetryDedup, TLC

Symmetry == Permutations(Handlers) \cup Permutations(IDs)

\* What the steps to come and the properties depend on.  An identifier that is
\* neither the one in use nor one a goroutine works on is never looked up
\* again, so all that counts of its entries is the room they take; of a
\* goroutine that has its answer, only that answer does; and the beginnings of
\* the log count as long as reading it may fail.
InUse == {current.id} \cup {Request(h).id : h \in Handlers}

EntriesInUse(q) == [i \in DOMAIN q |-> IF q[i].id \in InUse THEN q[i] ELSE None]

Remaining(h) ==
    IF At(h, "reply") THEN [handler[h] EXCEPT !.hash = None, !.late = "no"] ELSE handler[h]

MayStopShort == ReadFails = "often" \/ (ReadFails = "once" /\ unread = {})

ReadInPart == IF MayStopShort THEN <<EntriesInUse(cut)>> ELSE << >>

InUseView ==
    <<EntriesInUse(mem), EntriesInUse(disk), ReadInPart, tail, appends, mode,
      [h \in Handlers |-> Remaining(h)], current, live, sent, answered,
      {m \in applied : m.id \in InUse}, unread \cap InUse>>
=============================================================================
