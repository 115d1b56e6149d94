--------------------------- MODULE SourceSetProofs ---------------------------
(***************************************************************************)
(* What a catalogue of rundowns keeps on disk and posts, for every set of  *)
(* rundowns, connections and messages and every limit: its type, the       *)
(* delivery of its revisions, the halt after a conflict, that every        *)
(* interrupted enrolment can be resumed, and that a complete catalogue     *)
(* names enrolled rundowns only.                                           *)
(*                                                                         *)
(* The argument: every step leaves the catalogue's checkpoint, withdraws   *)
(* it, rewrites it as the job in hand says, or records an answer           *)
(* (CatalogueStep), so its revisions only grow and the receiver is never   *)
(* ahead of the file (DeliveryInOrder).  Of the other files, a store is    *)
(* used only after the inventory names it, and what a process has open is  *)
(* retained and in use (Retention); a listing's rows are enrolled or still *)
(* to do at every point of its job (EnrolmentInOrder), so none is missing  *)
(* when it is certified.                                                   *)
(***************************************************************************)
EXTENDS SourceSet, FiniteSetTheorems, TLAPS

-----------------------------------------------------------------------------
(* The inductive invariant.                                                *)

\* What a running process has open is retained on disk, and in use; what it
\* enrolled is not on disk as unenrolled.  Nothing is under way without it.
Retention ==
    /\ IsFiniteSet(inv.ids)
    /\ Resumable
    /\ up = "no" => members = {} /\ refusing = {} /\ job = Idle
    /\ members \subseteq inv.ids \ inv.unenrolled
    /\ refusing \subseteq inv.ids
    /\ \A r \in Retained : store[r].used = "yes"

\* The rows of a listing that are not enrolled yet.
Pending(j) ==
    CASE j.at = "enrol" -> j.todo
      [] j.at \in {"provision", "open"} -> j.todo \cup j.ro
      [] OTHER -> {}

\* How far a listing has come: each row is enrolled, or still to do.  What is
\* about to be opened is on disk as it should be.
EnrolmentInOrder ==
    /\ job.at = "open" => /\ job.ro \subseteq inv.ids
                          /\ Enrolling => job.ro \cap inv.unenrolled = {}
    /\ job.at \in {"enrol", "absent", "certify"} => Enrolling
    /\ job.at \in {"refuse", "update"} => ~Enrolling
    /\ job # Idle /\ Enrolling => DOMAIN job.msg.rows \subseteq members \cup Pending(job)

\* The receiver is never ahead of the file.
DeliveryInOrder ==
    /\ cat.accepted <= held.rev
    /\ held.rev <= cat.rev
    /\ held.rev = cat.rev => held = Body(cat)
    /\ pub # Resting => cat.halted = "no"
    /\ pub.at = "accepted" => pub.copy.rev <= held.rev

\* The newsroom's rundowns after it said m of r.
Said(rows, m, r) ==
    IF m.kind = "delete" THEN Restrict(rows, DOMAIN rows \ {r})
    ELSE IF m.kind = "create"
            THEN [q \in DOMAIN rows \cup {r} |-> IF q = r THEN m.label ELSE rows[q]]
    ELSE IF r \in DOMAIN rows /\ m.label # NoLabel THEN [rows EXCEPT ![r] = m.label]
    ELSE rows

\* A complete catalogue that can still be withdrawn.
Claims(c, b) ==
    /\ c.complete = "yes" /\ c.halted = "no" /\ c.rev < MaxRevision
    /\ Catalogue \notin b

-----------------------------------------------------------------------------
(* What the helpers return.                                                *)

\* A fault is none, or is in one of the files that are written.
LEMMA FaultFacts ==
    ASSUME NEW T, NEW f \in Faults(T)
    PROVE  f = NoFault \/ (f # NoFault /\ f.where \in T /\ f.landed \in {"yes", "no"})
  BY DEF Faults

\* The parts of a message.
LEMMA MessageFacts ==
    ASSUME NEW m \in Msgs
    PROVE  /\ m.id \in IDs \cup {NoID} /\ m.kind \in Kinds /\ m.ro \subseteq ROs
           /\ m.label \in Labels \cup {NoLabel} /\ m.rows \in Rows
           /\ m.kind \in Listings => m.ro = {}
           /\ m.kind \notin Listings => \E r \in ROs : m.ro = {r}
           /\ m.kind \in {"create", "replace", "roster"} => m.label \in Labels
           /\ m.id # NoID => Key(m) \in Keys
<1>1. m \in Messages
  BY SetAssumption
<1>2. m.id # NoID => Key(m) \in Keys
  BY <1>1 DEF Key, Keys, Direction, Messages
<1> QED BY <1>1, <1>2, SetAssumption DEF Messages, Kinds, Listings, RowKinds

\* Rows are functions from rundowns to labels.
LEMMA RowsFacts ==
    ASSUME NEW rows \in Rows
    PROVE  DOMAIN rows \subseteq ROs /\ rows \in [DOMAIN rows -> Labels]
  BY DEF Rows

\* Conversely.
LEMMA RowsIntro ==
    ASSUME NEW S \in SUBSET ROs, NEW rows \in [S -> Labels]
    PROVE  rows \in Rows
  BY DEF Rows

\* There is the catalogue without rows.
LEMMA NoRowsIsRows == NoRows \in Rows
<1>1. NoRows \in [{} -> Labels]
  BY DEF NoRows
<1> QED BY <1>1, RowsIntro

\* reviseCatalogue: the same body, or the next revision.
LEMMA RevisedFacts ==
    ASSUME NEW c \in Catalogues, NEW complete \in {"yes", "no"}, NEW rows \in Rows,
           Revisable(c, complete, rows)
    PROVE  LET d == Revised(c, complete, rows)
           IN  /\ d \in Catalogues
               /\ d.complete = complete /\ d.rows = rows
               /\ d.accepted = c.accepted /\ d.halted = c.halted /\ d.receipts = c.receipts
               /\ c.halted = "no"
               /\ d = c \/ d.rev = c.rev + 1
<1>1. CASE SameBody(c, complete, rows)
  BY <1>1 DEF SameBody, Revised, Revisable
<1>2. CASE ~SameBody(c, complete, rows)
  <2> DEFINE n == c.rev + 1
  <2>1. n \in 0 .. MaxRevision /\ c.halted = "no"
    BY <1>2, SetAssumption DEF Revisable, Catalogues
  <2>2. Revised(c, complete, rows) = [c EXCEPT !.rev = n, !.complete = complete, !.rows = rows]
    BY <1>2 DEF Revised
  <2> HIDE DEF n
  <2>3. LET d == [c EXCEPT !.rev = n, !.complete = complete, !.rows = rows]
        IN  /\ d \in Catalogues
            /\ d.complete = complete /\ d.rows = rows /\ d.rev = n
            /\ d.accepted = c.accepted /\ d.halted = c.halted /\ d.receipts = c.receipts
    BY <2>1 DEF Catalogues
  <2> QED BY <2>1, <2>2, <2>3 DEF n
<1> QED BY <1>1, <1>2

\* rememberCatalogue changes the receipts only.
LEMMA WithReceiptFacts ==
    ASSUME NEW c \in Catalogues, NEW m \in Msgs
    PROVE  LET d == WithReceipt(c, m)
           IN  /\ d \in Catalogues
               /\ d.rev = c.rev /\ d.complete = c.complete /\ d.rows = c.rows
               /\ d.accepted = c.accepted /\ d.halted = c.halted
<1>1. m.id # NoID => [key |-> Key(m), msg |-> m] \in [key : Keys, msg : Msgs]
  BY MessageFacts
<1> DEFINE rs == IF m.id = NoID THEN c.receipts ELSE c.receipts \cup {[key |-> Key(m), msg |-> m]}
<1>2. rs \in SUBSET [key : Keys, msg : Msgs]
  BY <1>1 DEF Catalogues
<1>3. WithReceipt(c, m) = c \/ WithReceipt(c, m) = [c EXCEPT !.receipts = rs]
  BY DEF WithReceipt
<1> HIDE DEF rs
<1> QED BY <1>2, <1>3 DEF Catalogues

-----------------------------------------------------------------------------
(* What a step may do to the catalogue's checkpoint.                       *)

\* It is incomplete from now on, with the receipt of a listing or without.
Withdrawn ==
    /\ cat' \in Catalogues
    /\ cat.halted = "no" /\ cat'.halted = "no"
    /\ cat'.complete = "no" /\ cat'.rows = cat.rows
    /\ cat'.accepted = cat.accepted
    /\ Body(cat') = Body(cat) \/ cat'.rev = cat.rev + 1

\* It is what job certifies, or updates.
Rewritten(complete, rows) ==
    /\ cat' \in Catalogues
    /\ cat.halted = "no" /\ cat'.halted = "no"
    /\ cat'.complete = complete /\ cat'.rows = rows
    /\ cat'.accepted = cat.accepted
    /\ Body(cat') = Body(cat) \/ cat'.rev = cat.rev + 1

\* An answer is recorded.
Recorded ==
    /\ Running /\ pub' = Resting /\ held' = held
    /\ cat' \in Catalogues
    /\ Body(cat') = Body(cat)
    /\ \/ /\ pub.at = "accepted" /\ cat'.halted = cat.halted
          /\ cat' = cat \/ (cat'.accepted = pub.copy.rev /\ cat'.accepted = cat.rev)
       \/ cat'.accepted = cat.accepted /\ pub.at = "conflict"

\* suspendCatalogue, with a receipt or without.
LEMMA SuspendedIsWithdrawn ==
    ASSUME TypeOK, Suspendable(cat),
           cat' = Suspended(cat) \/ \E m \in Msgs : cat' = WithReceipt(Suspended(cat), m)
    PROVE  Withdrawn
<1> DEFINE d == Suspended(cat)
<1>1. cat \in Catalogues /\ cat.rows \in Rows
  BY DEF TypeOK, Catalogues
<1>2. /\ d \in Catalogues /\ d.complete = "no" /\ d.rows = cat.rows
      /\ d.accepted = cat.accepted /\ d.halted = cat.halted /\ cat.halted = "no"
      /\ d = cat \/ d.rev = cat.rev + 1
  BY <1>1, RevisedFacts DEF Suspendable, Suspended
<1> HIDE DEF d
<1>3. CASE cat' = d
  BY <1>2, <1>3 DEF Withdrawn, Body
<1>4. CASE \E m \in Msgs : cat' = WithReceipt(d, m)
  BY <1>2, <1>4, WithReceiptFacts DEF Withdrawn, Body
<1> QED BY <1>3, <1>4 DEF d

\* invalidateCatalogue withdraws it, or fails.
LEMMA InvalidateFacts ==
    ASSUME TypeOK, NEW f, InvalidateCatalogue(f)
    PROVE  /\ cat' = cat \/ Withdrawn
           /\ Written(Suspendable(cat), f) => Withdrawn
           /\ enumerated' \in {"no", enumerated}
<1>1. cat' = cat \/ (Suspendable(cat) /\ cat' = Suspended(cat))
  BY DEF InvalidateCatalogue, CatalogueWrite
<1>2. Written(Suspendable(cat), f) => Suspendable(cat) /\ cat' = Suspended(cat)
  BY DEF InvalidateCatalogue, CatalogueWrite, Written
<1> QED BY <1>1, <1>2, SuspendedIsWithdrawn DEF InvalidateCatalogue

\* So does rejectCatalogue.
LEMMA RejectFacts ==
    ASSUME TypeOK, NEW m \in Msgs, NEW f, RejectCatalogue(m, f)
    PROVE  /\ cat' = cat \/ Withdrawn
           /\ Written(Suspendable(cat), f) => Withdrawn
<1>1. cat' = cat \/ (Suspendable(cat) /\ cat' = WithReceipt(Suspended(cat), m))
  BY DEF RejectCatalogue, CatalogueWrite
<1>2. Written(Suspendable(cat), f) =>
         Suspendable(cat) /\ cat' = WithReceipt(Suspended(cat), m)
  BY DEF RejectCatalogue, CatalogueWrite, Written
<1> QED BY <1>1, <1>2, SuspendedIsWithdrawn

\* The claim of a complete catalogue does not survive an invalidation: where
\* it cannot be withdrawn, it is halted, exhausted or unreadable.
LEMMA InvalidationCounts ==
    ASSUME TypeOK, NEW f, broken \subseteq broken', f.where = Catalogue => Catalogue \in broken',
           InvalidateCatalogue(f) \/ \E m \in Msgs : RejectCatalogue(m, f)
    PROVE  Withdrawn \/ (cat' = cat /\ ~Claims(cat, broken'))
<1>1. cat' = cat \/ Withdrawn
  BY InvalidateFacts, RejectFacts
<1>2. Written(Suspendable(cat), f) => Withdrawn
  BY InvalidateFacts, RejectFacts
<1>3. ~Suspendable(cat) => ~Claims(cat, broken')
  BY DEF Claims, Suspendable, Revisable
<1> QED BY <1>1, <1>2, <1>3 DEF Written, Claims

\* A file whose write fails is broken, and stays so.
LEMMA BrokenGrows ==
    ASSUME NEW f, Breaks(f)
    PROVE  broken \subseteq broken' /\ (f.where = Catalogue => Catalogue \in broken')
  BY DEF Breaks, NoFault, Catalogue

\* updateCatalogue removes or relabels a row and adds none.
LEMMA RowsAfterFacts ==
    ASSUME NEW rows \in Rows, NEW m \in Msgs, NEW r
    PROVE  /\ RowsAfter(rows, m, r) \in Rows
           /\ DOMAIN RowsAfter(rows, m, r) \subseteq DOMAIN rows
<1> DEFINE S == DOMAIN rows
<1>1. S \subseteq ROs /\ rows \in [S -> Labels]
  BY RowsFacts
<1>2. CASE r \notin S
  BY <1>2 DEF RowsAfter
<1>3. CASE r \in S /\ m.kind = "delete"
  <2>1. RowsAfter(rows, m, r) = [q \in S \ {r} |-> rows[q]]
    BY <1>3 DEF RowsAfter, Restrict
  <2>2. RowsAfter(rows, m, r) \in [S \ {r} -> Labels] /\ S \ {r} \in SUBSET ROs
    BY <1>1, <2>1
  <2> QED BY <2>2, RowsIntro
<1>4. CASE r \in S /\ m.kind # "delete"
  <2>1. RowsAfter(rows, m, r) = rows
        \/ (m.label # NoLabel /\ RowsAfter(rows, m, r) = [rows EXCEPT ![r] = m.label])
    BY <1>4 DEF RowsAfter
  <2>2. m.label # NoLabel => m.label \in Labels
    BY MessageFacts
  <2>3. RowsAfter(rows, m, r) \in [S -> Labels]
    BY <1>1, <1>4, <2>1, <2>2
  <2> QED BY <1>1, <2>3, RowsIntro
<1> QED BY <1>2, <1>3, <1>4

\* The checkpoint after any step.
CatalogueMoves ==
    \/ cat' = cat
    \/ Withdrawn
    \/ job.at = "certify" /\ Rewritten("yes", job.msg.rows)
    \/ /\ job.at = "update"
       /\ \E r \in job.ro : Rewritten(CompleteAfter(cat, job.msg, r),
                                      RowsAfter(cat.rows, job.msg, r))
    \/ Recorded

\* A message that takes the set from certain to uncertain, or makes it drop
\* a listing, withdraws the catalogue or leaves it.
LEMMA CatalogueReceive ==
    ASSUME TypeOK, NEW s \in Sessions, NEW m \in Msgs, Receive(s, m)
    PROVE  cat' = cat \/ Withdrawn
<1>1. CASE ReceiveCrossed(s, m) \/ ReceiveReused(s, m)
  BY <1>1, InvalidateFacts DEF ReceiveCrossed, ReceiveReused, UncertainNow
<1>2. CASE ReceiveUnacceptable(s, m)
  BY <1>2, RejectFacts DEF ReceiveUnacceptable
<1>3. CASE ReceiveListing(s, m)
  BY <1>3 DEF ReceiveListing, files
<1>4. CASE ReceiveUnknown(s, m)
  BY <1>4, InvalidateFacts DEF ReceiveUnknown
<1>5. CASE ReceiveEnrolled(s, m)
  BY <1>5 DEF ReceiveEnrolled
<1> QED BY <1>1, <1>2, <1>3, <1>4, <1>5 DEF Receive

\* A job that fails leaves the catalogue, or rejects the listing.
LEMMA JobFailsFacts ==
    ASSUME TypeOK, job \in Jobs, NEW f, JobFails(f)
    PROVE  cat' = cat \/ Withdrawn
  BY RejectFacts DEF JobFails, Jobs

\* Retaining a rundown withdraws the catalogue when it fails.
LEMMA CatalogueProvide ==
    ASSUME TypeOK, NEW r \in ROs, Provide(r)
    PROVE  cat' = cat \/ Withdrawn
<1>1. job \in Jobs
  BY DEF Provide, ProvideSettled, ProvideFull, Stage, Install, Register, Open, Providing,
         TypeOK, Idle
<1>2. CASE ProvideSettled(r)
  BY <1>2 DEF ProvideSettled, files
<1>3. CASE ProvideFull(r)
  BY <1>1, <1>3, JobFailsFacts DEF ProvideFull
<1>4. CASE Stage(r)
  BY <1>1, <1>4, JobFailsFacts DEF Stage
<1>5. CASE Install(r) \/ Register(r)
  BY <1>5 DEF Install, Register
<1>6. CASE Open(r)
  BY <1>1, <1>6, JobFailsFacts DEF Open
<1> QED BY <1>2, <1>3, <1>4, <1>5, <1>6 DEF Provide

\* Certify completes the catalogue with the listing's rows, or rejects it.
LEMMA CatalogueCertify ==
    ASSUME TypeOK, Certify
    PROVE  cat' = cat \/ Withdrawn \/ Rewritten("yes", job.msg.rows)
<1> DEFINE m == job.msg
           d == Revised(cat, "yes", m.rows)
<1>1. m \in Msgs /\ m.rows \in Rows
  BY MessageFacts DEF Certify, TypeOK, Jobs, Idle
<1>2. CASE Revisable(cat, "yes", m.rows)
  <2>1. cat' = cat \/ cat' = WithReceipt(d, m)
    BY <1>2 DEF Certify, CatalogueWrite
  <2>2. /\ d \in Catalogues
        /\ d.complete = "yes" /\ d.rows = m.rows
        /\ d.accepted = cat.accepted /\ d.halted = "no" /\ cat.halted = "no"
        /\ d = cat \/ d.rev = cat.rev + 1
    BY <1>1, <1>2, RevisedFacts DEF TypeOK
  <2> HIDE DEF d, m
  <2>3. CASE cat' = WithReceipt(d, m)
    <3>1. /\ cat' \in Catalogues
          /\ cat'.rev = d.rev /\ cat'.complete = d.complete /\ cat'.rows = d.rows
          /\ cat'.accepted = d.accepted /\ cat'.halted = d.halted
      BY <1>1, <2>2, <2>3, WithReceiptFacts
    <3> QED BY <2>2, <3>1 DEF Rewritten, Body, m
  <2> QED BY <2>1, <2>3
<1>3. CASE ~Revisable(cat, "yes", m.rows)
  <2>1. \E f : RejectCatalogue(m, f)
    BY <1>3 DEF Certify
  <2> QED BY <1>1, <2>1, RejectFacts
<1> QED BY <1>2, <1>3

\* Update follows the message, or withdraws the catalogue.
LEMMA CatalogueUpdate ==
    ASSUME TypeOK, Update
    PROVE  \/ cat' = cat \/ Withdrawn
           \/ \E r \in job.ro : Rewritten(CompleteAfter(cat, job.msg, r),
                                          RowsAfter(cat.rows, job.msg, r))
<1>1. job.msg \in Msgs /\ cat \in Catalogues /\ cat.rows \in Rows
      /\ cat.complete \in {"yes", "no"}
  BY DEF Update, TypeOK, Jobs, Idle, Catalogues
<1>2. PICK r \in job.ro, f \in Faults({Catalogue} \ broken) :
        LET complete == CompleteAfter(cat, job.msg, r)
            rows     == RowsAfter(cat.rows, job.msg, r)
        IN  IF Revisable(cat, complete, rows)
               THEN /\ CatalogueWrite(TRUE, Revised(cat, complete, rows), f)
                    /\ UNCHANGED enumerated
               ELSE InvalidateCatalogue(f)
  BY DEF Update
<1> DEFINE complete == CompleteAfter(cat, job.msg, r)
           rows == RowsAfter(cat.rows, job.msg, r)
           d == Revised(cat, complete, rows)
<1>3. rows \in Rows /\ complete \in {"yes", "no"}
  BY <1>1, RowsAfterFacts DEF CompleteAfter
<1>4. CASE Revisable(cat, complete, rows)
  <2>1. cat' = cat \/ cat' = d
    BY <1>2, <1>4 DEF CatalogueWrite
  <2>2. /\ d \in Catalogues
        /\ d.complete = complete /\ d.rows = rows
        /\ d.accepted = cat.accepted /\ d.halted = "no" /\ cat.halted = "no"
        /\ d = cat \/ d.rev = cat.rev + 1
    BY <1>1, <1>3, <1>4, RevisedFacts
  <2>3. cat' = d => Rewritten(complete, rows)
    BY <2>2 DEF Rewritten, Body
  <2> QED BY <2>1, <2>3
<1>5. CASE ~Revisable(cat, complete, rows)
  BY <1>2, <1>5, InvalidateFacts
<1> QED BY <1>4, <1>5

\* Every step moves the checkpoint in one of these ways.
LEMMA CatalogueStep ==
    ASSUME TypeOK, Next
    PROVE  CatalogueMoves
<1>1. CASE Start
  BY <1>1, SuspendedIsWithdrawn DEF Start, Startable, CatalogueMoves
<1>2. CASE StartFails
  BY <1>2, SuspendedIsWithdrawn DEF StartFails, Startable, CatalogueMoves
<1>3. CASE Crash \/ EnrolNext \/ Refuse
  BY <1>3 DEF Crash, EnrolNext, Refuse, files, CatalogueMoves
<1>4. CASE \E s \in Sessions : Observe(s) \/ Disconnected(s) \/ Uncertain(s)
  BY <1>4, InvalidateFacts DEF Observe, Disconnected, Uncertain, UncertainNow, CatalogueMoves
<1>5. CASE \E s \in Sessions, m \in Msgs : Receive(s, m)
  BY <1>5, CatalogueReceive DEF CatalogueMoves
<1>6. CASE \E r \in ROs : Provide(r)
  BY <1>6, CatalogueProvide DEF CatalogueMoves
<1>7. CASE UncoverAbsent
  <2>1. job \in Jobs
    BY <1>7 DEF UncoverAbsent, TypeOK, Idle
  <2> QED BY <1>7, <2>1, JobFailsFacts DEF UncoverAbsent, CatalogueMoves
<1>8. CASE Certify
  BY <1>8, CatalogueCertify DEF Certify, CatalogueMoves
<1>9. CASE Update
  BY <1>9, CatalogueUpdate DEF Update, CatalogueMoves
<1>10. CASE PublishOnce
  BY <1>10, InvalidateFacts DEF PublishOnce, CatalogueMoves
<1>11. CASE Answer
  <2>1. Running /\ pub' = Resting /\ held' = held /\ cat \in Catalogues /\ pub.at \in {"accepted", "conflict"}
    BY <1>11 DEF Answer, TypeOK
  <2>2. \/ cat' = cat
        \/ pub.at = "accepted" /\ Body(cat) = pub.copy /\ cat' = [cat EXCEPT !.accepted = cat.rev]
        \/ pub.at = "conflict" /\ cat' = [cat EXCEPT !.halted = "yes"]
    BY <1>11 DEF Answer, CatalogueWrite, Accepted
  <2>3. CASE pub.at = "accepted" /\ Body(cat) = pub.copy /\ cat' = [cat EXCEPT !.accepted = cat.rev]
    <3>1. /\ cat' \in Catalogues /\ cat'.rev = cat.rev /\ cat'.complete = cat.complete
          /\ cat'.rows = cat.rows /\ cat'.accepted = cat.rev /\ cat'.halted = cat.halted
      BY <2>1, <2>3 DEF Catalogues
    <3>2. pub.copy.rev = cat.rev
      BY <2>3 DEF Body
    <3> QED BY <2>1, <2>3, <3>1, <3>2 DEF Recorded, Body, CatalogueMoves
  <2>4. CASE pub.at = "conflict" /\ cat' = [cat EXCEPT !.halted = "yes"]
    <3>1. /\ cat' \in Catalogues /\ cat'.rev = cat.rev /\ cat'.complete = cat.complete
          /\ cat'.rows = cat.rows /\ cat'.accepted = cat.accepted
      BY <2>1, <2>4 DEF Catalogues
    <3> QED BY <2>1, <2>4, <3>1 DEF Recorded, Body, CatalogueMoves
  <2> QED BY <2>2, <2>3, <2>4 DEF CatalogueMoves
<1> QED BY <1>1, <1>2, <1>3, <1>4, <1>5, <1>6, <1>7, <1>8, <1>9, <1>10, <1>11 DEF Next

-----------------------------------------------------------------------------
(* Types.                                                                  *)

\* The checkpoint keeps its type.
LEMMA CatalogueTyped ==
    ASSUME TypeOK, Next
    PROVE  cat' \in Catalogues
  BY CatalogueStep DEF CatalogueMoves, Withdrawn, Rewritten, Recorded, TypeOK

\* A store that is invalidated.
LEMMA InvalidatedFacts ==
    ASSUME NEW st \in Stores
    PROVE  LET d == Invalidated(st)
           IN  /\ d \in Stores /\ d.at = st.at /\ d.used = "yes" /\ d.covered = "no"
               /\ d.receipts = st.receipts
  BY DEF Invalidated, Stores

\* InvalidateMembers writes members' stores and no others.
LEMMA InvalidateMembersFacts ==
    ASSUME TypeOK, NEW S, NEW f, InvalidateMembers(S, f)
    PROVE  /\ store' \in [ROs -> Stores]
           /\ \A r \in ROs : store'[r] = store[r] \/ (r \in S /\ store'[r] = Invalidated(store[r]))
           /\ f = NoFault => \A r \in ROs \cap (S \ broken) : store'[r] = Invalidated(store[r])
<1>1. store \in [ROs -> Stores]
  BY DEF TypeOK
<1>2. \A r \in ROs : store'[r] = IF r \in S \ broken /\ (f.where = r => f.landed = "yes")
                                    THEN Invalidated(store[r]) ELSE store[r]
  BY DEF InvalidateMembers
<1>3. \A r \in ROs : store'[r] \in Stores
  BY <1>1, <1>2, InvalidatedFacts
<1>4. store' \in [ROs -> Stores]
  BY <1>3 DEF InvalidateMembers
<1>5. f = NoFault => \A r \in ROs : f.where # r
  BY SetAssumption DEF NoFault
<1> QED BY <1>2, <1>4, <1>5

\* Files that break are files.
LEMMA BreaksFacts ==
    ASSUME TypeOK, NEW T \in SUBSET (ROs \cup {Catalogue}), NEW f \in Faults(T), Breaks(f)
    PROVE  /\ broken' \subseteq ROs \cup {Catalogue} /\ broken \subseteq broken'
           /\ f = NoFault => broken' = broken
  BY FaultFacts DEF Breaks, TypeOK

\* uncertain keeps the types of what it writes.
LEMMA UncertainTyped ==
    ASSUME TypeOK, NEW f \in Uncertainty, UncertainNow(f)
    PROVE  /\ store' \in [ROs -> Stores]
           /\ broken' \subseteq ROs \cup {Catalogue}
           /\ enumerated' \in {"yes", "no"}
           /\ truth' \in [known : {"yes", "no"}, rows : Rows]
<1>1. store' \in [ROs -> Stores]
  BY InvalidateMembersFacts DEF UncertainNow
<1>2. broken' \subseteq ROs \cup {Catalogue}
  BY BreaksFacts DEF UncertainNow, Uncertainty, TypeOK
<1>3. enumerated' \in {"yes", "no"}
  BY InvalidateFacts DEF UncertainNow, TypeOK
<1>4. truth' \in [known : {"yes", "no"}, rows : Rows]
  BY NoRowsIsRows DEF UncertainNow, Unsure
<1> QED BY <1>1, <1>2, <1>3, <1>4

\* The receipt of a message.
LEMMA ReceiptFacts ==
    ASSUME NEW m \in Msgs, NEW reply \in {"OK", "NACK"}
    PROVE  /\ Receipt(m, reply) \subseteq Receipts
           /\ \A rc \in Receipt(m, reply) : rc.key = Key(m) /\ rc.msg = m
           /\ m.id # NoID => Receipt(m, reply) # {}
           /\ m.id = NoID => Receipt(m, reply) = {}
<1> DEFINE said == IF Direction(m) = "answer" THEN "none" ELSE reply
<1>1. CASE m.id = NoID
  BY <1>1 DEF Receipt
<1>2. CASE m.id # NoID
  <2>1. Receipt(m, reply) = {[key |-> Key(m), msg |-> m, reply |-> said]}
    BY <1>2 DEF Receipt
  <2>2. said \in {"OK", "NACK", "none"} /\ Key(m) \in Keys
    BY <1>2, MessageFacts
  <2> HIDE DEF said
  <2> QED BY <1>2, <2>1, <2>2 DEF Receipts
<1> QED BY <1>1, <1>2

\* CommittedSource.Apply adds the message's receipt and keeps the others.
LEMMA AppliedFacts ==
    ASSUME NEW st \in Stores, NEW m \in Msgs
    PROVE  LET d == Applied(st, m)
           IN  /\ d \in Stores /\ d.at = st.at /\ d.used = "yes"
               /\ d.receipts = st.receipts \cup Receipt(m, "OK")
<1> DEFINE rs == st.receipts \cup Receipt(m, "OK")
           co == IF m.kind \in RowKinds \ {"metadata"} THEN "yes" ELSE st.covered
<1>1. rs \in SUBSET Receipts /\ co \in {"yes", "no"}
  BY ReceiptFacts DEF Stores
<1>2. Applied(st, m) = [st EXCEPT !.used = "yes", !.covered = co, !.receipts = rs]
  BY DEF Applied
<1> HIDE DEF rs, co
<1>3. LET d == [st EXCEPT !.used = "yes", !.covered = co, !.receipts = rs]
      IN  d \in Stores /\ d.at = st.at /\ d.used = "yes" /\ d.receipts = rs
  BY <1>1 DEF Stores
<1> QED BY <1>2, <1>3 DEF rs

\* So does a refusal by the rundown's source.
LEMMA InapplicableFacts ==
    ASSUME NEW st \in Stores, NEW m \in Msgs
    PROVE  LET d == Inapplicable(st, m)
           IN  /\ d \in Stores /\ d.at = st.at /\ d.used = "yes"
               /\ st.receipts \subseteq d.receipts
               /\ d.receipts \subseteq st.receipts \cup Receipt(m, "NACK")
<1> DEFINE e == Invalidated(st)
           rs == st.receipts \cup (IF Known(m, st.receipts) THEN {} ELSE Receipt(m, "NACK"))
<1>1. rs \in SUBSET Receipts
  BY ReceiptFacts DEF Stores
<1>2. /\ e \in Stores /\ e.at = st.at /\ e.used = "yes" /\ e.receipts = st.receipts
  BY InvalidatedFacts
<1>3. Inapplicable(st, m) = [e EXCEPT !.receipts = rs]
  BY <1>2 DEF Inapplicable
<1> HIDE DEF e
<1>4. rs \subseteq st.receipts \cup Receipt(m, "NACK") /\ st.receipts \subseteq rs
  OBVIOUS
<1> HIDE DEF rs
<1>5. LET d == [e EXCEPT !.receipts = rs]
      IN  d \in Stores /\ d.at = e.at /\ d.used = e.used /\ d.receipts = rs
  BY <1>1, <1>2 DEF Stores
<1> QED BY <1>2, <1>3, <1>4, <1>5

\* Connections keep the types.
LEMMA ConnectionTyped ==
    ASSUME TypeOK, NEW s \in Sessions, Next,
           Observe(s) \/ Disconnected(s) \/ Uncertain(s)
    PROVE  TypeOK'
<1>1. cat' \in Catalogues
  BY CatalogueTyped
<1>2. PICK f \in Uncertainty :
         UncertainNow(f) \/ UNCHANGED <<cat, store, broken, enumerated, truth>>
  BY DEF Observe, Disconnected, Uncertain
<1>3. /\ sessions' \subseteq Sessions /\ owner' \in Sessions \cup {NoSession}
      /\ UNCHANGED <<inv, up, members, refusing, job, pub, held, refused, took>>
  BY DEF Observe, Disconnected, Uncertain, peers, posting, history, TypeOK
<1>4. /\ store' \in [ROs -> Stores]
      /\ broken' \subseteq ROs \cup {Catalogue}
      /\ enumerated' \in {"yes", "no"}
      /\ truth' \in [known : {"yes", "no"}, rows : Rows]
  BY <1>2, UncertainTyped DEF TypeOK
<1> QED BY <1>1, <1>3, <1>4 DEF TypeOK

\* What the newsroom says makes rows of rows.
LEMMA SaidFacts ==
    ASSUME NEW rows \in Rows, NEW m \in Msgs, NEW r \in ROs
    PROVE  Said(rows, m, r) \in Rows
<1> DEFINE S == DOMAIN rows
<1>1. S \subseteq ROs /\ rows \in [S -> Labels]
  BY RowsFacts
<1>2. CASE m.kind = "delete"
  <2>1. Said(rows, m, r) = [q \in S \ {r} |-> rows[q]]
    BY <1>2 DEF Said, Restrict
  <2>2. Said(rows, m, r) \in [S \ {r} -> Labels] /\ S \ {r} \in SUBSET ROs
    BY <1>1, <2>1
  <2> QED BY <2>2, RowsIntro
<1>3. CASE m.kind = "create"
  <2>1. Said(rows, m, r) = [q \in S \cup {r} |-> IF q = r THEN m.label ELSE rows[q]]
    BY <1>3 DEF Said
  <2>2. m.label \in Labels
    BY <1>3, MessageFacts
  <2>3. Said(rows, m, r) \in [S \cup {r} -> Labels] /\ S \cup {r} \in SUBSET ROs
    BY <1>1, <2>1, <2>2
  <2> QED BY <2>3, RowsIntro
<1>4. CASE m.kind \notin {"create", "delete"}
  <2>1. \/ Said(rows, m, r) = rows
        \/ r \in S /\ m.label # NoLabel /\ Said(rows, m, r) = [rows EXCEPT ![r] = m.label]
    BY <1>4 DEF Said
  <2>2. m.label # NoLabel => m.label \in Labels
    BY MessageFacts
  <2>3. Said(rows, m, r) \in [S -> Labels]
    BY <1>1, <2>1, <2>2
  <2> QED BY <1>1, <2>3, RowsIntro
<1> QED BY <1>2, <1>3, <1>4

\* TruthAfter in terms of rows.
LEMMA TruthFacts ==
    ASSUME TypeOK, NEW m \in Msgs, NEW r \in ROs
    PROVE  LET t == TruthAfter(m, r)
           IN  /\ t \in [known : {"yes", "no"}, rows : Rows]
               /\ t.known = truth.known
               /\ truth.known = "yes" /\ m.kind \in RowKinds => t.rows = Said(truth.rows, m, r)
               /\ m.kind \notin RowKinds /\ truth.known = "yes" => t.rows = truth.rows
<1> DEFINE t == TruthAfter(m, r)
<1>1. truth \in [known : {"yes", "no"}, rows : Rows] /\ truth.rows \in Rows
  BY DEF TypeOK
<1>2. CASE truth.known = "no"
  BY <1>2, NoRowsIsRows DEF TruthAfter, Unsure
<1>3. CASE truth.known # "no" /\ m.kind \in RowKinds
  <2>1. t = [truth EXCEPT !.rows = Said(truth.rows, m, r)] \/ (t = truth /\ Said(truth.rows, m, r) = truth.rows)
    BY <1>1, <1>3 DEF TruthAfter, Said
  <2> QED BY <1>1, <1>3, <2>1, SaidFacts
<1>4. CASE truth.known # "no" /\ m.kind \notin RowKinds
  BY <1>1, <1>4 DEF TruthAfter, RowKinds
<1> QED BY <1>2, <1>3, <1>4

\* A message for an enrolled rundown: one store is written, or none, and a
\* message that is applied has its receipt there.
LEMMA EnrolledFacts ==
    ASSUME TypeOK, NEW s \in Sessions, NEW m \in Msgs, ReceiveEnrolled(s, m)
    PROVE  \E r \in m.ro \cap members :
             /\ r \in ROs /\ Running /\ Routable(m)
             /\ store' \in [ROs -> Stores]
             /\ \A q \in ROs \ {r} : store'[q] = store[q]
             /\ store'[r] \in {store[r], Inapplicable(store[r], m), Applied(store[r], m)}
             /\ \/ took' = took
                \/ /\ m.id # NoID /\ ~Known(m, store[r].receipts)
                   /\ store'[r] = Applied(store[r], m)
                   /\ took' = took \cup {<<Key(m), r>>}
             /\ broken' \subseteq broken \cup {r} /\ broken \subseteq broken'
             /\ \/ UNCHANGED <<job, truth>>
                \/ /\ truth' = TruthAfter(m, r)
                   /\ job' = IF m.kind \in RowKinds
                                THEN [at |-> "update", msg |-> m, ro |-> {r}, todo |-> {}]
                                ELSE Idle
             /\ UNCHANGED <<cat, inv, up, members, refusing, sessions, owner, enumerated,
                            pub, held, refused>>
<1>1. PICK r \in m.ro \cap members : \E f \in Faults({r}) :
        LET st  == store[r]
            bad == m.kind = "inapplicable" \/ Known(m, st.receipts)
        IN /\ StoreWrite(r, IF bad THEN Inapplicable(st, m) ELSE Applied(st, m), f)
           /\ Breaks(f)
           /\ took' = IF bad \/ m.id = NoID \/ store' = store THEN took
                      ELSE took \cup {<<Key(m), r>>}
           /\ IF bad \/ f # NoFault
                 THEN UNCHANGED <<job, truth>>
                 ELSE /\ truth' = TruthAfter(m, r)
                      /\ job' = IF m.kind \in RowKinds
                                   THEN [at |-> "update", msg |-> m, ro |-> {r}, todo |-> {}]
                                   ELSE Idle
  BY Zenon DEF ReceiveEnrolled
<1> DEFINE st  == store[r]
           bad == m.kind = "inapplicable" \/ Known(m, st.receipts)
           next == IF bad THEN Inapplicable(st, m) ELSE Applied(st, m)
<1>2. PICK f \in Faults({r}) :
        /\ StoreWrite(r, next, f)
        /\ Breaks(f)
        /\ took' = IF bad \/ m.id = NoID \/ store' = store THEN took
                   ELSE took \cup {<<Key(m), r>>}
        /\ IF bad \/ f # NoFault
              THEN UNCHANGED <<job, truth>>
              ELSE /\ truth' = TruthAfter(m, r)
                   /\ job' = IF m.kind \in RowKinds
                                THEN [at |-> "update", msg |-> m, ro |-> {r}, todo |-> {}]
                                ELSE Idle
  BY <1>1, Zenon
<1>3. r \in ROs /\ store \in [ROs -> Stores] /\ st \in Stores
  BY <1>1, MessageFacts DEF TypeOK
<1>4. next \in Stores
  BY <1>3, AppliedFacts, InapplicableFacts
<1>5. store' = [store EXCEPT ![r] = store[r]] \/ store' = [store EXCEPT ![r] = next]
  BY <1>2 DEF StoreWrite
<1>6. /\ store' \in [ROs -> Stores]
      /\ \A q \in ROs \ {r} : store'[q] = store[q]
      /\ store'[r] \in {st, next}
  BY <1>3, <1>4, <1>5
<1>7. store' # store => store'[r] = next
  <2>1. [store EXCEPT ![r] = store[r]] = store
    BY <1>3
  <2>2. [store EXCEPT ![r] = next][r] = next
    BY <1>3
  <2> QED BY <1>5, <2>1, <2>2
<1>8. broken' \subseteq broken \cup {r} /\ broken \subseteq broken'
  BY <1>2, FaultFacts DEF Breaks
<1>9. \/ took' = took
      \/ /\ m.id # NoID /\ ~Known(m, st.receipts)
         /\ store'[r] = Applied(st, m)
         /\ took' = took \cup {<<Key(m), r>>}
  BY <1>2, <1>7
<1>10. /\ Running /\ Routable(m)
       /\ UNCHANGED <<cat, inv, up, members, refusing, sessions, owner, enumerated,
                      pub, held, refused>>
  BY DEF ReceiveEnrolled, Accepting, peers, posting
<1>11. \/ UNCHANGED <<job, truth>>
       \/ /\ truth' = TruthAfter(m, r)
          /\ job' = IF m.kind \in RowKinds
                       THEN [at |-> "update", msg |-> m, ro |-> {r}, todo |-> {}]
                       ELSE Idle
  BY <1>2
<1> QED BY <1>1, <1>3, <1>6, <1>8, <1>9, <1>10, <1>11

\* A message for a rundown that is not enrolled: the catalogue is withdrawn
\* unless that fails, and a refusal is due only of a message without receipt.
LEMMA UnknownFacts ==
    ASSUME TypeOK, NEW s \in Sessions, NEW m \in Msgs, ReceiveUnknown(s, m)
    PROVE  \E r \in m.ro \ members :
             /\ r \in ROs /\ Running /\ Routable(m)
             /\ r \in refusing /\ m.id # NoID => ~Known(m, store[r].receipts)
             /\ broken' \subseteq ROs \cup {Catalogue}
             /\ Withdrawn \/ (cat' = cat /\ ~Claims(cat, broken'))
             /\ enumerated' \in {"yes", "no"}
             /\ truth' = Unsure
             /\ \/ job' = Idle
                \/ /\ m.id # NoID
                   /\ job' = [at |-> IF r \in refusing THEN "refuse" ELSE "provision",
                              msg |-> m, ro |-> {r}, todo |-> {}]
             /\ UNCHANGED <<inv, store, up, members, refusing, sessions, owner, pub, held,
                            refused, took>>
<1>1. PICK f \in Faults({Catalogue} \ broken), r \in m.ro \ members :
        /\ r \in refusing /\ m.id # NoID =>
             r \notin broken /\ ~Known(m, store[r].receipts)
        /\ InvalidateCatalogue(f)
        /\ Breaks(f)
        /\ job' = IF \/ ~Written(Suspendable(cat), f) \/ m.id = NoID
                     \/ r \notin refusing /\ Cardinality(Retained) >= Limit
                     THEN Idle
                     ELSE [at |-> IF r \in refusing THEN "refuse" ELSE "provision",
                           msg |-> m, ro |-> {r}, todo |-> {}]
  BY Zenon DEF ReceiveUnknown
<1>2. /\ Running /\ Routable(m) /\ truth' = Unsure
      /\ UNCHANGED <<inv, store, up, members, refusing, sessions, owner, pub, held,
                     refused, took>>
  BY DEF ReceiveUnknown, Accepting, peers, posting, history
<1>3. broken' \subseteq ROs \cup {Catalogue}
  BY <1>1, BreaksFacts
<1>4. Withdrawn \/ (cat' = cat /\ ~Claims(cat, broken'))
  BY <1>1, BrokenGrows, InvalidationCounts
<1>5. enumerated' \in {"yes", "no"}
  BY <1>1, InvalidateFacts DEF TypeOK
<1>6. r \in ROs
  BY <1>1, MessageFacts
<1>7. \/ job' = Idle
      \/ /\ m.id # NoID
         /\ job' = [at |-> IF r \in refusing THEN "refuse" ELSE "provision",
                    msg |-> m, ro |-> {r}, todo |-> {}]
  BY <1>1
<1> QED BY <1>1, <1>2, <1>3, <1>4, <1>5, <1>6, <1>7

\* Messages keep the types.
LEMMA ReceiveTyped ==
    ASSUME TypeOK, NEW s \in Sessions, NEW m \in Msgs, Next, Receive(s, m)
    PROVE  TypeOK'
<1>1. cat' \in Catalogues
  BY CatalogueTyped
<1>2. m.ro \subseteq ROs /\ m.rows \in Rows /\ DOMAIN m.rows \subseteq ROs
  BY MessageFacts, RowsFacts
<1>3. CASE ReceiveCrossed(s, m) \/ ReceiveReused(s, m)
  <2>1. PICK f \in Uncertainty : UncertainNow(f)
    BY <1>3 DEF ReceiveCrossed, ReceiveReused
  <2>2. /\ store' \in [ROs -> Stores]
        /\ broken' \subseteq ROs \cup {Catalogue}
        /\ enumerated' \in {"yes", "no"}
        /\ truth' \in [known : {"yes", "no"}, rows : Rows]
    BY <2>1, UncertainTyped
  <2>3. UNCHANGED <<inv, up, members, refusing, sessions, owner, job, pub, held, refused, took>>
    BY <1>3 DEF ReceiveCrossed, ReceiveReused, peers, posting, history
  <2> QED BY <1>1, <2>2, <2>3 DEF TypeOK
<1>4. CASE ReceiveUnacceptable(s, m)
  <2>1. broken' \subseteq ROs \cup {Catalogue}
    BY <1>4, BreaksFacts DEF ReceiveUnacceptable
  <2>2. UNCHANGED <<inv, store, up, members, refusing, sessions, owner, enumerated, job,
                    pub, held, refused, took, truth>>
    BY <1>4 DEF ReceiveUnacceptable, peers, posting, history
  <2> QED BY <1>1, <2>1, <2>2 DEF TypeOK
<1>5. CASE ReceiveListing(s, m)
  <2>1. job' \in Jobs
    BY <1>2, <1>5 DEF ReceiveListing, Jobs, Unlisted
  <2>2. UNCHANGED <<inv, store, up, broken, members, refusing, sessions, owner, enumerated,
                    pub, held, refused, took, truth>>
    BY <1>5 DEF ReceiveListing, files, peers, posting, history
  <2> QED BY <1>1, <2>1, <2>2 DEF TypeOK
<1>6. CASE ReceiveUnknown(s, m)
  <2>1. PICK r \in ROs :
          /\ broken' \subseteq ROs \cup {Catalogue}
          /\ enumerated' \in {"yes", "no"}
          /\ truth' = Unsure
          /\ \/ job' = Idle
             \/ job' = [at |-> IF r \in refusing THEN "refuse" ELSE "provision",
                        msg |-> m, ro |-> {r}, todo |-> {}]
          /\ UNCHANGED <<inv, store, up, members, refusing, sessions, owner, pub, held,
                         refused, took>>
    BY <1>6, UnknownFacts
  <2>2. job' \in Jobs \cup {Idle}
    BY <2>1 DEF Jobs
  <2> QED BY <1>1, <2>1, <2>2, NoRowsIsRows DEF TypeOK, Unsure
<1>7. CASE ReceiveEnrolled(s, m)
  <2>1. PICK r \in ROs :
             /\ store' \in [ROs -> Stores]
             /\ \/ took' = took
                \/ m.id # NoID /\ took' = took \cup {<<Key(m), r>>}
             /\ broken' \subseteq broken \cup {r}
             /\ \/ UNCHANGED <<job, truth>>
                \/ /\ truth' = TruthAfter(m, r)
                   /\ job' = IF m.kind \in RowKinds
                                THEN [at |-> "update", msg |-> m, ro |-> {r}, todo |-> {}]
                                ELSE Idle
             /\ UNCHANGED <<inv, up, members, refusing, sessions, owner, enumerated,
                            pub, held, refused>>
    BY <1>7, EnrolledFacts
  <2>2. took' \subseteq Keys \X ROs
    BY <2>1, MessageFacts DEF TypeOK
  <2>3. job' \in Jobs \cup {Idle}
    BY <2>1 DEF TypeOK, Jobs
  <2>4. truth' \in [known : {"yes", "no"}, rows : Rows]
    BY <2>1, TruthFacts DEF TypeOK
  <2> QED BY <1>1, <2>1, <2>2, <2>3, <2>4 DEF TypeOK
<1> QED BY <1>3, <1>4, <1>5, <1>6, <1>7 DEF Receive

\* Retaining a rundown keeps the types.
LEMMA ProvideTyped ==
    ASSUME TypeOK, NEW r \in ROs, Next, Provide(r)
    PROVE  TypeOK'
<1>1. cat' \in Catalogues
  BY CatalogueTyped
<1>2. job \in Jobs
  BY DEF Provide, ProvideSettled, ProvideFull, Stage, Install, Register, Open, Providing,
         TypeOK, Idle
<1>3. store \in [ROs -> Stores]
  BY DEF TypeOK
<1>4. CASE ProvideSettled(r)
  <2>1. job' \in Jobs
    BY <1>2, <1>4 DEF ProvideSettled, Jobs
  <2>2. UNCHANGED <<inv, store, up, broken, members, refusing, sessions, owner, enumerated,
                    pub, held, refused, took, truth>>
    BY <1>4 DEF ProvideSettled, files, peers, posting, history
  <2> QED BY <1>1, <2>1, <2>2 DEF TypeOK
<1>5. CASE ProvideFull(r)
  <2>1. broken' \subseteq ROs \cup {Catalogue}
    BY <1>5, BreaksFacts DEF ProvideFull
  <2>2. job' = Idle
    BY <1>5 DEF ProvideFull, JobFails
  <2>3. UNCHANGED <<inv, store, up, members, refusing, sessions, owner, enumerated,
                    pub, held, refused, took, truth>>
    BY <1>5 DEF ProvideFull, peers, posting, history
  <2> QED BY <1>1, <2>1, <2>2, <2>3 DEF TypeOK
<1>6. CASE Stage(r)
  <2>1. store' \in [ROs -> Stores]
    BY <1>3, <1>6 DEF Stage, Stores
  <2>2. broken' \subseteq ROs \cup {Catalogue} /\ job' \in {job, Idle}
    BY <1>6 DEF Stage, JobFails, TypeOK
  <2>3. UNCHANGED <<inv, up, members, refusing, sessions, owner, enumerated,
                    pub, held, refused, took, truth>>
    BY <1>6 DEF Stage, peers, posting, history
  <2> QED BY <1>1, <2>1, <2>2, <2>3 DEF TypeOK
<1>7. CASE Install(r)
  <2>1. store' \in [ROs -> Stores]
    BY <1>3, <1>7 DEF Install, Stores
  <2>2. broken' \subseteq ROs \cup {Catalogue} /\ job' \in {job, Idle}
    BY <1>7, BreaksFacts DEF Install
  <2>3. UNCHANGED <<inv, up, members, refusing, sessions, owner, enumerated,
                    pub, held, refused, took, truth>>
    BY <1>7 DEF Install, peers, posting, history
  <2> QED BY <1>1, <2>1, <2>2, <2>3 DEF TypeOK
<1>8. CASE Register(r)
  <2>1. inv' \in [ids : SUBSET ROs, unenrolled : SUBSET ROs]
    BY <1>8 DEF Register, Registered, TypeOK
  <2>2. broken' \subseteq ROs \cup {Catalogue} /\ job' \in {job, Idle}
    BY <1>8, BreaksFacts DEF Register
  <2>3. UNCHANGED <<store, up, members, refusing, sessions, owner, enumerated,
                    pub, held, refused, took, truth>>
    BY <1>8 DEF Register, peers, posting, history
  <2> QED BY <1>1, <2>1, <2>2, <2>3 DEF TypeOK
<1>9. CASE Open(r)
  <2>1. PICK f \in Faults({r}) :
          /\ UNCHANGED store \/ InvalidateMembers({r}, f)
          /\ Breaks(f)
    BY <1>9 DEF Open, Faults
  <2>2. store' \in [ROs -> Stores]
    BY <2>1, InvalidateMembersFacts DEF TypeOK
  <2>3. broken' \subseteq ROs \cup {Catalogue}
    BY <2>1, BreaksFacts
  <2>4. members' \subseteq ROs /\ refusing' \subseteq ROs
    BY <1>9 DEF Open, Join, TypeOK
  <2>5. job' = Opened \/ job' = Idle
    BY <1>9 DEF Open, JobFails
  <2>6. Opened \in Jobs
    BY <1>2 DEF Opened, Jobs
  <2>7. UNCHANGED <<inv, up, sessions, owner, enumerated, pub, held, refused, took, truth>>
    BY <1>9 DEF Open, peers, posting, history
  <2> QED BY <1>1, <2>2, <2>3, <2>4, <2>5, <2>6, <2>7 DEF TypeOK
<1> QED BY <1>4, <1>5, <1>6, <1>7, <1>8, <1>9 DEF Provide

\* The step to the next row of a listing.
LEMMA NextRowFacts ==
    ASSUME job \in Jobs, NEW q \in job.todo
    PROVE  LET d == [job EXCEPT !.at = "provision", !.ro = {q}, !.todo = @ \ {q}]
           IN  /\ d \in Jobs /\ d.at = "provision" /\ d.msg = job.msg /\ d.ro = {q}
               /\ d.todo = job.todo \ {q}
<1> DEFINE ro == {q}
           todo == job.todo \ {q}
<1>1. ro \subseteq ROs /\ todo \subseteq ROs
  BY DEF Jobs
<1>2. [job EXCEPT !.at = "provision", !.ro = {q}, !.todo = @ \ {q}]
         = [job EXCEPT !.at = "provision", !.ro = ro, !.todo = todo]
  OBVIOUS
<1> HIDE DEF ro, todo
<1>3. LET d == [job EXCEPT !.at = "provision", !.ro = ro, !.todo = todo]
      IN  d \in Jobs /\ d.at = "provision" /\ d.msg = job.msg /\ d.ro = ro /\ d.todo = todo
  BY <1>1 DEF Jobs
<1> QED BY <1>2, <1>3 DEF ro, todo

\* The other steps of a job keep the types.
LEMMA JobTyped ==
    ASSUME TypeOK, Next, EnrolNext \/ UncoverAbsent \/ Certify \/ Refuse \/ Update
    PROVE  TypeOK'
<1>1. cat' \in Catalogues
  BY CatalogueTyped
<1>2. job \in Jobs /\ job.msg \in Msgs /\ job.ro \subseteq ROs /\ job.todo \subseteq ROs
  <2>1. job.at \in {"enrol", "absent", "certify", "refuse", "update"}
    BY DEF EnrolNext, UncoverAbsent, Certify, Refuse, Update
  <2>2. job \in Jobs
    BY <2>1 DEF TypeOK, Idle
  <2> QED BY <2>2 DEF Jobs
<1>3. CASE EnrolNext
  <2>1. job' \in Jobs
    <3>1. CASE job' = [job EXCEPT !.at = "absent"]
      BY <1>2, <3>1 DEF Jobs
    <3>2. CASE \E q \in job.todo : job' = [job EXCEPT !.at = "provision", !.ro = {q},
                                                      !.todo = @ \ {q}]
      BY <1>2, <3>2, NextRowFacts
    <3> QED BY <1>3, <3>1, <3>2 DEF EnrolNext
  <2>2. UNCHANGED <<inv, store, up, broken, members, refusing, sessions, owner, enumerated,
                    pub, held, refused, took, truth>>
    BY <1>3 DEF EnrolNext, files, peers, posting, history
  <2> QED BY <1>1, <2>1, <2>2 DEF TypeOK
<1>4. CASE UncoverAbsent
  <2>1. PICK f \in Faults(Gone(job.msg) \ broken) :
          (\E S \in SUBSET Gone(job.msg) : InvalidateMembers(S, f)) /\ Breaks(f)
    BY <1>4 DEF UncoverAbsent
  <2>2. Gone(job.msg) \subseteq ROs
    BY DEF Gone, TypeOK
  <2>3. store' \in [ROs -> Stores]
    BY <2>1, InvalidateMembersFacts
  <2>4. broken' \subseteq ROs \cup {Catalogue}
    BY <2>1, <2>2, BreaksFacts
  <2>5. job' = Idle \/ job' = [job EXCEPT !.at = "certify"]
    BY <1>4 DEF UncoverAbsent, JobFails
  <2>6. job' \in Jobs \cup {Idle}
    BY <1>2, <2>5 DEF Jobs
  <2>7. UNCHANGED <<inv, up, members, refusing, sessions, owner, enumerated, pub, held,
                    refused, took, truth>>
    BY <1>4 DEF UncoverAbsent, peers, posting, history
  <2> QED BY <1>1, <2>3, <2>4, <2>6, <2>7 DEF TypeOK
<1>5. CASE Certify
  <2>1. broken' \subseteq ROs \cup {Catalogue}
    BY <1>5, BreaksFacts DEF Certify
  <2>2. /\ enumerated' \in {"yes", "no"} /\ job' = Idle
        /\ truth' \in {truth, [known |-> "yes", rows |-> job.msg.rows]}
    BY <1>5 DEF Certify, TypeOK
  <2>3. truth' \in [known : {"yes", "no"}, rows : Rows]
    BY <1>2, <2>2, MessageFacts DEF TypeOK
  <2>4. UNCHANGED <<inv, store, up, members, refusing, sessions, owner, pub, held,
                    refused, took>>
    BY <1>5 DEF Certify, peers, posting, history
  <2> QED BY <1>1, <2>1, <2>2, <2>3, <2>4 DEF TypeOK
<1>6. CASE Refuse
  <2>1. PICK r \in job.ro : \E f \in Faults({r} \ broken) :
          /\ \/ UNCHANGED store
             \/ StoreWrite(r, [store[r] EXCEPT !.receipts = @ \cup Receipt(job.msg, "NACK")], f)
          /\ Breaks(f)
    BY <1>6 DEF Refuse
  <2>2. r \in ROs /\ store \in [ROs -> Stores] /\ Receipt(job.msg, "NACK") \subseteq Receipts
    BY <1>2, <2>1, ReceiptFacts DEF TypeOK
  <2>3. store' \in [ROs -> Stores]
    BY <2>1, <2>2 DEF StoreWrite, Stores
  <2>4. broken' \subseteq ROs \cup {Catalogue}
    BY <2>1, <2>2, BreaksFacts
  <2>5. refused' \subseteq Msgs /\ job' = Idle
    BY <1>2, <1>6 DEF Refuse, TypeOK
  <2>6. UNCHANGED <<inv, up, members, refusing, sessions, owner, enumerated, pub, held,
                    took, truth>>
    BY <1>6 DEF Refuse, peers, posting
  <2> QED BY <1>1, <2>3, <2>4, <2>5, <2>6 DEF TypeOK
<1>7. CASE Update
  <2>1. broken' \subseteq ROs \cup {Catalogue}
    BY <1>7, BreaksFacts DEF Update
  <2>2. enumerated' \in {"yes", "no"} /\ job' = Idle
    BY <1>7, InvalidateFacts DEF Update, TypeOK
  <2>3. UNCHANGED <<inv, store, up, members, refusing, sessions, owner, pub, held,
                    refused, took, truth>>
    BY <1>7 DEF Update, peers, posting, history
  <2> QED BY <1>1, <2>1, <2>2, <2>3 DEF TypeOK
<1> QED BY <1>3, <1>4, <1>5, <1>6, <1>7

\* The publisher keeps the types.
LEMMA PublisherTyped ==
    ASSUME TypeOK, Next, PublishOnce \/ Answer
    PROVE  TypeOK'
<1>1. cat' \in Catalogues
  BY CatalogueTyped
<1>2. Body(cat') \in Bodies
  BY <1>1 DEF Body, Bodies, Catalogues
<1>3. CASE PublishOnce
  <2>1. PICK f \in Uncertainty :
          /\ UNCHANGED store \/ InvalidateMembers(members, f)
          /\ UNCHANGED enumerated \/ InvalidateCatalogue(f)
          /\ Breaks(f)
    BY <1>3 DEF PublishOnce
  <2>2. store' \in [ROs -> Stores]
    BY <2>1, InvalidateMembersFacts DEF TypeOK
  <2>3. broken' \subseteq ROs \cup {Catalogue}
    BY <2>1, BreaksFacts DEF Uncertainty, TypeOK
  <2>4. enumerated' \in {"yes", "no"}
    BY <2>1, InvalidateFacts DEF TypeOK
  <2>5. truth' \in [known : {"yes", "no"}, rows : Rows]
    BY <1>3, NoRowsIsRows DEF PublishOnce, Unsure, TypeOK
  <2>6. sessions' \subseteq Sessions /\ owner' \in Sessions \cup {NoSession}
    BY <1>3 DEF PublishOnce, TypeOK
  <2>7. Post(Body(cat')) \/ UNCHANGED posting
    BY <1>3 DEF PublishOnce
  <2>8. held' \in Bodies /\ pub' \in [at : {"accepted", "conflict"}, copy : Bodies] \cup {Resting}
    BY <1>2, <2>7 DEF Post, posting, TypeOK
  <2>9. UNCHANGED <<inv, up, members, refusing, job, refused, took>>
    BY <1>3 DEF PublishOnce, history
  <2> QED BY <1>1, <2>2, <2>3, <2>4, <2>5, <2>6, <2>8, <2>9 DEF TypeOK
<1>4. CASE Answer
  <2>1. broken' \subseteq ROs \cup {Catalogue}
    BY <1>4, BreaksFacts DEF Answer
  <2>2. /\ pub' = Resting
        /\ UNCHANGED <<inv, store, up, members, refusing, sessions, owner, enumerated, job,
                       held, refused, took, truth>>
    BY <1>4 DEF Answer, peers, history
  <2> QED BY <1>1, <2>1, <2>2 DEF TypeOK
<1> QED BY <1>3, <1>4

\* Starts and crashes keep the types.
LEMMA ProcessTyped ==
    ASSUME TypeOK, Next, Start \/ StartFails \/ Crash
    PROVE  TypeOK'
<1>1. cat' \in Catalogues
  BY CatalogueTyped
<1>2. store' = store \/ \E S : store' = [r \in ROs |-> IF r \in S THEN Invalidated(store[r])
                                                                  ELSE store[r]]
  BY DEF Start, StartFails, Crash, files
<1>3. store' \in [ROs -> Stores]
  BY <1>2, InvalidatedFacts DEF TypeOK
<1>4. CASE Start
  <2>1. /\ members' \subseteq ROs /\ refusing' \subseteq ROs /\ up' = "yes"
        /\ UNCHANGED <<inv, broken, sessions, owner, enumerated, job, pub, held, refused,
                       took, truth>>
    BY <1>4 DEF Start, TypeOK, peers, posting, history
  <2> QED BY <1>1, <1>3, <2>1 DEF TypeOK
<1>5. CASE StartFails
  <2>1. UNCHANGED <<inv, up, broken, members, refusing, sessions, owner, enumerated, job,
                    pub, held, refused, took, truth>>
    BY <1>5 DEF StartFails, peers, posting, history
  <2> QED BY <1>1, <1>3, <2>1 DEF TypeOK
<1>6. CASE Crash
  <2>1. /\ up' = "no" /\ broken' = {} /\ members' = {} /\ refusing' = {} /\ sessions' = {}
        /\ owner' = NoSession /\ enumerated' = "no" /\ job' = Idle /\ pub' = Resting
        /\ truth' = Unsure
        /\ UNCHANGED <<inv, held, refused, took>>
    BY <1>6 DEF Crash, files, history
  <2> QED BY <1>1, <1>3, <2>1, NoRowsIsRows DEF TypeOK, Unsure
<1> QED BY <1>4, <1>5, <1>6

\* Every step keeps the types.
LEMMA TypeStep == TypeOK /\ [Next]_vars => TypeOK'
<1> SUFFICES ASSUME TypeOK, [Next]_vars PROVE TypeOK'
  OBVIOUS
<1>1. CASE UNCHANGED vars
  BY <1>1 DEF vars, TypeOK
<1>2. CASE Next
  BY <1>2, ProcessTyped, ConnectionTyped, ReceiveTyped, ProvideTyped, JobTyped, PublisherTyped
  DEF Next
<1> QED BY <1>1, <1>2

\* The first state has the types.
LEMMA TypeInit == Init => TypeOK
<1>1. NewCatalogue \in Catalogues /\ Body(NewCatalogue) \in Bodies
  BY NoRowsIsRows, SetAssumption DEF NewCatalogue, Catalogues, Body, Bodies
<1>2. NoStore \in Stores
  BY DEF NoStore, Stores
<1> QED BY <1>1, <1>2, NoRowsIsRows DEF Init, TypeOK, Unsure, Idle, Resting

\* Every variable keeps its type; the catalogue's revision stays within the
\* limit (reviseCatalogue).
THEOREM SetTypeOK == Spec => []TypeOK
  BY TypeInit, TypeStep, PTL DEF Spec

-----------------------------------------------------------------------------
(* Delivery: revisions grow, and what is posted is what is in the file.    *)

\* The next revision, or the same body; and only an answer to the publisher
\* halts the catalogue or counts as its acceptance.
LEMMA CatalogueForward ==
    ASSUME TypeOK, Next
    PROVE  /\ Body(cat') = Body(cat) \/ cat'.rev = cat.rev + 1
           /\ \/ Recorded
              \/ cat' = cat
              \/ cat.halted = "no" /\ cat'.halted = "no" /\ cat'.accepted = cat.accepted
  BY CatalogueStep DEF CatalogueMoves, Withdrawn, Rewritten, Recorded

\* The publisher posts the body that is in the file.
LEMMA PostingStep ==
    ASSUME TypeOK, Next
    PROVE  \/ UNCHANGED posting
           \/ pub' = Resting /\ held' = held
           \/ cat'.halted = "no" /\ cat'.accepted = cat.accepted /\ Post(Body(cat'))
<1>1. CASE PublishOnce
  <2>1. PICK f \in Uncertainty :
          /\ InvalidateCatalogue(f) \/ UNCHANGED cat
          /\ (cat.halted = "no" /\ Post(Body(cat'))) \/ UNCHANGED posting
    BY <1>1 DEF PublishOnce
  <2>2. cat' = cat \/ Withdrawn
    BY <2>1, InvalidateFacts
  <2> QED BY <2>1, <2>2 DEF Withdrawn
<1>2. CASE Answer \/ Crash
  BY <1>2 DEF Answer, Crash
<1>3. CASE Start \/ StartFails \/ EnrolNext \/ UncoverAbsent \/ Certify \/ Refuse \/ Update
  BY <1>3 DEF Start, StartFails, EnrolNext, UncoverAbsent, Certify, Refuse, Update
<1>4. CASE \E s \in Sessions : Observe(s) \/ Disconnected(s) \/ Uncertain(s)
  BY <1>4 DEF Observe, Disconnected, Uncertain
<1>5. CASE \E s \in Sessions, m \in Msgs : Receive(s, m)
  <2>1. PICK s \in Sessions, m \in Msgs : Receive(s, m)
    BY <1>5
  <2>2. CASE ReceiveUnknown(s, m) \/ ReceiveEnrolled(s, m)
    BY <2>2, UnknownFacts, EnrolledFacts DEF posting
  <2> QED BY <2>1, <2>2 DEF Receive, ReceiveCrossed, ReceiveReused, ReceiveUnacceptable,
                            ReceiveListing
<1>6. CASE \E r \in ROs : Provide(r)
  BY <1>6 DEF Provide, ProvideSettled, ProvideFull, Stage, Install, Register, Open
<1> QED BY <1>1, <1>2, <1>3, <1>4, <1>5, <1>6 DEF Next

\* The receiver stays behind the file or level with it.
LEMMA DeliveryStep ==
    ASSUME TypeOK, DeliveryInOrder, Next
    PROVE  /\ DeliveryInOrder'
           /\ held' # held => held.rev < held'.rev
<1>1. /\ cat.rev \in Nat /\ cat.accepted \in Nat /\ held.rev \in Nat
      /\ Body(cat).rev = cat.rev /\ Body(cat').rev = cat'.rev
      /\ pub.at = "accepted" => pub.copy.rev \in Nat
  BY SetAssumption DEF TypeOK, Catalogues, Bodies, Body, Resting
<1>2. Body(cat') = Body(cat) \/ cat'.rev = cat.rev + 1
  BY CatalogueForward
<1>3. held.rev <= cat'.rev /\ (held.rev = cat'.rev => held = Body(cat'))
  BY <1>1, <1>2 DEF DeliveryInOrder
<1>4. CASE pub' = Resting /\ held' = held
  <2>1. cat'.accepted <= held.rev
    BY <1>1, CatalogueForward DEF Recorded, DeliveryInOrder
  <2> QED BY <1>3, <1>4, <2>1 DEF DeliveryInOrder, Resting
<1>5. CASE UNCHANGED posting /\ pub # Resting
  <2>1. ~Recorded
    BY <1>5 DEF Recorded, posting
  <2>2. cat'.halted = "no" /\ cat'.accepted = cat.accepted
    BY <1>5, <2>1, CatalogueForward DEF DeliveryInOrder
  <2> QED BY <1>3, <1>5, <2>2 DEF DeliveryInOrder, posting
<1>6. CASE cat'.halted = "no" /\ cat'.accepted = cat.accepted /\ Post(Body(cat'))
  <2>1. held' \in {held, Body(cat')} /\ (pub'.at = "accepted" => pub'.copy.rev <= held'.rev)
    BY <1>1, <1>2, <1>6 DEF Post, Resting
  <2>2. held.rev <= held'.rev /\ held'.rev <= cat'.rev /\ (held'.rev = cat'.rev => held' = Body(cat'))
    BY <1>1, <1>2, <1>3, <2>1
  <2>3. cat'.accepted <= held'.rev
    BY <1>1, <1>2, <1>3, <1>6, <2>1, <2>2 DEF DeliveryInOrder
  <2>4. held' # held => held.rev < held'.rev
    BY <1>1, <1>2, <1>3, <2>1, <2>2
  <2> QED BY <1>6, <2>1, <2>2, <2>3, <2>4 DEF DeliveryInOrder
<1> QED BY <1>4, <1>5, <1>6, PostingStep DEF posting

\* It begins so.
LEMMA DeliveryInit == Init => DeliveryInOrder
  BY DEF Init, DeliveryInOrder, NewCatalogue, Body, Resting

\* Delivery is in order throughout.
LEMMA DeliveryInvariant == Spec => []DeliveryInOrder
<1>1. TypeOK /\ DeliveryInOrder /\ [Next]_vars => DeliveryInOrder'
  <2>1. CASE UNCHANGED vars
    BY <2>1 DEF vars, DeliveryInOrder, Body
  <2> QED BY <2>1, DeliveryStep
<1> QED BY <1>1, DeliveryInit, SetTypeOK, PTL DEF Spec

\* The receiver never gets two bodies of one revision of the catalogue, nor
\* an older one after a newer, across restarts and failed writes, and what
\* is recorded as accepted it got (publishCatalogueOnce).
THEOREM CataloguePostsForward == Spec => PostsForward
<1>1. TypeOK /\ DeliveryInOrder /\ [Next]_vars
        => [/\ held' # held => held.rev < held'.rev
            /\ cat'.accepted <= held'.rev]_vars
  BY DeliveryStep DEF DeliveryInOrder
<1> QED BY <1>1, SetTypeOK, DeliveryInvariant, PTL DEF Spec, PostsForward

\* After a conflict nothing changes the catalogue: every commit refuses, and
\* no answer is outstanding (publishCatalogueOnce, reviseCatalogue).
THEOREM CatalogueHaltedIsFrozen == Spec => HaltedIsFrozen
<1>1. TypeOK /\ DeliveryInOrder /\ [Next]_vars => [cat.halted = "yes" => cat' = cat]_vars
  <2> SUFFICES ASSUME TypeOK, DeliveryInOrder, Next, cat.halted = "yes" PROVE cat' = cat
    OBVIOUS
  <2>1. ~Recorded
    BY DEF Recorded, DeliveryInOrder, Resting
  <2> QED BY <2>1, CatalogueForward
<1> QED BY <1>1, SetTypeOK, DeliveryInvariant, PTL DEF Spec, HaltedIsFrozen

-----------------------------------------------------------------------------
(* Retention: what is on disk, and what a process has open of it.          *)

\* Stores keep their place and their receipts, and those in S may come into
\* use.
Keeps(S) ==
    /\ store' \in [ROs -> Stores]
    /\ \A r \in ROs : /\ store'[r].at = store[r].at
                      /\ store'[r].receipts = store[r].receipts
                      /\ store'[r].used = store[r].used \/ (r \in S /\ store'[r].used = "yes")

\* Stores that are left alone, or invalidated, are kept.
LEMMA KeepsFacts ==
    ASSUME TypeOK, NEW S, UNCHANGED store \/ \E f : InvalidateMembers(S, f)
    PROVE  Keeps(S)
<1>1. CASE UNCHANGED store
  BY <1>1 DEF Keeps, TypeOK
<1>2. ASSUME NEW f, InvalidateMembers(S, f) PROVE Keeps(S)
  <2>1. /\ store' \in [ROs -> Stores]
        /\ \A r \in ROs : store'[r] = store[r] \/ (r \in S /\ store'[r] = Invalidated(store[r]))
    BY <1>2, InvalidateMembersFacts
  <2>2. \A r \in ROs : store[r] \in Stores
    BY DEF TypeOK
  <2> QED BY <2>1, <2>2, InvalidatedFacts DEF Keeps
<1> QED BY <1>1, <1>2

\* The steps that change neither the inventory nor what is open of it.
Steady ==
    \/ \E s \in Sessions : Observe(s) \/ Disconnected(s) \/ Uncertain(s)
    \/ \E s \in Sessions, m \in Msgs :
          \/ ReceiveCrossed(s, m) \/ ReceiveReused(s, m) \/ ReceiveUnacceptable(s, m)
          \/ ReceiveListing(s, m) \/ ReceiveUnknown(s, m)
    \/ \E r \in ROs : ProvideSettled(r) \/ ProvideFull(r)
    \/ EnrolNext \/ UncoverAbsent \/ Certify \/ Update \/ PublishOnce \/ Answer

\* They keep the stores, but for the use and coverage of members.
LEMMA SteadyFacts ==
    ASSUME TypeOK, up = "no" => job = Idle, Steady
    PROVE  /\ Keeps(members) /\ up = "yes"
           /\ UNCHANGED <<inv, up, members, refusing, refused, took>>
<1>1. CASE \E s \in Sessions : Observe(s) \/ Disconnected(s) \/ Uncertain(s)
  <2>1. UNCHANGED store \/ \E f : InvalidateMembers(members, f)
    BY <1>1 DEF Observe, Disconnected, Uncertain, UncertainNow
  <2>2. up = "yes" /\ UNCHANGED <<inv, up, members, refusing, refused, took>>
    BY <1>1 DEF Observe, Disconnected, Uncertain, Running, history
  <2> QED BY <2>1, <2>2, KeepsFacts
<1>2. ASSUME NEW s \in Sessions, NEW m \in Msgs,
             ReceiveCrossed(s, m) \/ ReceiveReused(s, m)
      PROVE  /\ Keeps(members) /\ up = "yes"
             /\ UNCHANGED <<inv, up, members, refusing, refused, took>>
  <2>1. \E f : InvalidateMembers(members, f)
    BY <1>2 DEF ReceiveCrossed, ReceiveReused, UncertainNow
  <2>2. up = "yes" /\ UNCHANGED <<inv, up, members, refusing, refused, took>>
    BY <1>2 DEF ReceiveCrossed, ReceiveReused, Accepting, Running, history
  <2> QED BY <2>1, <2>2, KeepsFacts
<1>3. ASSUME NEW s \in Sessions, NEW m \in Msgs,
             ReceiveUnacceptable(s, m) \/ ReceiveListing(s, m)
      PROVE  /\ Keeps(members) /\ up = "yes"
             /\ UNCHANGED <<inv, up, members, refusing, refused, took>>
  <2>1. up = "yes" /\ UNCHANGED <<store, inv, up, members, refusing, refused, took>>
    BY <1>3 DEF ReceiveUnacceptable, ReceiveListing, NewListing, Accepting, Running,
                files, history
  <2> QED BY <2>1, KeepsFacts
<1>4. ASSUME NEW s \in Sessions, NEW m \in Msgs, ReceiveUnknown(s, m)
      PROVE  /\ Keeps(members) /\ up = "yes"
             /\ UNCHANGED <<inv, up, members, refusing, refused, took>>
  <2>1. up = "yes" /\ UNCHANGED <<store, inv, up, members, refusing, refused, took>>
    BY <1>4, UnknownFacts DEF Running
  <2> QED BY <2>1, KeepsFacts
<1>5. CASE \E r \in ROs : ProvideSettled(r) \/ ProvideFull(r)
  <2>1. job # Idle /\ UNCHANGED <<store, inv, up, members, refusing, refused, took>>
    BY <1>5 DEF ProvideSettled, ProvideFull, Providing, Idle, files, history
  <2> QED BY <2>1, KeepsFacts DEF TypeOK
<1>6. CASE EnrolNext \/ Certify \/ Update
  <2>1. job.at \in {"enrol", "certify", "update"}
    BY <1>6 DEF EnrolNext, Certify, Update
  <2>2. UNCHANGED <<store, inv, up, members, refusing, refused, took>>
    BY <1>6 DEF EnrolNext, Certify, Update, files, history
  <2> QED BY <2>1, <2>2, KeepsFacts DEF TypeOK, Idle
<1>7. CASE UncoverAbsent
  <2>1. PICK S \in SUBSET Gone(job.msg) : \E f : InvalidateMembers(S, f)
    BY <1>7 DEF UncoverAbsent
  <2>2. Keeps(S)
    BY <2>1, KeepsFacts
  <2>3. Keeps(members)
    BY <2>1, <2>2 DEF Keeps, Gone
  <2>4. job # Idle /\ UNCHANGED <<inv, up, members, refusing, refused, took>>
    BY <1>7 DEF UncoverAbsent, Idle, history
  <2> QED BY <2>3, <2>4 DEF TypeOK
<1>8. CASE PublishOnce \/ Answer
  <2>1. UNCHANGED store \/ \E f : InvalidateMembers(members, f)
    BY <1>8 DEF PublishOnce, Answer
  <2>2. up = "yes" /\ UNCHANGED <<inv, up, members, refusing, refused, took>>
    BY <1>8 DEF PublishOnce, Answer, Running, history
  <2> QED BY <2>1, <2>2, KeepsFacts
<1> QED BY <1>1, <1>2, <1>3, <1>4, <1>5, <1>6, <1>7, <1>8 DEF Steady

\* Every step is one of these, a start or a crash, a step that retains a
\* rundown, or writes the receipt of a message.
LEMMA Steps ==
    ASSUME Next
    PROVE  \/ Steady \/ Start \/ StartFails \/ Crash \/ Refuse
           \/ \E r \in ROs : Stage(r) \/ Install(r) \/ Register(r) \/ Open(r)
           \/ \E s \in Sessions, m \in Msgs : ReceiveEnrolled(s, m)
  BY DEF Next, Receive, Provide, Steady

\* Starts and crashes.
LEMMA ProcessRetention ==
    ASSUME TypeOK, TypeOK', Retention, Start \/ StartFails \/ Crash
    PROVE  Retention' /\ Keeps(inv.ids) /\ UNCHANGED <<inv, refused, took>> /\ job' = Idle
<1>1. store \in [ROs -> Stores] /\ inv.ids \subseteq ROs
  BY DEF TypeOK
<1>2. PICK S \in SUBSET inv.ids :
         /\ store' = store \/ store' = [r \in ROs |-> IF r \in S THEN Invalidated(store[r])
                                                                 ELSE store[r]]
         /\ Start => S = inv.ids
         /\ Start => store' = [r \in ROs |-> IF r \in S THEN Invalidated(store[r])
                                                                 ELSE store[r]]
  BY DEF Start, StartFails, Crash, files
<1>3. \A r \in ROs : store'[r] = store[r] \/ (r \in S /\ store'[r] = Invalidated(store[r]))
  BY <1>1, <1>2
<1>4. Start => \A r \in inv.ids : store'[r] = Invalidated(store[r])
  BY <1>1, <1>2
<1>5. Keeps(inv.ids)
  <2>1. \A r \in ROs : store[r] \in Stores
    BY <1>1
  <2>2. store' \in [ROs -> Stores]
    BY DEF TypeOK
  <2> QED BY <1>2, <1>3, <2>1, <2>2, InvalidatedFacts DEF Keeps
<1>6. Start => \A r \in inv.ids : store'[r].used = "yes"
  BY <1>1, <1>4, InvalidatedFacts
<1>7. UNCHANGED <<inv, refused, took>> /\ job' = Idle
  BY DEF Start, StartFails, Crash, files, history, Retention
<1>8. Resumable'
  BY <1>1, <1>5, <1>7 DEF Retention, Resumable, Keeps
<1>9. CASE Start
  <2>1. members' = inv.ids \ inv.unenrolled /\ refusing' = inv.unenrolled /\ up' = "yes"
    BY <1>9 DEF Start
  <2>2. inv.unenrolled \subseteq inv.ids
    BY DEF Retention, Resumable
  <2> QED BY <1>5, <1>6, <1>7, <1>8, <1>9, <2>1, <2>2 DEF Retention, Retained
<1>10. CASE StartFails \/ Crash
  <2>1. members' = {} /\ refusing' = {}
    BY <1>10 DEF StartFails, Crash, Retention
  <2> QED BY <1>5, <1>7, <1>8, <2>1 DEF Retention, Retained
<1> QED BY <1>9, <1>10

\* A store is staged or installed: no rundown of the inventory.
LEMMA PlaceFacts ==
    ASSUME TypeOK, Retention, NEW r \in ROs, Stage(r) \/ Install(r)
    PROVE  /\ r \notin inv.ids /\ Providing(r) /\ job' \in {job, Idle}
           /\ \A q \in ROs : /\ q # r => store'[q] = store[q]
                             /\ store'[q].used = store[q].used
                             /\ store'[q].covered = store[q].covered
                             /\ store'[q].receipts = store[q].receipts
           /\ UNCHANGED <<inv, up, members, refusing, refused, took>>
<1>1. store \in [ROs -> Stores] /\ Providing(r)
  BY DEF Stage, Install, TypeOK
<1>2. store[r].at # "installed"
  BY DEF Stage, Install
<1>3. store' = store \/ \E at : store' = [store EXCEPT ![r].at = at]
  BY DEF Stage, Install
<1>4. \A q \in ROs : /\ q # r => store'[q] = store[q]
                     /\ store'[q].used = store[q].used
                     /\ store'[q].covered = store[q].covered
                     /\ store'[q].receipts = store[q].receipts
  BY <1>1, <1>3 DEF Stores
<1>5. job' \in {job, Idle} /\ UNCHANGED <<inv, up, members, refusing, refused, took>>
  BY DEF Stage, Install, JobFails, history
<1> QED BY <1>1, <1>2, <1>4, <1>5 DEF Retention, Resumable

\* A rundown is registered only with its store installed, and only an
\* enrolled one leaves the unenrolled.
LEMMA RegisterFacts ==
    ASSUME TypeOK, Retention, NEW r \in ROs, Register(r)
    PROVE  /\ Providing(r) /\ job' \in {job, Idle}
           /\ store[r].at = "installed"
           /\ \/ inv' = inv
              \/ /\ inv'.ids = inv.ids \cup {r}
                 /\ \/ Enrolling /\ inv'.unenrolled = inv.unenrolled \ {r}
                    \/ r \notin inv.ids /\ inv'.unenrolled = inv.unenrolled \cup {r}
                 /\ IsFiniteSet(inv'.ids) /\ Cardinality(inv'.ids) <= Limit
           /\ UNCHANGED <<store, up, members, refusing, refused, took>>
<1>1. /\ Providing(r) /\ job' \in {job, Idle} /\ store[r].at = "installed"
      /\ Room(r) /\ ~Settled(r) /\ inv' \in {inv, Registered(r)}
      /\ UNCHANGED <<store, up, members, refusing, refused, took>>
  BY DEF Register, history
<1>2. IsFiniteSet(inv.ids \cup {r}) /\ Cardinality(inv.ids \cup {r}) <= Limit
  <2>1. IsFiniteSet(inv.ids) /\ Cardinality(inv.ids) <= Limit /\ Cardinality(inv.ids) \in Nat
    BY FS_CardinalityType DEF Retention, Resumable
  <2>2. CASE r \in inv.ids
    <3>1. inv.ids \cup {r} = inv.ids
      BY <2>2
    <3> QED BY <2>1, <3>1
  <2>3. CASE r \notin inv.ids
    <3>1. IsFiniteSet(inv.ids \cup {r}) /\ Cardinality(inv.ids \cup {r}) = Cardinality(inv.ids) + 1
      BY <2>1, <2>3, FS_AddElement
    <3>2. Cardinality(inv.ids) < Limit
      BY <1>1, <2>3 DEF Room
    <3> QED BY <2>1, <3>1, <3>2, SetAssumption
  <2> QED BY <2>2, <2>3
<1>3. ~Enrolling => r \notin inv.ids
  BY <1>1 DEF Settled
<1> QED BY <1>1, <1>2, <1>3 DEF Registered

\* A store is opened: its rundown joins, or the job fails.
LEMMA OpenFacts ==
    ASSUME TypeOK, NEW r \in ROs, Open(r)
    PROVE  /\ job.at = "open" /\ job.ro = {r} /\ Keeps({r})
           /\ \/ job' = Idle /\ UNCHANGED <<members, refusing>>
              \/ job' = Opened /\ Join(r) /\ (r \in refusing \/ store'[r].used = "yes")
           /\ UNCHANGED <<inv, up, refused, took>>
<1>1. PICK f \in Faults(IF r \in refusing THEN {} ELSE {r}) :
        /\ IF r \in refusing THEN f = NoFault /\ UNCHANGED store
                             ELSE InvalidateMembers({r}, f)
        /\ IF f = NoFault /\ (r \in refusing \/ r \notin broken)
              THEN Join(r) /\ job' = Opened /\ UNCHANGED cat
              ELSE UNCHANGED <<members, refusing>> /\ JobFails(NoFault)
  BY DEF Open
<1>2. Keeps({r})
  BY <1>1, KeepsFacts
<1>3. job.at = "open" /\ job.ro = {r} /\ UNCHANGED <<inv, up, refused, took>>
  BY DEF Open, history
<1>4. CASE f = NoFault /\ (r \in refusing \/ r \notin broken)
  <2>1. r \notin refusing => store'[r] = Invalidated(store[r])
    BY <1>1, <1>4, InvalidateMembersFacts
  <2>2. r \notin refusing => store'[r].used = "yes"
    BY <2>1, InvalidatedFacts DEF TypeOK
  <2> QED BY <1>1, <1>2, <1>3, <1>4, <2>2
<1>5. CASE ~(f = NoFault /\ (r \in refusing \/ r \notin broken))
  BY <1>1, <1>2, <1>3, <1>5 DEF JobFails
<1> QED BY <1>4, <1>5

\* A refusal is written to the store it was provided with.
LEMMA RefuseFacts ==
    ASSUME TypeOK, Refuse
    PROVE  \E r \in job.ro :
             /\ r \in ROs /\ job.msg \in Msgs /\ job \in Jobs /\ job.at = "refuse" /\ job' = Idle
             /\ \A q \in ROs \ {r} : store'[q] = store[q]
             /\ store'[r].at = store[r].at /\ store'[r].used = store[r].used
             /\ store[r].receipts \subseteq store'[r].receipts
             /\ store'[r].receipts \subseteq store[r].receipts \cup Receipt(job.msg, "NACK")
             /\ \/ refused' = refused
                \/ /\ refused' = refused \cup {job.msg}
                   /\ Receipt(job.msg, "NACK") \subseteq store'[r].receipts
             /\ UNCHANGED <<inv, up, members, refusing, took>>
<1>1. job.at = "refuse" /\ job \in Jobs
  BY DEF Refuse, TypeOK, Idle
<1>2. job.msg \in Msgs /\ job.ro \subseteq ROs
  BY <1>1 DEF Jobs
<1>3. PICK r \in job.ro : \E f \in Faults({r} \ broken) :
        /\ IF r \in broken THEN UNCHANGED store
           ELSE StoreWrite(r, [store[r] EXCEPT !.receipts = @ \cup Receipt(job.msg, "NACK")], f)
        /\ refused' = IF r \in broken \/ f # NoFault THEN refused
                                                    ELSE refused \cup {job.msg}
  BY DEF Refuse
<1> DEFINE new == Receipt(job.msg, "NACK")
           next == [store[r] EXCEPT !.receipts = @ \cup new]
<1>4. r \in ROs /\ store \in [ROs -> Stores] /\ store[r] \in Stores
  BY <1>2, <1>3 DEF TypeOK
<1>5. store' = store \/ store' = [store EXCEPT ![r] = next]
  BY <1>3, <1>4 DEF StoreWrite
<1>6. refused' # refused => refused' = refused \cup {job.msg} /\ store' = [store EXCEPT ![r] = next]
  BY <1>3, <1>4, SetAssumption DEF StoreWrite, NoFault
<1> HIDE DEF new
<1>7. /\ next.at = store[r].at /\ next.used = store[r].used
      /\ next.receipts = store[r].receipts \cup new
  BY <1>4 DEF Stores
<1> HIDE DEF next
<1>8. /\ \A q \in ROs \ {r} : store'[q] = store[q]
      /\ store'[r] \in {store[r], next}
      /\ refused' # refused => refused' = refused \cup {job.msg} /\ store'[r] = next
  BY <1>4, <1>5, <1>6
<1>9. job' = Idle /\ UNCHANGED <<inv, up, members, refusing, took>>
  BY DEF Refuse
<1> QED BY <1>1, <1>2, <1>3, <1>4, <1>7, <1>8, <1>9 DEF new

\* What every step leaves of the files: a store stays where it is once it is
\* installed, and in use; it keeps its receipts; it comes into use only when
\* it is in the inventory; and no enrolled rundown becomes unenrolled.
LEMMA FilesStep ==
    ASSUME TypeOK, TypeOK', Retention, EnrolmentInOrder, Next
    PROVE  /\ \A r \in ROs :
                /\ store[r].at = "installed" => store'[r].at = "installed"
                /\ store'[r].used = store[r].used \/ (r \in inv.ids /\ store'[r].used = "yes")
                /\ store[r].receipts \subseteq store'[r].receipts
           /\ inv.ids \subseteq inv'.ids
           /\ inv.ids \ inv.unenrolled \subseteq inv'.ids \ inv'.unenrolled
<1> DEFINE Kept == \A r \in ROs :
                /\ store[r].at = "installed" => store'[r].at = "installed"
                /\ store'[r].used = store[r].used \/ (r \in inv.ids /\ store'[r].used = "yes")
                /\ store[r].receipts \subseteq store'[r].receipts
           Listed == /\ inv.ids \subseteq inv'.ids
                     /\ inv.ids \ inv.unenrolled \subseteq inv'.ids \ inv'.unenrolled
<1>0. members \subseteq inv.ids /\ (up = "no" => job = Idle) /\ store \in [ROs -> Stores]
  BY DEF Retention, TypeOK
<1>1. CASE Steady
  <2>1. Keeps(members) /\ UNCHANGED inv
    BY <1>0, <1>1, SteadyFacts
  <2> QED BY <1>0, <2>1 DEF Keeps
<1>2. CASE Start \/ StartFails \/ Crash
  <2>1. Keeps(inv.ids) /\ UNCHANGED inv
    BY <1>2, ProcessRetention
  <2> QED BY <2>1 DEF Keeps
<1>3. CASE Refuse
  <2>1. PICK r \in ROs :
             /\ \A q \in ROs \ {r} : store'[q] = store[q]
             /\ store'[r].at = store[r].at /\ store'[r].used = store[r].used
             /\ store[r].receipts \subseteq store'[r].receipts
             /\ UNCHANGED inv
    BY <1>3, RefuseFacts
  <2> QED BY <2>1
<1>4. CASE \E r \in ROs : Stage(r) \/ Install(r)
  <2>1. PICK r \in ROs : Stage(r) \/ Install(r)
    BY <1>4
  <2>2. r \notin inv.ids /\ UNCHANGED inv
    BY <2>1, PlaceFacts
  <2>3. Kept
    <3>1. store[r].at # "installed"
      BY <2>1 DEF Stage, Install
    <3> QED BY <2>1, <3>1, PlaceFacts
  <2> QED BY <2>2, <2>3
<1>5. CASE \E r \in ROs : Register(r)
  <2>1. PICK r \in ROs : Register(r)
    BY <1>5
  <2>2. UNCHANGED store
    BY <2>1, RegisterFacts
  <2>3. Listed
    BY <2>1, RegisterFacts
  <2> QED BY <2>2, <2>3
<1>6. CASE \E r \in ROs : Open(r)
  <2>1. PICK r \in ROs : Open(r)
    BY <1>6
  <2>2. Keeps({r}) /\ r \in inv.ids /\ UNCHANGED inv
    BY <2>1, OpenFacts DEF EnrolmentInOrder
  <2> QED BY <2>2 DEF Keeps
<1>7. CASE \E s \in Sessions, m \in Msgs : ReceiveEnrolled(s, m)
  <2>1. PICK s \in Sessions, m \in Msgs : ReceiveEnrolled(s, m)
    BY <1>7
  <2>2. PICK r \in members :
             /\ r \in ROs
             /\ \A q \in ROs \ {r} : store'[q] = store[q]
             /\ store'[r] \in {store[r], Inapplicable(store[r], m), Applied(store[r], m)}
             /\ UNCHANGED inv
    BY <2>1, EnrolledFacts
  <2>3. store[r] \in Stores /\ r \in inv.ids
    BY <1>0, <2>2
  <2>4. /\ store'[r].at = store[r].at /\ store'[r].used \in {store[r].used, "yes"}
        /\ store[r].receipts \subseteq store'[r].receipts
    BY <2>2, <2>3, AppliedFacts, InapplicableFacts
  <2> QED BY <2>2, <2>3, <2>4
<1> QED BY <1>1, <1>2, <1>3, <1>4, <1>5, <1>6, <1>7, Steps

\* What a running process has open grows only when a store is opened.
LEMMA Membership ==
    ASSUME TypeOK, Retention, Next, ~(Start \/ StartFails \/ Crash)
    PROVE  /\ UNCHANGED up /\ up = "yes"
           /\ \/ UNCHANGED <<members, refusing>>
              \/ \E r \in ROs : /\ Open(r) /\ Join(r) /\ job.at = "open" /\ job.ro = {r}
                                /\ r \in refusing \/ store'[r].used = "yes"
<1>1. up = "no" => job = Idle
  BY DEF Retention
<1>2. UNCHANGED up /\ up = "yes"
  <2>1. CASE Steady
    BY <1>1, <2>1, SteadyFacts
  <2>2. CASE Refuse
    BY <1>1, <2>2, RefuseFacts DEF TypeOK, Idle
  <2>3. CASE \E r \in ROs : Stage(r) \/ Install(r) \/ Register(r) \/ Open(r)
    <3>1. job # Idle
      BY <2>3 DEF Stage, Install, Register, Open, Providing, Idle
    <3>2. UNCHANGED up
      BY <2>3 DEF Stage, Install, Register, Open
    <3> QED BY <1>1, <3>1, <3>2 DEF TypeOK
  <2>4. CASE \E s \in Sessions, m \in Msgs : ReceiveEnrolled(s, m)
    BY <2>4, EnrolledFacts DEF Running
  <2> QED BY <2>1, <2>2, <2>3, <2>4, Steps
<1>3. \/ UNCHANGED <<members, refusing>>
      \/ \E r \in ROs : /\ Open(r) /\ Join(r) /\ job.at = "open" /\ job.ro = {r}
                        /\ r \in refusing \/ store'[r].used = "yes"
  <2>1. CASE Steady
    BY <1>1, <2>1, SteadyFacts
  <2>2. CASE Refuse
    BY <2>2, RefuseFacts
  <2>3. CASE \E r \in ROs : Stage(r) \/ Install(r) \/ Register(r)
    BY <2>3, PlaceFacts, RegisterFacts
  <2>4. CASE \E r \in ROs : Open(r)
    BY <2>4, OpenFacts
  <2>5. CASE \E s \in Sessions, m \in Msgs : ReceiveEnrolled(s, m)
    BY <2>5, EnrolledFacts
  <2> QED BY <2>1, <2>2, <2>3, <2>4, <2>5, Steps
<1> QED BY <1>2, <1>3

\* Every step keeps what is retained in order.
LEMMA RetentionStep ==
    ASSUME TypeOK, TypeOK', Retention, EnrolmentInOrder, Next
    PROVE  Retention'
<1>1. CASE Start \/ StartFails \/ Crash
  BY <1>1, ProcessRetention
<1>2. CASE ~(Start \/ StartFails \/ Crash)
  <2>0. store \in [ROs -> Stores] /\ inv.ids \subseteq ROs /\ inv'.ids \subseteq ROs
        /\ members \subseteq ROs /\ refusing \subseteq ROs
    BY DEF TypeOK
  <2>1. /\ up = "no" => job = Idle
        /\ members \subseteq inv.ids \ inv.unenrolled /\ refusing \subseteq inv.ids
        /\ inv.unenrolled \subseteq inv.ids
    BY DEF Retention, Resumable
  <2>2. UNCHANGED up /\ up = "yes"
    BY <1>2, Membership
  <2>3. \/ UNCHANGED <<members, refusing>>
        \/ \E r \in ROs : /\ Open(r) /\ Join(r) /\ job.at = "open" /\ job.ro = {r}
                          /\ r \in refusing \/ store'[r].used = "yes"
    BY <1>2, Membership
  <2>4. \/ UNCHANGED inv
        \/ \E r \in ROs : /\ Register(r) /\ store[r].at = "installed"
                          /\ inv'.ids = inv.ids \cup {r}
                          /\ \/ Enrolling /\ inv'.unenrolled = inv.unenrolled \ {r}
                             \/ r \notin inv.ids /\ inv'.unenrolled = inv.unenrolled \cup {r}
                          /\ IsFiniteSet(inv'.ids) /\ Cardinality(inv'.ids) <= Limit
    <3>1. CASE Steady
      BY <2>1, <3>1, SteadyFacts
    <3>2. CASE Refuse
      BY <3>2, RefuseFacts
    <3>3. CASE \E r \in ROs : Stage(r) \/ Install(r) \/ Open(r)
      BY <3>3, PlaceFacts, OpenFacts
    <3>4. CASE \E r \in ROs : Register(r)
      BY <3>4, RegisterFacts
    <3>5. CASE \E s \in Sessions, m \in Msgs : ReceiveEnrolled(s, m)
      BY <3>5, EnrolledFacts
    <3> QED BY <1>2, <3>1, <3>2, <3>3, <3>4, <3>5, Steps
  <2>5. /\ \A r \in ROs :
             /\ store[r].at = "installed" => store'[r].at = "installed"
             /\ store'[r].used = store[r].used \/ (r \in inv.ids /\ store'[r].used = "yes")
        /\ inv.ids \subseteq inv'.ids
        /\ inv.ids \ inv.unenrolled \subseteq inv'.ids \ inv'.unenrolled
    BY FilesStep
  <2>6. Resumable' /\ IsFiniteSet(inv'.ids)
    <3>1. \A r \in inv'.ids : store'[r].at = "installed"
      BY <2>0, <2>4, <2>5 DEF Retention, Resumable
    <3>2. Cardinality(inv'.ids) <= Limit /\ IsFiniteSet(inv'.ids)
      BY <2>4 DEF Retention, Resumable
    <3>3. inv'.unenrolled \subseteq inv'.ids
      BY <2>1, <2>4
    <3>4. \A r \in ROs \ inv'.ids : store'[r].used = "no"
      BY <2>5 DEF Retention, Resumable
    <3> QED BY <3>1, <3>2, <3>3, <3>4 DEF Resumable
  <2>7. /\ members' \subseteq inv'.ids \ inv'.unenrolled /\ refusing' \subseteq inv'.ids
        /\ \A r \in members' \cup refusing' : store'[r].used = "yes"
    <3>1. CASE UNCHANGED <<members, refusing>>
      BY <2>0, <2>1, <2>5, <3>1 DEF Retention, Retained
    <3>2. ASSUME NEW r \in ROs, Open(r), Join(r), job.at = "open", job.ro = {r},
                 r \in refusing \/ store'[r].used = "yes"
          PROVE  /\ members' \subseteq inv'.ids \ inv'.unenrolled /\ refusing' \subseteq inv'.ids
                 /\ \A q \in members' \cup refusing' : store'[q].used = "yes"
      <4>1. r \in inv.ids /\ (Enrolling => r \notin inv.unenrolled)
        BY <3>2 DEF EnrolmentInOrder
      <4>2. \A q \in members \cup refusing : store'[q].used = "yes"
        BY <2>0, <2>5 DEF Retention, Retained
      <4>3. store'[r].used = "yes"
        BY <3>2, <4>2
      <4> QED BY <2>1, <2>5, <3>2, <4>1, <4>2, <4>3 DEF Join
    <3> QED BY <2>3, <3>1, <3>2
  <2> QED BY <2>2, <2>6, <2>7 DEF Retention, Retained
<1> QED BY <1>1, <1>2

-----------------------------------------------------------------------------
(* Jobs.                                                                   *)

\* The steps that may leave a job under way.
LEMMA JobSteps ==
    ASSUME TypeOK, Retention, Next
    PROVE  \/ job' = Idle
           \/ \E s \in Sessions, m \in Msgs :
                 ReceiveListing(s, m) \/ ReceiveUnknown(s, m) \/ ReceiveEnrolled(s, m)
           \/ \E r \in ROs : ProvideSettled(r) \/ Stage(r) \/ Install(r) \/ Register(r) \/ Open(r)
           \/ EnrolNext \/ UncoverAbsent
<1>1. CASE Start \/ StartFails \/ Crash
  BY <1>1 DEF Start, StartFails, Crash, Retention
<1>2. CASE \E s \in Sessions : Observe(s) \/ Disconnected(s) \/ Uncertain(s)
  BY <1>2 DEF Observe, Disconnected, Uncertain, Running
<1>3. CASE \E s \in Sessions, m \in Msgs : Receive(s, m)
  <2>1. PICK s \in Sessions, m \in Msgs : Receive(s, m)
    BY <1>3
  <2>2. CASE ReceiveCrossed(s, m) \/ ReceiveReused(s, m) \/ ReceiveUnacceptable(s, m)
    BY <2>2 DEF ReceiveCrossed, ReceiveReused, ReceiveUnacceptable, NewListing, Accepting, Running
  <2> QED BY <2>1, <2>2 DEF Receive
<1>4. CASE \E r \in ROs : Provide(r)
  BY <1>4 DEF Provide, ProvideFull, JobFails
<1>5. CASE Certify \/ Refuse \/ Update
  BY <1>5 DEF Certify, Refuse, Update
<1>6. CASE PublishOnce \/ Answer
  BY <1>6 DEF PublishOnce, Answer, Running
<1> QED BY <1>1, <1>2, <1>3, <1>4, <1>5, <1>6 DEF Next

\* Every step keeps the order of an enrolment.
LEMMA EnrolmentStep ==
    ASSUME TypeOK, Retention, EnrolmentInOrder, Next
    PROVE  EnrolmentInOrder'
<1>1. CASE job' = Idle
  BY <1>1 DEF EnrolmentInOrder, Idle
<1>2. ASSUME NEW s \in Sessions, NEW m \in Msgs, ReceiveListing(s, m)
      PROVE  EnrolmentInOrder'
  <2>1. /\ job' = [at |-> "enrol", msg |-> m, ro |-> {}, todo |-> DOMAIN m.rows \ members]
        /\ UNCHANGED members /\ m.kind \in Listings
    BY <1>2 DEF ReceiveListing, NewListing, Unlisted
  <2>2. Pending(job') = DOMAIN m.rows \ members
    BY <2>1 DEF Pending
  <2> QED BY <2>1, <2>2 DEF EnrolmentInOrder, Enrolling
<1>3. ASSUME NEW s \in Sessions, NEW m \in Msgs,
             ReceiveUnknown(s, m) \/ ReceiveEnrolled(s, m), job' # Idle
      PROVE  EnrolmentInOrder'
  <2>1. job = Idle /\ \E r : r \in m.ro
    BY <1>3, UnknownFacts, EnrolledFacts DEF Running
  <2>2. m.kind \notin Listings
    BY <2>1, MessageFacts
  <2>3. job'.msg = m /\ job'.at \in {"refuse", "provision", "update"}
    <3>1. CASE ReceiveUnknown(s, m)
      <4>1. PICK r \in m.ro :
              job' = [at |-> IF r \in refusing THEN "refuse" ELSE "provision",
                      msg |-> m, ro |-> {r}, todo |-> {}]
        BY <1>3, <3>1, UnknownFacts
      <4> QED BY <4>1
    <3>2. CASE ReceiveEnrolled(s, m)
      <4>1. PICK r \in m.ro :
              job' = [at |-> "update", msg |-> m, ro |-> {r}, todo |-> {}]
        BY <1>3, <2>1, <3>2, EnrolledFacts
      <4> QED BY <4>1
    <3> QED BY <1>3, <3>1, <3>2
  <2> QED BY <2>2, <2>3 DEF EnrolmentInOrder, Enrolling
<1>4. ASSUME NEW r \in ROs, ProvideSettled(r)
      PROVE  EnrolmentInOrder'
  <2>1. job \in Jobs /\ job.at = "provision" /\ job.ro = {r} /\ Settled(r)
    BY <1>4 DEF ProvideSettled, Providing, TypeOK, Idle
  <2>2. /\ job'.at = "open" /\ job'.msg = job.msg /\ job'.ro = job.ro /\ job'.todo = job.todo
        /\ UNCHANGED <<inv, members>>
    BY <1>4, <2>1 DEF ProvideSettled, files, Jobs
  <2>3. Pending(job') = Pending(job) /\ job # Idle
    BY <2>1, <2>2 DEF Pending, Idle
  <2> QED BY <2>1, <2>2, <2>3 DEF EnrolmentInOrder, Enrolling, Settled
<1>5. ASSUME NEW r \in ROs, Stage(r) \/ Install(r) \/ Register(r)
      PROVE  EnrolmentInOrder'
  <2>1. job.at = "provision" /\ job' \in {job, Idle} /\ UNCHANGED members
    BY <1>5, PlaceFacts, RegisterFacts DEF Providing
  <2> QED BY <1>1, <2>1 DEF EnrolmentInOrder, Enrolling
<1>6. ASSUME NEW r \in ROs, Open(r), job' # Idle
      PROVE  EnrolmentInOrder'
  <2>1. job \in Jobs /\ job.at = "open" /\ job.ro = {r} /\ job' = Opened /\ Join(r)
    <3>1. job.at = "open" /\ job.ro = {r} /\ job' = Opened /\ Join(r)
      BY <1>6, OpenFacts
    <3> QED BY <3>1 DEF TypeOK, Idle
  <2>2. /\ job'.at = IF Enrolling THEN "enrol" ELSE "refuse"
        /\ job'.msg = job.msg /\ job'.ro = job.ro /\ job'.todo = job.todo
    BY <2>1 DEF Opened, Jobs
  <2>3. CASE Enrolling
    <3>1. members' = members \cup {r} /\ Pending(job') = job.todo /\ Pending(job) = job.todo \cup {r}
      BY <2>1, <2>2, <2>3 DEF Join, Pending
    <3> QED BY <2>1, <2>2, <2>3, <3>1 DEF EnrolmentInOrder, Enrolling, Idle
  <2>4. CASE ~Enrolling
    BY <2>2, <2>4 DEF EnrolmentInOrder, Enrolling
  <2> QED BY <2>3, <2>4
<1>7. CASE EnrolNext
  <2>1. job \in Jobs /\ job.at = "enrol" /\ job # Idle /\ Enrolling /\ UNCHANGED members
    <3>1. job.at = "enrol" /\ UNCHANGED members
      BY <1>7 DEF EnrolNext
    <3> QED BY <3>1 DEF TypeOK, Idle, EnrolmentInOrder
  <2>2. DOMAIN job.msg.rows \subseteq members \cup job.todo
    BY <2>1 DEF EnrolmentInOrder, Pending
  <2>3. CASE job.todo = {} /\ job' = [job EXCEPT !.at = "absent"]
    <3>1. job'.at = "absent" /\ job'.msg = job.msg
      BY <2>1, <2>3 DEF Jobs
    <3> QED BY <2>1, <2>2, <2>3, <3>1 DEF EnrolmentInOrder, Enrolling
  <2>4. ASSUME NEW q \in job.todo,
               job' = [job EXCEPT !.at = "provision", !.ro = {q}, !.todo = @ \ {q}]
        PROVE  EnrolmentInOrder'
    <3>1. /\ job'.at = "provision" /\ job'.msg = job.msg /\ job'.ro = {q}
          /\ job'.todo = job.todo \ {q}
      BY <2>1, <2>4, NextRowFacts
    <3>2. Pending(job') = (job.todo \ {q}) \cup {q}
      BY <3>1 DEF Pending
    <3> QED BY <2>1, <2>2, <3>1, <3>2 DEF EnrolmentInOrder, Enrolling
  <2> QED BY <1>7, <2>3, <2>4 DEF EnrolNext
<1>8. CASE UncoverAbsent /\ job' # Idle
  <2>1. job \in Jobs /\ job.at = "absent" /\ job # Idle /\ Enrolling
    BY <1>8 DEF UncoverAbsent, TypeOK, Idle, EnrolmentInOrder
  <2>2. job' = [job EXCEPT !.at = "certify"] /\ UNCHANGED members
    BY <1>8 DEF UncoverAbsent, JobFails
  <2>3. job'.at = "certify" /\ job'.msg = job.msg
    BY <2>1, <2>2 DEF Jobs
  <2>4. DOMAIN job.msg.rows \subseteq members
    BY <2>1 DEF EnrolmentInOrder, Pending
  <2> QED BY <2>1, <2>2, <2>3, <2>4 DEF EnrolmentInOrder, Enrolling
<1> QED BY <1>1, <1>2, <1>3, <1>4, <1>5, <1>6, <1>7, <1>8, JobSteps

\* What is retained, and what is being enrolled, is in order throughout.
LEMMA RetentionInvariant == Spec => [](Retention /\ EnrolmentInOrder)
<1>1. Init => Retention /\ EnrolmentInOrder
  <2> SUFFICES ASSUME Init PROVE Retention /\ EnrolmentInOrder
    OBVIOUS
  <2>1. IsFiniteSet(inv.ids) /\ Cardinality(inv.ids) = 0
    BY FS_EmptySet DEF Init
  <2>2. Resumable
    BY <2>1, SetAssumption DEF Init, Resumable, NoStore
  <2> QED BY <2>1, <2>2 DEF Init, Retention, Retained, EnrolmentInOrder, Idle
<1>2. TypeOK /\ TypeOK' /\ Retention /\ EnrolmentInOrder /\ [Next]_vars
        => (Retention /\ EnrolmentInOrder)'
  <2>1. CASE UNCHANGED vars
    BY <2>1 DEF vars, Retention, Retained, Resumable, EnrolmentInOrder, Enrolling, Pending
  <2> QED BY <2>1, RetentionStep, EnrolmentStep
<1> QED BY <1>1, <1>2, SetTypeOK, PTL DEF Spec

\* Whatever was interrupted, a restart finds every retained store installed,
\* the inventory within its limit, and no store in use that it does not name
\* (OpenMembers, retainMember).
THEOREM ResumableTheorem == Spec => []Resumable
  BY RetentionInvariant, PTL DEF Retention

\* Every step keeps a complete catalogue enrolled.
LEMMA CompleteStep ==
    ASSUME TypeOK, TypeOK', Retention, EnrolmentInOrder, CompleteIsEnrolled, Next
    PROVE  CompleteIsEnrolled'
<1> SUFFICES ASSUME cat'.complete = "yes", NEW r \in DOMAIN cat'.rows
             PROVE  /\ r \in inv'.ids \ inv'.unenrolled
                    /\ store'[r].at = "installed" /\ store'[r].used = "yes"
  BY DEF CompleteIsEnrolled
<1>1. r \in ROs
  BY RowsFacts DEF TypeOK, Catalogues
<1>2. \/ cat.complete = "yes" /\ r \in DOMAIN cat.rows
      \/ job.at = "certify" /\ r \in DOMAIN job.msg.rows
  <2>1. CASE cat' = cat \/ Withdrawn
    BY <2>1 DEF Withdrawn
  <2>2. CASE job.at = "certify" /\ Rewritten("yes", job.msg.rows)
    BY <2>2 DEF Rewritten
  <2>3. ASSUME job.at = "update", NEW q \in job.ro,
               Rewritten(CompleteAfter(cat, job.msg, q), RowsAfter(cat.rows, job.msg, q))
        PROVE  cat.complete = "yes" /\ r \in DOMAIN cat.rows
    <3>1. job \in Jobs /\ job.msg \in Msgs /\ cat.rows \in Rows
      BY <2>3 DEF TypeOK, Idle, Jobs, Catalogues
    <3>2. DOMAIN cat'.rows \subseteq DOMAIN cat.rows
      BY <2>3, <3>1, RowsAfterFacts DEF Rewritten
    <3> QED BY <2>3, <3>2 DEF Rewritten, CompleteAfter
  <2>4. CASE Recorded
    BY <2>4 DEF Recorded, Body
  <2> QED BY <2>1, <2>2, <2>3, <2>4, CatalogueStep DEF CatalogueMoves
<1>3. /\ r \in inv.ids \ inv.unenrolled
      /\ store[r].at = "installed" /\ store[r].used = "yes"
  <2>1. CASE cat.complete = "yes" /\ r \in DOMAIN cat.rows
    BY <2>1 DEF CompleteIsEnrolled
  <2>2. CASE job.at = "certify" /\ r \in DOMAIN job.msg.rows
    <3>1. r \in members
      BY <2>2 DEF EnrolmentInOrder, Pending, Idle
    <3> QED BY <3>1 DEF Retention, Retained, Resumable
  <2> QED BY <1>2, <2>1, <2>2
<1> QED BY <1>1, <1>3, FilesStep

\* A complete catalogue on disk names only rundowns that a restart finds
\* enrolled, with a store in use (applyCatalogue).
THEOREM CompleteTheorem == Spec => []CompleteIsEnrolled
<1>1. Init => CompleteIsEnrolled
  BY DEF Init, CompleteIsEnrolled, NewCatalogue
<1>2. TypeOK /\ TypeOK' /\ Retention /\ EnrolmentInOrder /\ CompleteIsEnrolled /\ [Next]_vars
        => CompleteIsEnrolled'
  <2>1. CASE UNCHANGED vars
    BY <2>1 DEF vars, CompleteIsEnrolled
  <2> QED BY <2>1, CompleteStep
<1> QED BY <1>1, <1>2, SetTypeOK, RetentionInvariant, PTL DEF Spec

-----------------------------------------------------------------------------
(***************************************************************************)
(* What a catalogue of rundowns does with messages, for every set of       *)
(* rundowns, connections and messages: one receipt per messageID over all  *)
(* rundowns, refusals that are final, rundowns that join without coverage, *)
(* and a complete catalogue that lists what the newsroom said.             *)
(*                                                                         *)
(* The argument for the receipts: a store that the running process has not *)
(* opened has none, so crossReceipt, which only looks at open stores, sees *)
(* every receipt there is; and from the moment a message is found to have  *)
(* none until its refusal is written, no step writes another receipt.      *)
(*                                                                         *)
(* The argument for the rows: whenever the newsroom may have said          *)
(* something the set did not hear, the catalogue is withdrawn, or it can   *)
(* no longer be read, or is halted or exhausted; and between a message and *)
(* updateCatalogue the rows differ from the truth by that message only.    *)
(***************************************************************************)

-----------------------------------------------------------------------------
(* The inductive invariants.                                               *)

\* A message for a rundown that is not enrolled is being refused.
Refusal == job # Idle /\ ~Enrolling /\ job.at # "update"

\* Receipts are where crossReceipt looks for them, and a message that is
\* being refused has none.
ReceiptsInOrder ==
    /\ \A r \in ROs \ inv.ids : store[r].receipts = {}
    /\ up = "yes" => \A r \in ROs \ Retained : store[r].receipts = {}
    /\ \A t \in took : \E rc \in store[t[2]].receipts : rc.key = t[1]
    /\ Refusal =>
         /\ job.msg.id # NoID /\ job.ro = job.msg.ro
         /\ \A r \in ROs : \A rc \in store[r].receipts : rc.key # Key(job.msg)
         /\ job.at = "refuse" => job.ro \subseteq refusing

\* The rows of a listing that the catalogue does not have are uncovered when
\* it is certified.
NewRowsUncovered ==
    job.at = "certify" =>
        \A r \in DOMAIN job.msg.rows \ DOMAIN cat.rows : store[r].covered = "no"

\* It is what the newsroom said, but for the message being handled.
Faithful ==
    up = "yes" /\ Claims(cat, broken) =>
        /\ truth.known = "yes"
        /\ job.at # "update" => truth.rows = cat.rows
        /\ job.at = "update" => \A r \in job.ro : truth.rows = Said(cat.rows, job.msg, r)

-----------------------------------------------------------------------------
(* Receipts.                                                               *)

\* A message that can be routed has no receipt in the store of another
\* rundown: every store with receipts is open, and crossReceipt has read it.
LEMMA NoOtherReceipt ==
    ASSUME ReceiptsInOrder, up = "yes", NEW m \in Msgs, Routable(m), m.id # NoID,
           NEW q \in ROs \ m.ro, NEW rc \in store[q].receipts
    PROVE  rc.key # Key(m)
<1>1. q \in Retained
  BY DEF ReceiptsInOrder
<1>2. q \notin broken /\ ~CrossConflict(m)
  BY <1>1 DEF Routable
<1> QED BY <1>1, <1>2 DEF CrossConflict

\* All other steps leave the receipts alone.
LEMMA ReceiptsKept ==
    ASSUME TypeOK, TypeOK', Retention, Next, ~Refuse,
           ~\E s \in Sessions, m \in Msgs : ReceiveEnrolled(s, m)
    PROVE  /\ \A r \in ROs : store'[r].receipts = store[r].receipts
           /\ UNCHANGED <<refused, took>>
<1>1. CASE Steady
  BY <1>1, SteadyFacts DEF Retention, Keeps
<1>2. CASE Start \/ StartFails \/ Crash
  BY <1>2, ProcessRetention DEF Keeps
<1>3. CASE \E r \in ROs : Stage(r) \/ Install(r)
  BY <1>3, PlaceFacts
<1>4. CASE \E r \in ROs : Register(r)
  BY <1>4, RegisterFacts
<1>5. CASE \E r \in ROs : Open(r)
  BY <1>5, OpenFacts DEF Keeps
<1> QED BY <1>1, <1>2, <1>3, <1>4, <1>5, Steps

\* What is open stays open while the process runs, and a start opens all.
LEMMA RetainedStep ==
    ASSUME TypeOK, TypeOK', Retention, Next, up' = "yes"
    PROVE  \/ up = "yes" /\ Retained \subseteq Retained'
           \/ up = "no" /\ Retained' = inv.ids
<1>1. CASE Start
  BY <1>1 DEF Start, Retained, Retention, Resumable
<1>2. CASE StartFails \/ Crash
  BY <1>2 DEF StartFails, Crash
<1>3. CASE ~(Start \/ StartFails \/ Crash)
  <2>1. up = "yes" /\ (UNCHANGED <<members, refusing>> \/ \E r \in ROs : Join(r))
    BY <1>3, Membership
  <2> QED BY <2>1 DEF Join, Retained
<1> QED BY <1>1, <1>2, <1>3

Messaging == ReceiptsInOrder /\ OneRundownPerMessage /\ RefusedIsFinal

\* A refusal that is under way keeps its promise: no receipt yet.
LEMMA RefusalStep ==
    ASSUME TypeOK, TypeOK', Retention, EnrolmentInOrder, ReceiptsInOrder, Next,
           Refusal'
    PROVE  /\ job'.msg.id # NoID /\ job'.ro = job'.msg.ro
           /\ \A r \in ROs : \A rc \in store'[r].receipts : rc.key # Key(job'.msg)
           /\ job'.at = "refuse" => job'.ro \subseteq refusing'
<1> DEFINE Goal == /\ job'.msg.id # NoID /\ job'.ro = job'.msg.ro
                   /\ \A r \in ROs : \A rc \in store'[r].receipts : rc.key # Key(job'.msg)
                   /\ job'.at = "refuse" => job'.ro \subseteq refusing'
<1>0. job' # Idle /\ job'.msg.kind \notin Listings /\ job'.at # "update"
  BY DEF Refusal, Enrolling
<1>1. ASSUME NEW s \in Sessions, NEW m \in Msgs, ReceiveListing(s, m)
      PROVE  Goal
  <2>1. job'.msg = m /\ m.kind \in Listings
    BY <1>1 DEF ReceiveListing, NewListing
  <2> QED BY <1>0, <2>1
<1>2. ASSUME NEW s \in Sessions, NEW m \in Msgs, ReceiveEnrolled(s, m)
      PROVE  Goal
  <2>1. \E r \in ROs : (job' = job /\ job = Idle) \/ job' = Idle
            \/ job' = [at |-> "update", msg |-> m, ro |-> {r}, todo |-> {}]
    BY <1>2, EnrolledFacts DEF Running
  <2> QED BY <1>0, <2>1
<1>3. ASSUME NEW s \in Sessions, NEW m \in Msgs, ReceiveUnknown(s, m)
      PROVE  Goal
  <2>1. PICK r \in m.ro \ members :
             /\ r \in ROs /\ Running /\ Routable(m)
             /\ r \in refusing /\ m.id # NoID => ~Known(m, store[r].receipts)
             /\ m.id # NoID
             /\ job' = [at |-> IF r \in refusing THEN "refuse" ELSE "provision",
                        msg |-> m, ro |-> {r}, todo |-> {}]
             /\ UNCHANGED <<store, refusing>>
    BY <1>0, <1>3, UnknownFacts
  <2>2. m.ro = {r} /\ up = "yes"
    BY <2>1, MessageFacts DEF Running
  <2>3. \A rc \in store[r].receipts : rc.key # Key(m)
    <3>1. CASE r \in refusing
      BY <2>1, <3>1 DEF Known
    <3>2. CASE r \notin refusing
      BY <2>1, <2>2, <3>2 DEF ReceiptsInOrder, Retained
    <3> QED BY <3>1, <3>2
  <2>4. \A q \in ROs \ {r} : \A rc \in store[q].receipts : rc.key # Key(m)
    BY <2>1, <2>2, NoOtherReceipt
  <2> QED BY <2>1, <2>2, <2>3, <2>4
<1>4. ASSUME NEW r \in ROs, ProvideSettled(r)
      PROVE  Goal
  <2>1. job \in Jobs /\ job.at = "provision"
    BY <1>4 DEF ProvideSettled, Providing, TypeOK, Idle
  <2>2. /\ job'.at = "open" /\ job'.msg = job.msg /\ job'.ro = job.ro /\ UNCHANGED store
    BY <1>4, <2>1 DEF ProvideSettled, files, Jobs
  <2>3. Refusal
    BY <1>0, <2>1, <2>2 DEF Refusal, Enrolling, Idle
  <2> QED BY <2>2, <2>3 DEF ReceiptsInOrder
<1>5. ASSUME NEW r \in ROs, Stage(r) \/ Install(r) \/ Register(r)
      PROVE  Goal
  <2>1. /\ job' = job /\ job.at = "provision"
        /\ \A q \in ROs : store'[q].receipts = store[q].receipts
    BY <1>0, <1>5, PlaceFacts, RegisterFacts DEF Providing
  <2>2. Refusal
    BY <1>0, <2>1 DEF Refusal, Enrolling
  <2> QED BY <2>1, <2>2 DEF ReceiptsInOrder
<1>6. ASSUME NEW r \in ROs, Open(r)
      PROVE  Goal
  <2>1. job.at = "open" /\ job.ro = {r} /\ job' = Opened /\ Join(r) /\ Keeps({r})
    BY <1>0, <1>6, OpenFacts
  <2>2. job \in Jobs
    BY <2>1 DEF TypeOK, Idle
  <2>3. job'.msg = job.msg /\ job'.ro = job.ro
    BY <2>1, <2>2 DEF Opened, Jobs
  <2>4. Refusal
    BY <1>0, <2>1, <2>3 DEF Refusal, Enrolling, Idle
  <2>5. r \in refusing'
    BY <2>1, <2>4 DEF Join, Refusal
  <2> QED BY <2>1, <2>3, <2>4, <2>5 DEF ReceiptsInOrder, Keeps
<1>7. CASE EnrolNext
  <2>1. job \in Jobs /\ job.at = "enrol" /\ Enrolling
    <3>1. job.at = "enrol"
      BY <1>7 DEF EnrolNext
    <3> QED BY <3>1 DEF TypeOK, Idle, EnrolmentInOrder
  <2>2. job'.msg = job.msg
    <3>1. CASE job' = [job EXCEPT !.at = "absent"]
      BY <2>1, <3>1 DEF Jobs
    <3>2. ASSUME NEW q \in job.todo,
                 job' = [job EXCEPT !.at = "provision", !.ro = {q}, !.todo = @ \ {q}]
          PROVE  job'.msg = job.msg
      BY <2>1, <3>2, NextRowFacts
    <3>3. \/ job' = [job EXCEPT !.at = "absent"]
          \/ \E q \in job.todo : job' = [job EXCEPT !.at = "provision", !.ro = {q},
                                                      !.todo = @ \ {q}]
      BY <1>7, Zenon DEF EnrolNext
    <3> QED BY <3>1, <3>2, <3>3, Zenon
  <2> QED BY <1>0, <2>1, <2>2 DEF Enrolling
<1>8. CASE UncoverAbsent
  <2>1. job \in Jobs /\ job.at = "absent" /\ Enrolling
    BY <1>8 DEF UncoverAbsent, TypeOK, Idle, EnrolmentInOrder
  <2>2. job' = [job EXCEPT !.at = "certify"]
    BY <1>0, <1>8 DEF UncoverAbsent, JobFails
  <2>3. job'.msg = job.msg
    BY <2>1, <2>2 DEF Jobs
  <2> QED BY <1>0, <2>1, <2>3 DEF Enrolling
<1> QED BY <1>0, <1>1, <1>2, <1>3, <1>4, <1>5, <1>6, <1>7, <1>8, JobSteps

\* Steps that write no receipt keep the receipts in order.
LEMMA OtherMessaging ==
    ASSUME TypeOK, TypeOK', Retention, EnrolmentInOrder, Messaging, Next, ~Refuse,
           ~\E s \in Sessions, m \in Msgs : ReceiveEnrolled(s, m)
    PROVE  Messaging'
<1>1. /\ \A r \in ROs : store'[r].receipts = store[r].receipts
      /\ UNCHANGED <<refused, took>>
  BY ReceiptsKept
<1>2. inv.ids \subseteq inv'.ids
  BY FilesStep
<1>3. ReceiptsInOrder'
  <2>1. \A r \in ROs \ inv'.ids : store'[r].receipts = {}
    BY <1>1, <1>2 DEF Messaging, ReceiptsInOrder
  <2>2. up' = "yes" => \A r \in ROs \ Retained' : store'[r].receipts = {}
    BY <1>1, RetainedStep DEF Messaging, ReceiptsInOrder
  <2>3. \A t \in took' : \E rc \in store'[t[2]].receipts : rc.key = t[1]
    <3>1. \A t \in took : t[2] \in ROs
      BY DEF TypeOK
    <3> QED BY <1>1, <3>1 DEF Messaging, ReceiptsInOrder
  <2> QED BY <2>1, <2>2, <2>3, RefusalStep DEF Messaging, ReceiptsInOrder
<1>4. OneRundownPerMessage'
  BY <1>1 DEF Messaging, OneRundownPerMessage
<1>5. RefusedIsFinal'
  <2>1. \A m \in refused : m.ro \subseteq ROs
    BY MessageFacts DEF TypeOK
  <2> QED BY <1>1, <2>1 DEF Messaging, RefusedIsFinal
<1> QED BY <1>3, <1>4, <1>5 DEF Messaging

\* The refusal's receipt is the first of its message, in any rundown.
LEMMA RefuseMessaging ==
    ASSUME TypeOK, TypeOK', Retention, EnrolmentInOrder, Messaging, Refuse, Next
    PROVE  Messaging'
<1>1. PICK r \in job.ro :
        /\ r \in ROs /\ job.msg \in Msgs /\ job \in Jobs /\ job.at = "refuse" /\ job' = Idle
        /\ \A q \in ROs \ {r} : store'[q] = store[q]
        /\ store[r].receipts \subseteq store'[r].receipts
        /\ store'[r].receipts \subseteq store[r].receipts \cup Receipt(job.msg, "NACK")
        /\ \/ refused' = refused
           \/ /\ refused' = refused \cup {job.msg}
              /\ Receipt(job.msg, "NACK") \subseteq store'[r].receipts
        /\ UNCHANGED <<inv, up, members, refusing, took>>
  BY RefuseFacts
<1>2. Refusal
  BY <1>1 DEF Refusal, EnrolmentInOrder, Idle
<1>3. /\ job.msg.id # NoID /\ job.ro = job.msg.ro /\ job.ro \subseteq refusing
      /\ \A q \in ROs : \A rc \in store[q].receipts : rc.key # Key(job.msg)
  BY <1>1, <1>2 DEF Messaging, ReceiptsInOrder
<1>4. job.ro = {r} /\ r \in inv.ids /\ r \in Retained
  BY <1>1, <1>3, MessageFacts DEF Retention, Retained
<1>5. \A rc \in Receipt(job.msg, "NACK") : rc.key = Key(job.msg) /\ rc.msg = job.msg
  BY <1>1, ReceiptFacts
<1>6. \A rc \in store'[r].receipts : rc \in store[r].receipts \/ rc.key = Key(job.msg)
  BY <1>1, <1>5
<1>7. ReceiptsInOrder'
  <2>1. \A q \in ROs \ inv'.ids : store'[q].receipts = {}
    BY <1>1, <1>4 DEF Messaging, ReceiptsInOrder
  <2>2. up' = "yes" => \A q \in ROs \ Retained' : store'[q].receipts = {}
    BY <1>1, <1>4 DEF Messaging, ReceiptsInOrder, Retained
  <2>3. \A t \in took' : \E rc \in store'[t[2]].receipts : rc.key = t[1]
    <3>1. \A t \in took : t[2] \in ROs
      BY DEF TypeOK
    <3>2. \A q \in ROs : store[q].receipts \subseteq store'[q].receipts
      BY <1>1
    <3> QED BY <1>1, <3>1, <3>2 DEF Messaging, ReceiptsInOrder
  <2>4. ~Refusal'
    BY <1>1 DEF Refusal
  <2> QED BY <2>1, <2>2, <2>3, <2>4 DEF ReceiptsInOrder
<1>8. OneRundownPerMessage'
  <2> SUFFICES ASSUME NEW p \in ROs, NEW q \in ROs, p # q,
                      NEW a \in store'[p].receipts, NEW b \in store'[q].receipts
               PROVE  a.key # b.key
    BY DEF OneRundownPerMessage
  <2>1. \A c \in store[p].receipts, d \in store[q].receipts : c.key # d.key
    BY DEF Messaging, OneRundownPerMessage
  <2>2. /\ p # r => a \in store[p].receipts
        /\ q # r => b \in store[q].receipts
    BY <1>1
  <2> QED BY <1>3, <1>6, <2>1, <2>2
<1>9. RefusedIsFinal'
  <2> SUFFICES ASSUME NEW m \in refused', NEW q \in m.ro
               PROVE  /\ \E rc \in store'[q].receipts : rc.key = Key(m) /\ rc.msg = m
                      /\ <<Key(m), q>> \notin took'
    BY DEF RefusedIsFinal
  <2>1. CASE m \in refused
    <3>1. q \in ROs
      BY <2>1, MessageFacts DEF TypeOK
    <3> QED BY <1>1, <2>1, <3>1 DEF Messaging, RefusedIsFinal
  <2>2. CASE m \notin refused
    <3>1. m = job.msg /\ q = r /\ Receipt(job.msg, "NACK") \subseteq store'[r].receipts
      BY <1>1, <1>3, <1>4, <2>2
    <3>2. \E rc \in store'[q].receipts : rc.key = Key(m) /\ rc.msg = m
      BY <1>1, <1>3, <1>5, <3>1, ReceiptFacts
    <3>3. <<Key(m), q>> \notin took
      <4> SUFFICES ASSUME <<Key(m), q>> \in took PROVE FALSE
        OBVIOUS
      <4>1. PICK rc \in store[<<Key(m), q>>[2]].receipts : rc.key = <<Key(m), q>>[1]
        BY DEF Messaging, ReceiptsInOrder
      <4> QED BY <1>1, <1>3, <3>1, <4>1
    <3> QED BY <1>1, <3>2, <3>3
  <2> QED BY <2>1, <2>2
<1> QED BY <1>7, <1>8, <1>9 DEF Messaging

\* A message for an enrolled rundown is written to its store only if no other
\* store has its messageID, and is applied only if that has none either.
LEMMA EnrolledMessaging ==
    ASSUME TypeOK, TypeOK', Retention, Messaging, Next,
           NEW s \in Sessions, NEW m \in Msgs, ReceiveEnrolled(s, m)
    PROVE  Messaging'
<1>1. PICK r \in m.ro \cap members :
        /\ r \in ROs /\ Running /\ Routable(m)
        /\ \A q \in ROs \ {r} : store'[q] = store[q]
        /\ store'[r] \in {store[r], Inapplicable(store[r], m), Applied(store[r], m)}
        /\ \/ took' = took
           \/ /\ m.id # NoID /\ ~Known(m, store[r].receipts)
              /\ store'[r] = Applied(store[r], m)
              /\ took' = took \cup {<<Key(m), r>>}
        /\ \/ job' = job
           \/ job' = IF m.kind \in RowKinds
                        THEN [at |-> "update", msg |-> m, ro |-> {r}, todo |-> {}]
                        ELSE Idle
        /\ UNCHANGED <<inv, up, members, refusing, refused>>
  BY EnrolledFacts
<1>2. m.ro = {r} /\ r \in Retained /\ r \in inv.ids /\ store[r] \in Stores
  BY <1>1, MessageFacts DEF Retention, Retained, TypeOK
<1>3. /\ store[r].receipts \subseteq store'[r].receipts
      /\ \A rc \in store'[r].receipts :
            rc \in store[r].receipts \/ (m.id # NoID /\ rc.key = Key(m))
  <2>1. CASE store'[r] = store[r]
    BY <2>1
  <2>2. CASE store'[r] = Applied(store[r], m)
    BY <1>2, <2>2, AppliedFacts, ReceiptFacts
  <2>3. CASE store'[r] = Inapplicable(store[r], m)
    BY <1>2, <2>3, InapplicableFacts, ReceiptFacts
  <2> QED BY <1>1, <2>1, <2>2, <2>3
<1>4. \A q \in ROs \ {r} : \A rc \in store[q].receipts : m.id # NoID => rc.key # Key(m)
  BY <1>1, <1>2, NoOtherReceipt DEF Messaging, Running
<1>5. \A q \in ROs : store[q].receipts \subseteq store'[q].receipts
  BY <1>1, <1>3
<1>6. ReceiptsInOrder'
  <2>1. \A q \in ROs \ inv'.ids : store'[q].receipts = {}
    BY <1>1, <1>2 DEF Messaging, ReceiptsInOrder
  <2>2. up' = "yes" => \A q \in ROs \ Retained' : store'[q].receipts = {}
    BY <1>1, <1>2 DEF Messaging, ReceiptsInOrder, Retained
  <2>3. ASSUME NEW t \in took' PROVE \E rc \in store'[t[2]].receipts : rc.key = t[1]
    <3>1. CASE t \in took
      <4>1. t[2] \in ROs
        BY <3>1 DEF TypeOK
      <4> QED BY <1>5, <3>1, <4>1 DEF Messaging, ReceiptsInOrder
    <3>2. CASE t \notin took
      <4>1. t = <<Key(m), r>> /\ m.id # NoID /\ store'[r] = Applied(store[r], m)
        BY <1>1, <3>2
      <4>2. \E rc \in store'[r].receipts : rc.key = Key(m)
        BY <1>2, <4>1, AppliedFacts, ReceiptFacts
      <4> QED BY <4>1, <4>2
    <3> QED BY <3>1, <3>2
  <2>4. ~Refusal'
    BY <1>1 DEF Refusal, Running, Idle
  <2> QED BY <2>1, <2>2, <2>3, <2>4 DEF ReceiptsInOrder
<1>7. OneRundownPerMessage'
  <2> SUFFICES ASSUME NEW p \in ROs, NEW q \in ROs, p # q,
                      NEW a \in store'[p].receipts, NEW b \in store'[q].receipts
               PROVE  a.key # b.key
    BY DEF OneRundownPerMessage
  <2>1. \A c \in store[p].receipts, d \in store[q].receipts : c.key # d.key
    BY DEF Messaging, OneRundownPerMessage
  <2>2. /\ p # r => a \in store[p].receipts
        /\ q # r => b \in store[q].receipts
    BY <1>1
  <2> QED BY <1>3, <1>4, <2>1, <2>2
<1>8. RefusedIsFinal'
  <2> SUFFICES ASSUME NEW n \in refused', NEW q \in n.ro
               PROVE  /\ \E rc \in store'[q].receipts : rc.key = Key(n) /\ rc.msg = n
                      /\ <<Key(n), q>> \notin took'
    BY DEF RefusedIsFinal
  <2>1. n \in refused /\ q \in ROs
    BY <1>1, MessageFacts DEF TypeOK
  <2>2. PICK rc \in store[q].receipts : rc.key = Key(n) /\ rc.msg = n
    BY <2>1 DEF Messaging, RefusedIsFinal
  <2>3. rc \in store'[q].receipts
    BY <1>5, <2>1, <2>2
  <2>4. <<Key(n), q>> \notin took
    BY <2>1 DEF Messaging, RefusedIsFinal
  <2>5. ~(q = r /\ Key(n) = Key(m) /\ m.id # NoID /\ ~Known(m, store[r].receipts))
    BY <2>2 DEF Known
  <2>6. <<Key(n), q>> \notin took'
    BY <1>1, <2>4, <2>5
  <2> QED BY <2>2, <2>3, <2>6
<1> QED BY <1>6, <1>7, <1>8 DEF Messaging

\* Receipts and refusals, throughout.
LEMMA MessagingInvariant == Spec => []Messaging
<1>1. Init => Messaging
  <2> SUFFICES ASSUME Init PROVE Messaging
    OBVIOUS
  <2>1. \A r \in ROs : store[r].receipts = {}
    BY DEF Init, NoStore
  <2>2. took = {} /\ refused = {} /\ ~Refusal
    BY DEF Init, Refusal
  <2> QED BY <2>1, <2>2 DEF Messaging, ReceiptsInOrder, OneRundownPerMessage, RefusedIsFinal
<1>2. TypeOK /\ TypeOK' /\ Retention /\ EnrolmentInOrder /\ Messaging /\ [Next]_vars
        => Messaging'
  <2> SUFFICES ASSUME TypeOK, TypeOK', Retention, EnrolmentInOrder, Messaging, [Next]_vars
               PROVE  Messaging'
    OBVIOUS
  <2>1. CASE Next
    BY <2>1, OtherMessaging, RefuseMessaging, EnrolledMessaging
  <2>2. CASE UNCHANGED vars
    BY <2>2 DEF vars, Messaging, ReceiptsInOrder, OneRundownPerMessage, RefusedIsFinal,
                Refusal, Enrolling, Retained
  <2> QED BY <2>1, <2>2
<1> QED BY <1>1, <1>2, SetTypeOK, RetentionInvariant, PTL DEF Spec

\* One messageID has a receipt in one rundown only, whatever was interrupted
\* or enrolled in between: crossReceipt looks at every store there is
\* (CommittedSourceSet.Apply).
THEOREM OneRundownTheorem == Spec => []OneRundownPerMessage
  BY MessagingInvariant, PTL DEF Messaging

\* A message answered as unenrolled keeps that answer, and is never applied:
\* not after a restart, nor once its rundown is enrolled (CommittedSourceSet.Apply,
\* addMember).
THEOREM RefusedTheorem == Spec => []RefusedIsFinal
  BY MessagingInvariant, PTL DEF Messaging

-----------------------------------------------------------------------------
(* Rundowns that join the catalogue.                                       *)

\* A listing is certified next after the absent rundowns were uncovered, all
\* of them.
LEMMA UncoveredFirst ==
    ASSUME TypeOK, Retention, Next, job'.at = "certify"
    PROVE  /\ job \in Jobs /\ job.at = "absent" /\ job'.msg = job.msg
           /\ Gone(job.msg) \cap broken = {} /\ InvalidateMembers(Gone(job.msg), NoFault)
           /\ UNCHANGED cat
<1>1. ASSUME NEW s \in Sessions, NEW m \in Msgs,
             ReceiveListing(s, m) \/ ReceiveUnknown(s, m) \/ ReceiveEnrolled(s, m)
      PROVE  FALSE
  <2>1. CASE ReceiveListing(s, m)
    BY <2>1 DEF ReceiveListing
  <2>2. CASE ReceiveUnknown(s, m)
    BY <2>2, UnknownFacts DEF Idle
  <2>3. CASE ReceiveEnrolled(s, m)
    <3>1. \E r \in ROs : (job' = job /\ job = Idle) \/ job' = Idle
              \/ job' = [at |-> "update", msg |-> m, ro |-> {r}, todo |-> {}]
      BY <2>3, EnrolledFacts DEF Running
    <3> QED BY <3>1 DEF Idle
  <2> QED BY <1>1, <2>1, <2>2, <2>3
<1>2. ASSUME NEW r \in ROs, ProvideSettled(r) \/ Stage(r) \/ Install(r) \/ Register(r) \/ Open(r)
      PROVE  FALSE
  <2>1. job.at \in {"provision", "open"} /\ job \in Jobs
    <3>1. job.at \in {"provision", "open"}
      BY <1>2 DEF ProvideSettled, Stage, Install, Register, Open, Providing
    <3> QED BY <3>1 DEF TypeOK, Idle
  <2>2. job' \in {job, Idle, Opened, [job EXCEPT !.at = "open"]}
    <3>1. CASE ProvideSettled(r)
      BY <3>1 DEF ProvideSettled
    <3>2. CASE Stage(r) \/ Install(r) \/ Register(r)
      BY <3>2, PlaceFacts, RegisterFacts
    <3>3. CASE Open(r)
      BY <3>3, OpenFacts
    <3> QED BY <1>2, <3>1, <3>2, <3>3
  <2> QED BY <2>1, <2>2 DEF Opened, Jobs, Idle
<1>3. ~EnrolNext
  <2> SUFFICES ASSUME EnrolNext PROVE FALSE
    OBVIOUS
  <2>1. job.at = "enrol" /\ job \in Jobs
    <3>1. job.at = "enrol"
      BY DEF EnrolNext
    <3> QED BY <3>1 DEF TypeOK, Idle
  <2>2. \/ job' = [job EXCEPT !.at = "absent"]
        \/ \E q \in job.todo : job' = [job EXCEPT !.at = "provision", !.ro = {q},
                                                    !.todo = @ \ {q}]
    BY Zenon DEF EnrolNext
  <2>3. ASSUME NEW q \in job.todo,
               job' = [job EXCEPT !.at = "provision", !.ro = {q}, !.todo = @ \ {q}]
        PROVE  job'.at = "provision"
    BY <2>1, <2>3, NextRowFacts
  <2>4. job' = [job EXCEPT !.at = "absent"] => job'.at = "absent"
    BY <2>1 DEF Jobs
  <2> QED BY <2>2, <2>3, <2>4
<1>4. job' # Idle
  BY DEF Idle
<1>5. UncoverAbsent
  BY <1>1, <1>2, <1>3, <1>4, JobSteps
<1>6. job.at = "absent" /\ job \in Jobs
  <2>1. job.at = "absent"
    BY <1>5 DEF UncoverAbsent
  <2> QED BY <2>1 DEF TypeOK, Idle
<1>7. PICK f \in Faults(Gone(job.msg) \ broken) :
        /\ \E S \in IF f # NoFault \/ Gone(job.msg) \cap broken # {}
                       THEN SUBSET Gone(job.msg) ELSE {Gone(job.msg)} :
             InvalidateMembers(S, f)
        /\ IF f # NoFault \/ Gone(job.msg) \cap broken # {}
              THEN JobFails(NoFault)
              ELSE job' = [job EXCEPT !.at = "certify"] /\ UNCHANGED cat
  BY <1>5 DEF UncoverAbsent
<1>8. f = NoFault /\ Gone(job.msg) \cap broken = {}
  BY <1>4, <1>7 DEF JobFails
<1>9. job'.msg = job.msg
  BY <1>6, <1>7, <1>8 DEF Jobs
<1> QED BY <1>6, <1>7, <1>8, <1>9

\* A message is only looked at when none is being handled.
LEMMA OneAtATime ==
    ASSUME TypeOK, NEW s \in Sessions, NEW m \in Msgs, Receive(s, m)
    PROVE  Running
<1>1. CASE ReceiveCrossed(s, m) \/ ReceiveReused(s, m)
  BY <1>1 DEF ReceiveCrossed, ReceiveReused, Accepting
<1>2. CASE ReceiveUnacceptable(s, m) \/ ReceiveListing(s, m)
  BY <1>2 DEF ReceiveUnacceptable, ReceiveListing, NewListing, Accepting
<1>3. CASE ReceiveUnknown(s, m) \/ ReceiveEnrolled(s, m)
  BY <1>3, UnknownFacts, EnrolledFacts
<1> QED BY <1>1, <1>2, <1>3 DEF Receive

\* While a listing is about to be certified nothing else happens, but a crash.
LEMMA NothingBeforeCertify ==
    ASSUME TypeOK, Retention, Next, job.at = "certify"
    PROVE  Certify \/ Crash
<1>1. job # Idle /\ up = "yes" /\ ~Running
  BY DEF Idle, Retention, TypeOK, Running
<1>2. ~(Start \/ StartFails)
  BY <1>1 DEF Start, StartFails
<1>3. ~\E s \in Sessions : Observe(s) \/ Disconnected(s) \/ Uncertain(s)
  BY <1>1 DEF Observe, Disconnected, Uncertain
<1>4. ~\E s \in Sessions, m \in Msgs : Receive(s, m)
  BY <1>1, OneAtATime
<1>5. ~\E r \in ROs : Provide(r)
  BY DEF Provide, ProvideSettled, ProvideFull, Stage, Install, Register, Open, Providing
<1>6. ~(EnrolNext \/ UncoverAbsent \/ Refuse \/ Update)
  BY DEF EnrolNext, UncoverAbsent, Refuse, Update
<1>7. ~(PublishOnce \/ Answer)
  BY <1>1 DEF PublishOnce, Answer
<1> QED BY <1>2, <1>3, <1>4, <1>5, <1>6, <1>7 DEF Next

\* The rows that a listing brings are uncovered before it is certified.
LEMMA UncoveredStep ==
    ASSUME TypeOK, TypeOK', Retention, EnrolmentInOrder, Next
    PROVE  NewRowsUncovered'
<1> SUFFICES ASSUME job'.at = "certify", NEW r \in DOMAIN job'.msg.rows \ DOMAIN cat'.rows
             PROVE  store'[r].covered = "no"
  BY DEF NewRowsUncovered
<1>1. /\ job \in Jobs /\ job.at = "absent" /\ job'.msg = job.msg
      /\ Gone(job.msg) \cap broken = {} /\ InvalidateMembers(Gone(job.msg), NoFault)
      /\ UNCHANGED cat
  BY UncoveredFirst
<1>2. r \in members /\ r \in ROs
  BY <1>1 DEF EnrolmentInOrder, Pending, Idle, TypeOK
<1>3. r \in Gone(job.msg) \ broken
  BY <1>1, <1>2 DEF Gone
<1>4. store'[r] = Invalidated(store[r]) /\ store[r] \in Stores
  BY <1>1, <1>2, <1>3, InvalidateMembersFacts DEF TypeOK
<1> QED BY <1>4, InvalidatedFacts

\* A rundown that joins or rejoins the catalogue starts without coverage:
\* applyCatalogue uncovers what the last catalogue did not list before it
\* certifies the new one.
THEOREM RejoinsTheorem == Spec => RejoinsUncovered
<1>1. Init => NewRowsUncovered
  BY DEF Init, NewRowsUncovered, Idle
<1>2. TypeOK /\ TypeOK' /\ Retention /\ EnrolmentInOrder /\ NewRowsUncovered /\ [Next]_vars
        => NewRowsUncovered'
  <2>1. CASE UNCHANGED vars
    BY <2>1 DEF vars, NewRowsUncovered
  <2> QED BY <2>1, UncoveredStep
<1>3. TypeOK /\ Retention /\ NewRowsUncovered /\ [Next]_vars
        => [\A r \in DOMAIN cat'.rows \ DOMAIN cat.rows : store'[r].covered = "no"]_vars
  <2> SUFFICES ASSUME TypeOK, Retention, NewRowsUncovered, Next,
                      NEW r \in DOMAIN cat'.rows \ DOMAIN cat.rows
               PROVE  store'[r].covered = "no"
    OBVIOUS
  <2>1. ASSUME job.at = "update", NEW q \in job.ro,
               Rewritten(CompleteAfter(cat, job.msg, q), RowsAfter(cat.rows, job.msg, q))
        PROVE  FALSE
    <3>1. job \in Jobs /\ job.msg \in Msgs /\ cat.rows \in Rows
      BY <2>1 DEF TypeOK, Idle, Jobs, Catalogues
    <3> QED BY <2>1, <3>1, RowsAfterFacts DEF Rewritten
  <2>2. ~Recorded /\ ~Withdrawn /\ cat' # cat
    BY DEF Recorded, Withdrawn, Body
  <2>3. job.at = "certify" /\ r \in DOMAIN job.msg.rows
    BY <2>1, <2>2, CatalogueStep DEF CatalogueMoves, Rewritten
  <2>4. store' = store
    BY <2>3, NothingBeforeCertify DEF Certify, Crash, files
  <2> QED BY <2>3, <2>4 DEF NewRowsUncovered
<1> QED BY <1>1, <1>2, <1>3, SetTypeOK, RetentionInvariant, PTL DEF Spec, RejoinsUncovered

-----------------------------------------------------------------------------
(* What the catalogue claims.                                              *)

\* A step that withdraws the catalogue, or leaves it, makes no new claim.
LEMMA NoNewClaim ==
    ASSUME cat' = cat \/ Withdrawn, broken \subseteq broken', Claims(cat', broken')
    PROVE  cat' = cat /\ Claims(cat, broken)
  BY DEF Withdrawn, Claims

\* None is left after an invalidation.
LEMMA NoClaimLeft ==
    ASSUME Withdrawn \/ (cat' = cat /\ ~Claims(cat, broken'))
    PROVE  ~Claims(cat', broken')
  BY DEF Withdrawn, Claims

\* Nor after the owning connection became uncertain.
LEMMA UncertainClaims ==
    ASSUME TypeOK, NEW f \in Uncertainty, UncertainNow(f)
    PROVE  ~Claims(cat', broken')
<1>1. InvalidateCatalogue(f) /\ Breaks(f)
  BY DEF UncertainNow
<1>2. Withdrawn \/ (cat' = cat /\ ~Claims(cat, broken'))
  BY <1>1, BrokenGrows, InvalidationCounts
<1> QED BY <1>2, NoClaimLeft

\* updateCatalogue makes of the rows what the message says, unless it makes
\* the catalogue incomplete.
LEMMA UpdateIsSaid ==
    ASSUME NEW rows \in Rows, NEW m \in Msgs, NEW r \in ROs,
           ~(m.kind = "create" /\ r \notin DOMAIN rows)
    PROVE  RowsAfter(rows, m, r) = Said(rows, m, r)
<1>1. rows \in [DOMAIN rows -> Labels]
  BY RowsFacts
<1>2. CASE m.kind = "delete"
  <2>1. CASE r \in DOMAIN rows
    BY <1>2, <2>1 DEF RowsAfter, Said
  <2>2. CASE r \notin DOMAIN rows
    <3>1. DOMAIN rows \ {r} = DOMAIN rows
      BY <2>2
    <3>2. Restrict(rows, DOMAIN rows) = rows
      BY <1>1 DEF Restrict
    <3> QED BY <1>2, <2>2, <3>1, <3>2 DEF RowsAfter, Said
  <2> QED BY <2>1, <2>2
<1>3. CASE m.kind = "create"
  <2>1. r \in DOMAIN rows /\ DOMAIN rows \cup {r} = DOMAIN rows
    BY <1>3
  <2>2. m.label # NoLabel
    BY <1>3, MessageFacts, SetAssumption
  <2>3. [rows EXCEPT ![r] = m.label] = [q \in DOMAIN rows |-> IF q = r THEN m.label ELSE rows[q]]
    BY <1>1, <2>1
  <2> QED BY <1>3, <2>1, <2>2, <2>3 DEF RowsAfter, Said
<1>4. CASE m.kind # "delete" /\ m.kind # "create"
  BY <1>4 DEF RowsAfter, Said
<1> QED BY <1>2, <1>3, <1>4

\* Messages keep the catalogue faithful.
LEMMA ReceiveFaithful ==
    ASSUME TypeOK, Faithful, NEW s \in Sessions, NEW m \in Msgs, Receive(s, m)
    PROVE  Faithful'
<1> SUFFICES ASSUME up' = "yes", Claims(cat', broken')
             PROVE  /\ truth'.known = "yes"
                    /\ job'.at # "update" => truth'.rows = cat'.rows
                    /\ job'.at = "update" =>
                          \A r \in job'.ro : truth'.rows = Said(cat'.rows, job'.msg, r)
  BY DEF Faithful
<1>0. Running /\ up = "yes" /\ job = Idle /\ job.at = "idle"
  BY OneAtATime DEF Running, Idle
<1>1. CASE ReceiveCrossed(s, m) \/ ReceiveReused(s, m)
  <2>1. PICK f \in Uncertainty : UncertainNow(f)
    BY <1>1 DEF ReceiveCrossed, ReceiveReused
  <2> QED BY <2>1, UncertainClaims
<1>2. CASE ReceiveUnacceptable(s, m)
  <2>1. PICK f \in Faults({Catalogue}) : RejectCatalogue(m, f) /\ Breaks(f)
    BY <1>2 DEF ReceiveUnacceptable
  <2>2. Withdrawn \/ (cat' = cat /\ ~Claims(cat, broken'))
    BY <2>1, BrokenGrows, InvalidationCounts
  <2> QED BY <2>2, NoClaimLeft
<1>3. CASE ReceiveListing(s, m)
  <2>1. job'.at = "enrol" /\ UNCHANGED <<cat, broken, truth>>
    BY <1>3 DEF ReceiveListing, files
  <2> QED BY <1>0, <2>1 DEF Faithful
<1>4. CASE ReceiveUnknown(s, m)
  BY <1>4, UnknownFacts, NoClaimLeft
<1>5. CASE ReceiveEnrolled(s, m)
  <2>1. PICK r \in m.ro \cap members :
          /\ r \in ROs /\ broken \subseteq broken' /\ cat' = cat
          /\ \/ UNCHANGED <<job, truth>>
             \/ /\ truth' = TruthAfter(m, r)
                /\ job' = IF m.kind \in RowKinds
                             THEN [at |-> "update", msg |-> m, ro |-> {r}, todo |-> {}]
                             ELSE Idle
    BY <1>5, EnrolledFacts
  <2>2. truth.known = "yes" /\ truth.rows = cat.rows
    BY <1>0, <2>1, NoNewClaim DEF Faithful
  <2>3. CASE UNCHANGED <<job, truth>>
    BY <1>0, <2>1, <2>2, <2>3
  <2>4. CASE truth' = TruthAfter(m, r) /\ m.kind \in RowKinds
             /\ job' = [at |-> "update", msg |-> m, ro |-> {r}, todo |-> {}]
    <3>1. truth'.known = "yes" /\ truth'.rows = Said(cat'.rows, m, r)
      BY <2>1, <2>2, <2>4, TruthFacts
    <3>2. job'.at = "update" /\ job'.msg = m /\ job'.ro = {r}
      BY <2>4
    <3> QED BY <3>1, <3>2
  <2>5. CASE truth' = TruthAfter(m, r) /\ m.kind \notin RowKinds /\ job' = Idle
    <3>1. truth'.known = "yes" /\ truth'.rows = cat'.rows
      BY <2>1, <2>2, <2>5, TruthFacts
    <3> QED BY <2>5, <3>1 DEF Idle
  <2> QED BY <2>1, <2>3, <2>4, <2>5
<1> QED BY <1>1, <1>2, <1>3, <1>4, <1>5 DEF Receive

\* So do the steps of a listing and of a refusal, until it is certified.
LEMMA JobFaithful ==
    ASSUME TypeOK, Faithful, up = "yes", Next,
           \/ \E r \in ROs : Provide(r)
           \/ EnrolNext \/ UncoverAbsent \/ Refuse
    PROVE  Faithful'
<1> SUFFICES ASSUME up' = "yes", Claims(cat', broken')
             PROVE  /\ truth'.known = "yes"
                    /\ job'.at # "update" /\ truth'.rows = cat'.rows
  BY DEF Faithful
<1>1. job.at \in {"provision", "open", "enrol", "absent", "refuse"}
  BY DEF Provide, ProvideSettled, ProvideFull, Stage, Install, Register, Open, Providing,
         EnrolNext, UncoverAbsent, Refuse
<1>2. job \in Jobs
  BY <1>1 DEF TypeOK, Idle
<1>3. truth' = truth /\ broken \subseteq broken' /\ job'.at # "update"
  <2>1. ASSUME NEW r \in ROs, Provide(r)
        PROVE  truth' = truth /\ broken \subseteq broken' /\ job'.at # "update"
    <3>1. truth' = truth
      BY <2>1 DEF Provide, ProvideSettled, ProvideFull, Stage, Install, Register, Open
    <3>2. broken \subseteq broken'
      BY <2>1, BrokenGrows DEF Provide, ProvideSettled, ProvideFull, Stage, Install, Register,
                               Open
    <3>3. job' \in {job, Idle, Opened, [job EXCEPT !.at = "open"]}
      <4>1. CASE ProvideSettled(r) \/ ProvideFull(r)
        BY <4>1 DEF ProvideSettled, ProvideFull, JobFails
      <4>2. CASE Stage(r)
        BY <4>2 DEF Stage, JobFails
      <4>3. CASE Install(r) \/ Register(r)
        BY <4>3 DEF Install, Register
      <4>4. CASE Open(r)
        BY <4>4, OpenFacts
      <4> QED BY <2>1, <4>1, <4>2, <4>3, <4>4 DEF Provide
    <3>4. job'.at # "update"
      BY <1>1, <1>2, <3>3 DEF Opened, Jobs, Idle
    <3> QED BY <3>1, <3>2, <3>4
  <2>2. CASE EnrolNext
    <3>1. truth' = truth /\ broken' = broken
      BY <2>2 DEF EnrolNext
    <3>2. \/ job' = [job EXCEPT !.at = "absent"]
          \/ \E q \in job.todo : job' = [job EXCEPT !.at = "provision", !.ro = {q},
                                                      !.todo = @ \ {q}]
      BY <2>2, Zenon DEF EnrolNext
    <3>3. ASSUME NEW q \in job.todo,
                 job' = [job EXCEPT !.at = "provision", !.ro = {q}, !.todo = @ \ {q}]
          PROVE  job'.at # "update"
      BY <1>2, <3>3, NextRowFacts
    <3>4. job' = [job EXCEPT !.at = "absent"] => job'.at # "update"
      BY <1>2 DEF Jobs
    <3>5. job'.at # "update"
      BY <3>2, <3>3, <3>4, Zenon
    <3> QED BY <3>1, <3>5
  <2>3. CASE UncoverAbsent
    <3>1. truth' = truth /\ broken \subseteq broken'
      BY <2>3, BrokenGrows DEF UncoverAbsent
    <3>2. job' \in {Idle, [job EXCEPT !.at = "certify"]}
      BY <2>3 DEF UncoverAbsent, JobFails
    <3>3. job'.at # "update"
      BY <1>2, <3>2 DEF Jobs, Idle
    <3> QED BY <3>1, <3>3
  <2>4. CASE Refuse
    BY <2>4, BrokenGrows DEF Refuse, Idle
  <2> QED BY <2>1, <2>2, <2>3, <2>4
<1>4. cat' = cat \/ Withdrawn
  <2>1. CASE \E r \in ROs : Provide(r)
    BY <2>1, CatalogueProvide
  <2>2. CASE EnrolNext \/ Refuse
    BY <2>2 DEF EnrolNext, Refuse, files
  <2>3. CASE UncoverAbsent
    BY <1>2, <2>3, JobFailsFacts DEF UncoverAbsent
  <2> QED BY <2>1, <2>2, <2>3
<1> QED BY <1>1, <1>3, <1>4, NoNewClaim DEF Faithful

\* A listing that is certified is what the newsroom said.
LEMMA CertifyFaithful ==
    ASSUME TypeOK, Certify
    PROVE  Faithful'
<1> SUFFICES ASSUME Claims(cat', broken')
             PROVE  truth'.known = "yes" /\ job'.at # "update" /\ truth'.rows = cat'.rows
  BY DEF Faithful
<1> DEFINE m  == job.msg
           ok == Revisable(cat, "yes", m.rows)
<1>1. PICK f \in Faults({Catalogue}) :
        /\ IF ok THEN CatalogueWrite(TRUE, WithReceipt(Revised(cat, "yes", m.rows), m), f)
                 ELSE RejectCatalogue(m, f)
        /\ Breaks(f)
        /\ Written(ok, f) => truth' = [known |-> "yes", rows |-> m.rows]
        /\ job' = Idle
  BY DEF Certify
<1>2. job \in Jobs /\ m \in Msgs /\ m.rows \in Rows /\ cat \in Catalogues
  BY MessageFacts DEF Certify, TypeOK, Jobs, Idle
<1>3. broken \subseteq broken' /\ (f.where = Catalogue => Catalogue \in broken')
  BY <1>1, BrokenGrows
<1>4. Catalogue \notin broken /\ f.where # Catalogue
  BY <1>3 DEF Claims
<1>5. CASE ok
  <2>1. cat' = WithReceipt(Revised(cat, "yes", m.rows), m)
    BY <1>1, <1>4, <1>5 DEF CatalogueWrite
  <2>2. Revised(cat, "yes", m.rows) \in Catalogues /\ Revised(cat, "yes", m.rows).rows = m.rows
    BY <1>2, <1>5, RevisedFacts
  <2>3. cat'.rows = m.rows
    BY <1>2, <2>1, <2>2, WithReceiptFacts
  <2>4. truth' = [known |-> "yes", rows |-> m.rows]
    BY <1>1, <1>4, <1>5 DEF Written
  <2> QED BY <1>1, <2>3, <2>4 DEF Idle
<1>6. CASE ~ok
  <2>1. Withdrawn \/ (cat' = cat /\ ~Claims(cat, broken'))
    BY <1>1, <1>2, <1>3, <1>6, InvalidationCounts
  <2> QED BY <2>1, NoClaimLeft
<1> QED BY <1>5, <1>6

\* updateCatalogue catches up with the message.
LEMMA UpdateFaithful ==
    ASSUME TypeOK, Faithful, up = "yes", Update
    PROVE  Faithful'
<1> SUFFICES ASSUME Claims(cat', broken')
             PROVE  truth'.known = "yes" /\ job'.at # "update" /\ truth'.rows = cat'.rows
  BY DEF Faithful
<1>1. PICK r \in job.ro : \E f \in Faults({Catalogue} \ broken) :
        LET complete == CompleteAfter(cat, job.msg, r)
            rows     == RowsAfter(cat.rows, job.msg, r)
        IN  /\ IF Revisable(cat, complete, rows)
                  THEN /\ CatalogueWrite(TRUE, Revised(cat, complete, rows), f)
                       /\ UNCHANGED enumerated
                  ELSE InvalidateCatalogue(f)
            /\ Breaks(f)
  BY Zenon DEF Update
<1> DEFINE complete == CompleteAfter(cat, job.msg, r)
           rows     == RowsAfter(cat.rows, job.msg, r)
<1>2. PICK f \in Faults({Catalogue} \ broken) :
        /\ IF Revisable(cat, complete, rows)
              THEN /\ CatalogueWrite(TRUE, Revised(cat, complete, rows), f)
                   /\ UNCHANGED enumerated
              ELSE InvalidateCatalogue(f)
        /\ Breaks(f)
  BY <1>1, Zenon
<1>3. job.at = "update" /\ job' = Idle /\ truth' = truth
  BY DEF Update
<1>4. job \in Jobs /\ job.msg \in Msgs /\ r \in ROs /\ cat \in Catalogues /\ cat.rows \in Rows
  BY <1>1, <1>3 DEF TypeOK, Jobs, Idle, Catalogues
<1>5. broken \subseteq broken' /\ (f.where = Catalogue => Catalogue \in broken')
  BY <1>2, BrokenGrows
<1>6. Catalogue \notin broken /\ f.where # Catalogue
  BY <1>5 DEF Claims
<1>7. rows \in Rows /\ complete \in {"yes", "no"}
  BY <1>4, RowsAfterFacts DEF CompleteAfter, Catalogues
<1>8. CASE Revisable(cat, complete, rows)
  <2>1. cat' = Revised(cat, complete, rows)
    BY <1>2, <1>6, <1>8 DEF CatalogueWrite
  <2>2. /\ cat'.complete = complete /\ cat'.rows = rows /\ cat.halted = "no"
        /\ cat' = cat \/ cat'.rev = cat.rev + 1
    BY <1>4, <1>7, <1>8, <2>1, RevisedFacts
  <2>3. cat.rev \in Nat /\ MaxRevision \in Nat /\ cat.rev < MaxRevision
    BY <1>4, <2>2, SetAssumption DEF Claims, Catalogues
  <2>4. cat.complete = "yes" /\ ~(job.msg.kind = "create" /\ r \notin DOMAIN cat.rows)
    BY <2>2 DEF Claims, CompleteAfter
  <2>5. Claims(cat, broken)
    BY <1>6, <2>2, <2>3, <2>4 DEF Claims
  <2>6. truth.known = "yes" /\ truth.rows = Said(cat.rows, job.msg, r)
    BY <1>1, <1>3, <2>5 DEF Faithful
  <2>7. rows = Said(cat.rows, job.msg, r)
    BY <1>4, <2>4, UpdateIsSaid
  <2> QED BY <1>3, <2>2, <2>6, <2>7 DEF Idle
<1>9. CASE ~Revisable(cat, complete, rows)
  <2>1. Withdrawn \/ (cat' = cat /\ ~Claims(cat, broken'))
    BY <1>2, <1>5, <1>9, InvalidationCounts
  <2> QED BY <2>1, NoClaimLeft
<1> QED BY <1>8, <1>9

\* The publisher claims nothing, and withdraws what it finds too old.
LEMMA PublisherFaithful ==
    ASSUME TypeOK, DeliveryInOrder, Faithful, Next, PublishOnce \/ Answer
    PROVE  Faithful'
<1> SUFFICES ASSUME Claims(cat', broken')
             PROVE  truth'.known = "yes" /\ job'.at # "update" /\ truth'.rows = cat'.rows
  BY DEF Faithful
<1>1. up = "yes" /\ job.at = "idle" /\ job' = job
  <2>1. Running /\ job' = job
    BY DEF PublishOnce, Answer
  <2> QED BY <2>1 DEF Running, Idle
<1>2. CASE PublishOnce
  <2>1. PICK f \in Uncertainty :
          /\ Breaks(f)
          /\ InvalidateCatalogue(f) \/ UNCHANGED <<cat, truth>>
    BY <1>2 DEF PublishOnce
  <2>2. CASE InvalidateCatalogue(f)
    <3>1. Withdrawn \/ (cat' = cat /\ ~Claims(cat, broken'))
      BY <2>1, <2>2, BrokenGrows, InvalidationCounts
    <3> QED BY <3>1, NoClaimLeft
  <2>3. CASE UNCHANGED <<cat, truth>>
    BY <1>1, <2>1, <2>3, BrokenGrows, NoNewClaim DEF Faithful
  <2> QED BY <2>1, <2>2, <2>3
<1>3. CASE Answer
  <2>1. broken \subseteq broken' /\ truth' = truth /\ pub # Resting
    BY <1>3, BrokenGrows DEF Answer, Resting
  <2>2. cat.halted = "no"
    BY <2>1 DEF DeliveryInOrder
  <2>3. Body(cat') = Body(cat)
    <3>1. CASE cat' = cat
      BY <3>1
    <3>2. CASE cat' # cat
      <4>1. PICK f : CatalogueWrite(TRUE, IF pub.at = "accepted" THEN Accepted(cat, pub.copy)
                                          ELSE [cat EXCEPT !.halted = "yes"], f)
        BY <1>3 DEF Answer
      <4>2. cat' \in {Accepted(cat, pub.copy), [cat EXCEPT !.halted = "yes"]}
        BY <3>2, <4>1 DEF CatalogueWrite
      <4> QED BY <4>2 DEF Accepted, Body, TypeOK, Catalogues
    <3> QED BY <3>1, <3>2
  <2>4. cat'.rows = cat.rows /\ cat'.complete = cat.complete /\ cat'.rev = cat.rev
    BY <2>3 DEF Body
  <2>5. Claims(cat, broken)
    BY <2>1, <2>2, <2>4 DEF Claims
  <2> QED BY <1>1, <2>1, <2>4, <2>5 DEF Faithful
<1> QED BY <1>2, <1>3

\* A new or lost connection leaves no claim behind.
LEMMA ConnectionFaithful ==
    ASSUME TypeOK, Faithful, NEW s \in Sessions,
           Observe(s) \/ Disconnected(s) \/ Uncertain(s)
    PROVE  Faithful'
<1>1. PICK f \in Uncertainty :
         UncertainNow(f) \/ UNCHANGED <<cat, broken, truth>>
  BY DEF Observe, Disconnected, Uncertain
<1>2. job' = job /\ up' = up
  BY DEF Observe, Disconnected, Uncertain
<1>3. CASE UncertainNow(f)
  BY <1>3, UncertainClaims DEF Faithful
<1>4. CASE UNCHANGED <<cat, broken, truth>>
  BY <1>2, <1>4 DEF Faithful
<1> QED BY <1>1, <1>3, <1>4

\* A process starts without a claim.
LEMMA ProcessFaithful ==
    ASSUME TypeOK, Start \/ StartFails \/ Crash
    PROVE  Faithful'
<1>1. CASE Start
  <2>1. Withdrawn
    BY <1>1, SuspendedIsWithdrawn DEF Start, Startable
  <2> QED BY <2>1, NoClaimLeft DEF Faithful
<1>2. CASE StartFails \/ Crash
  <2>1. up' = "no"
    BY <1>2 DEF StartFails, Crash
  <2> QED BY <2>1 DEF Faithful
<1> QED BY <1>1, <1>2

\* Every step keeps the catalogue faithful.
LEMMA FaithfulStep ==
    ASSUME TypeOK, Retention, DeliveryInOrder, Faithful, Next
    PROVE  Faithful'
<1>1. CASE Start \/ StartFails \/ Crash
  BY <1>1, ProcessFaithful
<1>2. CASE ~(Start \/ StartFails \/ Crash)
  <2>1. up = "yes"
    BY <1>2, Membership
  <2> QED BY <1>2, <2>1, ConnectionFaithful, ReceiveFaithful, JobFaithful, CertifyFaithful,
             UpdateFaithful, PublisherFaithful DEF Next
<1> QED BY <1>1, <1>2

\* While no message is being handled, a complete catalogue that can still be
\* withdrawn lists what the newsroom said on this connection since its last
\* listing (applyCatalogue, updateCatalogue, uncertain).
THEOREM CurrentTheorem == Spec => []CompleteIsCurrent
<1>1. Init => Faithful
  BY DEF Init, Faithful
<1>2. TypeOK /\ Retention /\ DeliveryInOrder /\ Faithful /\ [Next]_vars => Faithful'
  <2>1. CASE UNCHANGED vars
    BY <2>1 DEF vars, Faithful
  <2> QED BY <2>1, FaithfulStep
<1>3. Faithful => CompleteIsCurrent
  BY DEF Faithful, CompleteIsCurrent, Claims, Running, Idle
<1> QED BY <1>1, <1>2, <1>3, SetTypeOK, RetentionInvariant, DeliveryInvariant, PTL DEF Spec
=============================================================================
