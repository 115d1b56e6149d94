------------------------------ MODULE SourceSet ------------------------------
(***************************************************************************)
(* A catalogue of rundowns and the committed source of each:               *)
(* internal/service/source_catalogue.go and source_catalogue_publisher.go  *)
(* over the files of internal/repository/catalogue.go.                     *)
(*                                                                         *)
(* The files are the catalogue's checkpoint (cat), the inventory of        *)
(* retained rundowns (inv, source-members.json) and one checkpoint per     *)
(* rundown (store, whose own life is module CommittedSource).  A roListAll *)
(* enrols every rundown it lists and then certifies the catalogue; a       *)
(* message for a rundown nobody enrolled is refused, and the refusal is    *)
(* kept in a store of that rundown.                                        *)
(*                                                                         *)
(* The set's mutex makes a message one job, but a job writes several files *)
(* and the process may die between any two of them.  Memory equals the     *)
(* files except for a file whose write failed: it is then unreadable until *)
(* a restart (broken), and the file holds the old or the new value.        *)
(*                                                                         *)
(* Time is left to the steps that look at it: a connection or a listing   *)
(* may be past its timeout whenever that is asked.  Two-valued flags are   *)
(* strings.  One step has at most one fault.                               *)
(***************************************************************************)
EXTENDS Integers, FiniteSets, Functions

CONSTANTS ROs,         \* rundown identities
          Labels,      \* what a catalogue row shows of a rundown
          NoLabel,     \* a message that leaves the row's label alone
          Sessions,    \* connections of the one scope
          NoSession,
          IDs,         \* messageIDs of the newsroom
          NoID,        \* the absent messageID
          Msgs,        \* the messages the newsroom sends
          Limit,       \* rundowns retained at most: 100, or MaxSourceMembers
          MaxRevision, \* repository.MaxSourceRevision
          MaxBroken    \* bound: files that fail in one process

\* Mentions of a rundown, for the catalogue: a roListAll, whole or
\* unreadable; a roList answer; the requests that updateCatalogue follows;
\* other requests; and one that the rundown's source cannot apply.
Listings == {"listing", "badlisting"}
RowKinds == {"roster", "create", "replace", "metadata", "delete"}
Kinds == Listings \cup RowKinds \cup {"other", "inapplicable"}

\* The rows of a catalogue: rundowns with their labels.
Rows == UNION {[S -> Labels] : S \in SUBSET ROs}

NoRows == [r \in {} |-> NoLabel]

\* A message; its whole content stands for its hash.
Messages == [id    : IDs \cup {NoID},
             kind  : Kinds,
             ro    : SUBSET ROs,     \* the rundown it names, none for a listing
             label : Labels \cup {NoLabel},
             rows  : Rows]

ASSUME SetAssumption ==
    /\ NoLabel \notin Labels
    /\ NoSession \notin Sessions
    /\ NoID \notin IDs
    /\ Msgs \subseteq Messages
    /\ \A m \in Msgs : /\ IF m.kind \in Listings THEN m.ro = {}
                                                ELSE \E r \in ROs : m.ro = {r}
                       /\ m.kind \notin {"metadata", "delete", "other", "inapplicable"}
                          \cup Listings => m.label \in Labels
    /\ Limit \in Nat \ {0}
    /\ MaxRevision \in Nat \ {0}
    /\ MaxBroken \in Nat
    /\ ROs \cap {"catalogue", "nowhere"} = {}   \* places of faults, below

Catalogue == "catalogue"   \* as the place of a fault

NoFault == [where |-> "nowhere", landed |-> "no"]

\* Receipts of requests and of answers are told apart by their direction.
Direction(m) == IF m.kind \in Listings \cup {"roster"} THEN "answer" ELSE "request"

Key(m) == <<m.id, Direction(m)>>

Keys == IDs \X {"answer", "request"}

Receipts == [key : Keys, msg : Msgs, reply : {"OK", "NACK", "none"}]

\* CatalogueCheckpoint: rev, complete and rows are its Pending body.
Catalogues == [rev      : 0 .. MaxRevision,
               complete : {"yes", "no"},
               rows     : Rows,
               accepted : 0 .. MaxRevision,
               halted   : {"yes", "no"},
               receipts : SUBSET [key : Keys, msg : Msgs]]

NewCatalogue == [rev |-> 0, complete |-> "no", rows |-> NoRows,
                 accepted |-> 0, halted |-> "no", receipts |-> {}]

Bodies == [rev : 0 .. MaxRevision, complete : {"yes", "no"}, rows : Rows]

Body(c) == [rev |-> c.rev, complete |-> c.complete, rows |-> c.rows]

\* The store of a rundown: where it is, whether its revision has left 0,
\* whether its roster is fresh, and its receipts.
Stores == [at       : {"none", "staged", "installed"},
           used     : {"yes", "no"},
           covered  : {"yes", "no"},
           receipts : SUBSET Receipts]

NoStore == [at |-> "none", used |-> "no", covered |-> "no", receipts |-> {}]

\* The message the mutex is held for, and how far it has come.
Jobs == [at   : {"enrol", "provision", "open", "absent", "certify",
                 "refuse", "update"},
         msg  : Msgs,
         ro   : SUBSET ROs,
         todo : SUBSET ROs]

Idle == [at |-> "idle"]

Resting == [at |-> "rest"]

Unsure == [known |-> "no", rows |-> NoRows]

VARIABLES
    cat,        \* source-catalogue.json
    inv,        \* source-members.json: [ids, unenrolled]
    store,      \* per rundown: its directory
    up,         \* is the process running?
    broken,     \* files whose last write failed in this process
    members,    \* byRundown: enrolled sources
    refusing,   \* unenrolled sources, which only keep refusals
    sessions,   \* connections that were observed and not yet given up
    owner,      \* the connection whose input counts
    enumerated, \* was there a listing since the catalogue was invalidated?
    job,
    pub,        \* the publisher: an answer, and the body it is about
    held,       \* the receiver's latest body
    refused,    \* history: messages whose enrolment refusal was answered
    took,       \* history: <<key, rundown>> of messages applied
    truth       \* history: the rundowns as the newsroom told them on this
                \* connection, in the order in which it was heard

vars == <<cat, inv, store, up, broken, members, refusing, sessions, owner,
          enumerated, job, pub, held, refused, took, truth>>

files == <<cat, inv, store>>
peers == <<sessions, owner>>
posting == <<pub, held>>
history == <<refused, took>>

TypeOK ==
    /\ cat \in Catalogues
    /\ inv \in [ids : SUBSET ROs, unenrolled : SUBSET ROs]
    /\ store \in [ROs -> Stores]
    /\ up \in {"yes", "no"}
    /\ broken \subseteq ROs \cup {Catalogue}
    /\ members \subseteq ROs
    /\ refusing \subseteq ROs
    /\ sessions \subseteq Sessions
    /\ owner \in Sessions \cup {NoSession}
    /\ enumerated \in {"yes", "no"}
    /\ job \in Jobs \cup {Idle}
    /\ pub \in [at : {"accepted", "conflict"}, copy : Bodies]
               \cup {Resting}
    /\ held \in Bodies
    /\ refused \subseteq Msgs
    /\ took \subseteq Keys \X ROs
    /\ truth \in [known : {"yes", "no"}, rows : Rows]

\* An initialised catalogue directory that no process has used.
Init ==
    /\ cat = NewCatalogue
    /\ inv = [ids |-> {}, unenrolled |-> {}]
    /\ store = [r \in ROs |-> NoStore]
    /\ up = "no"
    /\ broken = {}
    /\ members = {}
    /\ refusing = {}
    /\ sessions = {}
    /\ owner = NoSession
    /\ enumerated = "no"
    /\ job = Idle
    /\ pub = Resting
    /\ held = Body(NewCatalogue)
    /\ refused = {}
    /\ took = {}
    /\ truth = Unsure

-----------------------------------------------------------------------------
(* The catalogue's checkpoint and the members' stores.                     *)

\* What may go wrong in one step that writes the files in `touched'.
Faults(touched) ==
    {NoFault} \cup {f \in [where : touched, landed : {"yes", "no"}] :
                      Cardinality(broken) < MaxBroken}

SameBody(c, complete, rows) ==
    c.rev > 0 /\ c.complete = complete /\ c.rows = rows

\* Mutants of Revisable: the last revision, and the halt, are not noticed.
RevisableForever(c, complete, rows) == c.halted = "no"

RevisableHalted(c, complete, rows) ==
    SameBody(c, complete, rows) \/ c.rev < MaxRevision

\* reviseCatalogue fails on a halted or exhausted catalogue.
Revisable(c, complete, rows) ==
    c.halted = "no" /\ (SameBody(c, complete, rows) \/ c.rev < MaxRevision)

Revised(c, complete, rows) ==
    IF SameBody(c, complete, rows) THEN c
    ELSE [c EXCEPT !.rev = c.rev + 1, !.complete = complete, !.rows = rows]

Suspendable(c) == Revisable(c, "no", c.rows)

\* suspendCatalogue
Suspended(c) == Revised(c, "no", c.rows)

WithReceipt(c, m) ==
    IF m.id = NoID THEN c
    ELSE [c EXCEPT !.receipts = @ \cup {[key |-> Key(m), msg |-> m]}]

\* What the catalogue's file holds after next was committed under fault f,
\* when ok says that the commit's function did not refuse.
CatalogueWrite(ok, next, f) ==
    cat' = IF ok /\ Catalogue \notin broken
              /\ (f.where = Catalogue => f.landed = "yes")
           THEN next ELSE cat

Written(ok, f) == ok /\ Catalogue \notin broken /\ f.where # Catalogue

\* A failed write makes the file unreadable for this process.
Breaks(f) == broken' = IF f = NoFault THEN broken ELSE broken \cup {f.where}

\* invalidateCatalogue
InvalidateCatalogue(f) ==
    /\ CatalogueWrite(Suspendable(cat), Suspended(cat), f)
    /\ enumerated' = IF Written(Suspendable(cat), f) THEN "no" ELSE enumerated

\* CommittedSource.invalidate; the first one takes the revision from 0 to 1.
Invalidated(st) == [st EXCEPT !.used = "yes", !.covered = "no"]

InvalidateMembers(S, f) ==
    store' = [r \in ROs |->
                IF r \in S \ broken /\ (f.where = r => f.landed = "yes")
                   THEN Invalidated(store[r]) ELSE store[r]]

\* Where a step that invalidates the members and the catalogue may fail.
Uncertainty == Faults((members \cup {Catalogue}) \ broken)

\* uncertain, of the owning connection.
UncertainNow(f) ==
    /\ InvalidateMembers(members, f)
    /\ InvalidateCatalogue(f)
    /\ Breaks(f)
    /\ truth' = Unsure

Running == up = "yes" /\ job = Idle

-----------------------------------------------------------------------------
(* Process and connections.                                                *)

\* What NewCommittedSourceSet and OpenMembers require of the files.
Startable ==
    /\ \A r \in inv.ids : store[r].at = "installed"
    /\ Cardinality(inv.ids) <= Limit
    /\ inv.unenrolled \subseteq inv.ids
    /\ Suspendable(cat)

\* NewCommittedSourceSet: every retained source starts uncovered, and the
\* catalogue incomplete.
Start ==
    /\ up = "no" /\ Startable
    /\ store' = [r \in ROs |-> IF r \in inv.ids THEN Invalidated(store[r])
                                                ELSE store[r]]
    /\ cat' = Suspended(cat)
    /\ members' = inv.ids \ inv.unenrolled
    /\ refusing' = inv.unenrolled
    /\ up' = "yes"
    /\ UNCHANGED <<inv, broken, peers, enumerated, job, posting, history, truth>>

\* It fails half way: at a store that cannot be written, or at the catalogue,
\* after all stores, because it is halted or exhausted or cannot be written.
StartFails ==
    /\ up = "no"
    /\ MaxBroken > 0 \/ ~Startable
    /\ \E S \in IF MaxBroken > 0 THEN SUBSET inv.ids ELSE {inv.ids} :
         /\ store' = [r \in ROs |-> IF r \in S THEN Invalidated(store[r])
                                               ELSE store[r]]
         /\ cat' \in {cat} \cup (IF Startable /\ S = inv.ids
                                   THEN {Suspended(cat)} ELSE {})
    /\ UNCHANGED <<inv, up, broken, members, refusing, peers,
                   enumerated, job, posting, history, truth>>

\* The process dies, whatever it was doing.
Crash ==
    /\ up = "yes"
    /\ up' = "no"
    /\ broken' = {} /\ members' = {} /\ refusing' = {}
    /\ sessions' = {}
    /\ owner' = NoSession
    /\ enumerated' = "no"
    /\ job' = Idle
    /\ pub' = Resting
    /\ truth' = Unsure
    /\ UNCHANGED <<files, held, history>>

\* Observe of a connection that is new, or the owner after its timeout.  One
\* that is superseded is refused, and within the timeout nothing changes.
Observe(s) == \E f \in Uncertainty :
    /\ Running
    /\ s \notin sessions \/ owner = s
    /\ UncertainNow(f)
    /\ IF Written(Suspendable(cat), f)
          THEN owner' = s /\ sessions' = sessions \cup {s}
          ELSE UNCHANGED peers
    /\ UNCHANGED <<inv, up, members, refusing, job, posting, history>>

Disconnected(s) == \E f \in Uncertainty :
    /\ Running
    /\ s \in sessions
    /\ sessions' = sessions \ {s}
    /\ IF owner = s
          THEN owner' = NoSession /\ UncertainNow(f)
          ELSE f = NoFault /\ UNCHANGED <<owner, cat, store, broken,
                                          enumerated, truth>>
    /\ UNCHANGED <<inv, up, members, refusing, job, posting, history>>

\* Uncertain: a request could not be written, a listing exceeds what can be
\* walked, or (Observe) the owner's connection names a foreign newsroom.
Uncertain(s) == \E f \in Uncertainty :
    /\ Running
    /\ owner = s
    /\ UncertainNow(f)
    /\ UNCHANGED <<inv, up, members, refusing, peers, job, posting, history>>

-----------------------------------------------------------------------------
(* Routing a message (Apply).                                              *)

Retained == members \cup refusing

\* crossReceipt: the messageID has a receipt for another rundown or, when
\* the message's own rundown is retained, for a listing.
CrossConflict(m) ==
    /\ m.id # NoID
    /\ \/ \E r \in Retained \ (m.ro \cup broken) :
            \E rc \in store[r].receipts : rc.key = Key(m)
       \/ /\ m.ro \cap Retained # {}
          /\ ((Retained \ m.ro) \cup {Catalogue}) \cap broken = {}
          /\ \E rc \in cat.receipts : rc.key = Key(m)

\* Mutant of Routable: the receipts of other rundowns are not looked at.
RoutableAlone(m) == TRUE

\* It finds no conflict, and can read every receipt it must look at.
Routable(m) ==
    m.id = NoID \/ ( /\ ~CrossConflict(m)
                     /\ (Retained \ m.ro) \cap broken = {}
                     /\ m.ro \cap Retained # {} => Catalogue \notin broken )

\* Input counts on the owning connection within its timeout.
Accepting(s) == Running /\ owner = s

ReceiveCrossed(s, m) == \E f \in Uncertainty :
    /\ Accepting(s)
    /\ CrossConflict(m)
    /\ UncertainNow(f)
    /\ UNCHANGED <<inv, up, members, refusing, peers, job, posting, history>>

\* What a message did before: the receipt of its key in a set of receipts.
Known(m, receipts) == m.id # NoID /\ \E rc \in receipts : rc.key = Key(m)

Replayed(m, receipts) ==
    m.id # NoID /\ \E rc \in receipts : rc.key = Key(m) /\ rc.msg = m

\* A known messageID with another content: a listing's, or that of a
\* message for a rundown that only keeps refusals.  (A replay of either
\* changes nothing.)
ReceiveReused(s, m) == \E f \in Uncertainty :
    /\ Accepting(s)
    /\ Routable(m)
    /\ \/ /\ m.kind \in Listings
          /\ Catalogue \notin broken
          /\ Known(m, cat.receipts) /\ ~Replayed(m, cat.receipts)
       \/ \E r \in m.ro \cap refusing :
            /\ r \notin broken
            /\ Known(m, store[r].receipts) /\ ~Replayed(m, store[r].receipts)
    /\ UncertainNow(f)
    /\ UNCHANGED <<inv, up, members, refusing, peers, job, posting, history>>

-----------------------------------------------------------------------------
(* A listing (applyCatalogue).                                             *)

\* The listing can be published under another revision and its rundowns can
\* be retained: both are found out before any rundown is enrolled.
Acceptable(m) ==
    /\ m.kind = "listing"
    /\ cat.rev < MaxRevision
    /\ Cardinality(Retained \cup DOMAIN m.rows) <= Limit

\* rejectCatalogue: incomplete, with the receipt of the listing.
RejectCatalogue(m, f) ==
    CatalogueWrite(Suspendable(cat), WithReceipt(Suspended(cat), m), f)

NewListing(s, m) ==
    /\ Accepting(s)
    /\ m.kind \in Listings
    /\ Routable(m)
    /\ Catalogue \notin broken
    /\ ~Known(m, cat.receipts)

ReceiveUnacceptable(s, m) == \E f \in Faults({Catalogue}) :
    /\ NewListing(s, m)
    /\ ~Acceptable(m)
    /\ RejectCatalogue(m, f)
    /\ Breaks(f)
    /\ UNCHANGED <<inv, store, up, members, refusing, peers, enumerated, job,
                   posting, history, truth>>

\* Mutant of Unlisted: rundowns that only keep refusals count as enrolled.
UnlistedOnly(m) == DOMAIN m.rows \ Retained

\* The rows that have to be enrolled.
Unlisted(m) == DOMAIN m.rows \ members

ReceiveListing(s, m) ==
    /\ NewListing(s, m)
    /\ Acceptable(m)
    /\ job' = [at |-> "enrol", msg |-> m, ro |-> {}, todo |-> Unlisted(m)]
    /\ UNCHANGED <<files, up, broken, members, refusing, peers, enumerated,
                   posting, history, truth>>

\* The next row, or all are enrolled.
EnrolNext ==
    /\ job.at = "enrol"
    /\ \/ /\ job.todo = {}
          /\ job' = [job EXCEPT !.at = "absent"]
       \/ \E r \in job.todo :
            job' = [job EXCEPT !.at = "provision", !.ro = {r},
                               !.todo = @ \ {r}]
    /\ UNCHANGED <<files, up, broken, members, refusing, peers, enumerated,
                   posting, history, truth>>

\* Where a job for a member that cannot be had ends: a listing is rejected,
\* a refusal is not answered.
JobFails(f) ==
    /\ job' = Idle
    /\ IF job.msg.kind \in Listings THEN RejectCatalogue(job.msg, f)
                                    ELSE UNCHANGED cat

-----------------------------------------------------------------------------
(* Retaining a rundown (retainMember), one durable step at a time.         *)

Enrolling == job.msg.kind \in Listings

\* What saveMembers writes for r.
Registered(r) ==
    [ids        |-> inv.ids \cup {r},
     unenrolled |-> IF Enrolling THEN inv.unenrolled \ {r}
                                 ELSE inv.unenrolled \cup {r}]

\* Registered, and with nothing to change.
Settled(r) == r \in inv.ids /\ ~(Enrolling /\ r \in inv.unenrolled)

Providing(r) == job.at = "provision" /\ job.ro = {r}

\* The store is there: on to opening it.
ProvideSettled(r) ==
    /\ Providing(r)
    /\ Settled(r)
    /\ job' = [job EXCEPT !.at = "open"]
    /\ UNCHANGED <<files, up, broken, members, refusing, peers, enumerated,
                   posting, history, truth>>

\* The inventory is full, though the members that could be opened are not.
ProvideFull(r) == \E f \in Faults({Catalogue}) :
    /\ Providing(r)
    /\ r \notin inv.ids
    /\ Cardinality(inv.ids) >= Limit
    /\ JobFails(f)
    /\ Breaks(f)
    /\ UNCHANGED <<inv, store, up, members, refusing, peers, enumerated,
                   posting, history, truth>>

Room(r) == r \in inv.ids \/ Cardinality(inv.ids) < Limit

\* The staging directory with an empty checkpoint.  When it cannot be made
\* the job fails, and no file in use is broken; only failing to sync the
\* root, which is made with the first store, breaks the catalogue.
Stage(r) == \E f \in Faults({r, Catalogue}) :
    /\ Providing(r)
    /\ Room(r) /\ store[r].at = "none"
    /\ f.where = Catalogue => f.landed = "no" /\ \A q \in ROs : store[q].at = "none"
    /\ store' = IF f = NoFault \/ f.landed = "yes"
                   THEN [store EXCEPT ![r].at = "staged"] ELSE store
    /\ broken' = IF f.where = Catalogue THEN broken \cup {Catalogue} ELSE broken
    /\ CASE f = NoFault -> UNCHANGED <<cat, job>>
         [] f.where = r -> JobFails(NoFault)
         [] OTHER       -> job' = Idle /\ UNCHANGED cat
    /\ UNCHANGED <<inv, up, members, refusing, peers, enumerated, posting,
                   history, truth>>

\* The rename; when the directory cannot be synced the catalogue is broken.
Install(r) == \E f \in Faults({Catalogue}) :
    /\ Providing(r)
    /\ Room(r) /\ store[r].at = "staged"
    /\ store' = [store EXCEPT ![r].at = IF f.where = Catalogue /\ f.landed = "no"
                                           THEN "staged" ELSE "installed"]
    /\ Breaks(f)
    /\ job' = IF f = NoFault THEN job ELSE Idle
    /\ UNCHANGED <<cat, inv, up, members, refusing, peers, enumerated,
                   posting, history, truth>>

\* Mutant of Register: the rundown is registered before its store exists.
RegisterFirst(r) == \E f \in Faults({Catalogue}) :
    /\ Providing(r)
    /\ Room(r) /\ ~Settled(r)
    /\ inv' = IF f.where = Catalogue /\ f.landed = "no" THEN inv
                                                        ELSE Registered(r)
    /\ Breaks(f)
    /\ job' = IF f = NoFault THEN job ELSE Idle
    /\ UNCHANGED <<cat, store, up, members, refusing, peers, enumerated,
                   posting, history, truth>>

\* saveMembers.  An installed store that no inventory names must be unused.
Register(r) == \E f \in Faults({Catalogue}) :
    /\ Providing(r)
    /\ Room(r) /\ ~Settled(r)
    /\ store[r].at = "installed"
    /\ r \in inv.ids \/ store[r].used = "no"
    /\ inv' = IF f.where = Catalogue /\ f.landed = "no" THEN inv
                                                        ELSE Registered(r)
    /\ Breaks(f)
    /\ job' = IF f = NoFault THEN job ELSE Idle
    /\ UNCHANGED <<cat, store, up, members, refusing, peers, enumerated,
                   posting, history, truth>>

\* After it: the next row of the listing, or the refusal.
Opened == [job EXCEPT !.at = IF Enrolling THEN "enrol" ELSE "refuse"]

Join(r) ==
    IF Enrolling
       THEN members' = members \cup {r} /\ refusing' = refusing \ {r}
       ELSE refusing' = refusing \cup {r} /\ UNCHANGED members

\* Mutant of Open: enrolling a rundown starts its store anew.
OpenAnew(r) ==
    /\ job.at = "open" /\ job.ro = {r}
    /\ r \notin broken
    /\ store' = [store EXCEPT ![r] = [Invalidated(@) EXCEPT !.receipts = {}]]
    /\ Join(r)
    /\ job' = Opened
    /\ UNCHANGED <<cat, inv, up, broken, peers, enumerated, posting,
                   history, truth>>

\* newCommittedSource starts a store uncovered; addMember takes over the
\* source that kept the refusals as it is.
Open(r) == \E f \in Faults(IF r \in refusing THEN {} ELSE {r}) :
    /\ job.at = "open" /\ job.ro = {r}
    /\ IF r \in refusing THEN f = NoFault /\ UNCHANGED store
                         ELSE InvalidateMembers({r}, f)
    /\ IF f = NoFault /\ (r \in refusing \/ r \notin broken)
          THEN Join(r) /\ job' = Opened /\ UNCHANGED cat
          ELSE UNCHANGED <<members, refusing>> /\ JobFails(NoFault)
    /\ Breaks(f)
    /\ UNCHANGED <<inv, up, peers, enumerated, posting, history, truth>>

-----------------------------------------------------------------------------
(* The end of a listing.                                                   *)

\* Mutant of Gone: only a rundown that the listing leaves out is uncovered.
GoneNow(m) == members \ DOMAIN m.rows

\* The members that are not both in this listing and in the last catalogue.
Gone(m) == members \ (DOMAIN m.rows \cap DOMAIN cat.rows)

\* They are uncovered, in any order, up to the first that fails.
UncoverAbsent == job.at = "absent" /\ \E f \in Faults(Gone(job.msg) \ broken) :
    LET gone   == Gone(job.msg)
        failed == f # NoFault \/ gone \cap broken # {}
    IN /\ \E S \in IF failed THEN SUBSET gone ELSE {gone} :
            /\ f # NoFault => f.where \in S
            /\ InvalidateMembers(S, f)
       /\ IF failed THEN JobFails(NoFault)
                    ELSE job' = [job EXCEPT !.at = "certify"] /\ UNCHANGED cat
       /\ Breaks(f)
       /\ UNCHANGED <<inv, up, members, refusing, peers, enumerated, posting,
                      history, truth>>

\* The commit that makes the catalogue complete.  One that is refused,
\* because the catalogue is halted or exhausted, is rejected instead.
Certify == \E f \in Faults({Catalogue}) :
    LET m  == job.msg
        ok == Revisable(cat, "yes", m.rows)
    IN /\ job.at = "certify"
       /\ IF ok THEN CatalogueWrite(TRUE, WithReceipt(Revised(cat, "yes", m.rows), m), f)
                ELSE RejectCatalogue(m, f)
       /\ Breaks(f)
       /\ IF Written(ok, f)
             THEN /\ enumerated' = "yes"
                  /\ truth' = [known |-> "yes", rows |-> m.rows]
             ELSE UNCHANGED <<enumerated, truth>>
       /\ job' = Idle
       /\ UNCHANGED <<inv, store, up, members, refusing, peers, posting, history>>

-----------------------------------------------------------------------------
(* A message for a rundown that is not enrolled.                           *)

\* The catalogue cannot be complete; then the refusal needs a store.
ReceiveUnknown(s, m) == \E f \in Faults({Catalogue} \ broken), r \in m.ro \ members :
    /\ Accepting(s)
    /\ Routable(m)
    /\ r \in refusing /\ m.id # NoID =>
         r \notin broken /\ ~Known(m, store[r].receipts)
    /\ InvalidateCatalogue(f)
    /\ Breaks(f)
    /\ truth' = Unsure
    /\ job' = IF \/ ~Written(Suspendable(cat), f) \/ m.id = NoID
                 \/ r \notin refusing /\ Cardinality(Retained) >= Limit
                 THEN Idle
                 ELSE [at |-> IF r \in refusing THEN "refuse" ELSE "provision",
                       msg |-> m, ro |-> {r}, todo |-> {}]
    /\ UNCHANGED <<inv, store, up, members, refusing, peers, posting, history>>

\* rememberSource: an answer (roList) is silent, its receipt has no reply.
Receipt(m, reply) ==
    IF m.id = NoID THEN {}
    ELSE {[key |-> Key(m), msg |-> m,
           reply |-> IF Direction(m) = "answer" THEN "none" ELSE reply]}

\* The commit of a rundown's store.
StoreWrite(r, next, f) ==
    store' = [store EXCEPT ![r] = IF f.where = r /\ f.landed = "no"
                                     THEN @ ELSE next]

\* No refusal is answered without its receipt.
Refuse == job.at = "refuse" /\ \E r \in job.ro : \E f \in Faults({r} \ broken) :
    /\ IF r \in broken THEN UNCHANGED store
       ELSE StoreWrite(r, [store[r] EXCEPT !.receipts = @ \cup Receipt(job.msg, "NACK")], f)
    /\ refused' = IF r \in broken \/ f # NoFault THEN refused
                                                ELSE refused \cup {job.msg}
    /\ Breaks(f)
    /\ job' = Idle
    /\ UNCHANGED <<cat, inv, up, members, refusing, peers, enumerated,
                   posting, took, truth>>

-----------------------------------------------------------------------------
(* A message for an enrolled rundown.                                      *)

\* CommittedSource.Apply, as far as the set depends on it: a roster, or the
\* rundown's end, covers; what cannot be applied, or reuses a messageID,
\* uncovers.  A replay changes nothing.
Applied(st, m) ==
    [st EXCEPT !.used = "yes",
               !.covered = IF m.kind \in RowKinds \ {"metadata"}
                              THEN "yes" ELSE st.covered,
               !.receipts = @ \cup Receipt(m, "OK")]

Inapplicable(st, m) ==
    [Invalidated(st) EXCEPT !.receipts =
        @ \cup (IF Known(m, st.receipts) THEN {} ELSE Receipt(m, "NACK"))]

\* The newsroom's rundowns after it said m.
TruthAfter(m, r) ==
    IF truth.known = "no" THEN Unsure
    ELSE IF m.kind = "delete" THEN [truth EXCEPT !.rows = Restrict(@, DOMAIN @ \ {r})]
    ELSE IF m.kind = "create" THEN [truth EXCEPT !.rows =
                                      [q \in DOMAIN @ \cup {r} |->
                                         IF q = r THEN m.label ELSE @[q]]]
    ELSE IF m.kind \in RowKinds /\ r \in DOMAIN truth.rows /\ m.label # NoLabel
            THEN [truth EXCEPT !.rows[r] = m.label]
    ELSE truth

\* The goroutine goes on to the catalogue when the message was applied.
ReceiveEnrolled(s, m) == \E r \in m.ro \cap members : \E f \in Faults({r}) :
    LET st  == store[r]
        bad == m.kind = "inapplicable" \/ Known(m, st.receipts)
    IN /\ Accepting(s)
       /\ Routable(m)
       /\ r \notin broken
       /\ ~Replayed(m, st.receipts)
       /\ StoreWrite(r, IF bad THEN Inapplicable(st, m) ELSE Applied(st, m), f)
       /\ Breaks(f)
       /\ took' = IF bad \/ m.id = NoID \/ store' = store THEN took
                  ELSE took \cup {<<Key(m), r>>}
       /\ IF bad \/ f # NoFault
             THEN UNCHANGED <<job, truth>>
             ELSE /\ truth' = TruthAfter(m, r)
                  /\ job' = IF m.kind \in RowKinds
                               THEN [at |-> "update", msg |-> m, ro |-> {r}, todo |-> {}]
                               ELSE Idle
       /\ UNCHANGED <<cat, inv, up, members, refusing, peers, enumerated,
                      posting, refused>>

\* The rows after a message that updateCatalogue follows: a row is removed
\* or relabelled; one that is missing stays so.
RowsAfter(rows, m, r) ==
    IF r \notin DOMAIN rows THEN rows
    ELSE IF m.kind = "delete" THEN Restrict(rows, DOMAIN rows \ {r})
    ELSE IF m.label # NoLabel THEN [rows EXCEPT ![r] = m.label]
    ELSE rows

\* Mutant of CompleteAfter: a created rundown that no listing named leaves
\* the catalogue complete.
CompleteAnyway(c, m, r) == c.complete

\* A created rundown that the catalogue does not list makes it incomplete.
CompleteAfter(c, m, r) ==
    IF m.kind = "create" /\ r \notin DOMAIN c.rows THEN "no" ELSE c.complete

\* updateCatalogue; a commit that is refused leaves the catalogue suspended
\* if that can be committed.
Update == job.at = "update" /\ \E r \in job.ro : \E f \in Faults({Catalogue} \ broken) :
    LET complete == CompleteAfter(cat, job.msg, r)
        rows     == RowsAfter(cat.rows, job.msg, r)
    IN /\ IF Revisable(cat, complete, rows)
             THEN /\ CatalogueWrite(TRUE, Revised(cat, complete, rows), f)
                  /\ UNCHANGED enumerated
             ELSE InvalidateCatalogue(f)
       /\ Breaks(f)
       /\ job' = Idle
       /\ UNCHANGED <<inv, store, up, members, refusing, peers, posting,
                      history, truth>>

-----------------------------------------------------------------------------
(* The catalogue's publisher (publishCatalogueOnce).                       *)

\* The receiver gets the body or not, and its answer comes back or not.  It
\* may know the source from elsewhere and answer with a conflict.  (Only the
\* answer's delay matters here: one post is under way at a time, and nobody
\* else writes to the receiver.)
Post(copy) ==
    \/ held' \in {held, copy} /\ pub' = Resting
    \/ held' = copy /\ pub' = [at |-> "accepted", copy |-> copy]
    \/ held' = held /\ pub' = [at |-> "conflict", copy |-> copy]

\* First it sweeps connections that went silent (late), and a listing that
\* is too old; then it posts a copy of what is committed.
PublishOnce == \E f \in Uncertainty, late \in SUBSET sessions,
                  old \in {"no", enumerated} :
    LET expired == owner \in late
        suspend == expired \/ old = "yes"
    IN /\ Running
       /\ pub = Resting
       /\ sessions' = sessions \ late
       /\ owner' = IF expired THEN NoSession ELSE owner
       /\ f.where \in ROs => expired
       /\ f.where = Catalogue => suspend
       /\ IF expired THEN InvalidateMembers(members, f) ELSE UNCHANGED store
       /\ IF suspend THEN InvalidateCatalogue(f) ELSE UNCHANGED <<cat, enumerated>>
       /\ truth' = IF suspend THEN Unsure ELSE truth
       /\ Breaks(f)
       /\ IF /\ suspend => Written(Suspendable(cat), f)
             /\ Catalogue \notin broken
             /\ cat.halted = "no"
             THEN Post(Body(cat'))
             ELSE UNCHANGED posting
       /\ UNCHANGED <<inv, up, members, refusing, job, history>>

\* Mutant of Accepted: the answer is recorded for the latest revision.
AcceptedLatest(c, copy) == [c EXCEPT !.accepted = c.rev]

\* The answer counts for the revision it was given to, while it is the
\* latest.
Accepted(c, copy) == IF Body(c) = copy THEN [c EXCEPT !.accepted = c.rev] ELSE c

Answer == \E f \in Faults({Catalogue} \ broken) :
    /\ Running
    /\ pub.at \in {"accepted", "conflict"}
    /\ LET next == IF pub.at = "accepted" THEN Accepted(cat, pub.copy)
                                          ELSE [cat EXCEPT !.halted = "yes"]
       IN /\ next = cat => f = NoFault
          /\ CatalogueWrite(TRUE, next, f)
    /\ Breaks(f)
    /\ pub' = Resting
    /\ UNCHANGED <<inv, store, up, members, refusing, peers, enumerated, job,
                   held, history, truth>>

-----------------------------------------------------------------------------
Receive(s, m) ==
    \/ ReceiveCrossed(s, m) \/ ReceiveReused(s, m)
    \/ ReceiveUnacceptable(s, m) \/ ReceiveListing(s, m)
    \/ ReceiveUnknown(s, m) \/ ReceiveEnrolled(s, m)

Provide(r) ==
    \/ ProvideSettled(r) \/ ProvideFull(r)
    \/ Stage(r) \/ Install(r) \/ Register(r) \/ Open(r)

Next ==
    \/ Start \/ StartFails \/ Crash
    \/ \E s \in Sessions : Observe(s) \/ Disconnected(s) \/ Uncertain(s)
    \/ \E s \in Sessions, m \in Msgs : Receive(s, m)
    \/ \E r \in ROs : Provide(r)
    \/ EnrolNext \/ UncoverAbsent \/ Certify \/ Refuse \/ Update
    \/ PublishOnce \/ Answer

Spec == Init /\ [][Next]_vars

-----------------------------------------------------------------------------
(* Properties.                                                             *)

\* A complete catalogue on disk names only rundowns that a restart finds
\* enrolled and with a store in use: applyCatalogue enrols before it
\* certifies, and what is enrolled is never given up.
CompleteIsEnrolled ==
    cat.complete = "yes" =>
        \A r \in DOMAIN cat.rows :
            /\ r \in inv.ids \ inv.unenrolled
            /\ store[r].at = "installed" /\ store[r].used = "yes"

\* While no message is being handled, a complete catalogue lists what the
\* newsroom said on this connection, since its last listing: rundowns
\* created, deleted and relabelled since, and nothing left from before a
\* restart, a reconnect, or a message that was refused.  (Not at the last
\* revision, nor when halted or unwritable: then nothing can be withdrawn.)
CompleteIsCurrent ==
    /\ Running
    /\ cat.complete = "yes"
    /\ cat.halted = "no" /\ cat.rev < MaxRevision /\ Catalogue \notin broken
    => truth.known = "yes" /\ cat.rows = truth.rows

\* A message that was answered as unenrolled keeps that answer: its receipt
\* outlives restarts and the rundown's enrolment, and it is never applied.
RefusedIsFinal ==
    \A m \in refused : \A r \in m.ro :
        /\ \E rc \in store[r].receipts : rc.key = Key(m) /\ rc.msg = m
        /\ <<Key(m), r>> \notin took

\* One messageID of the newsroom has a receipt in one rundown only: the
\* reason for crossReceipt.
OneRundownPerMessage ==
    \A q, r \in ROs : q # r =>
        {rc.key : rc \in store[q].receipts}
            \cap {rc.key : rc \in store[r].receipts} = {}

\* Whatever was interrupted, a restart finds what OpenMembers requires, and
\* what was left behind can still be retained: an unregistered store was
\* never used.
Resumable ==
    /\ \A r \in inv.ids : store[r].at = "installed"
    /\ Cardinality(inv.ids) <= Limit
    /\ inv.unenrolled \subseteq inv.ids
    /\ \A r \in ROs \ inv.ids : store[r].used = "no"

\* The receiver never gets two bodies of one revision, nor an older one
\* after a newer, across restarts and failed writes; and what is recorded
\* as accepted it got.
PostsForward ==
    [][/\ held' # held => held.rev < held'.rev
       /\ cat'.accepted <= held'.rev]_vars

\* A rundown that joins or rejoins the catalogue starts without coverage.
RejoinsUncovered ==
    [][\A r \in DOMAIN cat'.rows \ DOMAIN cat.rows : store'[r].covered = "no"]_vars

\* A conflict is final: no restart, reconnect or message changes the
\* catalogue after it.
HaltedIsFrozen == [][cat.halted = "yes" => cat' = cat]_vars
=============================================================================
