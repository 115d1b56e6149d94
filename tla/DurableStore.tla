----------------------------- MODULE DurableStore -----------------------------
(***************************************************************************)
(* The running-order store: in-memory repositories behind a decorator that *)
(* writes a snapshot of everything to runningorders.json after every        *)
(* successful mutation (internal/repository/memory.go, durable.go).         *)
(*                                                                         *)
(* A mutation has four steps, and the steps of different goroutines         *)
(* interleave.  The memory repository changes under its own mutex; then     *)
(* the goroutine takes Durable.mu and lists the running orders, lists their *)
(* stories and items, and writes the listing to a temporary file that it    *)
(* renames over the old one.  The last three hold Durable.mu, and reads     *)
(* wait for it; the mutations of other goroutines do not.                   *)
(***************************************************************************)
EXTENDS Naturals, Sequences, FiniteSets, SequencesExt

CONSTANTS Workers,    \* goroutines that handle messages
          ROs,        \* roIDs
          DiskFails   \* "yes" where a write of the snapshot may fail

VARIABLES mem,        \* the memory repositories
          disk,       \* runningorders.json
          degraded,   \* Durable.degraded
          saving,     \* where each worker is in its persist call
          image       \* the listing of the worker that holds Durable.mu

storeVars == <<mem, disk, degraded, saving, image>>

-----------------------------------------------------------------------------
(* Contents.  A storage key is the sequence of its path segments:           *)
(* storyPersistenceID is <<roID, storyID>>, itemPersistenceID appends the   *)
(* itemID, and an identifier used as it came on the wire is <<id>>.  The    *)
(* last segment is what RawID holds, or ID where RawID is empty.            *)

Empty == [ro |-> << >>, story |-> << >>, item |-> << >>]

\* ListByRunningOrder and ListByStory sort by (Order, ID).  Keys of one list
\* differ in their last segment, or one of them is a bare wire identifier;
\* which of those sorts first depends on the text, and is fixed here.
KeyBefore(k, l) ==
    IF Len(k) = Len(l) THEN Last(k) < Last(l) ELSE Len(k) > Len(l)

Before(table, k, l) ==
    \/ table[k].order < table[l].order
    \/ table[k].order = table[l].order /\ KeyBefore(k, l)

Sorted(table, keys) ==
    [n \in 1 .. Cardinality(keys) |->
        CHOOSE k \in keys : Cardinality({l \in keys : Before(table, l, k)}) = n - 1]

ListByRunningOrder(m, r) ==
    Sorted(m.story, {k \in DOMAIN m.story : m.story[k].ro = r})

ListByStory(m, key) ==
    Sorted(m.item, {k \in DOMAIN m.item : m.item[k].story = key})

Restricted(table, keys) == [k \in DOMAIN table \cap keys |-> table[k]]

\* takeSnapshot: the running orders, the stories of those, the items of
\* those.  A story without its running order is not in it.
Listing(m, ros) ==
    LET stories == {k \in DOMAIN m.story : m.story[k].ro \in DOMAIN ros}
        items   == {k \in DOMAIN m.item : m.item[k].story \in stories}
    IN  [ro |-> ros, story |-> Restricted(m.story, stories),
         item |-> Restricted(m.item, items)]

Snapshot(m) == Listing(m, m.ro)

\* Repository calls.  Create refuses a key that exists and Update one that
\* does not; Delete and DeleteMultiple of absent keys succeed.
Refused(m, call) ==
    \/ call.do = "create" /\ call.key \in DOMAIN m[call.repo]
    \/ call.do = "update" /\ call.key \notin DOMAIN m[call.repo]

Written(m, call) ==
    LET old == m[call.repo]
        new == IF call.do = "delete"
                  THEN Restricted(old, DOMAIN old \ call.keys)
                  ELSE [k \in DOMAIN old \cup {call.key} |->
                           IF k = call.key THEN call.rec ELSE old[k]]
    IN  [m EXCEPT ![call.repo] = new]

-----------------------------------------------------------------------------
(* Steps.                                                                   *)

Unlocked == \A w \in Workers : saving[w] \in {"no", "due"}

\* The mutation of the memory repository; the save is still to come.
Mutate(w, call) ==
    /\ saving[w] = "no"
    /\ mem' = Written(mem, call)
    /\ saving' = [saving EXCEPT ![w] = "due"]
    /\ UNCHANGED <<disk, degraded, image>>

\* Mutant: a save is left to the goroutine that is already saving.
SkipWhileSaving(w) ==
    /\ saving[w] = "due"
    /\ degraded = "yes" \/ ~Unlocked
    /\ saving' = [saving EXCEPT ![w] = "no"]
    /\ UNCHANGED <<mem, disk, degraded, image>>

\* persist after an earlier failure: nothing is written.
SkipSave(w) ==
    /\ saving[w] = "due"
    /\ Unlocked
    /\ degraded = "yes"
    /\ saving' = [saving EXCEPT ![w] = "no"]
    /\ UNCHANGED <<mem, disk, degraded, image>>

\* persist takes Durable.mu and takeSnapshot lists the running orders.
Lock(w) ==
    /\ saving[w] = "due"
    /\ Unlocked
    /\ degraded = "no"
    /\ saving' = [saving EXCEPT ![w] = "listing"]
    /\ image' = Listing(Empty, mem.ro)
    /\ UNCHANGED <<mem, disk, degraded>>

\* The rest of takeSnapshot.
List(w) ==
    /\ saving[w] = "listing"
    /\ saving' = [saving EXCEPT ![w] = "held"]
    /\ image' = Listing(mem, image.ro)
    /\ UNCHANGED <<mem, disk, degraded>>

\* The file is replaced, or the write or the rename failed and the store
\* stops saving.
Save(w) ==
    /\ saving[w] = "held"
    /\ saving' = [saving EXCEPT ![w] = "no"]
    /\ image' = Empty
    /\ \/ disk' = image /\ UNCHANGED degraded
       \/ DiskFails = "yes" /\ degraded' = "yes" /\ UNCHANGED disk
    /\ UNCHANGED mem

\* OpenDurable in a new process: load replays the snapshot.
Reopen ==
    /\ mem' = disk
    /\ degraded' = "no"
    /\ saving' = [w \in Workers |-> "no"]
    /\ image' = Empty
    /\ UNCHANGED disk

StoreInit(m) ==
    /\ mem = m
    /\ disk = Snapshot(m)
    /\ degraded = "no"
    /\ saving = [w \in Workers |-> "no"]
    /\ image = Empty

-----------------------------------------------------------------------------
(* Properties.                                                             *)

\* Whenever no goroutine has a save to make, the file holds what memory
\* holds, unless a failed write stopped persistence: a listing made before
\* another goroutine's change is never the last one written (persist).
DiskIsMemory ==
    (degraded = "no" /\ \A w \in Workers : saving[w] = "no")
        => disk = Snapshot(mem)
=============================================================================
