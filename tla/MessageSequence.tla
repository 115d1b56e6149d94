--------------------------- MODULE MessageSequence ---------------------------
(***************************************************************************)
(* The durable messageID counter of internal/messageid/sequence.go.        *)
(*                                                                         *)
(* A Sequence hands out identifiers 1, 2, ... and records on disk, a block *)
(* at a time, the highest value it may hand out (the high-water mark).     *)
(* The mark is replaced by write-then-rename, so on disk it is either the  *)
(* old one or the new one; the process can crash between any two steps and *)
(* is then opened again from whatever the file says.  Next and reserve run *)
(* under the mutex, so nothing but a crash comes between their steps.      *)
(*                                                                         *)
(* issued, repeated and durability are history variables: the values       *)
(* handed out since the counter last wrapped, those handed out twice, and  *)
(* whether any process since the beginning has run without persistence     *)
(* (which Degraded() reports).                                             *)
(***************************************************************************)
EXTENDS Integers

CONSTANTS MaxID,      \* largest messageID (2^31 - 1 in the code)
          Block,      \* identifiers reserved on disk at a time
          ReadErrors  \* may reading the mark fail although it was recorded?

ASSUME SequenceAssumption ==
    /\ MaxID \in Nat \ {0}
    /\ Block \in Nat \ {0}
    /\ ReadErrors \in BOOLEAN

VARIABLES
    pc,            \* "down", "opening", "ready", "reserving"
    next,          \* the value the next call to Next returns
    reservedTo,    \* values up to here need no disk access
    mode,          \* "durable", or "degraded" once persistence has failed
    value,         \* the value Next returns once its reservation is settled
    mark,          \* the number in the file, 0 when there is none
    issued,        \* history: values handed out since the last wrap
    repeated,      \* history: values handed out twice in one lap
    durability     \* history: "broken" once a process ran without it

vars == <<pc, next, reservedTo, mode, value, mark,
          issued, repeated, durability>>

IDs == 1 .. MaxID

TypeOK ==
    /\ pc \in {"down", "opening", "ready", "reserving"}
    /\ next \in 1 .. MaxID + 1
    /\ reservedTo \in 0 .. MaxID
    /\ mode \in {"durable", "degraded"}
    /\ value \in IDs
    /\ mark \in 0 .. MaxID
    /\ issued \subseteq IDs
    /\ repeated \subseteq IDs
    /\ durability \in {"unbroken", "broken"}

Init ==
    /\ pc = "down"
    /\ next = 1
    /\ reservedTo = 0
    /\ mode = "durable"
    /\ value = 1
    /\ mark = 0
    /\ issued = {}
    /\ repeated = {}
    /\ durability = "unbroken"

-----------------------------------------------------------------------------

\* Mutant of Reservation: a block is one too long.
OverlongReservation(first) == IF first + Block > MaxID THEN MaxID
                                                       ELSE first + Block

\* What reserve(first + block - 1) records: clamped to the largest value.
Reservation(first) == IF first + Block - 1 > MaxID THEN MaxID
                                                   ELSE first + Block - 1

\* What readMark returns: the recorded mark, or 0 when the file is missing,
\* unreadable or does not hold a number.
MarkRead == {mark} \cup (IF ReadErrors = TRUE THEN {0} ELSE {})

\* Open resumes after the mark; past the limit it starts again at 1.
ResumeAfter(recorded) == IF recorded + 1 > MaxID THEN 1 ELSE recorded + 1

\* A value leaves the sequence; lap is what had left it since the last wrap.
Issue(v, lap) ==
    /\ issued' = lap \cup {v}
    /\ repeated' = repeated \cup ({v} \cap lap)

Open ==
    /\ pc = "down"
    /\ \E recorded \in MarkRead :
          /\ next' = ResumeAfter(recorded)
          /\ issued' = IF recorded + 1 > MaxID THEN {} ELSE issued
    /\ pc' = "opening"
    /\ UNCHANGED <<reservedTo, mode, value, mark, repeated, durability>>

\* No state directory (or one that cannot be created): NewInMemory.
OpenInMemory ==
    /\ pc = "down"
    /\ pc' = "ready"
    /\ next' = 1
    /\ reservedTo' = MaxID
    /\ mode' = "degraded"
    /\ durability' = "broken"
    /\ UNCHANGED <<value, mark, issued, repeated>>

\* Mutant of Reserved: the temporary file is written and never renamed.
ReservedWithoutRename(first) ==
    /\ reservedTo' = Reservation(first)
    /\ mode' = "durable"
    /\ UNCHANGED <<mark, durability>>

\* The rename inside reserve succeeds: this is the commit point.
Reserved(first) ==
    /\ mark' = Reservation(first)
    /\ reservedTo' = Reservation(first)
    /\ mode' = "durable"
    /\ UNCHANGED durability

\* The write or the rename fails: carry on from memory.
NotReserved ==
    /\ reservedTo' = MaxID
    /\ mode' = "degraded"
    /\ durability' = "broken"
    /\ UNCHANGED mark

OpenReserve ==
    /\ pc = "opening"
    /\ Reserved(next) \/ NotReserved
    /\ pc' = "ready"
    /\ UNCHANGED <<next, value, issued, repeated>>

\* Next, up to the point where it either returns or must reserve a block.
Wraps == next > MaxID
FirstFree == IF Wraps THEN 1 ELSE next
FreeUpTo == IF Wraps THEN 0 ELSE reservedTo
Lap == IF Wraps THEN {} ELSE issued

NextValue ==
    /\ pc = "ready"
    /\ next' = FirstFree + 1
    /\ \/ /\ FirstFree <= FreeUpTo
          /\ Issue(FirstFree, Lap)
          /\ UNCHANGED <<pc, reservedTo, value>>
       \/ /\ FirstFree > FreeUpTo
          /\ pc' = "reserving"
          /\ value' = FirstFree
          /\ reservedTo' = FreeUpTo
          /\ issued' = Lap
          /\ UNCHANGED repeated
    /\ UNCHANGED <<mode, mark, durability>>

\* Next, once reserve has returned.
NextReserve ==
    /\ pc = "reserving"
    /\ Reserved(value) \/ NotReserved
    /\ Issue(value, issued)
    /\ pc' = "ready"
    /\ UNCHANGED <<next, value>>

\* The process dies; only the file is left.
Crash ==
    /\ pc # "down"
    /\ pc' = "down"
    /\ UNCHANGED <<next, reservedTo, mode, value, mark,
                   issued, repeated, durability>>

Next ==
    \/ Open
    \/ OpenInMemory
    \/ OpenReserve
    \/ NextValue
    \/ NextReserve
    \/ Crash

Spec == Init /\ [][Next]_vars

-----------------------------------------------------------------------------

\* No messageID is handed out twice before the counter wraps, across any
\* number of crashes and restarts, unless some process reported that it was
\* running without durability (Open and Next of sequence.go: "REUSING one is
\* the exact hazard the field exists to prevent").
NoReuse == durability = "unbroken" => repeated = {}

\* A crash skips less than one block: while the sequence is durable the mark
\* on disk runs ahead of the next value by less than Block (reserve, called
\* from Open and from Next).
SkipBounded ==
    (pc = "ready" /\ mode = "durable") => mark - next < Block

=============================================================================
