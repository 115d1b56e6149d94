------------------------ MODULE MessageSequenceProofs ------------------------
(***************************************************************************)
(* Proofs about MessageSequence, for every MaxID and every Block.          *)
(***************************************************************************)
EXTENDS MessageSequence, TLAPS

\* While every process has been durable: nothing was handed out twice, what
\* was handed out lies at or below the mark on disk, and a running process
\* stands above all of it.
DurableInv ==
    durability = "unbroken" =>
        /\ repeated = {}
        /\ mode = "durable"
        /\ pc # "reserving" => \A v \in issued : v <= mark
        /\ pc \in {"opening", "ready"} => \A v \in issued : v < next
        /\ pc = "ready" => mark = reservedTo
        /\ pc = "reserving" => \A v \in issued : v < value /\ v <= mark

\* What is true of a process whether or not an earlier one was durable.
ProcessInv ==
    /\ pc = "opening" => next <= MaxID
    /\ pc = "reserving" => next = value + 1
    /\ SkipBounded

IInv == TypeOK /\ DurableInv /\ ProcessInv

LEMMA ReservationBounds ==
    ASSUME NEW first \in IDs
    PROVE  /\ Reservation(first) \in first .. MaxID
           /\ Reservation(first) - first < Block
  BY SequenceAssumption DEF Reservation, IDs

LEMMA InitIInv == Init => IInv
  BY SequenceAssumption
  DEF Init, IInv, TypeOK, DurableInv, ProcessInv, SkipBounded, IDs

LEMMA StepIInv ==
    ASSUME ReadErrors = FALSE, IInv, [Next]_vars
    PROVE  IInv'
  <1> USE SequenceAssumption DEF IInv, IDs
  <1>1. CASE Open
    <2>0. /\ pc = "down" /\ pc' = "opening"
          /\ UNCHANGED <<reservedTo, mode, value, mark, repeated, durability>>
      BY <1>1 DEF Open
    <2>1. /\ next' = ResumeAfter(mark)
          /\ issued' = IF mark + 1 > MaxID THEN {} ELSE issued
      BY <1>1 DEF Open, MarkRead
    <2>2. CASE mark + 1 > MaxID
      <3>1. next' = 1 /\ issued' = {}
        BY <2>1, <2>2 DEF ResumeAfter
      <3> QED
        BY <2>0, <3>1 DEF TypeOK, DurableInv, ProcessInv, SkipBounded
    <2>3. CASE ~(mark + 1 > MaxID)
      <3>1. next' = mark + 1 /\ issued' = issued
        BY <2>1, <2>3 DEF ResumeAfter
      <3> QED
        BY <2>0, <2>3, <3>1 DEF TypeOK, DurableInv, ProcessInv, SkipBounded
    <2> QED BY <2>2, <2>3
  <1>2. CASE OpenInMemory
    BY <1>2 DEF OpenInMemory, TypeOK, DurableInv, ProcessInv, SkipBounded
  <1>3. CASE OpenReserve
    <2>0. next \in IDs
      BY <1>3 DEF OpenReserve, TypeOK, ProcessInv
    <2>1. /\ Reservation(next) \in next .. MaxID
          /\ Reservation(next) - next < Block
      BY <2>0, ReservationBounds
    <2>2. CASE Reserved(next)
      BY <1>3, <2>0, <2>1, <2>2
      DEF OpenReserve, Reserved, TypeOK, DurableInv, ProcessInv, SkipBounded
    <2>3. CASE NotReserved
      BY <1>3, <2>3
      DEF OpenReserve, NotReserved, TypeOK, DurableInv, ProcessInv, SkipBounded
    <2> QED BY <1>3, <2>2, <2>3 DEF OpenReserve
  <1>4. CASE NextValue
    <2>1. CASE Wraps
      <3>1. FirstFree = 1 /\ FreeUpTo = 0 /\ Lap = {}
        BY <2>1 DEF FirstFree, FreeUpTo, Lap
      <3>2. /\ pc' = "reserving" /\ next' = 2 /\ value' = 1
            /\ reservedTo' = 0 /\ issued' = {}
            /\ UNCHANGED <<repeated, mode, mark, durability>>
        BY <1>4, <3>1 DEF NextValue
      <3> QED
        BY <3>2 DEF TypeOK, DurableInv, ProcessInv, SkipBounded
    <2>2. CASE ~Wraps
      <3>1. FirstFree = next /\ FreeUpTo = reservedTo /\ Lap = issued
        BY <2>2 DEF FirstFree, FreeUpTo, Lap
      <3>2. next \in IDs /\ pc = "ready" /\ next' = next + 1
            /\ UNCHANGED <<mode, mark, durability>>
        BY <1>4, <2>2, <3>1 DEF NextValue, Wraps, TypeOK
      <3>3. CASE next <= reservedTo
        <4>1. /\ issued' = issued \cup {next}
              /\ repeated' = repeated \cup ({next} \cap issued)
              /\ UNCHANGED <<pc, reservedTo, value>>
          BY <1>4, <3>1, <3>3 DEF NextValue, TypeOK, Issue
        <4>2. durability = "unbroken" => next \notin issued
          BY <3>2 DEF DurableInv, TypeOK
        <4> QED
          BY <3>2, <3>3, <4>1, <4>2
          DEF TypeOK, DurableInv, ProcessInv, SkipBounded
      <3>4. CASE next > reservedTo
        <4>1. /\ pc' = "reserving" /\ value' = next
              /\ UNCHANGED <<reservedTo, issued, repeated>>
          BY <1>4, <3>1, <3>4 DEF NextValue, TypeOK
        <4> QED
          BY <3>2, <4>1 DEF TypeOK, DurableInv, ProcessInv, SkipBounded
      <3> QED BY <3>3, <3>4 DEF TypeOK
    <2> QED BY <2>1, <2>2
  <1>5. CASE NextReserve
    <2>1. /\ Reservation(value) \in value .. MaxID
          /\ Reservation(value) - value < Block
      BY ReservationBounds DEF TypeOK
    <2>2. CASE Reserved(value)
      BY <1>5, <2>1, <2>2
      DEF NextReserve, Reserved, Issue, TypeOK, DurableInv, ProcessInv,
          SkipBounded
    <2>3. CASE NotReserved
      BY <1>5, <2>3
      DEF NextReserve, NotReserved, Issue, TypeOK, DurableInv, ProcessInv,
          SkipBounded
    <2> QED BY <1>5, <2>2, <2>3 DEF NextReserve
  <1>6. CASE Crash
    BY <1>6 DEF Crash, TypeOK, DurableInv, ProcessInv, SkipBounded
  <1>7. CASE UNCHANGED vars
    BY <1>7 DEF vars, TypeOK, DurableInv, ProcessInv, SkipBounded
  <1> QED BY <1>1, <1>2, <1>3, <1>4, <1>5, <1>6, <1>7 DEF Next

\* The strengthened invariant holds in every reachable state of a sequence
\* whose recorded mark can be read back (Open, Next and reserve).
THEOREM SequenceInvariant ==
    ASSUME ReadErrors = FALSE
    PROVE  Spec => []IInv
  <1>1. IInv /\ [Next]_vars => IInv'
    BY StepIInv
  <1> QED BY <1>1, InitIInv, PTL DEF Spec

\* A messageID is never handed out twice in a lap, whatever the block size,
\* the limit and the pattern of crashes, as long as persistence never failed.
THEOREM NoReuseTheorem ==
    ASSUME ReadErrors = FALSE
    PROVE  Spec => []NoReuse
  <1>1. IInv => NoReuse
    BY DEF IInv, DurableInv, NoReuse
  <1> QED BY <1>1, SequenceInvariant, PTL

\* A crash of a durable sequence skips fewer than Block identifiers.
THEOREM SkipBoundedTheorem ==
    ASSUME ReadErrors = FALSE
    PROVE  Spec => []SkipBounded
  <1>1. IInv => SkipBounded
    BY DEF IInv, ProcessInv
  <1> QED BY <1>1, SequenceInvariant, PTL
=============================================================================
