------------------------- MODULE RunningOrdersProofs -------------------------
(***************************************************************************)
(* The running-order service over its store, for every set of messages,    *)
(* every number of goroutines and every content of the store.              *)
(*                                                                         *)
(* FileKeepsUp: the file is never left behind by a save that overlapped    *)
(* another goroutine's change.  persist lists under Durable.mu, and every  *)
(* change is followed by a persist of its own.  So once no change waits    *)
(* for its persist, the listing in hand was made after the last change:    *)
(* its running orders while the stories are being listed, all of it when   *)
(* it is about to be written, and then the file.  A new process starts     *)
(* from the file, which lists exactly what a snapshot of it would.         *)
(*                                                                         *)
(* ServiceIsTyped: what is stored is storable.  A handler reads, decides,  *)
(* and writes later, when others may have written in between.  The         *)
(* invariant is therefore about the tasks it has left (TaskOK): whatever   *)
(* they were decided from, each writes a record of its kind under a key of *)
(* its kind, and no call of another handler can change that.               *)
(*                                                                         *)
(* PromiseIsKept: the service implements Rundown.  The tasks left of a     *)
(* message also stay within its running order (Inside): they name records  *)
(* of it, or items that belong to a running order some message in hand     *)
(* names.  So the others are as they were when the messages began, in      *)
(* memory, in the listing being written and in the file (FrameInv), which  *)
(* is what the promise says of them at an answer and after a crash.  A     *)
(* message handled alone is on its way to its effect (Owed): what is left  *)
(* of it is its first look at the store, the one call that has the effect, *)
(* a call that writes back what was read and the move of the on-air        *)
(* pointer after it, or the removal of the running order after all that    *)
(* is in it.                                                               *)
(*                                                                         *)
(* Composite keys (Keyed) are needed for the promise only.  A record under *)
(* the identifier of the wire has no running order in its key, so that a   *)
(* message about one running order may remove the record of another.       *)
(***************************************************************************)
EXTENDS RunningOrders, WellFoundedInduction, FiniteSetTheorems, SequenceTheorems, TLAPS


-----------------------------------------------------------------------------
(* The store.                                                              *)

Locked == {"listing", "held"}

SavingType == saving \in [Workers -> {"no", "due"} \cup Locked]

\* One goroutine holds Durable.mu.
OneHolder ==
    \A v, w \in Workers : saving[v] \in Locked /\ saving[w] \in Locked => v = w

\* The listing in hand, and the file when there is none, once no change
\* waits for its persist.
Current ==
    (degraded = "no" /\ \A w \in Workers : saving[w] # "due") =>
        /\ \A w \in Workers : saving[w] = "listing" => image.ro = mem.ro
        /\ \A w \in Workers : saving[w] = "held" => image = Snapshot(mem)
        /\ (\A w \in Workers : saving[w] = "no") => disk = Snapshot(mem)

\* What is written, and what is about to be, is its own snapshot.
Closed ==
    /\ Snapshot(disk) = disk
    /\ \A w \in Workers : saving[w] = "held" => Snapshot(image) = image

StoreInv == SavingType /\ OneHolder /\ Current /\ Closed

\* The steps of the store, whoever takes them.
StoreStep ==
    \/ \E w \in Workers :
          \/ SkipSave(w) \/ Lock(w) \/ List(w) \/ Save(w)
          \/ \E call \in {job[w].todo[1]} : Mutate(w, call)
    \/ Reopen

-----------------------------------------------------------------------------

\* takeSnapshot of a listing gives the listing: persist after load writes
\* the file that was loaded.
LEMMA ListingIsClosed ==
    ASSUME NEW m, NEW ros
    PROVE  Snapshot(Listing(m, ros)) = Listing(m, ros)
<1> DEFINE S == {k \in DOMAIN m.story : m.story[k].ro \in DOMAIN ros}
           I == {k \in DOMAIN m.item : m.item[k].story \in S}
           L == Listing(m, ros)
           T == {k \in DOMAIN L.story : L.story[k].ro \in DOMAIN L.ro}
           J == {k \in DOMAIN L.item : L.item[k].story \in T}
<1>1. /\ L.ro = ros
      /\ L.story = [k \in DOMAIN m.story \cap S |-> m.story[k]]
      /\ L.item = [k \in DOMAIN m.item \cap I |-> m.item[k]]
      BY DEF Listing, Restricted
<1>2. T = S
      BY <1>1
<1>3. J = I
      BY <1>1, <1>2
<1>4. Snapshot(L) = [ro |-> L.ro, story |-> [k \in DOMAIN L.story \cap T |-> L.story[k]],
                     item |-> [k \in DOMAIN L.item \cap J |-> L.item[k]]]
      BY DEF Snapshot, Listing, Restricted
<1>5. [k \in DOMAIN L.story \cap T |-> L.story[k]] = [k \in DOMAIN m.story \cap S |-> m.story[k]]
      BY <1>1, <1>2
<1>6. [k \in DOMAIN L.item \cap J |-> L.item[k]] = [k \in DOMAIN m.item \cap I |-> m.item[k]]
      BY <1>1, <1>3
<1>7. L = [ro |-> ros, story |-> [k \in DOMAIN m.story \cap S |-> m.story[k]],
           item |-> [k \in DOMAIN m.item \cap I |-> m.item[k]]]
      BY DEF Listing, Restricted
<1> QED BY <1>1, <1>4, <1>5, <1>6, <1>7

\* The listing of the running orders names them.
LEMMA ListingNamesItsOrders ==
    ASSUME NEW m, NEW ros
    PROVE  Listing(m, ros).ro = ros
BY DEF Listing

\* OpenDurable starts with a file that is a snapshot of what was loaded.
LEMMA StoreInvInit == Init => StoreInv
<1> SUFFICES ASSUME Init PROVE StoreInv
    OBVIOUS
<1>1. /\ mem = Held /\ disk = Snapshot(Held)
      /\ saving = [w \in Workers |-> "no"]
      BY DEF Init, StoreInit
<1>2. Snapshot(disk) = disk
      BY <1>1, ListingIsClosed DEF Snapshot
<1>3. SavingType /\ OneHolder
      BY <1>1 DEF SavingType, OneHolder, Locked
<1>4. Current
      BY <1>1 DEF Current
<1>5. Closed
      BY <1>1, <1>2 DEF Closed
<1> QED BY <1>3, <1>4, <1>5 DEF StoreInv

\* persist and the repositories' mutations keep the file from falling behind.
LEMMA StoreInvStep == StoreInv /\ StoreStep => StoreInv'
<1> SUFFICES ASSUME StoreInv, StoreStep PROVE StoreInv'
    OBVIOUS
<1> USE DEF Locked
<1>1. ASSUME NEW w \in Workers, NEW call, Mutate(w, call) PROVE StoreInv'
  <2>1. SavingType' /\ OneHolder'
        BY <1>1 DEF Mutate, StoreInv, SavingType, OneHolder
  <2>2. saving'[w] = "due"
        BY <1>1 DEF Mutate, StoreInv, SavingType
  <2>3. Current'
        BY <2>2 DEF Current
  <2>4. Closed'
        BY <1>1 DEF Mutate, StoreInv, SavingType, Closed
  <2> QED BY <2>1, <2>3, <2>4 DEF StoreInv
<1>2. ASSUME NEW w \in Workers, SkipSave(w) PROVE StoreInv'
  <2>1. SavingType' /\ OneHolder'
        BY <1>2 DEF SkipSave, StoreInv, SavingType, OneHolder
  <2>2. Current'
        BY <1>2 DEF SkipSave, Current
  <2>3. Closed'
        BY <1>2 DEF SkipSave, StoreInv, SavingType, Closed
  <2> QED BY <2>1, <2>2, <2>3 DEF StoreInv
<1>3. ASSUME NEW w \in Workers, Lock(w) PROVE StoreInv'
  <2>1. /\ saving' = [saving EXCEPT ![w] = "listing"]
        /\ image' = Listing(Empty, mem.ro)
        /\ mem' = mem /\ disk' = disk /\ degraded' = degraded
        /\ \A v \in Workers : saving[v] \in {"no", "due"}
        BY <1>3 DEF Lock, Unlocked
  <2>2. SavingType' /\ OneHolder'
        BY <2>1 DEF StoreInv, SavingType, OneHolder
  <2>3. image'.ro = mem'.ro
        BY <2>1, ListingNamesItsOrders
  <2>4. /\ \A v \in Workers : saving'[v] # "held"
        /\ saving'[w] # "no"
        BY <2>1 DEF StoreInv, SavingType
  <2>5. Current'
        BY <2>3, <2>4 DEF Current
  <2>6. Closed'
        BY <2>1, <2>4 DEF StoreInv, Closed
  <2> QED BY <2>2, <2>5, <2>6 DEF StoreInv
<1>4. ASSUME NEW w \in Workers, List(w) PROVE StoreInv'
  <2>1. /\ saving[w] = "listing"
        /\ saving' = [saving EXCEPT ![w] = "held"]
        /\ image' = Listing(mem, image.ro)
        /\ mem' = mem /\ disk' = disk /\ degraded' = degraded
        BY <1>4 DEF List
  <2>2. SavingType' /\ OneHolder'
        BY <2>1 DEF StoreInv, SavingType, OneHolder
  <2>3. \A v \in Workers : v # w => saving'[v] \in {"no", "due"}
        BY <2>1 DEF StoreInv, SavingType, OneHolder
  <2>4. saving'[w] = "held"
        BY <2>1 DEF StoreInv, SavingType
  <2>5. ASSUME degraded' = "no", \A v \in Workers : saving'[v] # "due"
        PROVE  image' = Snapshot(mem)'
    <3>1. \A v \in Workers : saving[v] # "due"
          BY <2>1, <2>5 DEF StoreInv, SavingType
    <3>2. image.ro = mem.ro
          BY <2>1, <2>5, <3>1 DEF StoreInv, Current
    <3> QED BY <2>1, <3>2 DEF Snapshot
  <2>6. Current'
        BY <2>3, <2>4, <2>5 DEF Current
  <2>7. Snapshot(image')= image'
        BY <2>1, ListingIsClosed
  <2>8. Closed'
        BY <2>1, <2>7 DEF StoreInv, Closed, Snapshot
  <2> QED BY <2>2, <2>6, <2>8 DEF StoreInv
<1>5. ASSUME NEW w \in Workers, Save(w) PROVE StoreInv'
  <2>1. /\ saving[w] = "held"
        /\ saving' = [saving EXCEPT ![w] = "no"]
        /\ mem' = mem
        /\ \/ disk' = image /\ degraded' = degraded
           \/ degraded' = "yes" /\ disk' = disk
        BY <1>5 DEF Save
  <2>2. SavingType' /\ OneHolder'
        BY <2>1 DEF StoreInv, SavingType, OneHolder
  <2>3. \A v \in Workers : saving'[v] \in {"no", "due"}
        BY <2>1 DEF StoreInv, SavingType, OneHolder
  <2>4. ASSUME degraded' = "no", \A v \in Workers : saving'[v] # "due"
        PROVE  disk' = Snapshot(mem)'
    <3>1. /\ degraded = "no" /\ disk' = image
          /\ \A v \in Workers : saving[v] # "due"
          BY <2>1, <2>4 DEF StoreInv, SavingType
    <3>2. image = Snapshot(mem)
          BY <2>1, <3>1 DEF StoreInv, Current
    <3> QED BY <2>1, <3>1, <3>2 DEF Snapshot, Listing
  <2>5. Current'
        BY <2>3, <2>4 DEF Current
  <2>6. Closed'
        BY <2>1, <2>3 DEF StoreInv, Closed, Snapshot, Listing
  <2> QED BY <2>2, <2>5, <2>6 DEF StoreInv
<1>6. ASSUME Reopen PROVE StoreInv'
  <2>1. /\ mem' = disk /\ disk' = disk
        /\ saving' = [v \in Workers |-> "no"]
        BY <1>6 DEF Reopen
  <2>2. SavingType' /\ OneHolder'
        BY <2>1 DEF SavingType, OneHolder
  <2>3. disk' = Snapshot(mem)' /\ Snapshot(disk)' = disk'
        BY <2>1 DEF StoreInv, Closed
  <2>4. Current' /\ Closed'
        BY <2>1, <2>3 DEF Current, Closed
  <2> QED BY <2>2, <2>4 DEF StoreInv
<1> QED BY <1>1, <1>2, <1>3, <1>4, <1>5, <1>6 DEF StoreStep

\* Every step of the service is a step of the store or leaves it alone.
LEMMA ServiceStepsStore == [Next]_vars => StoreStep \/ UNCHANGED storeVars
<1> SUFFICES ASSUME [Next]_vars PROVE StoreStep \/ UNCHANGED storeVars
    OBVIOUS
<1>1. CASE UNCHANGED vars
      BY <1>1 DEF vars
<1>2. CASE Restart
      BY <1>2 DEF Restart, StoreStep
<1>3. ASSUME NEW w \in Workers, Step(w) PROVE StoreStep \/ UNCHANGED storeVars
  <2>1. CASE Read(w) \/ WriteRefused(w) \/ Reply(w)
        BY <2>1 DEF Read, WriteRefused, Reply
  <2>2. CASE Write(w)
        BY <2>2, <1>3 DEF Write, StoreStep
  <2>3. CASE Persist(w)
        BY <2>3, <1>3 DEF Persist, StoreStep
  <2> QED BY <1>3, <2>1, <2>2, <2>3 DEF Step
<1>4. ASSUME NEW w \in Workers, NEW op \in Messages, Receive(w, op)
      PROVE  StoreStep \/ UNCHANGED storeVars
      BY <1>4 DEF Receive
<1> QED BY <1>1, <1>2, <1>3, <1>4 DEF Next

\* Whenever no goroutine has a save to make, runningorders.json holds what
\* memory holds, unless a failed write stopped persistence (Durable.persist).
THEOREM FileKeepsUp == Spec => []DiskIsMemory
<1>1. StoreInv /\ [Next]_vars => StoreInv'
  <2> SUFFICES ASSUME StoreInv, [Next]_vars PROVE StoreInv'
      OBVIOUS
  <2>1. CASE StoreStep
        BY <2>1, StoreInvStep
  <2>2. CASE UNCHANGED storeVars
        BY <2>2 DEF storeVars, StoreInv, SavingType, OneHolder, Current, Closed, Snapshot, Listing
  <2> QED BY <2>1, <2>2, ServiceStepsStore
<1>2. StoreInv => DiskIsMemory
      BY DEF StoreInv, Current, DiskIsMemory
<1> QED BY StoreInvInit, <1>1, <1>2, PTL DEF Spec

-----------------------------------------------------------------------------
(* Lists.                                                                  *)

\* Induction over 0 .. N, from the well-foundedness of <: a set that has 0
\* and, with a number, its successor, has them all.
LEMMA Upwards ==
    ASSUME NEW N \in Nat, NEW B, 0 \in B, \A n \in 0 .. N : n > 0 /\ n - 1 \in B => n \in B
    PROVE  \A n \in 0 .. N : n \in B
<1> DEFINE R == {ss \in Nat \X Nat : ss[1] < ss[2]}
           T == {n \in 0 .. N : n \notin B}
<1>1. IsWellFoundedOn(R, Nat)
  BY NatLessThanWellFounded DEF OpToRel
<1>2. ASSUME NEW x \in Nat, NEW y \in Nat, y < x PROVE <<y, x>> \in R
  BY <1>2
<1>3. T \subseteq Nat
  OBVIOUS
<1> HIDE DEF R
<1>4. ASSUME T # {} PROVE FALSE
  <2>1. PICK x \in T : \A y \in T : ~ (<<y, x>> \in R)
    <3> HIDE DEF T
    <3> QED BY <1>1, <1>3, <1>4, WFMin
  <2>2. x \in 0 .. N /\ x \notin B
    OBVIOUS
  <2>3. x # 0
    BY <2>2
  <2>4. x - 1 \in Nat /\ x - 1 < x /\ x - 1 \in 0 .. N /\ x \in Nat
    BY <2>2, <2>3
  <2>5. <<x - 1, x>> \in R
    BY <1>2, <2>4
  <2>6. x - 1 \notin T
    BY <2>1, <2>5
  <2>7. x - 1 \in B
    BY <2>4, <2>6
  <2> QED BY <2>2, <2>3, <2>7
<1> QED BY <1>4

\* The recursive function inside FlattenSeq.
FlattenStep(parts, g, i) == IF i = 1 THEN parts[i] ELSE g[i-1] \o parts[i]
IsFlattening(parts, g, n) == g = [i \in 1 .. n |-> FlattenStep(parts, g, i)]

\* The recursive function by which FlattenSeq joins the first parts exists.
LEMMA FlatteningExists ==
    ASSUME NEW parts, NEW N \in Nat
    PROVE  \E g : IsFlattening(parts, g, N)
<1> DEFINE B == {n \in 0 .. N : \E g : IsFlattening(parts, g, n)}
<1>1. 0 \in B
  <2>1. << >> = [i \in 1 .. 0 |-> FlattenStep(parts, << >>, i)]
    OBVIOUS
  <2>2. IsFlattening(parts, << >>, 0)
    BY <2>1 DEF IsFlattening
  <2>3. 0 \in 0 .. N
    OBVIOUS
  <2> QED BY <2>2, <2>3
<1>2. ASSUME NEW n \in 0 .. N, n > 0, n - 1 \in B PROVE n \in B
  <2>1. PICK g : IsFlattening(parts, g, n - 1)
    BY <1>2
  <2> DEFINE h == [i \in 1..n |-> FlattenStep(parts, g, i)]
  <2>2. ASSUME NEW i \in 1..n PROVE FlattenStep(parts, g, i) = FlattenStep(parts, h, i)
    <3>1. CASE i = 1
      BY <3>1 DEF FlattenStep
    <3>2. CASE i # 1
      <4>1. i - 1 \in 1 .. n-1 /\ i - 1 \in 1..n
        BY <3>2
      <4>2. g[i-1] = FlattenStep(parts, g, i-1)
        BY <4>1, <2>1 DEF IsFlattening
      <4>3. h[i-1] = FlattenStep(parts, g, i-1)
        BY <4>1
      <4> HIDE DEF h
      <4> QED BY <4>2, <4>3 DEF FlattenStep
    <3> QED BY <3>1, <3>2
  <2>3. IsFlattening(parts, h, n)
    BY <2>2 DEF IsFlattening
  <2> HIDE DEF h
  <2> QED BY <2>3
<1> HIDE DEF B
<1>3. \A n \in 0 .. N : n \in B
  BY <1>1, <1>2, Upwards
<1>4. N \in B
  BY <1>3
<1> QED BY <1>4 DEF B

\* FlattenSeq joins sequences over a set into a sequence over that set.
LEMMA FlattenSeqType ==
    ASSUME NEW S, NEW parts \in Seq(Seq(S))
    PROVE  FlattenSeq(parts) \in Seq(S)
<1> DEFINE N == Len(parts)
           F == CHOOSE g : IsFlattening(parts, g, N)
           C == {n \in 0 .. N : n > 0 => F[n] \in Seq(S)}
<1>0. N \in Nat
  OBVIOUS
<1>1. IsFlattening(parts, F, N)
  <2>1. \E g : IsFlattening(parts, g, N)
    BY <1>0, FlatteningExists
  <2> QED BY <2>1
<1>2. CASE N = 0
  BY <1>2 DEF FlattenSeq
<1>3. CASE N # 0
  <2>1. FlattenSeq(parts) = F[N]
    BY <1>3 DEF FlattenSeq, IsFlattening, FlattenStep
  <2> HIDE DEF F
  <2>2. 0 \in C
    BY <1>0
  <2>3. ASSUME NEW n \in 0 .. N, n > 0, n - 1 \in C PROVE n \in C
    <3>1. n \in 1 .. N
      BY <2>3, <1>0
    <3>2. F[n] = FlattenStep(parts, F, n)
      BY <1>1, <3>1 DEF IsFlattening
    <3>3. parts[n] \in Seq(S)
      BY <3>1
    <3>4. CASE n = 1
      BY <3>2, <3>3, <3>4 DEF FlattenStep
    <3>5. CASE n # 1
      <4>1. n - 1 > 0
        BY <3>1, <3>5, <1>0
      <4>2. F[n - 1] \in Seq(S)
        BY <4>1, <2>3
      <4>3. F[n] = F[n - 1] \o parts[n]
        BY <3>2, <3>5 DEF FlattenStep
      <4> QED BY <3>3, <4>2, <4>3, ConcatProperties
    <3> QED BY <3>4, <3>5
  <2>4. \A n \in 0 .. N : n \in C
    <3> HIDE DEF C
    <3> QED BY <2>2, <2>3, <1>0, Upwards
  <2> QED BY <2>1, <2>4, <1>0, <1>3
<1> QED BY <1>2, <1>3

\* A list is a function on 1 .. Len.
LEMMA ListFacts ==
    ASSUME NEW s, IsList(s)
    PROVE  /\ Len(s) \in Nat
           /\ DOMAIN s = 1 .. Len(s)
           /\ \A n \in 1 .. Len(s) : s[n] \in ToSet(s)
           /\ s = [n \in 1 .. Len(s) |-> s[n]]
BY DEF IsList, ToSet

\* A sequence over a set is a list of elements of that set.
LEMMA SequenceIsList ==
    ASSUME NEW S, NEW s \in Seq(S)
    PROVE  IsList(s) /\ \A n \in 1 .. Len(s) : s[n] \in S
<1>1. \A n \in 1 .. Len(s) : s[n] \in ToSet(s)
  BY DEF ToSet
<1> QED BY <1>1, SeqOfRange, IsASeq DEF IsList, ToSet

\* A function on 1 .. N is a list of length N.
LEMMA FunctionIsList ==
    ASSUME NEW N \in Nat, NEW s, s = [n \in 1 .. N |-> s[n]]
    PROVE  IsList(s) /\ Len(s) = N
<1>1. s \in [1 .. N -> ToSet(s)]
  BY DEF ToSet
<1>2. s \in Seq(ToSet(s)) /\ Len(s) = N
  BY <1>1
<1> QED BY <1>2 DEF IsList

\* Two lists joined: the elements of the first, then those of the second.
LEMMA ConcatIsList ==
    ASSUME NEW s, NEW t, IsList(s), IsList(t)
    PROVE  /\ IsList(s \o t)
           /\ Len(s \o t) = Len(s) + Len(t)
           /\ \A n \in 1 .. Len(s \o t) :
                 \/ n \in 1 .. Len(s) /\ (s \o t)[n] = s[n]
                 \/ n - Len(s) \in 1 .. Len(t) /\ (s \o t)[n] = t[n - Len(s)]
<1> DEFINE S == ToSet(s) \cup ToSet(t)
<1>1. s \in Seq(S) /\ t \in Seq(S)
  BY SeqMonotonic DEF IsList
<1> HIDE DEF S
<1>2. s \o t \in Seq(S) /\ Len(s \o t) = Len(s) + Len(t)
  BY <1>1, ConcatProperties
<1>3. \A n \in 1 .. Len(s) + Len(t) :
         (s \o t)[n] = IF n <= Len(s) THEN s[n] ELSE t[n - Len(s)]
  BY <1>1, ConcatProperties
<1>4. Len(s) \in Nat /\ Len(t) \in Nat
  BY <1>1
<1>5. ASSUME NEW n \in 1 .. Len(s \o t)
      PROVE  \/ n \in 1 .. Len(s) /\ (s \o t)[n] = s[n]
             \/ n - Len(s) \in 1 .. Len(t) /\ (s \o t)[n] = t[n - Len(s)]
  BY <1>2, <1>3, <1>4
<1> QED BY <1>2, <1>5, SequenceIsList

\* A list without its first element.
LEMMA TailIsList ==
    ASSUME NEW s, IsList(s), s # << >>
    PROVE  /\ IsList(Tail(s))
           /\ Len(Tail(s)) = Len(s) - 1
           /\ Len(s) >= 1
           /\ \A n \in 1 .. Len(Tail(s)) : n + 1 \in 1 .. Len(s) /\ Tail(s)[n] = s[n + 1]
<1>1. Tail(s) \in Seq(ToSet(s)) /\ Len(Tail(s)) = Len(s) - 1 /\ Len(s) \in Nat
  BY HeadTailProperties DEF IsList
<1>2. \A n \in 1 .. Len(s) - 1 : Tail(s)[n] = s[n + 1]
  BY DEF IsList
<1>3. Len(s) >= 1
  BY <1>1, EmptySeq DEF IsList
<1>4. IsList(Tail(s))
  BY <1>1, SequenceIsList
<1>5. \A n \in 1 .. Len(Tail(s)) : n + 1 \in 1 .. Len(s) /\ Tail(s)[n] = s[n + 1]
  BY <1>1, <1>2
<1> QED BY <1>1, <1>3, <1>4, <1>5

\* Every element of the flattened sequence is an element of one of its parts.
LEMMA Flattened ==
    ASSUME NEW parts, IsList(parts), \A n \in 1 .. Len(parts) : IsList(parts[n])
    PROVE  /\ IsList(FlattenSeq(parts))
           /\ \A j \in 1 .. Len(FlattenSeq(parts)) :
                 \E n \in 1 .. Len(parts) : \E i \in 1 .. Len(parts[n]) :
                     FlattenSeq(parts)[j] = parts[n][i]
<1> DEFINE S == UNION {ToSet(parts[n]) : n \in 1 .. Len(parts)}
           F == FlattenSeq(parts)
<1>1. \A n \in 1 .. Len(parts) : parts[n] \in Seq(S)
  <2> SUFFICES ASSUME NEW n \in 1 .. Len(parts) PROVE parts[n] \in Seq(S)
    OBVIOUS
  <2>1. parts[n] \in Seq(ToSet(parts[n]))
    BY DEF IsList
  <2>2. ToSet(parts[n]) \subseteq S
    OBVIOUS
  <2> HIDE DEF S
  <2> QED BY <2>1, <2>2, SeqMonotonic
<1>2. parts \in Seq(Seq(S))
  <2> HIDE DEF S
  <2>1. Len(parts) \in Nat /\ parts = [n \in 1 .. Len(parts) |-> parts[n]]
    BY ListFacts
  <2>2. parts \in [1 .. Len(parts) -> Seq(S)]
    BY <1>1, <2>1
  <2> QED BY <2>1, <2>2
<1>3. F \in Seq(S)
  <2> HIDE DEF S
  <2> QED BY <1>2, FlattenSeqType
<1>4. IsList(F) /\ \A j \in 1 .. Len(F) : F[j] \in S
  <2> HIDE DEF S, F
  <2> QED BY <1>3, SequenceIsList
<1> HIDE DEF F
<1>5. ASSUME NEW j \in 1 .. Len(F)
      PROVE  \E n \in 1 .. Len(parts) : \E i \in 1 .. Len(parts[n]) : F[j] = parts[n][i]
  <2>1. PICK n \in 1 .. Len(parts) : F[j] \in ToSet(parts[n])
    BY <1>4
  <2>2. DOMAIN parts[n] = 1 .. Len(parts[n])
    BY ListFacts
  <2> QED BY <2>1, <2>2 DEF ToSet
<1> QED BY <1>4, <1>5 DEF F

-----------------------------------------------------------------------------
(* Sorted lists. *)

\* Keys that ListByRunningOrder and ListByStory can sort: no two of them
\* agree in length and last segment.
Sortable(table, keys) ==
    /\ IsFiniteSet(keys)
    /\ \A k \in keys : table[k].order \in Nat /\ Len(k) \in Nat /\ Last(k) \in Nat
    /\ \A k, l \in keys : Len(k) = Len(l) /\ Last(k) = Last(l) => k = l

\* The order of ListByRunningOrder and ListByStory, by Order and then by ID,
\* is total on such keys.
LEMMA BeforeIsAnOrder ==
    ASSUME NEW table, NEW keys, Sortable(table, keys)
    PROVE  /\ \A k \in keys : ~Before(table, k, k)
           /\ \A k, l \in keys : k = l \/ Before(table, k, l) \/ Before(table, l, k)
           /\ \A j, k, l \in keys : Before(table, j, k) /\ Before(table, k, l) => Before(table, j, l)
BY DEF Sortable, Before, KeyBefore

Earlier(table, keys, k) == {l \in keys : Before(table, l, k)}
Rank(table, keys, k) == Cardinality(Earlier(table, keys, k))

\* A key has fewer keys before it than there are keys, and more than any key
\* before it has.
LEMMA RankFacts ==
    ASSUME NEW table, NEW keys, Sortable(table, keys)
    PROVE  /\ Cardinality(keys) \in Nat
           /\ \A k \in keys : Rank(table, keys, k) \in 0 .. Cardinality(keys) - 1
           /\ \A k, l \in keys : Before(table, k, l) => Rank(table, keys, k) < Rank(table, keys, l)
<1>1. IsFiniteSet(keys) /\ Cardinality(keys) \in Nat
  BY FS_CardinalityType DEF Sortable
<1>2. ASSUME NEW k \in keys PROVE /\ IsFiniteSet(Earlier(table, keys, k))
                                  /\ Rank(table, keys, k) \in 0 .. Cardinality(keys) - 1
                                  /\ Rank(table, keys, k) \in Nat
  <2>1. Earlier(table, keys, k) \in SUBSET (keys \ {k})
    BY BeforeIsAnOrder DEF Earlier
  <2>2. IsFiniteSet(keys \ {k}) /\ Cardinality(keys \ {k}) = Cardinality(keys) - 1
    BY <1>1, FS_RemoveElement
  <2>3. IsFiniteSet(Earlier(table, keys, k))
        /\ Cardinality(Earlier(table, keys, k)) <= Cardinality(keys) - 1
    BY <2>1, <2>2, FS_Subset
  <2>4. Cardinality(Earlier(table, keys, k)) \in Nat
    BY <2>3, FS_CardinalityType
  <2> QED BY <1>1, <2>3, <2>4 DEF Rank
<1>3. ASSUME NEW k \in keys, NEW l \in keys, Before(table, k, l)
      PROVE  Rank(table, keys, k) < Rank(table, keys, l)
  <2>1. Earlier(table, keys, k) \in SUBSET Earlier(table, keys, l)
    BY <1>3, BeforeIsAnOrder DEF Earlier
  <2>2. k \in Earlier(table, keys, l) /\ k \notin Earlier(table, keys, k)
    BY <1>3, BeforeIsAnOrder DEF Earlier
  <2>3. Rank(table, keys, k) <= Rank(table, keys, l)
        /\ (Rank(table, keys, l) = Rank(table, keys, k) => Earlier(table, keys, l) = Earlier(table, keys, k))
    BY <1>2, <2>1, FS_Subset DEF Rank
  <2> QED BY <1>2, <2>2, <2>3
<1> QED BY <1>1, <1>2, <1>3

\* Sorted lists every key once, in the order of (Order, ID).
LEMMA SortedFacts ==
    ASSUME NEW table, NEW keys, Sortable(table, keys)
    PROVE  /\ IsList(Sorted(table, keys))
           /\ Len(Sorted(table, keys)) = Cardinality(keys)
           /\ Cardinality(keys) \in Nat
           /\ \A n \in 1 .. Cardinality(keys) :
                 /\ Sorted(table, keys)[n] \in keys
                 /\ Rank(table, keys, Sorted(table, keys)[n]) = n - 1
           /\ \A k \in keys :
                 /\ Rank(table, keys, k) + 1 \in 1 .. Cardinality(keys)
                 /\ Sorted(table, keys)[Rank(table, keys, k) + 1] = k
           /\ ToSet(Sorted(table, keys)) = keys
<1> DEFINE N == Cardinality(keys)
           f == [k \in keys |-> Rank(table, keys, k) + 1]
           L == Sorted(table, keys)
<1>1. /\ IsFiniteSet(keys) /\ N \in Nat
      /\ \A k \in keys : Rank(table, keys, k) \in 0 .. N - 1
      /\ \A k, l \in keys : Before(table, k, l) => Rank(table, keys, k) < Rank(table, keys, l)
  BY RankFacts DEF Sortable
<1>2. \A k, l \in keys : Rank(table, keys, k) = Rank(table, keys, l) => k = l
  <2> SUFFICES ASSUME NEW k \in keys, NEW l \in keys, Rank(table, keys, k) = Rank(table, keys, l)
               PROVE  k = l
    OBVIOUS
  <2>1. Rank(table, keys, k) \in Nat
    BY <1>1
  <2> QED BY <1>1, <2>1, BeforeIsAnOrder
<1>3. f \in Injection(keys, 1 .. N)
  <2>1. f \in [keys -> 1 .. N]
    BY <1>1
  <2>2. \A k, l \in keys : f[k] = f[l] => k = l
    BY <1>1, <1>2
  <2> HIDE DEF f
  <2> QED BY <2>1, <2>2 DEF Injection, IsInjective
<1>4. IsFiniteSet(1 .. N) /\ Cardinality(1 .. N) = N
  BY <1>1, FS_Interval
<1>5. f \in Surjection(keys, 1 .. N)
  <2> HIDE DEF f
  <2> QED BY <1>1, <1>3, <1>4, FS_Injection
<1>6. ASSUME NEW n \in 1 .. N PROVE \E k \in keys : Rank(table, keys, k) = n - 1
  <2>1. PICK k \in keys : f[k] = n
    BY <1>5 DEF Surjection
  <2> QED BY <2>1, <1>1
<1>7. L = [n \in 1 .. N |-> CHOOSE k \in keys : Rank(table, keys, k) = n - 1]
  BY DEF Sorted, Rank, Earlier
<1> HIDE DEF L, f
<1>8. ASSUME NEW n \in 1 .. N PROVE L[n] \in keys /\ Rank(table, keys, L[n]) = n - 1
  BY <1>6, <1>7
<1>9. ASSUME NEW k \in keys PROVE Rank(table, keys, k) + 1 \in 1 .. N /\ L[Rank(table, keys, k) + 1] = k
  <2>1. Rank(table, keys, k) + 1 \in 1 .. N /\ Rank(table, keys, k) \in Nat
    BY <1>1
  <2>2. /\ L[Rank(table, keys, k) + 1] \in keys
        /\ Rank(table, keys, L[Rank(table, keys, k) + 1]) = Rank(table, keys, k)
    BY <2>1, <1>8
  <2> QED BY <2>1, <2>2, <1>2
<1>10. L = [n \in 1 .. N |-> L[n]]
  BY <1>7
<1>11. IsList(L) /\ Len(L) = N
  BY <1>1, <1>10, FunctionIsList
<1>12. DOMAIN L = 1 .. N
  BY <1>7
<1>13. ToSet(L) = keys
  BY <1>8, <1>9, <1>12 DEF ToSet
<1> QED BY <1>1, <1>8, <1>9, <1>11, <1>13 DEF L

-----------------------------------------------------------------------------
(* Tasks in order.                                                         *)

\* Tasks that are whole messages.
MessageTasks == Kinds \ (Whole \cup {"REPLACE"})

ReadTasks == {"putRunningOrder", "put", "clear", "dropStory", "onAir", "shift", "renumber"}

\* A well-formed task.
TaskOK(t) ==
    /\ t.do \in Calls \cup {"refuse", "NEW"} \cup ReadTasks
    /\ t.do \in {"create", "update"} =>
          DOMAIN t = {"do", "repo", "key", "rec", "refused"} /\ Storable(t.repo, t.key, t.rec)
    /\ t.do = "delete" => t.repo \in Tables
    /\ t.do = "refuse" => t.how = "NACK"
    /\ t.do \in {"putRunningOrder", "clear"} => t.ro \in ROs
    /\ t.do = "put" => t.repo \in {"story", "item"} /\ Storable(t.repo, t.key, t.rec)
    /\ t.do = "onAir" => t.ro \in ROs /\ StoryKeyOf(t.key, t.ro)
    /\ t.do = "shift" => t.repo \in {"story", "item"} /\ t.position \in Nat /\ t.by \in Nat
    /\ t.do = "renumber" => t.repo \in {"story", "item"}
    /\ t.do \in {"shift", "renumber"} /\ t.repo = "story" => t.owner \in ROs
    /\ t.do = "NEW" => t.op \in Messages /\ t.op.kind \in {"NEW", "REPLACE"}

\* A story key of running order r.
Inner(key, r) == Len(key) = 2 /\ key[1] = r

\* The record that a call writes, or removes, belongs to running order r, and
\* what it replaces to one of ros.
InsideCall(m, t, r, ros) ==
    /\ t.do \in {"create", "update"} =>
          /\ t.repo = "ro" => t.key = r /\ Len(t.rec.onAir) # 1
          /\ t.repo = "story" => Inner(t.key, r)
          /\ t.repo = "item" =>
                \/ /\ Inner(t.rec.story, r) \/ (Len(t.rec.story) = 2 /\ t.rec.story[1] \in ros)
                   /\ t.do = "update" /\ t.key \in DOMAIN m.item => m.item[t.key].story[1] \in ros
                \/ t.do = "update" /\ t.key \in DOMAIN m.item /\ m.item[t.key] = t.rec
    /\ t.do = "delete" =>
          /\ t.repo = "ro" => t.keys = {r}
          /\ t.repo = "story" => \A k \in t.keys : Len(k) = 2 => k[1] = r
          /\ t.repo = "item" => \A k \in t.keys \cap DOMAIN m.item : m.item[k].story[1] \in ros

\* A task stays within running order r.
Inside(m, t, r, ros) ==
    /\ InsideCall(m, t, r, ros)
    /\ t.do \in {"putRunningOrder", "clear", "onAir"} => t.ro = r
    /\ t.do = "onAir" => Inner(t.key, r)
    /\ t.do = "put" => IF t.repo = "story" THEN Inner(t.key, r)
                       ELSE Inner(t.rec.story, r) /\ Len(t.key) = 3
    /\ t.do = "dropStory" => Inner(t.key, r)
    /\ t.do \in {"shift", "renumber"} =>
          IF t.repo = "story" THEN t.owner = r ELSE Inner(t.owner, r)
    /\ t.do = "NEW" => t.op.ro = r

TaskOf(m, t, r, ros) == TaskOK(t) /\ (Keyed => Inside(m, t, r, ros))

Proper(m, s, r, ros) == IsList(s) /\ \A n \in 1 .. Len(s) : TaskOf(m, s[n], r, ros)

\* What a read comes to: tasks, or a refusal that asks for a resynchronisation.
Answered(m, s, r, ros) == Proper(m, s, r, ros) \/ s = Refuse("RESYNC")

\* A message that has not read anything yet.
Unread(op) == <<[do |-> op.kind, op |-> op]>>

Named == Promise!NamedBy(busy)

\* A message that has changed nothing: it has yet to look, or has looked and
\* asks for a resynchronisation.
Fresh(s, op) ==
    (s = Unread(op) /\ op.kind \in MessageTasks) \/ s = Refuse("RESYNC")

\* The tasks left of a message, given the messages in hand and what was
\* reported when they began.
Doing(m, s, op, begun, then) ==
    \/ Proper(m, s, op.ro, Promise!NamedBy(begun))
    \/ Fresh(s, op) /\ (Len(begun) = 1 => then = View(m))

JobsInOrder ==
    \A w \in Workers :
        Working(w) => /\ job[w].op \in Messages
                      /\ DOMAIN job[w] = {"op", "todo"}
                      /\ job[w].op.ro \in Named
                      /\ Doing(mem, job[w].todo, job[w].op, busy, since)

\* A message begun when nothing was in hand, while no other has come.
Alone ==
    Len(busy) = 1 => \A v, w \in Workers :
                        Working(v) /\ Working(w) => v = w /\ job[w].op = busy[1]

JobType == DOMAIN job = Workers

StoresInOrder ==
    /\ Consistent(mem) /\ Consistent(disk) /\ Consistent(image)
    /\ Keyed => KeyedStore(mem) /\ KeyedStore(disk) /\ KeyedStore(image)

-----------------------------------------------------------------------------
(* Keys, records and lists of them.                                        *)

\* The composite key of a story and its wire identifier are story keys.
LEMMA MakeStoryKey ==
    ASSUME NEW r \in ROs, NEW s \in Nat
    PROVE  /\ StoryKeyOf(<<r, s>>, r) /\ Len(<<r, s>>) = 2 /\ Last(<<r, s>>) = s
           /\ StoryKeyOf(<<s>>, r) /\ Len(<<s>>) = 1 /\ Last(<<s>>) = s
           /\ <<r, s>>[1] = r
BY DEF StoryKeyOf, Last

\* A story key is the composite key of the running order or a wire
\* identifier, and is never empty.
LEMMA StoryKeyFacts ==
    ASSUME NEW key, NEW r, StoryKeyOf(key, r)
    PROVE  /\ Last(key) \in Nat /\ key # NoKey
           /\ \/ Len(key) = 2 /\ key = <<r, Last(key)>> /\ key[1] = r
              \/ Len(key) = 1 /\ key = <<Last(key)>>
<1>1. PICK s \in Nat : s = Last(key) /\ key \in {<<r, s>>, <<s>>}
  BY DEF StoryKeyOf
<1>2. CASE key = <<r, s>>
  BY <1>1, <1>2 DEF Last, NoKey
<1>3. CASE key = <<s>>
  BY <1>1, <1>3 DEF Last, NoKey
<1> QED BY <1>1, <1>2, <1>3

\* The composite key of an item and its wire identifier are item keys.
LEMMA MakeItemKey ==
    ASSUME NEW story, NEW i \in Nat, StoryKey(story)
    PROVE  /\ ItemKeyOf(Append(story, i), story) /\ Len(Append(story, i)) = Len(story) + 1
           /\ Last(Append(story, i)) = i
           /\ ItemKeyOf(<<i>>, story) /\ Len(<<i>>) = 1 /\ Last(<<i>>) = i
<1>1. PICK r \in ROs : StoryKeyOf(story, r)
  BY DEF StoryKey
<1> DEFINE T == ROs \cup Nat
<1>2. story \in Seq(T)
  <2>1. Last(story) \in T /\ r \in T
    BY <1>1, StoryKeyFacts
  <2>2. story = <<r, Last(story)>> \/ story = <<Last(story)>>
    BY <1>1, StoryKeyFacts
  <2> HIDE DEF T
  <2>3. \A a, b \in T : <<a, b>> \in Seq(T) /\ <<a>> \in Seq(T)
    OBVIOUS
  <2> QED BY <2>1, <2>2, <2>3
<1>3. Len(Append(story, i)) = Len(story) + 1 /\ Append(story, i)[Len(story) + 1] = i
  BY <1>2, AppendProperties
<1>4. Last(Append(story, i)) = i
  BY <1>3 DEF Last
<1>5. Len(<<i>>) = 1 /\ Last(<<i>>) = i
  BY DEF Last
<1> QED BY <1>3, <1>4, <1>5 DEF ItemKeyOf

\* An item key extends the key of its story or is a wire identifier.
LEMMA ItemKeyFacts ==
    ASSUME NEW key, NEW story, StoryKey(story), ItemKeyOf(key, story)
    PROVE  /\ Last(key) \in Nat /\ key # NoKey /\ Len(story) \in 1 .. 2
           /\ \/ Len(key) = Len(story) + 1 /\ key = Append(story, Last(key))
              \/ Len(key) = 1 /\ key = <<Last(key)>>
<1>1. PICK r \in ROs : StoryKeyOf(story, r)
  BY DEF StoryKey
<1>2. Len(story) \in 1 .. 2
  BY <1>1, StoryKeyFacts
<1>3. PICK i \in Nat : i = Last(key) /\ key \in {Append(story, i), <<i>>}
  BY DEF ItemKeyOf
<1>4. CASE key = Append(story, i)
  <2>1. Len(key) = Len(story) + 1
    BY <1>4, MakeItemKey
  <2>2. key # NoKey
    BY <2>1, <1>2 DEF NoKey
  <2> QED BY <1>2, <1>3, <1>4, <2>1, <2>2
<1>5. CASE key = <<i>>
  <2>1. Len(key) = 1 /\ key # NoKey
    BY <1>5 DEF NoKey
  <2> QED BY <1>2, <1>3, <1>5, <2>1
<1> QED BY <1>3, <1>4, <1>5

\* A stored story has its fields, an order and a key of its running order.
LEMMA StoryRecordFacts ==
    ASSUME NEW m, Consistent(m), NEW k \in DOMAIN m.story
    PROVE  /\ DOMAIN m.story[k] = {"ro", "order", "body"}
           /\ m.story[k].ro \in ROs /\ m.story[k].order \in Nat
           /\ StoryKeyOf(k, m.story[k].ro)
           /\ Storable("story", k, m.story[k])
BY DEF Consistent, Storable, Tables

\* A stored item has its fields, an order and a key of its story.
LEMMA ItemRecordFacts ==
    ASSUME NEW m, Consistent(m), NEW k \in DOMAIN m.item
    PROVE  /\ DOMAIN m.item[k] = {"story", "order", "body"}
           /\ StoryKey(m.item[k].story) /\ m.item[k].order \in Nat
           /\ ItemKeyOf(k, m.item[k].story)
           /\ Storable("item", k, m.item[k])
BY DEF Consistent, Storable, Tables

\* A stored running order has its fields, and its on-air pointer is empty or
\* names a story of it.
LEMMA ROFacts ==
    ASSUME NEW m, Consistent(m), NEW r \in DOMAIN m.ro
    PROVE  /\ DOMAIN m.ro[r] = {"meta", "air", "onAir"}
           /\ r \in ROs
           /\ m.ro[r].onAir = NoKey \/ StoryKeyOf(m.ro[r].onAir, r)
           /\ Storable("ro", r, m.ro[r])
BY DEF Consistent, Storable, Tables

StoriesOf(m, r) == {k \in DOMAIN m.story : m.story[k].ro = r}
ItemsOf(m, key) == {k \in DOMAIN m.item : m.item[k].story = key}

\* Stories of one running order can be sorted: two of them with one wire
\* identifier have keys of different length.
LEMMA StoriesSortable ==
    ASSUME NEW m, Consistent(m), NEW r, NEW keys \in SUBSET StoriesOf(m, r)
    PROVE  Sortable(m.story, keys)
<1>1. IsFiniteSet(StoriesOf(m, r))
  <2>1. IsFiniteSet(DOMAIN m.story)
    BY DEF Consistent, Tables
  <2>2. StoriesOf(m, r) \in SUBSET DOMAIN m.story
    BY DEF StoriesOf
  <2> QED BY <2>1, <2>2, FS_Subset
<1>2. IsFiniteSet(keys)
  BY <1>1, FS_Subset
<1>3. ASSUME NEW k \in keys
      PROVE  m.story[k].order \in Nat /\ StoryKeyOf(k, r)
  BY StoryRecordFacts DEF StoriesOf
<1>4. ASSUME NEW k \in keys PROVE Len(k) \in Nat /\ Last(k) \in Nat
  BY <1>3, StoryKeyFacts
<1>5. ASSUME NEW k \in keys, NEW l \in keys, Len(k) = Len(l), Last(k) = Last(l)
      PROVE  k = l
  <2>1. (Len(k) = 2 /\ k = <<r, Last(k)>>) \/ (Len(k) = 1 /\ k = <<Last(k)>>)
    BY <1>3, StoryKeyFacts
  <2>2. (Len(l) = 2 /\ l = <<r, Last(l)>>) \/ (Len(l) = 1 /\ l = <<Last(l)>>)
    BY <1>3, StoryKeyFacts
  <2> QED BY <1>5, <2>1, <2>2
<1> QED BY <1>2, <1>3, <1>4, <1>5 DEF Sortable

\* Items of one story can be sorted.
LEMMA ItemsSortable ==
    ASSUME NEW m, Consistent(m), NEW key, NEW keys \in SUBSET ItemsOf(m, key)
    PROVE  Sortable(m.item, keys)
<1>1. IsFiniteSet(ItemsOf(m, key))
  <2>1. IsFiniteSet(DOMAIN m.item)
    BY DEF Consistent, Tables
  <2>2. ItemsOf(m, key) \in SUBSET DOMAIN m.item
    BY DEF ItemsOf
  <2> QED BY <2>1, <2>2, FS_Subset
<1>2. IsFiniteSet(keys)
  BY <1>1, FS_Subset
<1>3. ASSUME NEW k \in keys
      PROVE  m.item[k].order \in Nat /\ StoryKey(key) /\ ItemKeyOf(k, key)
  BY ItemRecordFacts DEF ItemsOf
<1>4. ASSUME NEW k \in keys PROVE Len(k) \in Nat /\ Last(k) \in Nat
  BY <1>3, ItemKeyFacts
<1>5. ASSUME NEW k \in keys, NEW l \in keys, Len(k) = Len(l), Last(k) = Last(l)
      PROVE  k = l
  <2>1. StoryKey(key) /\ ItemKeyOf(k, key) /\ ItemKeyOf(l, key)
    BY <1>3
  <2>2. Len(key) \in 1 .. 2
    BY <2>1, ItemKeyFacts
  <2> QED BY <1>5, <2>1, <2>2, ItemKeyFacts
<1> QED BY <1>2, <1>3, <1>4, <1>5 DEF Sortable

\* ListByRunningOrder lists the stories of the running order.
LEMMA StoryListFacts ==
    ASSUME NEW m, Consistent(m), NEW r
    PROVE  /\ IsList(ListByRunningOrder(m, r))
           /\ ToSet(ListByRunningOrder(m, r)) = StoriesOf(m, r)
           /\ Len(ListByRunningOrder(m, r)) \in Nat
           /\ \A n \in 1 .. Len(ListByRunningOrder(m, r)) :
                 LET k == ListByRunningOrder(m, r)[n]
                 IN  k \in DOMAIN m.story /\ m.story[k].ro = r /\ StoryKeyOf(k, r)
<1>1. ListByRunningOrder(m, r) = Sorted(m.story, StoriesOf(m, r))
  BY DEF ListByRunningOrder, StoriesOf
<1>2. Sortable(m.story, StoriesOf(m, r))
  BY StoriesSortable
<1>3. /\ IsList(ListByRunningOrder(m, r))
      /\ ToSet(ListByRunningOrder(m, r)) = StoriesOf(m, r)
      /\ Len(ListByRunningOrder(m, r)) \in Nat
  BY <1>1, <1>2, SortedFacts
<1>4. ASSUME NEW n \in 1 .. Len(ListByRunningOrder(m, r))
      PROVE  ListByRunningOrder(m, r)[n] \in StoriesOf(m, r)
  BY <1>3, ListFacts
<1>5. \A k \in StoriesOf(m, r) : k \in DOMAIN m.story /\ m.story[k].ro = r /\ StoryKeyOf(k, r)
  BY StoryRecordFacts DEF StoriesOf
<1> QED BY <1>3, <1>4, <1>5

\* ListByStory lists the items of the story.
LEMMA ItemListFacts ==
    ASSUME NEW m, Consistent(m), NEW key
    PROVE  /\ IsList(ListByStory(m, key))
           /\ ToSet(ListByStory(m, key)) = ItemsOf(m, key)
           /\ Len(ListByStory(m, key)) \in Nat
           /\ \A n \in 1 .. Len(ListByStory(m, key)) :
                 LET k == ListByStory(m, key)[n]
                 IN  k \in DOMAIN m.item /\ m.item[k].story = key /\ ItemKeyOf(k, key) /\ StoryKey(key)
<1>1. ListByStory(m, key) = Sorted(m.item, ItemsOf(m, key))
  BY DEF ListByStory, ItemsOf
<1>2. Sortable(m.item, ItemsOf(m, key))
  BY ItemsSortable
<1>3. /\ IsList(ListByStory(m, key))
      /\ ToSet(ListByStory(m, key)) = ItemsOf(m, key)
      /\ Len(ListByStory(m, key)) \in Nat
  BY <1>1, <1>2, SortedFacts
<1>4. ASSUME NEW n \in 1 .. Len(ListByStory(m, key))
      PROVE  ListByStory(m, key)[n] \in ItemsOf(m, key)
  BY <1>3, ListFacts
<1>5. \A k \in ItemsOf(m, key) : k \in DOMAIN m.item /\ m.item[k].story = key /\ ItemKeyOf(k, key) /\ StoryKey(key)
  BY ItemRecordFacts DEF ItemsOf
<1> QED BY <1>3, <1>4, <1>5

\* A set of positions that is not empty has a least one.
LEMMA LeastIsThere ==
    ASSUME NEW N \in Nat, NEW S \in SUBSET (1 .. N), S # {}
    PROVE  Min(S) \in S /\ \A y \in S : Min(S) <= y
<1> DEFINE R == {ss \in Nat \X Nat : ss[1] < ss[2]}
<1>1. IsWellFoundedOn(R, Nat)
  BY NatLessThanWellFounded DEF OpToRel
<1>2. ASSUME NEW x \in Nat, NEW y \in Nat, y < x PROVE <<y, x>> \in R
  BY <1>2
<1>3. S \subseteq Nat
  OBVIOUS
<1> HIDE DEF R
<1>4. PICK x \in S : \A y \in S : ~ (<<y, x>> \in R)
  BY <1>1, <1>3, WFMin
<1>5. ASSUME NEW y \in S PROVE x <= y
  <2>1. x \in Nat /\ y \in Nat /\ ~(y < x)
    BY <1>2, <1>3, <1>4
  <2> QED BY <2>1
<1> QED BY <1>4, <1>5 DEF Min

\* The search of resolveStory and resolveItem finds nothing, or a record
\* whose wire identifier matches.
LEMMA FirstOfKind ==
    ASSUME NEW list, IsList(list), NEW id
    PROVE  \/ SelectInSeq(list, LAMBDA k : Last(k) = id) = 0
           \/ \E n \in 1 .. Len(list) : SelectInSeq(list, LAMBDA k : Last(k) = id) = n /\ Last(list[n]) = id
<1> DEFINE I == {i \in 1 .. Len(list) : Last(list[i]) = id}
<1>1. SelectInSeq(list, LAMBDA k : Last(k) = id) = IF I # {} THEN Min(I) ELSE 0
  BY DEF SelectInSeq
<1>2. Len(list) \in Nat
  BY ListFacts
<1>3. I \in SUBSET (1 .. Len(list))
  OBVIOUS
<1>4. I # {} => Min(I) \in I
  <2> HIDE DEF I
  <2> QED BY <1>2, <1>3, LeastIsThere
<1>5. I # {} => Min(I) \in 1 .. Len(list) /\ Last(list[Min(I)]) = id
  BY <1>4
<1> QED BY <1>1, <1>5

\* MoveStories inserts at a position of the list or at its end.
LEMMA PositionFacts ==
    ASSUME NEW list, IsList(list), NEW key
    PROVE  StoryPosition(list, key) \in 1 .. Len(list) + 1
<1> DEFINE I == {i \in 1 .. Len(list) : list[i] = key}
<1>1. StoryPosition(list, key) = IF Contains(list, key) THEN (IF I # {} THEN Min(I) ELSE 0) ELSE Len(list) + 1
  BY DEF StoryPosition, SelectInSeq
<1>2. Len(list) \in Nat
  BY ListFacts
<1>3. I \in SUBSET (1 .. Len(list)) /\ (Contains(list, key) => I # {})
  BY DEF Contains
<1>4. I # {} => Min(I) \in I
  <2> HIDE DEF I
  <2> QED BY <1>2, <1>3, LeastIsThere
<1>5. I # {} => Min(I) \in 1 .. Len(list)
  BY <1>3, <1>4
<1> HIDE DEF I
<1> QED BY <1>1, <1>2, <1>3, <1>5

\* resolveStory and resolveItem find nothing, the composite key, or a listed
\* record with the wire identifier.
LEMMA ResolvedFacts ==
    ASSUME NEW composite, NEW table, NEW list, NEW id, IsList(list)
    PROVE  \/ Resolved(composite, table, list, id) = NoKey
           \/ Resolved(composite, table, list, id) = composite /\ composite \in DOMAIN table
           \/ \E n \in 1 .. Len(list) : Resolved(composite, table, list, id) = list[n] /\ Last(list[n]) = id
<1> DEFINE first == SelectInSeq(list, LAMBDA k : Last(k) = id)
<1>1. first = 0 \/ \E n \in 1 .. Len(list) : first = n /\ Last(list[n]) = id
  BY FirstOfKind
<1>2. Resolved(composite, table, list, id) =
         IF composite \in DOMAIN table THEN composite ELSE IF first = 0 THEN NoKey ELSE list[first]
  BY DEF Resolved
<1> HIDE DEF first
<1>3. CASE composite \in DOMAIN table
  BY <1>2, <1>3
<1>4. CASE composite \notin DOMAIN table /\ first = 0
  BY <1>2, <1>4
<1>5. CASE composite \notin DOMAIN table /\ first # 0
  <2>1. PICK n \in 1 .. Len(list) : first = n /\ Last(list[n]) = id
    BY <1>1, <1>5
  <2>2. Resolved(composite, table, list, id) = list[n]
    BY <1>2, <1>5, <2>1
  <2> QED BY <2>1, <2>2
<1> QED BY <1>3, <1>4, <1>5

\* What resolveStory finds is a story of the running order with the wire
\* identifier that was asked for.
LEMMA ResolvedStory ==
    ASSUME NEW m, Consistent(m), NEW r \in ROs, NEW s \in Nat, resolveStory(m, r, s) # NoKey
    PROVE  /\ resolveStory(m, r, s) \in DOMAIN m.story
           /\ m.story[resolveStory(m, r, s)].ro = r
           /\ StoryKeyOf(resolveStory(m, r, s), r)
           /\ Last(resolveStory(m, r, s)) = s
<1> DEFINE k == resolveStory(m, r, s)
           list == ListByRunningOrder(m, r)
<1>1. IsList(list)
  BY StoryListFacts
<1>2. \/ k = NoKey
      \/ k = <<r, s>> /\ <<r, s>> \in DOMAIN m.story
      \/ \E n \in 1 .. Len(list) : k = list[n] /\ Last(list[n]) = s
  <2> HIDE DEF list
  <2> QED BY <1>1, ResolvedFacts DEF resolveStory, storyPersistenceID, list
<1> HIDE DEF k
<1>3. ASSUME k = <<r, s>> /\ <<r, s>> \in DOMAIN m.story
      PROVE  k \in DOMAIN m.story /\ m.story[k].ro = r /\ StoryKeyOf(k, r) /\ Last(k) = s
  <2>1. StoryKeyOf(<<r, s>>, m.story[<<r, s>>].ro)
    BY <1>3, StoryRecordFacts
  <2>2. <<r, s>>[1] = m.story[<<r, s>>].ro
    BY <2>1, StoryKeyFacts, MakeStoryKey
  <2>3. m.story[<<r, s>>].ro = r
    BY <2>2
  <2> QED BY <1>3, <2>3, MakeStoryKey
<1>4. ASSUME NEW n \in 1 .. Len(list), k = list[n], Last(list[n]) = s
      PROVE  k \in DOMAIN m.story /\ m.story[k].ro = r /\ StoryKeyOf(k, r) /\ Last(k) = s
  BY <1>4, StoryListFacts
<1>5. k # NoKey
  BY DEF k
<1>6. k \in DOMAIN m.story /\ m.story[k].ro = r /\ StoryKeyOf(k, r) /\ Last(k) = s
  <2>1. CASE \E n \in 1 .. Len(list) : k = list[n] /\ Last(list[n]) = s
    BY <2>1, <1>4
  <2>2. CASE k = <<r, s>> /\ <<r, s>> \in DOMAIN m.story
    BY <2>2, <1>3
  <2> QED BY <1>2, <1>5, <2>1, <2>2
<1> QED BY <1>6 DEF k

\* Story keys are sequences of one or two parts.
LEMMA StoryKeySequence ==
    ASSUME NEW story, StoryKey(story)
    PROVE  story \in Seq(ROs \cup Nat) /\ Len(story) \in 1 .. 2
<1>1. PICK r \in ROs : StoryKeyOf(story, r)
  BY DEF StoryKey
<1> DEFINE T == ROs \cup Nat
<1>2. Last(story) \in T /\ r \in T
  BY <1>1, StoryKeyFacts
<1>3. Len(story) \in 1 .. 2 /\ (story = <<r, Last(story)>> \/ story = <<Last(story)>>)
  BY <1>1, StoryKeyFacts
<1> HIDE DEF T
<1>4. \A a, b \in T : <<a, b>> \in Seq(T) /\ <<a>> \in Seq(T)
  OBVIOUS
<1>5. story \in Seq(T)
  BY <1>2, <1>3, <1>4
<1> QED BY <1>3, <1>5 DEF T

\* Two extended sequences are equal only if their parts are.
LEMMA AppendTells ==
    ASSUME NEW T, NEW s \in Seq(T), NEW u \in Seq(T), NEW i \in T, NEW j \in T,
           Append(s, i) = Append(u, j)
    PROVE  s = u /\ i = j
<1>1. /\ Len(Append(s, i)) = Len(s) + 1 /\ Append(s, i)[Len(s) + 1] = i
      /\ \A n \in 1 .. Len(s) : Append(s, i)[n] = s[n]
  BY AppendProperties
<1>2. /\ Len(Append(u, j)) = Len(u) + 1 /\ Append(u, j)[Len(u) + 1] = j
      /\ \A n \in 1 .. Len(u) : Append(u, j)[n] = u[n]
  BY AppendProperties
<1>3. Len(s) \in Nat /\ Len(u) \in Nat
  OBVIOUS
<1>4. Len(s) = Len(u) /\ i = j
  BY <1>1, <1>2, <1>3
<1>5. \A n \in 1 .. Len(s) : s[n] = u[n]
  BY <1>1, <1>2, <1>4
<1> QED BY <1>4, <1>5, SeqEqual

\* A composite key tells the story it is in.
LEMMA KeyTellsStory ==
    ASSUME NEW m, Consistent(m), NEW story, StoryKey(story), NEW i \in Nat, Append(story, i) \in DOMAIN m.item
    PROVE  m.item[Append(story, i)].story = story
<1> DEFINE k == Append(story, i)
           u == m.item[k].story
<1>1. StoryKey(u) /\ ItemKeyOf(k, u)
  BY ItemRecordFacts
<1>2. /\ Len(u) \in 1 .. 2 /\ Last(k) \in Nat
      /\ \/ Len(k) = Len(u) + 1 /\ k = Append(u, Last(k))
         \/ Len(k) = 1
  BY <1>1, ItemKeyFacts
<1>3. Len(k) = Len(story) + 1
  BY MakeItemKey
<1>4. story \in Seq(ROs \cup Nat) /\ u \in Seq(ROs \cup Nat) /\ Len(story) \in 1 .. 2
  BY <1>1, StoryKeySequence
<1>d. k = Append(story, i)
  OBVIOUS
<1> HIDE DEF u, k
<1>f. Len(story) \in 1 .. 2
  BY <1>4
<1>g. \A a, b : a = b + 1 /\ b \in 1 .. 2 => a # 1
  OBVIOUS
<1>e. Len(k) # 1
  BY <1>3, <1>f, <1>g, Zenon
<1>5. k = Append(u, Last(k)) /\ Last(k) \in ROs \cup Nat /\ i \in ROs \cup Nat
  BY <1>2, <1>e, Zenon
<1>6. story = u
  BY <1>d, <1>4, <1>5, AppendTells
<1> QED BY <1>6 DEF u, k

\* What resolveItem finds is an item of the story with the wire identifier
\* that was asked for.
LEMMA ResolvedItem ==
    ASSUME NEW m, Consistent(m), NEW story, StoryKey(story), NEW i \in Nat, resolveItem(m, story, i) # NoKey
    PROVE  /\ resolveItem(m, story, i) \in DOMAIN m.item
           /\ m.item[resolveItem(m, story, i)].story = story
           /\ Last(resolveItem(m, story, i)) = i
<1> DEFINE k == resolveItem(m, story, i)
           list == ListByStory(m, story)
<1>1. IsList(list)
  BY ItemListFacts
<1>2. \/ k = NoKey
      \/ k = Append(story, i) /\ Append(story, i) \in DOMAIN m.item
      \/ \E n \in 1 .. Len(list) : k = list[n] /\ Last(list[n]) = i
  <2> DEFINE c == Append(story, i)
  <2>1. k = Resolved(c, m.item, list, i)
    BY DEF resolveItem, itemPersistenceID
  <2> HIDE DEF list, k, c
  <2>2. \/ k = NoKey
        \/ k = c /\ c \in DOMAIN m.item
        \/ \E n \in 1 .. Len(list) : k = list[n] /\ Last(list[n]) = i
    BY <1>1, <2>1, ResolvedFacts
  <2> QED BY <2>2 DEF c
<1> HIDE DEF k
<1>4. ASSUME NEW n \in 1 .. Len(list), k = list[n], Last(list[n]) = i
      PROVE  k \in DOMAIN m.item /\ m.item[k].story = story /\ Last(k) = i
  BY <1>4, ItemListFacts
<1>5. k # NoKey
  BY DEF k
<1>6. k \in DOMAIN m.item /\ m.item[k].story = story /\ Last(k) = i
  <2>1. CASE \E n \in 1 .. Len(list) : k = list[n] /\ Last(list[n]) = i
    BY <2>1, <1>4
  <2>2. CASE k = Append(story, i) /\ Append(story, i) \in DOMAIN m.item
    BY <2>2, KeyTellsStory, MakeItemKey
  <2> QED BY <1>2, <1>5, <2>1, <2>2
<1> QED BY <1>6 DEF k

-----------------------------------------------------------------------------
(* Tasks, and lists of them.                                               *)

\* A message with nothing left to do is in order.
LEMMA ProperEmpty ==
    ASSUME NEW m, NEW r, NEW ros
    PROVE  Proper(m, << >>, r, ros)
<1>1. IsList(<< >>) /\ Len(<< >>) = 0
  BY DEF IsList
<1> QED BY <1>1 DEF Proper

\* One task that is in order.
LEMMA ProperOne ==
    ASSUME NEW m, NEW r, NEW ros, NEW t, TaskOf(m, t, r, ros)
    PROVE  Proper(m, <<t>>, r, ros)
<1>1. IsList(<<t>>) /\ Len(<<t>>) = 1 /\ <<t>>[1] = t
  BY DEF IsList, ToSet
<1> QED BY <1>1 DEF Proper

\* Tasks after tasks.
LEMMA ProperConcat ==
    ASSUME NEW m, NEW r, NEW ros, NEW s, NEW u,
           Proper(m, s, r, ros), Proper(m, u, r, ros)
    PROVE  Proper(m, s \o u, r, ros)
BY ConcatIsList DEF Proper

\* The tasks after the first, and the first.
LEMMA ProperTail ==
    ASSUME NEW m, NEW r, NEW ros, NEW s, Proper(m, s, r, ros), s # << >>
    PROVE  Proper(m, Tail(s), r, ros) /\ TaskOf(m, s[1], r, ros)
<1>1. 1 \in 1 .. Len(s)
  BY TailIsList, ListFacts DEF Proper
<1> QED BY <1>1, TailIsList DEF Proper

\* Tasks made for each element of a list (Each).
LEMMA ProperFlat ==
    ASSUME NEW m, NEW r, NEW ros, NEW N \in Nat, NEW parts, parts = [n \in 1 .. N |-> parts[n]],
           \A n \in 1 .. N : Proper(m, parts[n], r, ros)
    PROVE  Proper(m, FlattenSeq(parts), r, ros)
<1>1. IsList(parts) /\ Len(parts) = N
  BY FunctionIsList
<1>2. \A n \in 1 .. Len(parts) : IsList(parts[n])
  BY <1>1 DEF Proper
<1> DEFINE F == FlattenSeq(parts)
<1>3. /\ IsList(F)
      /\ \A j \in 1 .. Len(F) : \E n \in 1 .. Len(parts) : \E i \in 1 .. Len(parts[n]) : F[j] = parts[n][i]
  BY <1>1, <1>2, Flattened
<1> HIDE DEF F
<1>4. ASSUME NEW j \in 1 .. Len(F) PROVE TaskOf(m, F[j], r, ros)
  BY <1>1, <1>3 DEF Proper
<1>5. Proper(m, F, r, ros)
  BY <1>3, <1>4 DEF Proper
<1> QED BY <1>5 DEF F

\* Giving up with a NACK is in order.
LEMMA RefuseProper ==
    ASSUME NEW m, NEW r, NEW ros
    PROVE  Proper(m, Refuse("NACK"), r, ros)
<1> DEFINE t == [do |-> "refuse", how |-> "NACK"]
<1>1. t.do = "refuse" /\ t.how = "NACK"
  OBVIOUS
<1> HIDE DEF t
<1>2. "refuse" \notin Calls \cup ReadTasks \cup {"NEW"}
  BY DEF Calls, ReadTasks
<1>3. TaskOK(t)
  BY <1>1, <1>2 DEF TaskOK, ReadTasks, Calls
<1>4. Inside(m, t, r, ros)
  BY <1>1, <1>2 DEF Inside, InsideCall, ReadTasks, Calls
<1>5. TaskOf(m, t, r, ros)
  BY <1>3, <1>4 DEF TaskOf
<1> QED BY <1>5, ProperOne DEF t, Refuse

\* Either refusal may follow the first read.
LEMMA RefuseAnswered ==
    ASSUME NEW m, NEW r, NEW ros, NEW how \in {"NACK", "RESYNC"}
    PROVE  Answered(m, Refuse(how), r, ros)
BY RefuseProper DEF Answered

\* A create or update call that is well-formed and stays inside.
LEMMA CallTask ==
    ASSUME NEW m, NEW r, NEW ros, NEW t, t.do \in {"create", "update"},
           DOMAIN t = {"do", "repo", "key", "rec", "refused"}, Storable(t.repo, t.key, t.rec),
           Keyed => InsideCall(m, t, r, ros)
    PROVE  TaskOf(m, t, r, ros)
<1>1. t.do \notin {"delete", "refuse", "NEW"} \cup ReadTasks
  BY DEF ReadTasks
<1>2. TaskOK(t)
  BY <1>1 DEF TaskOK, ReadTasks, Calls
<1>3. Keyed => Inside(m, t, r, ros)
  BY <1>1 DEF Inside, ReadTasks
<1> QED BY <1>2, <1>3 DEF TaskOf

Call(do, repo, key, rec, refused) ==
    [do |-> do, repo |-> repo, key |-> key, rec |-> rec, refused |-> refused]

\* A Create or Update of a story of the running order the message names.
LEMMA StoryCall ==
    ASSUME NEW m, NEW r \in ROs, NEW ros, NEW do \in {"create", "update"}, NEW key, NEW rec, NEW refused,
           StoryKeyOf(key, r), Keyed => Len(key) = 2,
           DOMAIN rec = {"ro", "order", "body"}, rec.ro = r, rec.order \in Nat
    PROVE  TaskOf(m, Call(do, "story", key, rec, refused), r, ros)
<1> DEFINE t == Call(do, "story", key, rec, refused)
<1>1. /\ t.do = do /\ t.repo = "story" /\ t.key = key /\ t.rec = rec
      /\ DOMAIN t = {"do", "repo", "key", "rec", "refused"}
  BY DEF Call
<1> HIDE DEF t
<1>2. Storable("story", key, rec)
  BY DEF Storable
<1>3. Keyed => Inner(key, r)
  BY StoryKeyFacts DEF Inner
<1>4. Keyed => InsideCall(m, t, r, ros)
  BY <1>1, <1>3 DEF InsideCall
<1>5. TaskOf(m, t, r, ros)
  BY <1>1, <1>2, <1>4, CallTask
<1> QED BY <1>5 DEF t

\* A Create or Update of an item of a story of that running order.
LEMMA ItemCall ==
    ASSUME NEW m, NEW r \in ROs, NEW ros, NEW do \in {"create", "update"}, NEW key, NEW rec, NEW refused,
           StoryKeyOf(rec.story, r), Keyed => Len(rec.story) = 2,
           ItemKeyOf(key, rec.story), DOMAIN rec = {"story", "order", "body"}, rec.order \in Nat,
           Keyed /\ do = "update" /\ key \in DOMAIN m.item => m.item[key].story[1] \in ros
    PROVE  TaskOf(m, Call(do, "item", key, rec, refused), r, ros)
<1> DEFINE t == Call(do, "item", key, rec, refused)
<1>1. /\ t.do = do /\ t.repo = "item" /\ t.key = key /\ t.rec = rec
      /\ DOMAIN t = {"do", "repo", "key", "rec", "refused"}
  BY DEF Call
<1> HIDE DEF t
<1>2. Storable("item", key, rec)
  BY DEF Storable, StoryKey
<1>3. Keyed => Inner(rec.story, r)
  BY StoryKeyFacts DEF Inner
<1>4. Keyed => InsideCall(m, t, r, ros)
  BY <1>1, <1>3 DEF InsideCall
<1>5. TaskOf(m, t, r, ros)
  BY <1>1, <1>2, <1>4, CallTask
<1> QED BY <1>5 DEF t

\* A Create or Update of that running order itself.
LEMMA ROCall ==
    ASSUME NEW m, NEW r \in ROs, NEW ros, NEW do \in {"create", "update"}, NEW rec, NEW refused,
           DOMAIN rec = {"meta", "air", "onAir"}, rec.onAir = NoKey \/ StoryKeyOf(rec.onAir, r),
           Keyed => Len(rec.onAir) # 1
    PROVE  TaskOf(m, Call(do, "ro", r, rec, refused), r, ros)
<1> DEFINE t == Call(do, "ro", r, rec, refused)
<1>1. /\ t.do = do /\ t.repo = "ro" /\ t.key = r /\ t.rec = rec
      /\ DOMAIN t = {"do", "repo", "key", "rec", "refused"}
  BY DEF Call
<1> HIDE DEF t
<1>2. Storable("ro", r, rec)
  BY DEF Storable
<1>4. Keyed => InsideCall(m, t, r, ros)
  BY <1>1 DEF InsideCall
<1>5. TaskOf(m, t, r, ros)
  BY <1>1, <1>2, <1>4, CallTask
<1> QED BY <1>5 DEF t

\* An update that writes back the record as it was read.
LEMMA EchoCall ==
    ASSUME NEW m, NEW r, NEW ros, NEW key \in DOMAIN m.item, NEW refused, Consistent(m)
    PROVE  TaskOf(m, Call("update", "item", key, m.item[key], refused), r, ros)
<1> DEFINE t == Call("update", "item", key, m.item[key], refused)
<1>1. /\ t.do = "update" /\ t.repo = "item" /\ t.key = key /\ t.rec = m.item[key]
      /\ DOMAIN t = {"do", "repo", "key", "rec", "refused"}
  BY DEF Call
<1> HIDE DEF t
<1>2. Storable("item", key, m.item[key])
  BY ItemRecordFacts
<1>4. Keyed => InsideCall(m, t, r, ros)
  BY <1>1 DEF InsideCall
<1>5. TaskOf(m, t, r, ros)
  BY <1>1, <1>2, <1>4, CallTask
<1> QED BY <1>5 DEF t

\* Create and Update as one record.
LEMMA CallForms ==
    ASSUME NEW repo, NEW key, NEW rec
    PROVE  /\ Create(repo, key, rec) = <<Call("create", repo, key, rec, "NACK")>>
           /\ Update(repo, key, rec) = <<Call("update", repo, key, rec, "NACK")>>
BY DEF Create, Update, Call

\* A Delete of records of that running order.
LEMMA DeleteProper ==
    ASSUME NEW m, NEW r, NEW ros, NEW repo \in Tables, NEW keys,
           Keyed => /\ repo = "ro" => keys = {r}
                    /\ repo = "story" => \A k \in keys : Len(k) = 2 => k[1] = r
                    /\ repo = "item" => \A k \in keys \cap DOMAIN m.item : m.item[k].story[1] \in ros
    PROVE  Proper(m, Delete(repo, keys), r, ros)
<1> DEFINE t == [do |-> "delete", repo |-> repo, keys |-> keys]
<1>1. t.do = "delete" /\ t.repo = repo /\ t.keys = keys
  OBVIOUS
<1> HIDE DEF t
<1>2. "delete" \notin {"create", "update", "refuse", "NEW"} \cup ReadTasks
  BY DEF ReadTasks
<1>3. TaskOK(t)
  BY <1>1, <1>2 DEF TaskOK, ReadTasks, Calls
<1>4. Keyed => InsideCall(m, t, r, ros)
  BY <1>1 DEF InsideCall
<1>5. Keyed => Inside(m, t, r, ros)
  BY <1>1, <1>2, <1>4 DEF Inside, ReadTasks
<1>6. TaskOf(m, t, r, ros)
  BY <1>3, <1>5 DEF TaskOf
<1> QED BY <1>6, ProperOne DEF t, Delete

\* A call whose error is ignored is the same call.
LEMMA LenientTask ==
    ASSUME NEW m, NEW r, NEW ros, NEW t, TaskOf(m, t, r, ros), t.do \in {"create", "update"}
    PROVE  TaskOf(m, [t EXCEPT !.refused = "ignored"], r, ros)
<1> DEFINE u == [t EXCEPT !.refused = "ignored"]
<1>1. DOMAIN t = {"do", "repo", "key", "rec", "refused"} /\ Storable(t.repo, t.key, t.rec)
  BY DEF TaskOf, TaskOK
<1>2. /\ u.do = t.do /\ u.repo = t.repo /\ u.key = t.key /\ u.rec = t.rec
      /\ DOMAIN u = DOMAIN t
  BY <1>1
<1> HIDE DEF u
<1>3. Keyed => InsideCall(m, t, r, ros)
  BY DEF TaskOf, Inside
<1>4. Keyed => InsideCall(m, u, r, ros)
  BY <1>2, <1>3 DEF InsideCall
<1>5. TaskOf(m, u, r, ros)
  BY <1>1, <1>2, <1>4, CallTask
<1> QED BY <1>5 DEF u

\* Calls whose errors are ignored.
LEMMA LenientProper ==
    ASSUME NEW m, NEW r, NEW ros, NEW s, Proper(m, s, r, ros),
           \A n \in 1 .. Len(s) : s[n].do \in {"create", "update"}
    PROVE  Proper(m, Leniently(s), r, ros)
<1>1. IsList(s) /\ Len(s) \in Nat
  BY ListFacts DEF Proper
<1> DEFINE u == Leniently(s)
<1>2. u = [n \in 1 .. Len(s) |-> [s[n] EXCEPT !.refused = "ignored"]]
  BY DEF Leniently
<1> HIDE DEF u
<1>3. IsList(u) /\ Len(u) = Len(s)
  BY <1>1, <1>2, FunctionIsList
<1>4. ASSUME NEW n \in 1 .. Len(u) PROVE TaskOf(m, u[n], r, ros)
  BY <1>2, <1>3, LenientTask DEF Proper
<1>5. Proper(m, u, r, ros)
  BY <1>3, <1>4 DEF Proper
<1> QED BY <1>5 DEF u

Setting(m, r, ros) ==
    /\ Consistent(m)
    /\ Keyed => KeyedStore(m)
    /\ r \in ROs /\ r \in ros

\* A list of creates and updates.
Writes(m, s, r, ros) ==
    /\ Proper(m, s, r, ros)
    /\ \A n \in 1 .. Len(s) : s[n].do \in {"create", "update"}

\* Record k is one that a message about running order r may write.
Belongs(m, repo, k, r) ==
    /\ k \in DOMAIN m[repo]
    /\ repo = "story" => m.story[k].ro = r
    /\ Keyed /\ repo = "item" => Inner(m.item[k].story, r)

\* One Create or Update.
LEMMA WritesOne ==
    ASSUME NEW m, NEW r, NEW ros, NEW do \in {"create", "update"}, NEW repo, NEW key, NEW rec, NEW refused,
           TaskOf(m, Call(do, repo, key, rec, refused), r, ros)
    PROVE  Writes(m, <<Call(do, repo, key, rec, refused)>>, r, ros)
<1> DEFINE t == Call(do, repo, key, rec, refused)
<1>1. t.do = do
  BY DEF Call
<1> HIDE DEF t
<1>2. Proper(m, <<t>>, r, ros)
  BY ProperOne DEF t
<1>3. Len(<<t>>) = 1 /\ <<t>>[1] = t
  OBVIOUS
<1>4. Writes(m, <<t>>, r, ros)
  BY <1>1, <1>2, <1>3 DEF Writes
<1> QED BY <1>4 DEF t

\* Creates and Updates made for each element of a list.
LEMMA WritesFlat ==
    ASSUME NEW m, NEW r, NEW ros, NEW N \in Nat, NEW parts, parts = [n \in 1 .. N |-> parts[n]],
           \A n \in 1 .. N : Writes(m, parts[n], r, ros)
    PROVE  Writes(m, FlattenSeq(parts), r, ros)
<1>1. IsList(parts) /\ Len(parts) = N
  BY FunctionIsList
<1>2. \A n \in 1 .. Len(parts) : IsList(parts[n])
  BY <1>1 DEF Writes, Proper
<1>a. \A n \in 1 .. N : Proper(m, parts[n], r, ros)
  BY DEF Writes
<1> DEFINE F == FlattenSeq(parts)
<1>3. \A j \in 1 .. Len(F) : \E n \in 1 .. Len(parts) : \E i \in 1 .. Len(parts[n]) : F[j] = parts[n][i]
  BY <1>1, <1>2, Flattened
<1>b. Proper(m, F, r, ros)
  BY <1>a, ProperFlat
<1> HIDE DEF F
<1>4. ASSUME NEW j \in 1 .. Len(F) PROVE F[j].do \in {"create", "update"}
  BY <1>1, <1>3 DEF Writes
<1>5. Writes(m, F, r, ros)
  BY <1>b, <1>4 DEF Writes
<1> QED BY <1>5 DEF F

\* A record that was read is written back with another order and body.
LEMMA RewriteTask ==
    ASSUME NEW m, NEW r, NEW ros, Setting(m, r, ros), NEW repo \in {"story", "item"}, NEW k,
           Belongs(m, repo, k, r), NEW rec, NEW refused,
           DOMAIN rec = DOMAIN m[repo][k], rec.order \in Nat,
           repo = "story" => rec.ro = m.story[k].ro,
           repo = "item" => rec.story = m.item[k].story
    PROVE  TaskOf(m, Call("update", repo, k, rec, refused), r, ros)
<1>0. Consistent(m) /\ (Keyed => KeyedStore(m)) /\ r \in ROs /\ r \in ros
  BY DEF Setting
<1>1. CASE repo = "story"
  <2>1. k \in DOMAIN m.story /\ m.story[k].ro = r /\ DOMAIN rec = DOMAIN m.story[k]
    BY <1>1 DEF Belongs
  <2>2. StoryKeyOf(k, r) /\ DOMAIN rec = {"ro", "order", "body"} /\ rec.ro = r
    BY <1>0, <1>1, <2>1, StoryRecordFacts
  <2>3. Keyed => Len(k) = 2
    BY <1>0, <2>1 DEF KeyedStore
  <2> QED BY <1>0, <1>1, <2>2, <2>3, StoryCall
<1>2. CASE repo = "item"
  <2> DEFINE t == Call("update", repo, k, rec, refused)
  <2>1. k \in DOMAIN m.item /\ DOMAIN rec = DOMAIN m.item[k] /\ (Keyed => Inner(m.item[k].story, r))
    BY <1>2 DEF Belongs
  <2>2. /\ StoryKey(rec.story) /\ ItemKeyOf(k, rec.story)
        /\ DOMAIN rec = {"story", "order", "body"} /\ rec.story = m.item[k].story
    BY <1>0, <1>2, <2>1, ItemRecordFacts
  <2>3. Storable("item", k, rec)
    BY <2>2 DEF Storable
  <2>4. /\ t.do = "update" /\ t.repo = "item" /\ t.key = k /\ t.rec = rec
        /\ DOMAIN t = {"do", "repo", "key", "rec", "refused"}
    BY <1>2 DEF Call
  <2> HIDE DEF t
  <2>5. Keyed => Inner(rec.story, r) /\ m.item[k].story[1] \in ros
    BY <1>0, <2>1, <2>2 DEF Inner
  <2>6. Keyed => InsideCall(m, t, r, ros)
    BY <2>4, <2>5 DEF InsideCall
  <2>7. TaskOf(m, t, r, ros)
    BY <2>3, <2>4, <2>6, CallTask
  <2> QED BY <2>7 DEF t
<1> QED BY <1>1, <1>2

\* A record is written back with another order.
LEMMA ReorderOne ==
    ASSUME NEW m, NEW r, NEW ros, Setting(m, r, ros), NEW repo \in {"story", "item"}, NEW k,
           Belongs(m, repo, k, r), NEW o \in Nat
    PROVE  Writes(m, Update(repo, k, [m[repo][k] EXCEPT !.order = o]), r, ros)
<1> DEFINE rec == [m[repo][k] EXCEPT !.order = o]
<1>0. Consistent(m)
  BY DEF Setting
<1>1. k \in DOMAIN m[repo]
  BY DEF Belongs
<1>2. /\ repo = "story" => DOMAIN m[repo][k] = {"ro", "order", "body"}
      /\ repo = "item" => DOMAIN m[repo][k] = {"story", "order", "body"}
  BY <1>0, <1>1, StoryRecordFacts, ItemRecordFacts
<1>3. /\ DOMAIN rec = DOMAIN m[repo][k] /\ rec.order = o
      /\ repo = "story" => rec.ro = m[repo][k].ro
      /\ repo = "item" => rec.story = m[repo][k].story
  BY <1>2
<1> HIDE DEF rec
<1>4. /\ repo = "story" => rec.ro = m.story[k].ro
      /\ repo = "item" => rec.story = m.item[k].story
  BY <1>3
<1>5. TaskOf(m, Call("update", repo, k, rec, "NACK"), r, ros)
  BY <1>3, <1>4, RewriteTask
<1>6. Writes(m, <<Call("update", repo, k, rec, "NACK")>>, r, ros)
  BY <1>5, WritesOne
<1>7. Update(repo, k, rec) = <<Call("update", repo, k, rec, "NACK")>>
  BY CallForms
<1> QED BY <1>6, <1>7 DEF rec

\* The updates that give the records of a list these orders.
Renewed(m, repo, list, orders) ==
    FlattenSeq([n \in 1 .. Len(list) |->
        Update(repo, list[n], [m[repo][list[n]] EXCEPT !.order = orders[n]])])

\* The records of a list are written back with other orders.
LEMMA ReorderedWrites ==
    ASSUME NEW m, NEW r, NEW ros, Setting(m, r, ros), NEW repo \in {"story", "item"},
           NEW list, IsList(list), \A n \in 1 .. Len(list) : Belongs(m, repo, list[n], r),
           NEW orders, \A n \in 1 .. Len(list) : orders[n] \in Nat
    PROVE  Writes(m, Renewed(m, repo, list, orders), r, ros)
<1> DEFINE parts == [n \in 1 .. Len(list) |-> Update(repo, list[n], [m[repo][list[n]] EXCEPT !.order = orders[n]])]
<1>1. Len(list) \in Nat
  BY ListFacts
<1>2. ASSUME NEW n \in 1 .. Len(list) PROVE Writes(m, parts[n], r, ros)
  BY ReorderOne
<1>3. parts = [n \in 1 .. Len(list) |-> parts[n]]
  OBVIOUS
<1> HIDE DEF parts
<1>4. Writes(m, FlattenSeq(parts), r, ros)
  BY <1>1, <1>2, <1>3, WritesFlat
<1> QED BY <1>4 DEF parts, Renewed

-----------------------------------------------------------------------------
Records(m, repo, owner) == IF repo = "story" THEN StoriesOf(m, owner) ELSE ItemsOf(m, owner)

Owned(m, repo, owner, r) == \A k \in Records(m, repo, owner) : Belongs(m, repo, k, r)

\* The records of one owner can be sorted.
LEMMA RecordsSortable ==
    ASSUME NEW m, Consistent(m), NEW repo \in {"story", "item"}, NEW owner,
           NEW keys \in SUBSET Records(m, repo, owner)
    PROVE  Sortable(m[repo], keys)
BY StoriesSortable, ItemsSortable DEF Records

\* The list of an owner has its records.
LEMMA ListOfFacts ==
    ASSUME NEW m, Consistent(m), NEW repo \in {"story", "item"}, NEW owner
    PROVE  /\ IsList(ListOf(m, repo, owner))
           /\ ToSet(ListOf(m, repo, owner)) = Records(m, repo, owner)
           /\ \A n \in 1 .. Len(ListOf(m, repo, owner)) : ListOf(m, repo, owner)[n] \in Records(m, repo, owner)
<1>1. /\ IsList(ListOf(m, repo, owner))
      /\ ToSet(ListOf(m, repo, owner)) = Records(m, repo, owner)
  BY StoryListFacts, ItemListFacts DEF ListOf, Records
<1> QED BY <1>1, ListFacts

\* The part of that list that is among some keys.
LEMMA FilteredFacts ==
    ASSUME NEW m, Consistent(m), NEW repo \in {"story", "item"}, NEW owner, NEW keys
    PROVE  LET F == Filtered(m, repo, ListOf(m, repo, owner), keys)
           IN  /\ IsList(F) /\ ToSet(F) = Records(m, repo, owner) \cap keys
               /\ Len(F) = Cardinality(ToSet(F)) /\ IsFiniteSet(ToSet(F))
               /\ \A n \in 1 .. Len(F) : F[n] \in Records(m, repo, owner)
<1> DEFINE K == Records(m, repo, owner) \cap keys
           F == Filtered(m, repo, ListOf(m, repo, owner), keys)
<1>1. F = Sorted(m[repo], K)
  BY ListOfFacts DEF Filtered
<1>2. K \in SUBSET Records(m, repo, owner)
  OBVIOUS
<1> HIDE DEF K, F
<1>3. Sortable(m[repo], K)
  BY <1>2, RecordsSortable
<1>4. IsFiniteSet(K)
  BY <1>3 DEF Sortable
<1>5. IsList(F) /\ ToSet(F) = K /\ Len(F) = Cardinality(K)
  BY <1>1, <1>3, SortedFacts
<1>6. \A n \in 1 .. Len(F) : F[n] \in Records(m, repo, owner)
  BY <1>2, <1>5, ListFacts
<1> QED BY <1>4, <1>5, <1>6 DEF K, F

\* Making room in a list writes records of its owner only.
LEMMA ShiftedProper ==
    ASSUME NEW m, NEW r, NEW ros, Setting(m, r, ros), NEW repo \in {"story", "item"}, NEW owner,
           Owned(m, repo, owner, r), NEW position, NEW by \in Nat
    PROVE  Proper(m, Shifted(m, repo, ListOf(m, repo, owner), position, by), r, ros)
<1>0. Consistent(m)
  BY DEF Setting
<1> DEFINE K == {k \in DOMAIN m[repo] : m[repo][k].order > position}
           later == Filtered(m, repo, ListOf(m, repo, owner), K)
           orders == [n \in 1 .. Len(later) |-> m[repo][later[n]].order + by]
           tasks == Renewed(m, repo, later, orders)
<1>1. IsList(later) /\ \A n \in 1 .. Len(later) : later[n] \in Records(m, repo, owner)
  <2> HIDE DEF K
  <2> QED BY <1>0, FilteredFacts
<1>2. Shifted(m, repo, ListOf(m, repo, owner), position, by) =
        FlattenSeq([n \in 1 .. Len(later) |->
                        Update(repo, later[n], [m[repo][later[n]] EXCEPT !.order = m[repo][later[n]].order + by])])
  BY DEF Shifted, Reordered, Each
<1> HIDE DEF later, K
<1>3. \A n \in 1 .. Len(later) : Belongs(m, repo, later[n], r)
  BY <1>1 DEF Owned
<1>4. ASSUME NEW n \in 1 .. Len(later) PROVE orders[n] \in Nat
  <2>1. later[n] \in DOMAIN m[repo]
    BY <1>3 DEF Belongs
  <2>2. m[repo][later[n]].order \in Nat
    BY <1>0, <2>1, StoryRecordFacts, ItemRecordFacts
  <2> QED BY <2>2
<1>5. [n \in 1 .. Len(later) |->
                        Update(repo, later[n], [m[repo][later[n]] EXCEPT !.order = m[repo][later[n]].order + by])]
      = [n \in 1 .. Len(later) |-> Update(repo, later[n], [m[repo][later[n]] EXCEPT !.order = orders[n]])]
  OBVIOUS
<1>6. Shifted(m, repo, ListOf(m, repo, owner), position, by) = tasks
  BY <1>2, <1>5 DEF Renewed
<1>7. Writes(m, tasks, r, ros)
  <2> HIDE DEF orders
  <2> QED BY <1>1, <1>3, <1>4, ReorderedWrites
<1> HIDE DEF tasks
<1> QED BY <1>6, <1>7 DEF Writes

\* Renumbering a list writes records of its owner only.
LEMMA RenumberProper ==
    ASSUME NEW m, NEW r, NEW ros, Setting(m, r, ros), NEW t, t.repo \in {"story", "item"},
           Owned(m, t.repo, t.owner, r)
    PROVE  Proper(m, Renumber(m, t), r, ros)
<1>0. Consistent(m)
  BY DEF Setting
<1> DEFINE list == ListOf(m, t.repo, t.owner)
           orders == [n \in 1 .. Len(list) |-> n]
           tasks == Renewed(m, t.repo, list, orders)
<1>1. IsList(list) /\ \A n \in 1 .. Len(list) : list[n] \in Records(m, t.repo, t.owner)
  BY <1>0, ListOfFacts
<1>2. Renumber(m, t) = Leniently(FlattenSeq([n \in 1 .. Len(list) |->
                        Update(t.repo, list[n], [m[t.repo][list[n]] EXCEPT !.order = n])]))
  BY DEF Renumber, Reordered, Each
<1> HIDE DEF list
<1>3. \A n \in 1 .. Len(list) : Belongs(m, t.repo, list[n], r)
  BY <1>1 DEF Owned
<1>4. \A n \in 1 .. Len(list) : orders[n] \in Nat
  OBVIOUS
<1>5. [n \in 1 .. Len(list) |-> Update(t.repo, list[n], [m[t.repo][list[n]] EXCEPT !.order = n])]
      = [n \in 1 .. Len(list) |-> Update(t.repo, list[n], [m[t.repo][list[n]] EXCEPT !.order = orders[n]])]
  OBVIOUS
<1>6. Renumber(m, t) = Leniently(tasks)
  BY <1>2, <1>5 DEF Renewed
<1>7. Writes(m, tasks, r, ros)
  <2> HIDE DEF orders
  <2> QED BY <1>1, <1>3, <1>4, ReorderedWrites
<1> HIDE DEF tasks
<1> QED BY <1>6, <1>7, LenientProper DEF Writes

\* A part of a list is a list of its elements.
LEMMA SubSeqIsList ==
    ASSUME NEW s, IsList(s), NEW a \in 1 .. Len(s) + 1, NEW b \in a - 1 .. Len(s)
    PROVE  /\ IsList(SubSeq(s, a, b))
           /\ \A n \in 1 .. Len(SubSeq(s, a, b)) : SubSeq(s, a, b)[n] \in ToSet(s)
<1>1. s \in Seq(ToSet(s)) /\ Len(s) \in Nat
  BY ListFacts DEF IsList
<1>2. SubSeq(s, a, b) \in Seq(ToSet(s))
  BY <1>1, SubSeqProperties
<1> QED BY <1>2, SequenceIsList

\* Moving records within a list writes records of its owner only.
LEMMA MovedProper ==
    ASSUME NEW m, NEW r, NEW ros, Setting(m, r, ros), NEW repo \in {"story", "item"}, NEW owner,
           Owned(m, repo, owner, r), NEW keys,
           NEW n \in 1 .. Len(Staying(m, repo, ListOf(m, repo, owner), keys)) + 1
    PROVE  Proper(m, MovedBefore(m, repo, ListOf(m, repo, owner), keys, n), r, ros)
<1>0. Consistent(m)
  BY DEF Setting
<1> DEFINE list == ListOf(m, repo, owner)
           rest == Staying(m, repo, list, keys)
           moved == Filtered(m, repo, list, keys)
           new == SubSeq(rest, 1, n - 1) \o moved \o SubSeq(rest, n, Len(rest))
           S == Records(m, repo, owner)
           orders == [i \in 1 .. Len(new) |-> i]
           tasks == Renewed(m, repo, new, orders)
<1>1. IsList(rest) /\ \A i \in 1 .. Len(rest) : rest[i] \in S
  BY <1>0, FilteredFacts DEF Staying
<1>2. IsList(moved) /\ \A i \in 1 .. Len(moved) : moved[i] \in S
  BY <1>0, FilteredFacts
<1>3. MovedBefore(m, repo, list, keys, n) = FlattenSeq([i \in 1 .. Len(new) |->
                        Update(repo, new[i], [m[repo][new[i]] EXCEPT !.order = i])])
  BY DEF MovedBefore, Reordered, Each
<1>4. n \in 1 .. Len(rest) + 1
  OBVIOUS
<1> HIDE DEF rest, moved, list, S
<1>5. Len(rest) \in Nat /\ ToSet(rest) \subseteq S
  <2>1. Len(rest) \in Nat /\ DOMAIN rest = 1 .. Len(rest)
    BY <1>1, ListFacts
  <2> QED BY <1>1, <2>1 DEF ToSet
<1>6. /\ IsList(SubSeq(rest, 1, n - 1))
      /\ \A i \in 1 .. Len(SubSeq(rest, 1, n - 1)) : SubSeq(rest, 1, n - 1)[i] \in S
  <2>1. 1 \in 1 .. Len(rest) + 1 /\ n - 1 \in 1 - 1 .. Len(rest)
    BY <1>4, <1>5
  <2> QED BY <1>1, <1>5, <2>1, SubSeqIsList
<1>7. /\ IsList(SubSeq(rest, n, Len(rest)))
      /\ \A i \in 1 .. Len(SubSeq(rest, n, Len(rest))) : SubSeq(rest, n, Len(rest))[i] \in S
  <2>1. Len(rest) \in n - 1 .. Len(rest)
    BY <1>4, <1>5
  <2> QED BY <1>1, <1>4, <1>5, <2>1, SubSeqIsList
<1>8. IsList(new) /\ \A i \in 1 .. Len(new) : new[i] \in S
  <2> DEFINE a == SubSeq(rest, 1, n - 1)
             b == SubSeq(rest, n, Len(rest))
  <2>1. IsList(a) /\ \A i \in 1 .. Len(a) : a[i] \in S
    BY <1>6
  <2>2. IsList(b) /\ \A i \in 1 .. Len(b) : b[i] \in S
    BY <1>7
  <2> HIDE DEF a, b
  <2>3. IsList(a \o moved) /\ \A i \in 1 .. Len(a \o moved) : (a \o moved)[i] \in S
    BY <2>1, <1>2, ConcatIsList
  <2> DEFINE c == a \o moved
  <2>4. IsList(c) /\ \A i \in 1 .. Len(c) : c[i] \in S
    BY <2>3
  <2> HIDE DEF c
  <2>5. IsList(c \o b) /\ \A i \in 1 .. Len(c \o b) : (c \o b)[i] \in S
    BY <2>2, <2>4, ConcatIsList
  <2> QED BY <2>5 DEF a, b, c
<1> HIDE DEF new
<1>9. \A i \in 1 .. Len(new) : Belongs(m, repo, new[i], r)
  BY <1>8 DEF Owned, S
<1>10. \A i \in 1 .. Len(new) : orders[i] \in Nat
  OBVIOUS
<1>11. MovedBefore(m, repo, list, keys, n) = tasks
  BY <1>3 DEF Renewed
<1>12. Writes(m, tasks, r, ros)
  <2> HIDE DEF orders
  <2> QED BY <1>8, <1>9, <1>10, ReorderedWrites
<1> HIDE DEF tasks
<1>13. Proper(m, MovedBefore(m, repo, list, keys, n), r, ros)
  BY <1>11, <1>12 DEF Writes
<1> QED BY <1>13 DEF list

\* The fields of a story and of an item made from a message.
LEMMA RecordForms ==
    ASSUME NEW a, NEW x, NEW n
    PROVE  /\ DOMAIN StoryRecord(a, x, n) = {"ro", "order", "body"}
           /\ StoryRecord(a, x, n).ro = a /\ StoryRecord(a, x, n).order = n
           /\ DOMAIN ItemRecord(a, x, n) = {"story", "order", "body"}
           /\ ItemRecord(a, x, n).story = a /\ ItemRecord(a, x, n).order = n
BY DEF StoryRecord, ItemRecord

\* Names of tasks are told apart.
LEMMA TaskNames == ReadTasks \cap (Calls \cup {"refuse", "NEW"}) = {}
BY DEF ReadTasks, Calls

\* Get, then Create or Update, of a story or item of the running order.
LEMMA PutTask ==
    ASSUME NEW m, NEW r, NEW ros, NEW repo \in {"story", "item"}, NEW key, NEW rec, Storable(repo, key, rec),
           Keyed => IF repo = "story" THEN Inner(key, r) ELSE Inner(rec.story, r) /\ Len(key) = 3
    PROVE  Proper(m, <<[do |-> "put", repo |-> repo, key |-> key, rec |-> rec]>>, r, ros)
<1> DEFINE t == [do |-> "put", repo |-> repo, key |-> key, rec |-> rec]
<1>1. t.do = "put" /\ t.repo = repo /\ t.key = key /\ t.rec = rec
  OBVIOUS
<1> HIDE DEF t
<1>2. "put" \in ReadTasks /\ "put" \notin Calls \cup {"refuse", "NEW"}
  BY TaskNames DEF ReadTasks
<1>3. TaskOK(t)
  BY <1>1, <1>2 DEF TaskOK, Calls
<1>4. Keyed => Inside(m, t, r, ros)
  BY <1>1, <1>2 DEF Inside, InsideCall, Calls
<1>5. TaskOf(m, t, r, ros)
  BY <1>3, <1>4 DEF TaskOf
<1> QED BY <1>5, ProperOne DEF t

\* The tasks on a whole running order.
LEMMA OrderTasks ==
    ASSUME NEW m, NEW r \in ROs, NEW ros, NEW meta
    PROVE  /\ Proper(m, <<[do |-> "putRunningOrder", ro |-> r, meta |-> meta]>>, r, ros)
           /\ Proper(m, <<[do |-> "clear", ro |-> r]>>, r, ros)
<1>1. ASSUME NEW t, t.do \in {"putRunningOrder", "clear"}, t.ro = r PROVE Proper(m, <<t>>, r, ros)
  <2>2. t.do \in ReadTasks /\ t.do \notin Calls \cup {"refuse", "NEW"}
    BY <1>1, TaskNames DEF ReadTasks
  <2>3. TaskOK(t)
    BY <1>1, <2>2 DEF TaskOK, Calls
  <2>4. Keyed => Inside(m, t, r, ros)
    BY <1>1, <2>2 DEF Inside, InsideCall, Calls
  <2>5. TaskOf(m, t, r, ros)
    BY <2>3, <2>4 DEF TaskOf
  <2> QED BY <2>5, ProperOne
<1> DEFINE a == [do |-> "putRunningOrder", ro |-> r, meta |-> meta]
           b == [do |-> "clear", ro |-> r]
<1>2. a.do = "putRunningOrder" /\ a.ro = r /\ b.do = "clear" /\ b.ro = r
  OBVIOUS
<1> HIDE DEF a, b
<1>3. Proper(m, <<a>>, r, ros) /\ Proper(m, <<b>>, r, ros)
  BY <1>1, <1>2
<1> QED BY <1>3 DEF a, b

\* The removal of a story with its items.
LEMMA DropTask ==
    ASSUME NEW m, NEW r, NEW ros, NEW key, Keyed => Inner(key, r)
    PROVE  Proper(m, <<[do |-> "dropStory", key |-> key]>>, r, ros)
<1> DEFINE t == [do |-> "dropStory", key |-> key]
<1>1. t.do = "dropStory" /\ t.key = key
  OBVIOUS
<1> HIDE DEF t
<1>2. "dropStory" \in ReadTasks /\ "dropStory" \notin Calls \cup {"refuse", "NEW"}
  BY TaskNames DEF ReadTasks
<1>3. TaskOK(t)
  BY <1>1, <1>2 DEF TaskOK, Calls
<1>4. Keyed => Inside(m, t, r, ros)
  BY <1>1, <1>2 DEF Inside, InsideCall, Calls
<1>5. TaskOf(m, t, r, ros)
  BY <1>3, <1>4 DEF TaskOf
<1> QED BY <1>5, ProperOne DEF t

\* A move of the on-air pointer to or from a story of the running order.
LEMMA OnAirTask ==
    ASSUME NEW m, NEW r \in ROs, NEW ros, NEW key, StoryKeyOf(key, r), Keyed => Len(key) = 2, NEW status
    PROVE  Proper(m, <<[do |-> "onAir", ro |-> r, key |-> key, status |-> status]>>, r, ros)
<1> DEFINE t == [do |-> "onAir", ro |-> r, key |-> key, status |-> status]
<1>1. t.do = "onAir" /\ t.key = key /\ t.ro = r
  OBVIOUS
<1> HIDE DEF t
<1>2. "onAir" \in ReadTasks /\ "onAir" \notin Calls \cup {"refuse", "NEW"}
  BY TaskNames DEF ReadTasks
<1>3. TaskOK(t)
  BY <1>1, <1>2 DEF TaskOK, Calls
<1>4. Keyed => Inner(key, r)
  BY StoryKeyFacts DEF Inner
<1>5. Keyed => Inside(m, t, r, ros)
  BY <1>1, <1>2, <1>4 DEF Inside, InsideCall, Calls
<1>6. TaskOf(m, t, r, ros)
  BY <1>3, <1>5 DEF TaskOf
<1> QED BY <1>6, ProperOne DEF t

\* The shift that follows a replacement by several.
LEMMA MakeRoomProper ==
    ASSUME NEW m, NEW r, NEW ros, NEW repo \in {"story", "item"}, NEW owner, NEW position \in Nat,
           NEW by \in Int, repo = "story" => owner \in ROs,
           Keyed => IF repo = "story" THEN owner = r ELSE Inner(owner, r)
    PROVE  Proper(m, MakeRoom(repo, owner, position, by), r, ros)
<1>a. CASE by <= 0
  BY <1>a, ProperEmpty DEF MakeRoom
<1>b. CASE ~(by <= 0)
  <2> DEFINE t == [do |-> "shift", repo |-> repo, owner |-> owner, position |-> position, by |-> by]
  <2>1. t.do = "shift" /\ t.repo = repo /\ t.owner = owner /\ t.position = position /\ t.by = by
    OBVIOUS
  <2> HIDE DEF t
  <2>2. "shift" \in ReadTasks /\ "shift" \notin Calls \cup {"refuse", "NEW"}
    BY TaskNames DEF ReadTasks
  <2>3. TaskOK(t)
    BY <1>b, <2>1, <2>2 DEF TaskOK, Calls
  <2>4. Keyed => Inside(m, t, r, ros)
    BY <2>1, <2>2 DEF Inside, InsideCall, Calls
  <2>5. TaskOf(m, t, r, ros)
    BY <2>3, <2>4 DEF TaskOf
  <2>6. MakeRoom(repo, owner, position, by) = <<t>>
    BY <1>b DEF MakeRoom, t
  <2> QED BY <2>5, <2>6, ProperOne
<1> QED BY <1>a, <1>b

\* The renumbering that follows a deletion.
LEMMA RenumberTask ==
    ASSUME NEW m, NEW r, NEW ros, NEW repo \in {"story", "item"}, NEW owner,
           repo = "story" => owner \in ROs,
           Keyed => IF repo = "story" THEN owner = r ELSE Inner(owner, r)
    PROVE  Proper(m, <<[do |-> "renumber", repo |-> repo, owner |-> owner]>>, r, ros)
<1> DEFINE t == [do |-> "renumber", repo |-> repo, owner |-> owner]
<1>1. t.do = "renumber" /\ t.repo = repo /\ t.owner = owner
  OBVIOUS
<1> HIDE DEF t
<1>2. "renumber" \in ReadTasks /\ "renumber" \notin Calls \cup {"refuse", "NEW"}
  BY TaskNames DEF ReadTasks
<1>3. TaskOK(t)
  BY <1>1, <1>2 DEF TaskOK, Calls
<1>4. Keyed => Inside(m, t, r, ros)
  BY <1>1, <1>2 DEF Inside, InsideCall, Calls
<1>5. TaskOf(m, t, r, ros)
  BY <1>3, <1>4 DEF TaskOf
<1> QED BY <1>5, ProperOne DEF t

\* The second half of replaceStory.
LEMMA NewTask ==
    ASSUME NEW m, NEW ros, NEW op \in Messages, op.kind \in {"NEW", "REPLACE"}
    PROVE  Proper(m, <<[do |-> "NEW", op |-> op]>>, op.ro, ros)
<1> DEFINE t == [do |-> "NEW", op |-> op]
<1>1. t.do = "NEW" /\ t.op = op
  OBVIOUS
<1> HIDE DEF t
<1>2. "NEW" \notin Calls \cup {"refuse"} \cup ReadTasks
  BY DEF Calls, ReadTasks
<1>3. TaskOK(t)
  BY <1>1, <1>2 DEF TaskOK, Calls, ReadTasks
<1>4. Keyed => Inside(m, t, op.ro, ros)
  BY <1>1, <1>2 DEF Inside, InsideCall, Calls, ReadTasks
<1>5. TaskOf(m, t, op.ro, ros)
  BY <1>3, <1>4 DEF TaskOf
<1> QED BY <1>5, ProperOne DEF t

-----------------------------------------------------------------------------

\* An item of a message may be stored under its composite key or its wire
\* identifier.
LEMMA StorableItem ==
    ASSUME NEW story, StoryKey(story), NEW i \in Nat, NEW x, NEW n \in Nat
    PROVE  /\ Storable("item", itemPersistenceID(story, i), ItemRecord(story, x, n))
           /\ Storable("item", <<i>>, ItemRecord(story, x, n))
           /\ ItemRecord(story, x, n).story = story
           /\ Len(story) = 2 => Len(itemPersistenceID(story, i)) = 3
<1> DEFINE rec == ItemRecord(story, x, n)
           key == itemPersistenceID(story, i)
<1>1. ItemKeyOf(key, story) /\ ItemKeyOf(<<i>>, story) /\ Len(key) = Len(story) + 1
  BY MakeItemKey DEF itemPersistenceID
<1>2. DOMAIN rec = {"story", "order", "body"} /\ rec.story = story /\ rec.order = n
  BY RecordForms
<1> HIDE DEF rec, key
<1>3. Storable("item", key, rec) /\ Storable("item", <<i>>, rec)
  BY <1>1, <1>2 DEF Storable
<1>4. \A a, b : a = b + 1 /\ b = 2 => a = 3
  OBVIOUS
<1>5. Len(story) = 2 => Len(key) = 3
  BY <1>1, <1>4, Zenon
<1> QED BY <1>2, <1>3, <1>5 DEF rec, key

\* storeItems stays within the story.
LEMMA StoreItemsProper ==
    ASSUME NEW m, NEW r, NEW ros, NEW story, StoryKey(story), Keyed => Inner(story, r),
           NEW items, Elements(items)
    PROVE  Proper(m, storeItems(story, items), r, ros)
<1> DEFINE parts == [n \in 1 .. Len(items) |->
        <<[do |-> "put", repo |-> "item", key |-> itemPersistenceID(story, items[n].id),
           rec |-> ItemRecord(story, items[n], n)]>>]
<1>1. storeItems(story, items) = FlattenSeq(parts)
  BY DEF storeItems, Each
<1>2. Len(items) \in Nat
  BY ListFacts DEF Elements
<1>3. ASSUME NEW n \in 1 .. Len(items) PROVE Proper(m, parts[n], r, ros)
  <2> DEFINE key == itemPersistenceID(story, items[n].id)
             rec == ItemRecord(story, items[n], n)
  <2>1. items[n].id \in Nat /\ n \in Nat
    BY <1>2 DEF Elements
  <2>2. Storable("item", key, rec) /\ rec.story = story /\ (Len(story) = 2 => Len(key) = 3)
    BY <2>1, StorableItem
  <2> HIDE DEF key, rec
  <2>3. Keyed => Inner(rec.story, r) /\ Len(key) = 3
    BY <2>2 DEF Inner
  <2>4. Proper(m, <<[do |-> "put", repo |-> "item", key |-> key, rec |-> rec]>>, r, ros)
    BY <2>2, <2>3, PutTask
  <2> QED BY <2>4 DEF key, rec
<1>4. parts = [n \in 1 .. Len(items) |-> parts[n]]
  OBVIOUS
<1> HIDE DEF parts
<1> QED BY <1>1, <1>2, <1>3, <1>4, ProperFlat

\* The composite key of a story belongs to its running order.
LEMMA StoryKeyHere ==
    ASSUME NEW r \in ROs, NEW s \in Nat
    PROVE  StoryKey(<<r, s>>) /\ StoryKeyOf(<<r, s>>, r) /\ Inner(<<r, s>>, r)
BY MakeStoryKey DEF StoryKey, Inner

\* A story of a list is put under its composite key.
LEMMA PutStoryProper ==
    ASSUME NEW m, NEW r \in ROs, NEW ros, NEW s \in Nat, NEW x, NEW n \in Nat
    PROVE  Proper(m, <<[do |-> "put", repo |-> "story", key |-> <<r, s>>,
                        rec |-> StoryRecord(r, x, n)]>>, r, ros)
<1> DEFINE rec == StoryRecord(r, x, n)
           key == <<r, s>>
<1>1. StoryKeyOf(key, r) /\ Inner(key, r)
  BY StoryKeyHere
<1>2. DOMAIN rec = {"ro", "order", "body"} /\ rec.ro = r /\ rec.order = n
  BY RecordForms
<1> HIDE DEF rec, key
<1>3. Storable("story", key, rec)
  BY <1>1, <1>2 DEF Storable
<1>4. Proper(m, <<[do |-> "put", repo |-> "story", key |-> key, rec |-> rec]>>, r, ros)
  BY <1>1, <1>3, PutTask
<1> QED BY <1>4 DEF rec, key

\* A story is created or updated under a key of its running order.
LEMMA CreateStoryProper ==
    ASSUME NEW m, NEW r \in ROs, NEW ros, NEW key, StoryKeyOf(key, r), Keyed => Len(key) = 2,
           NEW x, NEW n \in Nat
    PROVE  /\ Proper(m, Create("story", key, StoryRecord(r, x, n)), r, ros)
           /\ Proper(m, Update("story", key, StoryRecord(r, x, n)), r, ros)
<1> DEFINE rec == StoryRecord(r, x, n)
<1>2. DOMAIN rec = {"ro", "order", "body"} /\ rec.ro = r /\ rec.order = n
  BY RecordForms
<1> HIDE DEF rec
<1>3. /\ TaskOf(m, Call("create", "story", key, rec, "NACK"), r, ros)
      /\ TaskOf(m, Call("update", "story", key, rec, "NACK"), r, ros)
  BY <1>2, StoryCall
<1>4. /\ Proper(m, Create("story", key, rec), r, ros)
      /\ Proper(m, Update("story", key, rec), r, ros)
  BY <1>3, ProperOne, CallForms
<1> QED BY <1>4 DEF rec

\* An item is created in a story of the running order.
LEMMA CreateItemWrites ==
    ASSUME NEW m, NEW r, NEW ros, NEW story, StoryKey(story), Keyed => Inner(story, r),
           NEW key, NEW rec, Storable("item", key, rec), rec.story = story
    PROVE  Writes(m, Create("item", key, rec), r, ros)
<1> DEFINE t == Call("create", "item", key, rec, "NACK")
<1>1. /\ t.do = "create" /\ t.repo = "item" /\ t.key = key /\ t.rec = rec
      /\ DOMAIN t = {"do", "repo", "key", "rec", "refused"}
  BY DEF Call
<1> HIDE DEF t
<1>2. Keyed => InsideCall(m, t, r, ros)
  BY <1>1 DEF InsideCall
<1>3. TaskOf(m, t, r, ros)
  BY <1>1, <1>2, CallTask
<1>4. Writes(m, <<t>>, r, ros)
  BY <1>3, WritesOne DEF t
<1> QED BY <1>4, CallForms DEF t

\* The items of an inserted story stay within it.
LEMMA InsertedItemsProper ==
    ASSUME NEW m, NEW r, NEW ros, NEW story, StoryKey(story), Keyed => Inner(story, r),
           NEW items, Elements(items)
    PROVE  Proper(m, insertedItems(story, items), r, ros)
<1> DEFINE parts == [n \in 1 .. Len(items) |->
        Create("item", itemPersistenceID(story, items[n].id), ItemRecord(story, items[n], n))]
<1>1. insertedItems(story, items) = Leniently(FlattenSeq(parts))
  BY DEF insertedItems, Each
<1>2. Len(items) \in Nat
  BY ListFacts DEF Elements
<1>3. ASSUME NEW n \in 1 .. Len(items) PROVE Writes(m, parts[n], r, ros)
  <2> DEFINE key == itemPersistenceID(story, items[n].id)
             rec == ItemRecord(story, items[n], n)
  <2>1. items[n].id \in Nat /\ n \in Nat
    BY <1>2 DEF Elements
  <2>2. Storable("item", key, rec) /\ rec.story = story
    BY <2>1, StorableItem
  <2> HIDE DEF key, rec
  <2>4. Writes(m, Create("item", key, rec), r, ros)
    BY <2>2, CreateItemWrites
  <2> QED BY <2>4 DEF key, rec
<1>4. parts = [n \in 1 .. Len(items) |-> parts[n]]
  OBVIOUS
<1> HIDE DEF parts
<1>5. Writes(m, FlattenSeq(parts), r, ros)
  BY <1>2, <1>3, <1>4, WritesFlat
<1> QED BY <1>1, <1>5, LenientProper DEF Writes

\* Items inserted under their wire identifiers stay within the story.
LEMMA BareItemsProper ==
    ASSUME NEW m, NEW r, NEW ros, NEW story, StoryKey(story), Keyed => Inner(story, r),
           NEW items, Elements(items), NEW position \in Int,
           \A n \in 1 .. Len(items) : position + n \in Nat
    PROVE  Proper(m, bareItems(story, items, position), r, ros)
<1> DEFINE parts == [n \in 1 .. Len(items) |->
        Create("item", <<items[n].id>>, ItemRecord(story, items[n], position + n))]
<1>1. bareItems(story, items, position) = FlattenSeq(parts)
  BY DEF bareItems, Each
<1>2. Len(items) \in Nat
  BY ListFacts DEF Elements
<1>3. ASSUME NEW n \in 1 .. Len(items) PROVE Writes(m, parts[n], r, ros)
  <2> DEFINE key == <<items[n].id>>
             rec == ItemRecord(story, items[n], position + n)
  <2>1. items[n].id \in Nat /\ n \in Nat
    BY <1>2 DEF Elements
  <2>2. Storable("item", key, rec) /\ rec.story = story
    BY <2>1, StorableItem
  <2> HIDE DEF key, rec
  <2>4. Writes(m, Create("item", key, rec), r, ros)
    BY <2>2, CreateItemWrites
  <2> QED BY <2>4 DEF key, rec
<1>4. parts = [n \in 1 .. Len(items) |-> parts[n]]
  OBVIOUS
<1> HIDE DEF parts
<1>5. Writes(m, FlattenSeq(parts), r, ros)
  BY <1>2, <1>3, <1>4, WritesFlat
<1> QED BY <1>1, <1>5 DEF Writes

-----------------------------------------------------------------------------
(* The messages, from their first read on.                                 *)

\* Two tasks.
LEMMA ProperTwo ==
    ASSUME NEW m, NEW r, NEW ros, NEW a, NEW b, Proper(m, <<a>>, r, ros), Proper(m, <<b>>, r, ros)
    PROVE  Proper(m, <<a, b>>, r, ros)
<1>1. TaskOf(m, a, r, ros) /\ TaskOf(m, b, r, ros)
  <2>1. \A x : <<x>> # << >> /\ <<x>>[1] = x
    OBVIOUS
  <2> QED BY <2>1, ProperTail
<1>2. IsList(<<a, b>>) /\ Len(<<a, b>>) = 2 /\ <<a, b>>[1] = a /\ <<a, b>>[2] = b
  BY DEF IsList, ToSet
<1> QED BY <1>1, <1>2 DEF Proper

\* The fields a message has, by its kind.
LEMMA MessageFacts ==
    ASSUME NEW op \in Messages
    PROVE  /\ op.kind \in Kinds
           /\ op.ro \in ROs
           /\ op.kind \in Whole \ {"roDelete"} => Rosters(op.list)
           /\ op.kind \in {"PLAY", "STOP", "ITEM status", "mosItemReplace"} \cup ItemEdits => op.story \in Nat
           /\ op.kind \in {"ITEM status", "roCtrl", "roItemCue"} => op.item \in Nat
           /\ op.kind \in Sends => op.send.id \in Nat /\ Elements(op.send.items)
           /\ op.kind = "mosItemReplace" => Elements(op.list) /\ op.list # << >>
           /\ op.kind \in {"INSERT stories", "REPLACE stories"} => Rosters(op.list)
           /\ op.kind \in {"INSERT items", "REPLACE items"} => Elements(op.list)
           /\ op.kind \in {"INSERT stories", "REPLACE stories", "MOVE stories", "INSERT items",
                           "REPLACE items", "MOVE items"} => op.target \in Nat
           /\ op.kind \in {"MOVE stories", "DELETE stories", "SWAP stories", "MOVE items",
                           "DELETE items", "SWAP items"} => IDList(op.ids)
           /\ op.kind \in {"SWAP stories", "SWAP items"} => Len(op.ids) = 2
<1>1. WellFormed(op)
  BY ServiceAssumption
<1> QED BY <1>1 DEF WellFormed

\* A list of stories with their items.
LEMMA RosterFacts ==
    ASSUME NEW list, Rosters(list)
    PROVE  /\ IsList(list) /\ Len(list) \in Nat
           /\ \A n \in 1 .. Len(list) : n \in Nat /\ list[n].id \in Nat /\ Elements(list[n].items)
<1>1. IsList(list)
  BY DEF Rosters, Elements
<1>2. Len(list) \in Nat
  BY <1>1, ListFacts
<1> QED BY <1>1, <1>2 DEF Rosters, Elements

\* roCreate and roList stay within the running order they name.
LEMMA InfoProper ==
    ASSUME NEW m, NEW op, NEW r \in ROs, NEW ros, op.ro = r, Rosters(op.list)
    PROVE  Proper(m, ProcessRunningOrderInfo(op), r, ros)
<1> DEFINE head == <<[do |-> "putRunningOrder", ro |-> op.ro, meta |-> op.meta]>>
           Put1(n) == <<[do |-> "put", repo |-> "story", key |-> storyPersistenceID(op.ro, op.list[n].id),
                        rec |-> StoryRecord(op.ro, op.list[n], n)]>>
           parts == [n \in 1 .. Len(op.list) |->
                        Put1(n) \o storeItems(storyPersistenceID(op.ro, op.list[n].id), op.list[n].items)]
<1>1. ProcessRunningOrderInfo(op) = head \o FlattenSeq(parts)
  BY DEF ProcessRunningOrderInfo, Each
<1>2. Proper(m, head, r, ros)
  BY OrderTasks
<1>3. Len(op.list) \in Nat
  BY RosterFacts
<1>4. ASSUME NEW n \in 1 .. Len(op.list) PROVE Proper(m, parts[n], r, ros)
  <2> DEFINE key == <<r, op.list[n].id>>
  <2>1. op.list[n].id \in Nat /\ n \in Nat /\ Elements(op.list[n].items)
    BY RosterFacts
  <2>2. StoryKey(key) /\ Inner(key, r)
    BY <2>1, StoryKeyHere
  <2>3. parts[n] = Put1(n) \o storeItems(key, op.list[n].items)
    BY DEF storyPersistenceID
  <2>4. Proper(m, Put1(n), r, ros)
    BY <2>1, PutStoryProper DEF storyPersistenceID
  <2> HIDE DEF key, parts, Put1
  <2>5. Proper(m, storeItems(key, op.list[n].items), r, ros)
    BY <2>1, <2>2, StoreItemsProper
  <2> QED BY <2>3, <2>4, <2>5, ProperConcat
<1>5. parts = [n \in 1 .. Len(op.list) |-> parts[n]]
  OBVIOUS
<1> HIDE DEF head, parts
<1>6. Proper(m, FlattenSeq(parts), r, ros)
  BY <1>3, <1>4, <1>5, ProperFlat
<1> QED BY <1>1, <1>2, <1>6, ProperConcat

\* roReplace stays within the running order it names.
LEMMA ReplaceProper ==
    ASSUME NEW m, NEW op, NEW r \in ROs, NEW ros, op.ro = r, Rosters(op.list)
    PROVE  Proper(m, ReplaceRunningOrder(op), r, ros)
<1> DEFINE a == [do |-> "clear", ro |-> op.ro]
           b == [do |-> "putRunningOrder", ro |-> op.ro, meta |-> op.meta]
           Make(n) == Create("story", storyPersistenceID(op.ro, op.list[n].id), StoryRecord(op.ro, op.list[n], n))
           parts == [n \in 1 .. Len(op.list) |->
                        Make(n) \o storeItems(storyPersistenceID(op.ro, op.list[n].id), op.list[n].items)]
<1>1. ReplaceRunningOrder(op) = <<a, b>> \o FlattenSeq(parts)
  BY DEF ReplaceRunningOrder, Each
<1>2. Proper(m, <<a>>, r, ros) /\ Proper(m, <<b>>, r, ros)
  BY OrderTasks
<1>b. Proper(m, <<a, b>>, r, ros)
  <2> HIDE DEF a, b
  <2> QED BY <1>2, ProperTwo
<1>3. Len(op.list) \in Nat
  BY RosterFacts
<1>4. ASSUME NEW n \in 1 .. Len(op.list) PROVE Proper(m, parts[n], r, ros)
  <2> DEFINE key == <<r, op.list[n].id>>
  <2>1. op.list[n].id \in Nat /\ n \in Nat /\ Elements(op.list[n].items)
    BY RosterFacts
  <2>2. StoryKey(key) /\ Inner(key, r) /\ StoryKeyOf(key, r) /\ Len(key) = 2
    BY <2>1, StoryKeyHere DEF Inner
  <2>3. parts[n] = Make(n) \o storeItems(key, op.list[n].items)
    BY DEF storyPersistenceID
  <2>6. Make(n) = Create("story", key, StoryRecord(r, op.list[n], n))
    BY DEF storyPersistenceID
  <2> HIDE DEF key, parts, Make
  <2>4. Proper(m, Make(n), r, ros)
    BY <2>1, <2>2, <2>6, CreateStoryProper
  <2>5. Proper(m, storeItems(key, op.list[n].items), r, ros)
    BY <2>1, <2>2, StoreItemsProper
  <2> QED BY <2>3, <2>4, <2>5, ProperConcat
<1>5. parts = [n \in 1 .. Len(op.list) |-> parts[n]]
  OBVIOUS
<1> HIDE DEF a, b, parts
<1>6. Proper(m, FlattenSeq(parts), r, ros)
  BY <1>3, <1>4, <1>5, ProperFlat
<1> QED BY <1>1, <1>b, <1>6, ProperConcat

\* A message starts with tasks that are in order, or has yet to look.
LEMMA ProgramProper ==
    ASSUME NEW m, NEW op \in Messages, NEW ros
    PROVE  \/ Proper(m, Program(op), op.ro, ros)
           \/ Program(op) = Unread(op) /\ op.kind \in MessageTasks
<1> DEFINE r == op.ro
<1>0. r \in ROs /\ op.kind \in Kinds
  BY MessageFacts
<1>1. CASE op.kind \in {"roCreate", "roList"}
  <2>1. Rosters(op.list)
    BY <1>1, MessageFacts DEF Whole
  <2>2. Program(op) = ProcessRunningOrderInfo(op)
    BY <1>1 DEF Program, ApplyROList
  <2> QED BY <1>0, <2>1, <2>2, InfoProper
<1>2. CASE op.kind = "roReplace"
  <2>1. Rosters(op.list)
    BY <1>2, MessageFacts DEF Whole
  <2>2. Program(op) = ReplaceRunningOrder(op)
    BY <1>2 DEF Program
  <2> QED BY <1>0, <2>1, <2>2, ReplaceProper
<1>3. CASE op.kind = "roDelete"
  <2> DEFINE head == <<[do |-> "clear", ro |-> op.ro]>>
  <2>1. Program(op) = head \o Delete("ro", {op.ro})
    BY <1>3 DEF Program, DeleteRunningOrder
  <2>2. Proper(m, head, r, ros)
    BY <1>0, OrderTasks
  <2>3. Proper(m, Delete("ro", {op.ro}), r, ros)
    BY <1>0, DeleteProper DEF Tables
  <2> HIDE DEF head
  <2> QED BY <2>1, <2>2, <2>3, ProperConcat
<1>4. CASE op.kind = "REPLACE"
  <2> DEFINE tail == <<[do |-> "NEW", op |-> op]>>
             keys == {<<op.send.id>>}
  <2>1. Program(op) = Delete("story", keys) \o tail
    BY <1>4 DEF Program, replaceStory
  <2>3. Proper(m, tail, r, ros)
    BY <1>4, NewTask
  <2>4. \A k \in keys : Len(k) = 2 => k[1] = r
    OBVIOUS
  <2> HIDE DEF keys, tail, r
  <2>5. Proper(m, Delete("story", keys), r, ros)
    BY <2>4, DeleteProper DEF Tables
  <2>6. Proper(m, Program(op), r, ros)
    BY <2>1, <2>3, <2>5, ProperConcat
  <2> QED BY <2>6 DEF r
<1>5. CASE op.kind \notin Whole \cup {"REPLACE"}
  <2>1. Program(op) = Unread(op)
    BY <1>5 DEF Program, Whole, Unread
  <2>2. op.kind \in MessageTasks
    BY <1>0, <1>5 DEF MessageTasks
  <2> QED BY <2>1, <2>2
<1> QED BY <1>1, <1>2, <1>3, <1>4, <1>5 DEF Whole

-----------------------------------------------------------------------------
\* The running order is created or updated.
LEMMA PutRunningOrderProper ==
    ASSUME NEW m, NEW r, NEW ros, Setting(m, r, ros), NEW t, t.ro = r
    PROVE  Proper(m, PutRunningOrder(m, t), r, ros)
<1>0. Consistent(m) /\ r \in ROs
  BY DEF Setting
<1>1. ASSUME NEW do \in {"create", "update"}, NEW rec,
             DOMAIN rec = {"meta", "air", "onAir"}, rec.onAir = NoKey \/ StoryKeyOf(rec.onAir, r),
             Keyed => Len(rec.onAir) # 1
      PROVE  Proper(m, <<Call(do, "ro", r, rec, "NACK")>>, r, ros)
  BY <1>0, <1>1, ROCall, ProperOne
<1>2. CASE r \in DOMAIN m.ro
  <2> DEFINE rec == [m.ro[r] EXCEPT !.meta = t.meta]
  <2>1. DOMAIN rec = {"meta", "air", "onAir"} /\ rec.onAir = m.ro[r].onAir
    BY <1>0, <1>2, ROFacts
  <2>2. PutRunningOrder(m, t) = Update("ro", r, rec)
    BY <1>2 DEF PutRunningOrder
  <2> HIDE DEF rec
  <2>3. (rec.onAir = NoKey \/ StoryKeyOf(rec.onAir, r)) /\ (Keyed => Len(rec.onAir) # 1)
    BY <1>0, <1>2, <2>1, ROFacts DEF Setting, KeyedStore
  <2> QED BY <1>1, <2>1, <2>2, <2>3, CallForms
<1>3. CASE r \notin DOMAIN m.ro
  <2> DEFINE rec == [meta |-> t.meta, air |-> "none", onAir |-> NoKey]
  <2>1. DOMAIN rec = {"meta", "air", "onAir"} /\ rec.onAir = NoKey
    OBVIOUS
  <2>2. PutRunningOrder(m, t) = Create("ro", r, rec)
    BY <1>3 DEF PutRunningOrder
  <2> HIDE DEF rec
  <2>3. Len(rec.onAir) # 1
    BY <2>1 DEF NoKey
  <2> QED BY <1>1, <2>1, <2>2, <2>3, CallForms
<1> QED BY <1>2, <1>3

\* An update of one field of a running order that is held.
LEMMA FieldProper ==
    ASSUME NEW m, NEW r, NEW ros, Setting(m, r, ros), r \in DOMAIN m.ro,
           NEW rec, DOMAIN rec = DOMAIN m.ro[r],
           \/ rec.onAir = m.ro[r].onAir \/ rec.onAir = NoKey
           \/ StoryKeyOf(rec.onAir, r) /\ (Keyed => Len(rec.onAir) = 2)
    PROVE  Proper(m, Update("ro", r, rec), r, ros)
<1>0. Consistent(m) /\ r \in ROs
  BY DEF Setting
<1>1. DOMAIN rec = {"meta", "air", "onAir"} /\ (rec.onAir = NoKey \/ StoryKeyOf(rec.onAir, r))
  BY <1>0, ROFacts
<1>2. Keyed => Len(rec.onAir) # 1
  BY DEF Setting, KeyedStore, NoKey
<1>3. TaskOf(m, Call("update", "ro", r, rec, "NACK"), r, ros)
  BY <1>0, <1>1, <1>2, ROCall
<1> QED BY <1>3, ProperOne, CallForms

\* roMetadataReplace, roReadyToAir and the status of a running order.
LEMMA FieldsProper ==
    ASSUME NEW m, NEW r, NEW ros, Setting(m, r, ros), NEW op, op.ro = r
    PROVE  /\ Proper(m, ReplaceMetadata(m, op), r, ros)
           /\ Proper(m, SetReadyToAir(m, op), r, ros)
           /\ Proper(m, applyROStatus(m, op), r, ros)
<1>0. Consistent(m) /\ r \in ROs
  BY DEF Setting
<1>1. CASE r \notin DOMAIN m.ro
  BY <1>1, RefuseProper DEF ReplaceMetadata, SetReadyToAir, applyROStatus
<1>2. CASE r \in DOMAIN m.ro
  <2> DEFINE a == [m.ro[r] EXCEPT !.meta = op.meta]
             b == [m.ro[r] EXCEPT !.air = op.air]
  <2>1. DOMAIN m.ro[r] = {"meta", "air", "onAir"}
    BY <1>0, <1>2, ROFacts
  <2>2. /\ DOMAIN a = DOMAIN m.ro[r] /\ a.onAir = m.ro[r].onAir
        /\ DOMAIN b = DOMAIN m.ro[r] /\ b.onAir = m.ro[r].onAir
    BY <2>1
  <2>3. /\ ReplaceMetadata(m, op) = Update("ro", r, a)
        /\ SetReadyToAir(m, op) = Update("ro", r, b)
        /\ applyROStatus(m, op) = Update("ro", r, m.ro[r])
    BY <1>2 DEF ReplaceMetadata, SetReadyToAir, applyROStatus
  <2> HIDE DEF a, b
  <2> QED BY <1>2, <2>2, <2>3, FieldProper
<1> QED BY <1>1, <1>2

\* The move of the on-air pointer writes the running order.
LEMMA OnAirProper ==
    ASSUME NEW m, NEW r, NEW ros, Setting(m, r, ros), NEW t, t.ro = r, StoryKeyOf(t.key, r),
           Keyed => Len(t.key) = 2
    PROVE  Proper(m, MoveOnAirPointer(m, t), r, ros)
<1>0. Consistent(m) /\ r \in ROs
  BY DEF Setting
<1>1. CASE r \notin DOMAIN m.ro
  BY <1>1, RefuseProper DEF MoveOnAirPointer
<1>2. CASE r \in DOMAIN m.ro
  <2> DEFINE x == OnAirAfter(m.ro[r].onAir, t.key, t.status)
             a == [m.ro[r] EXCEPT !.onAir = x]
  <2>1. DOMAIN m.ro[r] = {"meta", "air", "onAir"}
    BY <1>0, <1>2, ROFacts
  <2>2. x = m.ro[r].onAir \/ x = NoKey \/ x = t.key
    BY DEF OnAirAfter
  <2>3. MoveOnAirPointer(m, t) = Update("ro", r, a)
    BY <1>2 DEF MoveOnAirPointer
  <2> HIDE DEF x
  <2>4. DOMAIN a = DOMAIN m.ro[r] /\ a.onAir = x
    BY <2>1
  <2> HIDE DEF a
  <2>5. \/ a.onAir = m.ro[r].onAir \/ a.onAir = NoKey
        \/ StoryKeyOf(a.onAir, r) /\ (Keyed => Len(a.onAir) = 2)
    BY <2>2, <2>4
  <2> QED BY <1>2, <2>3, <2>4, <2>5, FieldProper
<1> QED BY <1>1, <1>2

\* The story or item is created or updated.
LEMMA PutProper ==
    ASSUME NEW m, NEW r, NEW ros, Setting(m, r, ros), NEW t, t.do = "put", TaskOf(m, t, r, ros)
    PROVE  Proper(m, Put(m, t), r, ros)
<1>0. Consistent(m) /\ r \in ROs /\ r \in ros
  BY DEF Setting
<1>1. t.repo \in {"story", "item"} /\ Storable(t.repo, t.key, t.rec)
  BY DEF TaskOf, TaskOK
<1>2. Keyed => IF t.repo = "story" THEN Inner(t.key, r) ELSE Inner(t.rec.story, r) /\ Len(t.key) = 3
  BY DEF TaskOf, Inside
<1>3. ASSUME Keyed, t.repo = "item", t.key \in DOMAIN m.item PROVE m.item[t.key].story[1] \in ros
  <2>1. /\ StoryKey(t.rec.story) /\ ItemKeyOf(t.key, t.rec.story)
    BY <1>1, <1>3 DEF Storable
  <2>2. Len(t.key) = 3
    BY <1>2, <1>3
  <2>5. Last(t.key) \in Nat /\ (t.key = Append(t.rec.story, Last(t.key)) \/ Len(t.key) = 1)
    BY <2>1, ItemKeyFacts, Zenon
  <2>6. Len(t.key) # 1
    BY <2>2
  <2>3. t.key = Append(t.rec.story, Last(t.key)) /\ Last(t.key) \in Nat
    BY <2>5, <2>6, Zenon
  <2>4. m.item[t.key].story = t.rec.story
    BY <1>0, <1>3, <2>1, <2>3, KeyTellsStory
  <2> QED BY <1>0, <1>2, <1>3, <2>4 DEF Inner
<1>4. ASSUME NEW do \in {"create", "update"}
      PROVE  Proper(m, <<Call(do, t.repo, t.key, t.rec, "NACK")>>, r, ros)
  <2> DEFINE c == Call(do, t.repo, t.key, t.rec, "NACK")
  <2>1. /\ c.do = do /\ c.repo = t.repo /\ c.key = t.key /\ c.rec = t.rec
        /\ DOMAIN c = {"do", "repo", "key", "rec", "refused"}
    BY DEF Call
  <2> HIDE DEF c
  <2>2. Keyed => InsideCall(m, c, r, ros)
    BY <1>1, <1>2, <1>3, <2>1 DEF InsideCall
  <2>3. TaskOf(m, c, r, ros)
    BY <1>1, <2>1, <2>2, CallTask
  <2> QED BY <2>3, ProperOne DEF c
<1> QED BY <1>4, CallForms DEF Put

\* ClearRunningOrder drops stories of the running order only.
LEMMA ClearProper ==
    ASSUME NEW m, NEW r, NEW ros, Setting(m, r, ros), NEW t, t.ro = r
    PROVE  Proper(m, ClearRunningOrder(m, t), r, ros)
<1>0. Consistent(m) /\ (Keyed => KeyedStore(m))
  BY DEF Setting
<1> DEFINE stories == ListByRunningOrder(m, t.ro)
           parts == [n \in 1 .. Len(stories) |-> <<[do |-> "dropStory", key |-> stories[n]]>>]
<1>1. ClearRunningOrder(m, t) = FlattenSeq(parts)
  BY DEF ClearRunningOrder, Each
<1>2. Len(stories) \in Nat
  BY <1>0, StoryListFacts
<1>3. ASSUME NEW n \in 1 .. Len(stories) PROVE Proper(m, parts[n], r, ros)
  <2>1. stories[n] \in DOMAIN m.story /\ StoryKeyOf(stories[n], r)
    BY <1>0, StoryListFacts
  <2> HIDE DEF stories
  <2>2. Keyed => Inner(stories[n], r)
    BY <1>0, <2>1, StoryKeyFacts DEF KeyedStore, Inner
  <2> QED BY <2>2, DropTask
<1>4. parts = [n \in 1 .. Len(stories) |-> parts[n]]
  OBVIOUS
<1> HIDE DEF parts, stories
<1> QED BY <1>1, <1>2, <1>3, <1>4, ProperFlat

\* The items of a list deleted one by one.
LEMMA DeleteEachProper ==
    ASSUME NEW m, Consistent(m), NEW r, NEW ros, r \in ros, NEW key, Keyed => Inner(key, r)
    PROVE  Proper(m, FlattenSeq([n \in 1 .. Len(ListByStory(m, key)) |-> Delete("item", {ListByStory(m, key)[n]})]), r, ros)
<1> DEFINE items == ListByStory(m, key)
           parts == [n \in 1 .. Len(items) |-> Delete("item", {items[n]})]
<1>2. Len(items) \in Nat
  BY ItemListFacts
<1>3. ASSUME NEW n \in 1 .. Len(items) PROVE Proper(m, parts[n], r, ros)
  <2>1. items[n] \in DOMAIN m.item /\ m.item[items[n]].story = key
    BY ItemListFacts
  <2> HIDE DEF items
  <2>2. Keyed => m.item[items[n]].story[1] \in ros
    BY <2>1 DEF Inner
  <2>3. Proper(m, Delete("item", {items[n]}), r, ros)
    BY <2>2, DeleteProper DEF Tables
  <2> QED BY <2>3
<1>4. parts = [n \in 1 .. Len(items) |-> parts[n]]
  OBVIOUS
<1>5. Proper(m, FlattenSeq(parts), r, ros)
  <2> HIDE DEF parts, items
  <2> QED BY <1>2, <1>3, <1>4, ProperFlat
<1> QED BY <1>5

\* The removal of a story deletes its items and then the story.
LEMMA DropProper ==
    ASSUME NEW m, NEW r, NEW ros, Setting(m, r, ros), NEW t, Keyed => Inner(t.key, r)
    PROVE  Proper(m, DropStory(m, t), r, ros)
<1>0. Consistent(m) /\ r \in ros
  BY DEF Setting
<1> DEFINE items == ListByStory(m, t.key)
           parts == [n \in 1 .. Len(items) |-> Delete("item", {items[n]})]
<1>1. DropStory(m, t) = FlattenSeq(parts) \o Delete("story", {t.key})
  BY DEF DropStory, Each
<1>2. Proper(m, FlattenSeq(parts), r, ros)
  BY <1>0, DeleteEachProper
<1>3. Proper(m, Delete("story", {t.key}), r, ros)
  <2>1. Keyed => \A k \in {t.key} : Len(k) = 2 => k[1] = r
    BY DEF Inner
  <2> QED BY <2>1, DeleteProper DEF Tables
<1> HIDE DEF parts
<1> QED BY <1>1, <1>2, <1>3, ProperConcat

\* The story that resolveStory finds belongs to the running order.
LEMMA ResolvedInner ==
    ASSUME NEW m, NEW r, NEW ros, Setting(m, r, ros), NEW s \in Nat, NEW key,
           key = resolveStory(m, r, s), key # NoKey
    PROVE  /\ key \in DOMAIN m.story /\ m.story[key].ro = r
           /\ StoryKeyOf(key, r) /\ StoryKey(key) /\ Belongs(m, "story", key, r)
           /\ m.story[key].order \in Nat
           /\ Keyed => Inner(key, r) /\ Len(key) = 2
<1>0. Consistent(m) /\ (Keyed => KeyedStore(m)) /\ r \in ROs
  BY DEF Setting
<1>1. key \in DOMAIN m.story /\ m.story[key].ro = r /\ StoryKeyOf(key, r)
  BY <1>0, ResolvedStory
<1>2. Keyed => Len(key) = 2
  BY <1>0, <1>1 DEF KeyedStore
<1>3. Keyed => Inner(key, r)
  BY <1>1, <1>2, StoryKeyFacts DEF Inner
<1>4. StoryKey(key)
  BY <1>0, <1>1 DEF StoryKey
<1>5. m.story[key].order \in Nat
  BY <1>0, <1>1, StoryRecordFacts
<1> QED BY <1>1, <1>2, <1>3, <1>4, <1>5 DEF Belongs

\* The item that resolveItem finds belongs to the story.
LEMMA ResolvedBelongs ==
    ASSUME NEW m, NEW r, NEW ros, Setting(m, r, ros), NEW story, StoryKey(story), Keyed => Inner(story, r),
           NEW i \in Nat, NEW key, key = resolveItem(m, story, i), key # NoKey
    PROVE  /\ key \in DOMAIN m.item /\ m.item[key].story = story /\ m.item[key].order \in Nat
           /\ Belongs(m, "item", key, r)
<1>0. Consistent(m)
  BY DEF Setting
<1>1. key \in DOMAIN m.item /\ m.item[key].story = story
  BY <1>0, ResolvedItem
<1>2. m.item[key].order \in Nat
  BY <1>0, <1>1, ItemRecordFacts
<1> QED BY <1>1, <1>2 DEF Belongs

\* A record written back as it was read.
LEMMA SameProper ==
    ASSUME NEW m, NEW r, NEW ros, Setting(m, r, ros), NEW repo \in {"story", "item"}, NEW k,
           Belongs(m, repo, k, r)
    PROVE  Proper(m, Update(repo, k, m[repo][k]), r, ros)
<1>0. Consistent(m)
  BY DEF Setting
<1>1. k \in DOMAIN m[repo]
  BY DEF Belongs
<1>2. m[repo][k].order \in Nat
  BY <1>0, <1>1, StoryRecordFacts, ItemRecordFacts
<1>3. TaskOf(m, Call("update", repo, k, m[repo][k], "NACK"), r, ros)
  BY <1>2, RewriteTask
<1> QED BY <1>3, ProperOne, CallForms

\* The status of a story.
LEMMA StoryStatusProper ==
    ASSUME NEW m, NEW r, NEW ros, Setting(m, r, ros), NEW op, op.ro = r, op.story \in Nat
    PROVE  Answered(m, applyStoryStatus(m, op), r, ros)
<1> DEFINE key == resolveStory(m, r, op.story)
           tail == <<[do |-> "onAir", ro |-> r, key |-> key, status |-> op.kind]>>
<1>1. applyStoryStatus(m, op) = IF key = NoKey THEN Refuse("RESYNC") ELSE Update("story", key, m.story[key]) \o tail
  BY DEF applyStoryStatus
<1>2. CASE key = NoKey
  BY <1>1, <1>2, RefuseAnswered
<1>3. CASE key # NoKey
  <2>0. r \in ROs
    BY DEF Setting
  <2>1. StoryKeyOf(key, r) /\ Belongs(m, "story", key, r)
    BY <1>3, ResolvedInner
  <2> HIDE DEF key
  <2>a. Keyed => Len(key) = 2
    BY <2>1 DEF Belongs, Setting, KeyedStore
  <2>2. Proper(m, tail, r, ros)
    BY <2>0, <2>1, <2>a, OnAirTask
  <2>3. Proper(m, Update("story", key, m["story"][key]), r, ros)
    BY <2>1, SameProper
  <2>4. Proper(m, Update("story", key, m.story[key]), r, ros)
    BY <2>3
  <2> HIDE DEF tail
  <2> QED BY <1>1, <1>3, <2>2, <2>4, ProperConcat DEF Answered
<1> QED BY <1>2, <1>3

\* The status of an item.
LEMMA ItemStatusProper ==
    ASSUME NEW m, NEW r, NEW ros, Setting(m, r, ros), NEW op, op.ro = r, op.story \in Nat, op.item \in Nat
    PROVE  Answered(m, applyItemStatus(m, op), r, ros)
<1> DEFINE story == resolveStory(m, r, op.story)
           item == resolveItem(m, story, op.item)
<1>1. applyItemStatus(m, op) = IF story = NoKey THEN Refuse("RESYNC")
                               ELSE IF item = NoKey THEN Refuse("NACK")
                               ELSE Update("item", item, m.item[item])
  BY DEF applyItemStatus
<1>2. CASE story = NoKey \/ item = NoKey
  BY <1>1, <1>2, RefuseAnswered
<1>3. CASE story # NoKey /\ item # NoKey
  <2>1. StoryKey(story) /\ (Keyed => Inner(story, r))
    BY <1>3, ResolvedInner
  <2>2. Belongs(m, "item", item, r)
    <3> HIDE DEF story
    <3> QED BY <1>3, <2>1, ResolvedBelongs
  <2> HIDE DEF item, story
  <2>3. Proper(m, Update("item", item, m["item"][item]), r, ros)
    BY <2>2, SameProper
  <2>4. Proper(m, Update("item", item, m.item[item]), r, ros)
    BY <2>3
  <2> QED BY <1>1, <1>3, <2>4 DEF Answered
<1> QED BY <1>2, <1>3

\* What roCtrl and roItemCue go on to do stays within the running order
\* that the message names.
LEMMA EchoProper ==
    ASSUME NEW m, NEW r, NEW ros, Setting(m, r, ros), NEW op
    PROVE  Proper(m, ProcessROCtrl(m, op), r, ros) /\ Proper(m, ProcessROItemCue(m, op), r, ros)
<1>0. Consistent(m)
  BY DEF Setting
<1> DEFINE k == <<op.item>>
           u == Update("item", k, m.item[k])
           c == Call("update", "item", k, m.item[k], "NACK")
<1>1. /\ ProcessROCtrl(m, op) = IF k \notin DOMAIN m.item THEN Refuse("NACK") ELSE u
      /\ ProcessROItemCue(m, op) = IF k \notin DOMAIN m.item THEN << >> ELSE Leniently(u)
  BY DEF ProcessROCtrl, ProcessROItemCue
<1>2. CASE k \notin DOMAIN m.item
  BY <1>1, <1>2, RefuseProper, ProperEmpty
<1>3. CASE k \in DOMAIN m.item
  <2> HIDE DEF k
  <2>1. TaskOf(m, c, r, ros)
    BY <1>0, <1>3, EchoCall
  <2>2. u = <<c>>
    BY CallForms
  <2>3. Writes(m, <<c>>, r, ros)
    BY <2>1, WritesOne
  <2> HIDE DEF c, u
  <2>4. Proper(m, u, r, ros) /\ Proper(m, Leniently(u), r, ros)
    BY <2>2, <2>3, LenientProper DEF Writes
  <2> QED BY <1>1, <1>3, <2>4
<1> QED BY <1>2, <1>3

\* What roStorySend goes on to do stays within the running order
\* that the message names.
LEMMA StorySendProper ==
    ASSUME NEW m, NEW r, NEW ros, Setting(m, r, ros), NEW op, op.ro = r, op.send.id \in Nat, Elements(op.send.items)
    PROVE  Answered(m, ProcessROStorySend(m, op), r, ros)
<1>0. Consistent(m) /\ r \in ROs
  BY DEF Setting
<1> DEFINE key == <<r, op.send.id>>
           order == IF key \in DOMAIN m.story THEN m.story[key].order ELSE 0
           rec == StoryRecord(r, op.send, order)
           last == IF key \in DOMAIN m.story THEN Update("story", key, rec) ELSE Create("story", key, rec)
<1>1. ProcessROStorySend(m, op) = IF r \notin DOMAIN m.ro THEN Refuse("RESYNC")
                                  ELSE storeItems(key, op.send.items) \o last
  BY DEF ProcessROStorySend, storyPersistenceID
<1>2. CASE r \notin DOMAIN m.ro
  BY <1>1, <1>2, RefuseAnswered
<1>3. CASE r \in DOMAIN m.ro
  <2>1. StoryKey(key) /\ StoryKeyOf(key, r) /\ Inner(key, r) /\ Len(key) = 2
    BY <1>0, StoryKeyHere DEF Inner
  <2> HIDE DEF key
  <2>2. order \in Nat
    BY <1>0, StoryRecordFacts
  <2> HIDE DEF order
  <2>3. Proper(m, Create("story", key, rec), r, ros) /\ Proper(m, Update("story", key, rec), r, ros)
    BY <1>0, <2>1, <2>2, CreateStoryProper
  <2>4. Proper(m, last, r, ros)
    BY <2>3
  <2>5. Proper(m, storeItems(key, op.send.items), r, ros)
    BY <2>1, StoreItemsProper
  <2> HIDE DEF last
  <2> QED BY <1>1, <1>3, <2>4, <2>5, ProperConcat DEF Answered
<1> QED BY <1>2, <1>3

\* What createNewStory goes on to do stays within the running order
\* that the message names.
LEMMA NewStoryProper ==
    ASSUME ~Keyed, NEW m, NEW r, NEW ros, Setting(m, r, ros), NEW op, op.ro = r, op.send.id \in Nat, Elements(op.send.items)
    PROVE  Proper(m, createNewStory(m, op), r, ros)
<1>0. Consistent(m) /\ r \in ROs
  BY DEF Setting
<1> DEFINE key == <<op.send.id>>
           n == Len(ListByRunningOrder(m, r)) + 1
           last == Create("story", key, StoryRecord(r, op.send, n))
<1>1. createNewStory(m, op) = IF r \notin DOMAIN m.ro THEN Refuse("NACK")
                              ELSE storeItems(key, op.send.items) \o last
  BY DEF createNewStory
<1>2. CASE r \notin DOMAIN m.ro
  BY <1>1, <1>2, RefuseProper
<1>3. CASE r \in DOMAIN m.ro
  <2>1. StoryKey(key) /\ StoryKeyOf(key, r)
    BY <1>0, MakeStoryKey DEF StoryKey
  <2>2. n \in Nat
    BY <1>0, StoryListFacts
  <2> HIDE DEF key, n
  <2>3. Proper(m, last, r, ros)
    BY <1>0, <2>1, <2>2, CreateStoryProper
  <2>4. Proper(m, storeItems(key, op.send.items), r, ros)
    BY <2>1, StoreItemsProper
  <2> HIDE DEF last
  <2> QED BY <1>1, <1>3, <2>3, <2>4, ProperConcat
<1> QED BY <1>2, <1>3

\* A create or update by itself, where no key matters.
LEMMA AnyCallProper ==
    ASSUME ~Keyed, NEW m, NEW r, NEW ros, NEW repo, NEW key, NEW rec, Storable(repo, key, rec)
    PROVE  Proper(m, Create(repo, key, rec), r, ros) /\ Proper(m, Update(repo, key, rec), r, ros)
<1>1. ASSUME NEW do \in {"create", "update"}
      PROVE  Proper(m, <<Call(do, repo, key, rec, "NACK")>>, r, ros)
  <2> DEFINE c == Call(do, repo, key, rec, "NACK")
  <2>1. /\ c.do = do /\ c.repo = repo /\ c.key = key /\ c.rec = rec
        /\ DOMAIN c = {"do", "repo", "key", "rec", "refused"}
    BY DEF Call
  <2> HIDE DEF c
  <2>3. TaskOf(m, c, r, ros)
    BY <2>1, CallTask
  <2> QED BY <2>3, ProperOne DEF c
<1> QED BY <1>1, CallForms

\* With composite keys only, no story is under a wire identifier.
LEMMA WireKeyAbsent ==
    ASSUME NEW m, NEW r, NEW ros, Setting(m, r, ros), NEW s, Keyed
    PROVE  <<s>> \notin DOMAIN m.story
<1>1. Len(<<s>>) = 1
  OBVIOUS
<1> QED BY <1>1 DEF Setting, KeyedStore

\* What updateStory goes on to do stays within the running order
\* that the message names.
LEMMA UpdateStoryProper ==
    ASSUME NEW m, NEW r, NEW ros, Setting(m, r, ros), NEW op, op.send.id \in Nat, Elements(op.send.items)
    PROVE  Proper(m, updateStory(m, op), r, ros)
<1>0. Consistent(m) /\ r \in ROs
  BY DEF Setting
<1> DEFINE key == <<op.send.id>>
           rec == [m.story[key] EXCEPT !.body = op.send.body]
<1>1. updateStory(m, op) = IF key \notin DOMAIN m.story THEN Refuse("NACK")
                           ELSE storeItems(key, op.send.items) \o Update("story", key, rec)
  BY DEF updateStory
<1>2. CASE key \notin DOMAIN m.story
  BY <1>1, <1>2, RefuseProper
<1>3. CASE key \in DOMAIN m.story
  <2>1. ~Keyed
    BY <1>3, WireKeyAbsent
  <2>2. /\ DOMAIN m.story[key] = {"ro", "order", "body"}
        /\ m.story[key].ro \in ROs /\ m.story[key].order \in Nat
        /\ StoryKeyOf(key, m.story[key].ro)
    BY <1>0, <1>3, StoryRecordFacts
  <2> HIDE DEF key
  <2>3. DOMAIN rec = {"ro", "order", "body"} /\ rec.ro = m.story[key].ro /\ rec.order = m.story[key].order
    BY <2>2
  <2> HIDE DEF rec
  <2>4. Storable("story", key, rec) /\ StoryKey(key)
    BY <2>2, <2>3 DEF Storable, StoryKey
  <2>5. Proper(m, Update("story", key, rec), r, ros)
    BY <2>1, <2>4, AnyCallProper
  <2>6. Proper(m, storeItems(key, op.send.items), r, ros)
    BY <2>1, <2>4, StoreItemsProper
  <2> QED BY <1>1, <1>3, <2>5, <2>6, ProperConcat
<1> QED BY <1>2, <1>3

\* What ReplaceItemInStory goes on to do stays within the running order
\* that the message names.
LEMMA ItemReplaceProper ==
    ASSUME NEW m, NEW r, NEW ros, Setting(m, r, ros), NEW op, op.story \in Nat, Elements(op.list), op.list # << >>
    PROVE  Proper(m, ReplaceItemInStory(m, op), r, ros)
<1>0. Consistent(m) /\ r \in ROs
  BY DEF Setting
<1> DEFINE story == <<op.story>>
           rec == [story |-> story, order |-> 0, body |-> op.list[1].body]
           key == <<op.list[1].id>>
           new == [m.item[key] EXCEPT !.body = op.list[1].body]
<1>1. ReplaceItemInStory(m, op) = IF story \notin DOMAIN m.story THEN Refuse("NACK")
                                  ELSE IF key \notin DOMAIN m.item THEN Create("item", key, rec)
                                  ELSE Update("item", key, new)
  BY DEF ReplaceItemInStory
<1>2. CASE story \notin DOMAIN m.story
  BY <1>1, <1>2, RefuseProper
<1>3. CASE story \in DOMAIN m.story
  <2>1. ~Keyed
    BY <1>3, WireKeyAbsent
  <2>2. op.list[1].id \in Nat
    BY TailIsList DEF Elements
  <2>3. StoryKey(story)
    BY <1>0, MakeStoryKey DEF StoryKey
  <2>4. ItemKeyOf(key, story)
    <3> HIDE DEF story
    <3> QED BY <2>2, <2>3, MakeItemKey
  <2>5. DOMAIN rec = {"story", "order", "body"} /\ rec.story = story /\ rec.order = 0
    OBVIOUS
  <2> HIDE DEF story, key, rec
  <2>6. Storable("item", key, rec)
    BY <2>3, <2>4, <2>5 DEF Storable
  <2>7. Proper(m, Create("item", key, rec), r, ros)
    BY <2>1, <2>6, AnyCallProper
  <2>8. ASSUME key \in DOMAIN m.item PROVE Proper(m, Update("item", key, new), r, ros)
    <3>1. /\ DOMAIN m.item[key] = {"story", "order", "body"}
          /\ StoryKey(m.item[key].story) /\ m.item[key].order \in Nat
          /\ ItemKeyOf(key, m.item[key].story)
      BY <1>0, <2>8, ItemRecordFacts
    <3>2. DOMAIN new = {"story", "order", "body"} /\ new.story = m.item[key].story /\ new.order = m.item[key].order
      BY <3>1
    <3> HIDE DEF new
    <3>3. Storable("item", key, new)
      BY <3>1, <3>2 DEF Storable
    <3> QED BY <2>1, <3>3, AnyCallProper
  <2> HIDE DEF new
  <2> QED BY <1>1, <1>3, <2>7, <2>8
<1> QED BY <1>2, <1>3

\* The stories of a running order belong to it.
LEMMA StoriesOwned ==
    ASSUME NEW m, NEW r
    PROVE  Owned(m, "story", r, r)
BY DEF Owned, Records, StoriesOf, Belongs

\* The items of a story belong to the running order of the story.
LEMMA ItemsOwned ==
    ASSUME NEW m, NEW r, NEW story, Keyed => Inner(story, r)
    PROVE  Owned(m, "item", story, r)
BY DEF Owned, Records, ItemsOf, Belongs

\* What InsertStories goes on to do stays within the running order
\* that the message names.
LEMMA InsertStoriesProper ==
    ASSUME NEW m, NEW r, NEW ros, Setting(m, r, ros), NEW op, op.ro = r, op.target \in Nat, Rosters(op.list)
    PROVE  Answered(m, InsertStories(m, op), r, ros)
<1>0. Consistent(m) /\ r \in ROs
  BY DEF Setting
<1> DEFINE target == resolveStory(m, r, op.target)
           position == IF op.target = 0 THEN 0 ELSE m.story[target].order
           first == Shifted(m, "story", ListByRunningOrder(m, r), position, Len(op.list))
           Make(n) == Create("story", storyPersistenceID(r, op.list[n].id), StoryRecord(r, op.list[n], position + n))
           parts == [n \in 1 .. Len(op.list) |->
                        Make(n) \o insertedItems(storyPersistenceID(r, op.list[n].id), op.list[n].items)]
<1>1. InsertStories(m, op) = IF op.target # 0 /\ target = NoKey THEN Refuse("RESYNC")
                             ELSE first \o FlattenSeq(parts)
  BY DEF InsertStories, Each
<1>2. CASE op.target # 0 /\ target = NoKey
  BY <1>1, <1>2, RefuseAnswered
<1>3. CASE ~(op.target # 0 /\ target = NoKey)
  <2>1. position \in Nat
    BY <1>3, ResolvedInner
  <2>2. Len(op.list) \in Nat
    BY RosterFacts
  <2> HIDE DEF position, target
  <2>3. Proper(m, Shifted(m, "story", ListOf(m, "story", r), position, Len(op.list)), r, ros)
    BY <2>1, <2>2, StoriesOwned, ShiftedProper
  <2>4. Proper(m, first, r, ros)
    BY <2>3 DEF ListOf
  <2>5. ASSUME NEW n \in 1 .. Len(op.list) PROVE Proper(m, parts[n], r, ros)
    <3> DEFINE key == <<r, op.list[n].id>>
    <3>1. op.list[n].id \in Nat /\ n \in Nat /\ Elements(op.list[n].items)
      BY RosterFacts
    <3>2. StoryKey(key) /\ Inner(key, r) /\ StoryKeyOf(key, r) /\ Len(key) = 2
      BY <1>0, <3>1, StoryKeyHere DEF Inner
    <3>3. parts[n] = Make(n) \o insertedItems(key, op.list[n].items)
      BY DEF storyPersistenceID
    <3>4. Make(n) = Create("story", key, StoryRecord(r, op.list[n], position + n))
      BY DEF storyPersistenceID
    <3>5. position + n \in Nat
      BY <2>1, <3>1
    <3> HIDE DEF key, parts, Make
    <3>6. Proper(m, Make(n), r, ros)
      BY <1>0, <3>2, <3>4, <3>5, CreateStoryProper
    <3>7. Proper(m, insertedItems(key, op.list[n].items), r, ros)
      BY <3>1, <3>2, InsertedItemsProper
    <3> QED BY <3>3, <3>6, <3>7, ProperConcat
  <2>6. parts = [n \in 1 .. Len(op.list) |-> parts[n]]
    OBVIOUS
  <2> HIDE DEF first, parts
  <2>7. Proper(m, FlattenSeq(parts), r, ros)
    BY <2>2, <2>5, <2>6, ProperFlat
  <2> QED BY <1>1, <1>3, <2>4, <2>7, ProperConcat DEF Answered
<1> QED BY <1>2, <1>3

\* A list of items.
LEMMA ElementsFacts ==
    ASSUME NEW list, Elements(list)
    PROVE  Len(list) \in Nat /\ \A n \in 1 .. Len(list) : n \in Nat /\ n >= 1
<1>1. Len(list) \in Nat
  BY ListFacts DEF Elements
<1> QED BY <1>1

\* What InsertItems goes on to do stays within the running order
\* that the message names.
LEMMA InsertItemsProper ==
    ASSUME NEW m, NEW r, NEW ros, Setting(m, r, ros), NEW op, op.ro = r, op.story \in Nat, op.target \in Nat,
           Elements(op.list)
    PROVE  Answered(m, InsertItems(m, op), r, ros)
<1> DEFINE story == resolveStory(m, r, op.story)
           target == resolveItem(m, story, op.target)
           position == IF op.target = 0 THEN 0 ELSE m.item[target].order
           first == Shifted(m, "item", ListByStory(m, story), position, Len(op.list))
           last == bareItems(story, op.list, position)
<1>1. InsertItems(m, op) = IF story = NoKey THEN Refuse("RESYNC")
                           ELSE IF op.target # 0 /\ target = NoKey THEN Refuse("NACK")
                           ELSE first \o last
  BY DEF InsertItems
<1>2. CASE story = NoKey \/ (op.target # 0 /\ target = NoKey)
  BY <1>1, <1>2, RefuseAnswered
<1>3. CASE ~(story = NoKey \/ (op.target # 0 /\ target = NoKey))
  <2>1. StoryKey(story) /\ (Keyed => Inner(story, r))
    BY <1>3, ResolvedInner
  <2> HIDE DEF story
  <2>2. position \in Nat
    BY <1>3, <2>1, ResolvedBelongs
  <2> HIDE DEF position, target
  <2>3. Len(op.list) \in Nat /\ \A n \in 1 .. Len(op.list) : position + n \in Nat
    BY <2>2, ElementsFacts
  <2>4. Proper(m, Shifted(m, "item", ListOf(m, "item", story), position, Len(op.list)), r, ros)
    BY <2>1, <2>2, <2>3, ItemsOwned, ShiftedProper
  <2>5. Proper(m, first, r, ros)
    BY <2>4 DEF ListOf
  <2>6. Proper(m, last, r, ros)
    BY <2>1, <2>2, <2>3, BareItemsProper
  <2> HIDE DEF first, last
  <2> QED BY <1>1, <1>3, <2>5, <2>6, ProperConcat DEF Answered
<1> QED BY <1>2, <1>3

\* What ReplaceStories goes on to do stays within the running order
\* that the message names.
LEMMA ReplaceStoriesProper ==
    ASSUME NEW m, NEW r, NEW ros, Setting(m, r, ros), NEW op, op.ro = r, op.target \in Nat, Rosters(op.list)
    PROVE  Answered(m, ReplaceStories(m, op), r, ros)
<1>0. Consistent(m) /\ r \in ROs /\ r \in ros
  BY DEF Setting
<1> DEFINE target == resolveStory(m, r, op.target)
           items == ListByStory(m, target)
           order == m.story[target].order
           a == FlattenSeq([n \in 1 .. Len(items) |-> Delete("item", {items[n]})])
           b == Delete("story", {<<op.target>>})
           c == MakeRoom("story", r, order, Len(op.list) - 1)
           Make(n) == <<[do |-> "put", repo |-> "story", key |-> storyPersistenceID(r, op.list[n].id),
                         rec |-> StoryRecord(r, op.list[n], order + n - 1)]>>
           parts == [n \in 1 .. Len(op.list) |->
                        Make(n) \o insertedItems(storyPersistenceID(r, op.list[n].id), op.list[n].items)]
           d == FlattenSeq(parts)
<1>1. ReplaceStories(m, op) = IF target = NoKey THEN Refuse("RESYNC") ELSE a \o b \o c \o d
  BY DEF ReplaceStories, Each
<1>2. CASE target = NoKey
  BY <1>1, <1>2, RefuseAnswered
<1>3. CASE target # NoKey
  <2>1. StoryKey(target) /\ (Keyed => Inner(target, r)) /\ order \in Nat
    BY <1>3, ResolvedInner
  <2>2. Len(op.list) \in Nat
    BY RosterFacts
  <2> HIDE DEF target
  <2>3. Proper(m, a, r, ros)
    BY <1>0, <2>1, DeleteEachProper
  <2>4. Proper(m, b, r, ros)
    <3> DEFINE keys == {<<op.target>>}
    <3>1. \A k \in keys : Len(k) = 2 => k[1] = r
      OBVIOUS
    <3> HIDE DEF keys
    <3>2. Proper(m, Delete("story", keys), r, ros)
      BY <3>1, DeleteProper DEF Tables
    <3> QED BY <3>2 DEF keys
  <2> HIDE DEF order
  <2>5. Proper(m, c, r, ros)
    <3> DEFINE by == Len(op.list) - 1
    <3>1. by \in Int
      BY <2>2
    <3> HIDE DEF by
    <3>2. Proper(m, MakeRoom("story", r, order, by), r, ros)
      BY <1>0, <2>1, <3>1, MakeRoomProper
    <3> QED BY <3>2 DEF by
  <2>6. ASSUME NEW n \in 1 .. Len(op.list) PROVE Proper(m, parts[n], r, ros)
    <3> DEFINE key == <<r, op.list[n].id>>
    <3>1. op.list[n].id \in Nat /\ n \in Nat /\ n >= 1 /\ Elements(op.list[n].items)
      BY <2>2, RosterFacts
    <3>2. StoryKey(key) /\ Inner(key, r) /\ StoryKeyOf(key, r) /\ Len(key) = 2
      BY <1>0, <3>1, StoryKeyHere DEF Inner
    <3>3. parts[n] = Make(n) \o insertedItems(key, op.list[n].items)
      BY DEF storyPersistenceID
    <3>5. order + n - 1 \in Nat
      BY <2>1, <3>1
    <3>6. Proper(m, Make(n), r, ros)
      BY <1>0, <3>1, <3>5, PutStoryProper DEF storyPersistenceID
    <3> HIDE DEF key, parts, Make
    <3>7. Proper(m, insertedItems(key, op.list[n].items), r, ros)
      BY <3>1, <3>2, InsertedItemsProper
    <3> QED BY <3>3, <3>6, <3>7, ProperConcat
  <2>7. parts = [n \in 1 .. Len(op.list) |-> parts[n]]
    OBVIOUS
  <2>8. Proper(m, d, r, ros)
    <3> HIDE DEF parts
    <3> QED BY <2>2, <2>6, <2>7, ProperFlat
  <2> HIDE DEF a, b, c, d
  <2>9. Proper(m, a \o b, r, ros)
    BY <2>3, <2>4, ProperConcat
  <2>10. Proper(m, a \o b \o c, r, ros)
    BY <2>9, <2>5, ProperConcat
  <2>11. Proper(m, a \o b \o c \o d, r, ros)
    BY <2>10, <2>8, ProperConcat
  <2> QED BY <1>1, <1>3, <2>11 DEF Answered
<1> QED BY <1>2, <1>3

\* ReplaceItems, where keys do not matter: it deletes by a wire identifier
\* that an item of another running order may have.
LEMMA ReplaceItemsProper ==
    ASSUME ~Keyed, NEW m, NEW r, NEW ros, Setting(m, r, ros), NEW op, op.ro = r, op.story \in Nat, op.target \in Nat,
           Elements(op.list)
    PROVE  Answered(m, ReplaceItems(m, op), r, ros)
<1> DEFINE story == resolveStory(m, r, op.story)
           target == resolveItem(m, story, op.target)
           order == m.item[target].order
           a == Delete("item", {<<op.target>>})
           b == MakeRoom("item", story, order, Len(op.list) - 1)
           c == bareItems(story, op.list, order - 1)
<1>1. ReplaceItems(m, op) = IF story = NoKey THEN Refuse("RESYNC")
                            ELSE IF target = NoKey THEN Refuse("NACK")
                            ELSE a \o b \o c
  BY DEF ReplaceItems
<1>2. CASE story = NoKey \/ target = NoKey
  BY <1>1, <1>2, RefuseAnswered
<1>3. CASE ~(story = NoKey \/ target = NoKey)
  <2>1. StoryKey(story)
    BY <1>3, ResolvedInner
  <2> HIDE DEF story
  <2>2. order \in Nat
    BY <1>3, <2>1, ResolvedBelongs
  <2> HIDE DEF order, target
  <2>3. Len(op.list) \in Nat /\ order - 1 \in Int /\ \A n \in 1 .. Len(op.list) : (order - 1) + n \in Nat
    BY <2>2, ElementsFacts
  <2>4. Proper(m, a, r, ros)
    BY DeleteProper DEF Tables
  <2>5. Proper(m, b, r, ros)
    <3> DEFINE by == Len(op.list) - 1
    <3>1. by \in Int
      BY <2>3
    <3> HIDE DEF by
    <3>2. Proper(m, MakeRoom("item", story, order, by), r, ros)
      BY <2>2, <3>1, MakeRoomProper
    <3> QED BY <3>2 DEF by
  <2>6. Proper(m, c, r, ros)
    BY <2>1, <2>3, BareItemsProper
  <2> HIDE DEF a, b, c
  <2>7. Proper(m, a \o b, r, ros)
    BY <2>4, <2>5, ProperConcat
  <2>8. Proper(m, a \o b \o c, r, ros)
    BY <2>6, <2>7, ProperConcat
  <2> QED BY <1>1, <1>3, <2>8 DEF Answered
<1> QED BY <1>2, <1>3

\* The records that stay when others move are listed once each.
LEMMA StayingLength ==
    ASSUME NEW m, Consistent(m), NEW repo \in {"story", "item"}, NEW owner, NEW keys
    PROVE  LET rest == Staying(m, repo, ListOf(m, repo, owner), keys)
           IN  /\ IsList(rest) /\ Len(rest) \in Nat
               /\ Len(rest) = Cardinality(ToSet(rest)) /\ IsFiniteSet(ToSet(rest))
<1> DEFINE rest == Staying(m, repo, ListOf(m, repo, owner), keys)
<1>1. IsList(rest) /\ Len(rest) = Cardinality(ToSet(rest)) /\ IsFiniteSet(ToSet(rest))
  BY FilteredFacts DEF Staying
<1> HIDE DEF rest
<1>2. Len(rest) \in Nat
  BY <1>1, ListFacts
<1> QED BY <1>1, <1>2 DEF rest

\* What MoveStories goes on to do stays within the running order
\* that the message names.
LEMMA MoveStoriesProper ==
    ASSUME NEW m, NEW r, NEW ros, Setting(m, r, ros), NEW op, op.ro = r
    PROVE  Answered(m, MoveStories(m, op), r, ros)
<1>0. Consistent(m) /\ r \in ROs
  BY DEF Setting
<1> DEFINE all == ListByRunningOrder(m, r)
           keys == {resolveStory(m, r, s) : s \in ToSet(op.ids)}
           target == resolveStory(m, r, op.target)
           rest == Staying(m, "story", all, keys)
           n == IF op.target = 0 THEN Len(rest) + 1 ELSE StoryPosition(rest, target)
<1>1. MoveStories(m, op) = IF (op.target # 0 /\ target = NoKey) \/ NoKey \in keys THEN Refuse("RESYNC")
                           ELSE MovedBefore(m, "story", all, keys, n)
  BY DEF MoveStories
<1>2. all = ListOf(m, "story", r)
  BY DEF ListOf
<1> HIDE DEF target, keys, all
<1>3. IsList(rest) /\ Len(rest) \in Nat
  BY <1>0, <1>2, StayingLength
<1> HIDE DEF rest
<1>4. StoryPosition(rest, target) \in 1 .. Len(rest) + 1
  BY <1>3, PositionFacts
<1>5. n \in 1 .. Len(rest) + 1
  BY <1>3, <1>4
<1> HIDE DEF n
<1>6. Proper(m, MovedBefore(m, "story", all, keys, n), r, ros)
  BY <1>2, <1>5, StoriesOwned, MovedProper DEF rest
<1> QED BY <1>1, <1>6, RefuseAnswered DEF Answered

\* What MoveItems goes on to do stays within the running order
\* that the message names.
LEMMA MoveItemsProper ==
    ASSUME NEW m, NEW r, NEW ros, Setting(m, r, ros), NEW op, op.ro = r
    PROVE  Answered(m, MoveItems(m, op), r, ros)
<1>0. Consistent(m) /\ r \in ROs /\ (Keyed => KeyedStore(m))
  BY DEF Setting
<1> DEFINE wire == <<op.story>>
           story == resolveStory(m, op.ro, op.story)
           target == resolveItem(m, wire, op.target)
           all == ListByStory(m, wire)
           keys == resolveItemKeys(m, story, op.ids)
           order == IF op.target = 0 THEN 0 ELSE m.item[target].order
           rest == Staying(m, "item", all, keys)
           some == {k \in ToSet(rest) : m.item[k].order <= order}
           n == Cardinality(some) + 1
<1>1. MoveItems(m, op) = IF op.target # 0 /\ target = NoKey THEN Refuse("NACK")
                         ELSE IF story = NoKey \/ NoKey \in keys THEN Refuse("RESYNC")
                         ELSE MovedBefore(m, "item", all, keys, n)
  BY DEF MoveItems
<1>2. all = ListOf(m, "item", wire)
  BY DEF ListOf
<1>3. Len(wire) = 1
  OBVIOUS
<1>4. Owned(m, "item", wire, r)
  <2>1. Keyed => \A k \in DOMAIN m.item : m.item[k].story # wire
    <3> HIDE DEF wire
    <3> QED BY <1>0, <1>3 DEF KeyedStore
  <2> HIDE DEF wire
  <2> QED BY <2>1 DEF Owned, Records, ItemsOf, Belongs, Answered
<1> HIDE DEF wire, story, target, all, keys, order
<1>5. IsList(rest) /\ Len(rest) \in Nat /\ Len(rest) = Cardinality(ToSet(rest)) /\ IsFiniteSet(ToSet(rest))
  BY <1>0, <1>2, StayingLength
<1>6. some \subseteq ToSet(rest)
  OBVIOUS
<1> HIDE DEF rest, some
<1>7. Cardinality(some) <= Len(rest) /\ Cardinality(some) \in Nat
  BY <1>5, <1>6, FS_Subset, FS_CardinalityType
<1>8. n \in 1 .. Len(rest) + 1
  BY <1>5, <1>7
<1> HIDE DEF n
<1>9. Proper(m, MovedBefore(m, "item", all, keys, n), r, ros)
  BY <1>2, <1>4, <1>8, MovedProper DEF rest
<1> QED BY <1>1, <1>9, RefuseAnswered DEF Answered

\* What DeleteStories goes on to do stays within the running order
\* that the message names.
LEMMA DeleteStoriesProper ==
    ASSUME NEW m, NEW r, NEW ros, Setting(m, r, ros), NEW op, op.ro = r, IDList(op.ids)
    PROVE  Proper(m, DeleteStories(m, op), r, ros)
<1>0. Consistent(m) /\ r \in ROs /\ r \in ros
  BY DEF Setting
<1> DEFINE held == {resolveStory(m, r, s) : s \in ToSet(op.ids)} \ {NoKey}
           items == {k \in DOMAIN m.item : m.item[k].story \in held}
           a == IF items = {} THEN << >> ELSE Delete("item", items)
           wires == {<<s>> : s \in ToSet(op.ids)}
           b == Delete("story", wires)
           c == <<[do |-> "renumber", repo |-> "story", owner |-> r]>>
<1>1. DeleteStories(m, op) = a \o b \o c
  BY DEF DeleteStories
<1>2. ToSet(op.ids) \subseteq Nat
  <2>1. IsList(op.ids) /\ \A n \in 1 .. Len(op.ids) : op.ids[n] \in Nat
    BY DEF IDList
  <2>2. DOMAIN op.ids = 1 .. Len(op.ids)
    BY <2>1, ListFacts
  <2> QED BY <2>1, <2>2 DEF ToSet
<1>3. Keyed => \A k \in held : Inner(k, r)
  BY <1>2, ResolvedInner
<1>4. Keyed => \A k \in items : m.item[k].story[1] \in ros
  <2> HIDE DEF held
  <2> QED BY <1>0, <1>3 DEF Inner
<1> HIDE DEF items
<1>5. Proper(m, a, r, ros)
  BY <1>4, ProperEmpty, DeleteProper DEF Tables
<1>6. \A k \in wires : Len(k) = 2 => k[1] = r
  OBVIOUS
<1> HIDE DEF wires
<1>7. Proper(m, b, r, ros)
  BY <1>6, DeleteProper DEF Tables
<1>8. Proper(m, c, r, ros)
  BY <1>0, RenumberTask
<1> HIDE DEF a, b, c
<1>9. Proper(m, a \o b, r, ros)
  BY <1>5, <1>7, ProperConcat
<1>10. Proper(m, a \o b \o c, r, ros)
  BY <1>8, <1>9, ProperConcat
<1> QED BY <1>1, <1>10

\* What DeleteItems goes on to do stays within the running order
\* that the message names.
LEMMA DeleteItemsProper ==
    ASSUME NEW m, NEW r, NEW ros, Setting(m, r, ros), NEW op, op.ro = r, op.story \in Nat, IDList(op.ids)
    PROVE  Answered(m, DeleteItems(m, op), r, ros)
<1>0. Consistent(m) /\ r \in ROs /\ r \in ros
  BY DEF Setting
<1> DEFINE story == resolveStory(m, r, op.story)
           keys == resolveItemKeys(m, story, op.ids) \ {NoKey}
           a == Delete("item", keys)
           c == <<[do |-> "renumber", repo |-> "item", owner |-> story]>>
<1>1. DeleteItems(m, op) = IF story = NoKey THEN Refuse("RESYNC") ELSE a \o c
  BY DEF DeleteItems
<1>2. ToSet(op.ids) \subseteq Nat
  <2>1. IsList(op.ids) /\ \A n \in 1 .. Len(op.ids) : op.ids[n] \in Nat
    BY DEF IDList
  <2>2. DOMAIN op.ids = 1 .. Len(op.ids)
    BY <2>1, ListFacts
  <2> QED BY <2>1, <2>2 DEF ToSet, Answered
<1>3. CASE story = NoKey
  BY <1>1, <1>3, RefuseAnswered
<1>4. CASE story # NoKey
  <2>1. StoryKey(story) /\ (Keyed => Inner(story, r))
    BY <1>4, ResolvedInner
  <2> HIDE DEF story
  <2>2. ASSUME Keyed, NEW k \in keys PROVE m.item[k].story[1] \in ros
    <3>1. PICK i \in ToSet(op.ids) : k = resolveItem(m, story, i)
      BY DEF resolveItemKeys
    <3>2. m.item[k].story = story
      BY <1>2, <2>1, <3>1, ResolvedBelongs
    <3> QED BY <1>0, <2>1, <2>2, <3>2 DEF Inner
  <2> HIDE DEF keys
  <2>3. Proper(m, a, r, ros)
    BY <2>2, DeleteProper DEF Tables
  <2>4. Proper(m, c, r, ros)
    BY <2>1, RenumberTask
  <2> HIDE DEF a, c
  <2> QED BY <1>1, <1>4, <2>3, <2>4, ProperConcat DEF Answered
<1> QED BY <1>3, <1>4

\* Two records exchange their orders.
LEMMA SwappedProper ==
    ASSUME NEW m, NEW r, NEW ros, Setting(m, r, ros), NEW repo \in {"story", "item"}, NEW k, NEW l,
           Belongs(m, repo, k, r), Belongs(m, repo, l, r), m[repo][k].order \in Nat, m[repo][l].order \in Nat
    PROVE  Proper(m, Swapped(m, repo, k, l), r, ros)
<1> DEFINE a == Update(repo, k, [m[repo][k] EXCEPT !.order = m[repo][l].order])
           b == Update(repo, l, [m[repo][l] EXCEPT !.order = m[repo][k].order])
<1>1. Proper(m, a, r, ros) /\ Proper(m, b, r, ros)
  BY ReorderOne DEF Writes
<1>2. Swapped(m, repo, k, l) = a \o b
  BY DEF Swapped
<1> HIDE DEF a, b
<1> QED BY <1>1, <1>2, ProperConcat

\* What SwapStories and SwapItems go on to do stays within the running order
\* that the message names.
LEMMA SwapProper ==
    ASSUME NEW m, NEW r, NEW ros, Setting(m, r, ros), NEW op, op.ro = r, IDList(op.ids), Len(op.ids) = 2
    PROVE  /\ Answered(m, SwapStories(m, op), r, ros)
           /\ op.story \in Nat => Answered(m, SwapItems(m, op), r, ros)
<1>1. op.ids[1] \in Nat /\ op.ids[2] \in Nat
  BY DEF IDList
<1>2. Answered(m, SwapStories(m, op), r, ros)
  <2> DEFINE k == resolveStory(m, r, op.ids[1])
             l == resolveStory(m, r, op.ids[2])
  <2>1. SwapStories(m, op) = IF NoKey \in {k, l} THEN Refuse("RESYNC") ELSE Swapped(m, "story", k, l)
    BY DEF SwapStories
  <2>2. k # NoKey => Belongs(m, "story", k, r) /\ m["story"][k].order \in Nat
    BY <1>1, ResolvedInner
  <2>3. l # NoKey => Belongs(m, "story", l, r) /\ m["story"][l].order \in Nat
    BY <1>1, ResolvedInner
  <2> HIDE DEF k, l
  <2> QED BY <2>1, <2>2, <2>3, RefuseAnswered, SwappedProper DEF Answered
<1>3. ASSUME op.story \in Nat PROVE Answered(m, SwapItems(m, op), r, ros)
  <2> DEFINE story == resolveStory(m, r, op.story)
             k == resolveItem(m, story, op.ids[1])
             l == resolveItem(m, story, op.ids[2])
  <2>1. SwapItems(m, op) = IF story = NoKey THEN Refuse("RESYNC")
                           ELSE IF NoKey \in {k, l} THEN Refuse("NACK") ELSE Swapped(m, "item", k, l)
    BY DEF SwapItems
  <2>4. CASE story = NoKey
    BY <2>1, <2>4, RefuseAnswered
  <2>5. CASE story # NoKey
    <3>1. StoryKey(story) /\ (Keyed => Inner(story, r))
      BY <1>3, <2>5, ResolvedInner
    <3> HIDE DEF story
    <3>2. k # NoKey => Belongs(m, "item", k, r) /\ m["item"][k].order \in Nat
      BY <1>1, <3>1, ResolvedBelongs
    <3>3. l # NoKey => Belongs(m, "item", l, r) /\ m["item"][l].order \in Nat
      BY <1>1, <3>1, ResolvedBelongs
    <3> HIDE DEF k, l
    <3> QED BY <2>1, <2>5, <3>2, <3>3, RefuseAnswered, SwappedProper DEF Answered
  <2> QED BY <2>4, <2>5 DEF Answered
<1> QED BY <1>2, <1>3

\* Where keys do not matter, tasks are in order for every running order.
LEMMA ProperAny ==
    ASSUME ~Keyed, NEW m, NEW s, NEW r, NEW ros, Proper(m, s, r, ros), NEW n, NEW q, NEW others
    PROVE  Proper(n, s, q, others)
BY DEF Proper, TaskOf

\* The running order a read task is about, when keys do not matter.
LEMMA OwnOrder ==
    ASSUME NEW m, NEW r, NEW ros, Setting(m, r, ros), NEW q \in ROs, Keyed => q = r
    PROVE  Setting(m, q, ros \cup {q})
BY DEF Setting

\* What follows from a read in the middle of a message.
LEMMA ReadProper ==
    ASSUME NEW m, NEW r, NEW ros, Setting(m, r, ros), NEW t, TaskOf(m, t, r, ros), t.do \in ReadTasks
    PROVE  Proper(m, Seen(m, t), r, ros)
<1>0. TaskOK(t) /\ (Keyed => Inside(m, t, r, ros)) /\ Consistent(m) /\ r \in ROs
  BY DEF TaskOf, Setting
<1>a. ASSUME NEW s, NEW q \in ROs, Keyed => q = r,
             Setting(m, q, ros \cup {q}) => Proper(m, s, q, ros \cup {q})
      PROVE  Proper(m, s, r, ros)
  <2>1. Proper(m, s, q, ros \cup {q})
    BY <1>a, OwnOrder
  <2>2. CASE Keyed
    <3>1. q = r /\ r \in ros
      BY <1>a, <2>2 DEF Setting
    <3>2. ros \cup {q} = ros
      BY <3>1
    <3> QED BY <2>1, <3>1, <3>2
  <2>3. CASE ~Keyed
    BY <2>1, <2>3, ProperAny
  <2> QED BY <2>2, <2>3
<1>1. CASE t.do = "putRunningOrder"
  <2>1. Seen(m, t) = PutRunningOrder(m, t)
    BY <1>1 DEF Seen
  <2>2. t.ro \in ROs /\ (Keyed => t.ro = r)
    BY <1>0, <1>1 DEF TaskOK, Inside
  <2>3. Setting(m, t.ro, ros \cup {t.ro}) => Proper(m, PutRunningOrder(m, t), t.ro, ros \cup {t.ro})
    BY PutRunningOrderProper
  <2> QED BY <1>a, <2>1, <2>2, <2>3
<1>2. CASE t.do = "put"
  <2>1. Seen(m, t) = Put(m, t)
    BY <1>2 DEF Seen
  <2> QED BY <1>2, <2>1, PutProper
<1>3. CASE t.do = "clear"
  <2>1. Seen(m, t) = ClearRunningOrder(m, t)
    BY <1>3 DEF Seen
  <2>2. t.ro \in ROs /\ (Keyed => t.ro = r)
    BY <1>0, <1>3 DEF TaskOK, Inside
  <2>3. Setting(m, t.ro, ros \cup {t.ro}) => Proper(m, ClearRunningOrder(m, t), t.ro, ros \cup {t.ro})
    BY ClearProper
  <2> QED BY <1>a, <2>1, <2>2, <2>3
<1>4. CASE t.do = "dropStory"
  <2>1. Seen(m, t) = DropStory(m, t)
    BY <1>4 DEF Seen
  <2>2. Keyed => Inner(t.key, r)
    BY <1>0, <1>4 DEF Inside
  <2> QED BY <2>1, <2>2, DropProper
<1>5. CASE t.do = "onAir"
  <2>1. Seen(m, t) = MoveOnAirPointer(m, t)
    BY <1>5 DEF Seen
  <2>2. t.ro \in ROs /\ StoryKeyOf(t.key, t.ro) /\ (Keyed => t.ro = r /\ Len(t.key) = 2)
    BY <1>0, <1>5 DEF TaskOK, Inside, Inner
  <2>3. Setting(m, t.ro, ros \cup {t.ro}) => Proper(m, MoveOnAirPointer(m, t), t.ro, ros \cup {t.ro})
    BY <2>2, OnAirProper
  <2> QED BY <1>a, <2>1, <2>2, <2>3
<1>6. ASSUME t.do \in {"shift", "renumber"}
      PROVE  \E q \in ROs : (Keyed => q = r) /\ Owned(m, t.repo, t.owner, q)
  <2>1. /\ t.repo \in {"story", "item"} /\ (t.repo = "story" => t.owner \in ROs)
        /\ Keyed => IF t.repo = "story" THEN t.owner = r ELSE Inner(t.owner, r)
    BY <1>0, <1>6 DEF TaskOK, Inside
  <2>2. CASE t.repo = "story"
    BY <2>1, <2>2, StoriesOwned
  <2>3. CASE t.repo = "item"
    BY <1>0, <2>1, <2>3, ItemsOwned
  <2> QED BY <2>1, <2>2, <2>3
<1>7. CASE t.do = "shift"
  <2>1. Seen(m, t) = Shifted(m, t.repo, ListOf(m, t.repo, t.owner), t.position, t.by)
    BY <1>7 DEF Seen, Shift
  <2>2. t.repo \in {"story", "item"} /\ t.by \in Nat
    BY <1>0, <1>7 DEF TaskOK
  <2>3. PICK q \in ROs : (Keyed => q = r) /\ Owned(m, t.repo, t.owner, q)
    BY <1>6, <1>7
  <2>4. Setting(m, q, ros \cup {q}) => Proper(m, Seen(m, t), q, ros \cup {q})
    BY <2>1, <2>2, <2>3, ShiftedProper
  <2> QED BY <1>a, <2>3, <2>4
<1>8. CASE t.do = "renumber"
  <2>1. Seen(m, t) = Renumber(m, t)
    BY <1>8 DEF Seen
  <2>2. t.repo \in {"story", "item"}
    BY <1>0, <1>8 DEF TaskOK
  <2>3. PICK q \in ROs : (Keyed => q = r) /\ Owned(m, t.repo, t.owner, q)
    BY <1>6, <1>8
  <2>4. Setting(m, q, ros \cup {q}) => Proper(m, Seen(m, t), q, ros \cup {q})
    BY <2>1, <2>2, <2>3, RenumberProper
  <2> QED BY <1>a, <2>3, <2>4
<1> QED BY <1>1, <1>2, <1>3, <1>4, <1>5, <1>7, <1>8 DEF ReadTasks

\* What a message does once its first read is done.
LEMMA MessageProper ==
    ASSUME NEW m, NEW ros, NEW op \in Messages, Setting(m, op.ro, ros), NEW t, t.op = op, t.do \in MessageTasks,
           op.kind = t.do \/ (t.do = "NEW" /\ op.kind = "REPLACE")
    PROVE  /\ Answered(m, Seen(m, t), op.ro, ros)
           /\ t.do = "NEW" => Proper(m, Seen(m, t), op.ro, ros)
<1> DEFINE r == op.ro
<1> USE DEF ItemEdits, Sends
<1>1. CASE t.do \in {"roMetadataReplace", "roReadyToAir", "RO status"}
  <2>1. \/ Seen(m, t) = ReplaceMetadata(m, op) \/ Seen(m, t) = SetReadyToAir(m, op)
        \/ Seen(m, t) = applyROStatus(m, op)
    BY <1>1 DEF Seen, ProcessElementStatus
  <2> QED BY <2>1, FieldsProper DEF Answered
<1>2. CASE t.do \in {"PLAY", "STOP"}
  <2>1. Seen(m, t) = applyStoryStatus(m, op) /\ op.kind \in {"PLAY", "STOP"}
    BY <1>2 DEF Seen, ProcessElementStatus
  <2>2. op.story \in Nat
    BY <2>1, MessageFacts
  <2> QED BY <2>1, <2>2, StoryStatusProper DEF Answered
<1>3. CASE t.do = "ITEM status"
  <2>1. Seen(m, t) = applyItemStatus(m, op) /\ op.kind = "ITEM status"
    BY <1>3 DEF Seen, ProcessElementStatus
  <2>2. op.story \in Nat /\ op.item \in Nat
    BY <2>1, MessageFacts
  <2> QED BY <2>1, <2>2, ItemStatusProper DEF Answered
<1>4. CASE t.do \in {"roCtrl", "roItemCue"}
  <2>1. Seen(m, t) = ProcessROCtrl(m, op) \/ Seen(m, t) = ProcessROItemCue(m, op)
    BY <1>4 DEF Seen
  <2> QED BY <2>1, EchoProper DEF Answered
<1>5. CASE t.do = "roStorySend"
  <2>1. Seen(m, t) = ProcessROStorySend(m, op) /\ op.kind = "roStorySend"
    BY <1>5 DEF Seen
  <2>2. op.send.id \in Nat /\ Elements(op.send.items)
    BY <2>1, MessageFacts
  <2> QED BY <2>1, <2>2, StorySendProper DEF Answered
<1>6. CASE t.do = "NEW"
  <2>1. Seen(m, t) = createNewStory(m, op) /\ op.kind \in {"NEW", "REPLACE"}
    BY <1>6 DEF Seen
  <2>2. op.send.id \in Nat /\ Elements(op.send.items)
    BY <2>1, MessageFacts
  <2>3. ~Keyed
    BY <2>1 DEF Keyed, KeyedMessages
  <2> QED BY <2>1, <2>2, <2>3, NewStoryProper DEF Answered
<1>7. CASE t.do = "UPDATE"
  <2>1. Seen(m, t) = updateStory(m, op) /\ op.kind = "UPDATE"
    BY <1>7 DEF Seen
  <2>2. op.send.id \in Nat /\ Elements(op.send.items)
    BY <2>1, MessageFacts
  <2> QED BY <2>1, <2>2, UpdateStoryProper DEF Answered
<1>8. CASE t.do = "mosItemReplace"
  <2>1. Seen(m, t) = ReplaceItemInStory(m, op) /\ op.kind = "mosItemReplace"
    BY <1>8 DEF Seen
  <2>2. op.story \in Nat /\ Elements(op.list) /\ op.list # << >>
    BY <2>1, MessageFacts
  <2> QED BY <2>1, <2>2, ItemReplaceProper DEF Answered
<1>9. CASE t.do = "INSERT stories"
  <2>1. Seen(m, t) = InsertStories(m, op) /\ op.kind = "INSERT stories"
    BY <1>9 DEF Seen
  <2>2. op.target \in Nat /\ Rosters(op.list)
    BY <2>1, MessageFacts
  <2> QED BY <2>1, <2>2, InsertStoriesProper DEF Answered
<1>10. CASE t.do = "INSERT items"
  <2>1. Seen(m, t) = InsertItems(m, op) /\ op.kind = "INSERT items"
    BY <1>10 DEF Seen
  <2>2. op.story \in Nat /\ op.target \in Nat /\ Elements(op.list)
    BY <2>1, MessageFacts
  <2> QED BY <2>1, <2>2, InsertItemsProper DEF Answered
<1>11. CASE t.do = "REPLACE stories"
  <2>1. Seen(m, t) = ReplaceStories(m, op) /\ op.kind = "REPLACE stories"
    BY <1>11 DEF Seen
  <2>2. op.target \in Nat /\ Rosters(op.list)
    BY <2>1, MessageFacts
  <2> QED BY <2>1, <2>2, ReplaceStoriesProper DEF Answered
<1>12. CASE t.do = "REPLACE items"
  <2>1. Seen(m, t) = ReplaceItems(m, op) /\ op.kind = "REPLACE items"
    BY <1>12 DEF Seen
  <2>2. op.story \in Nat /\ op.target \in Nat /\ Elements(op.list)
    BY <2>1, MessageFacts
  <2>3. ~Keyed
    BY <2>1 DEF Keyed, KeyedMessages
  <2> QED BY <2>1, <2>2, <2>3, ReplaceItemsProper DEF Answered
<1>13. CASE t.do = "MOVE stories"
  <2>1. Seen(m, t) = MoveStories(m, op)
    BY <1>13 DEF Seen
  <2> QED BY <1>13, <2>1, MoveStoriesProper DEF Answered
<1>14. CASE t.do = "MOVE items"
  <2>1. Seen(m, t) = MoveItems(m, op)
    BY <1>14 DEF Seen
  <2> QED BY <1>14, <2>1, MoveItemsProper DEF Answered
<1>15. CASE t.do = "DELETE stories"
  <2>1. Seen(m, t) = DeleteStories(m, op) /\ op.kind = "DELETE stories"
    BY <1>15 DEF Seen
  <2>2. IDList(op.ids)
    BY <2>1, MessageFacts
  <2> QED BY <2>1, <2>2, DeleteStoriesProper DEF Answered
<1>16. CASE t.do = "DELETE items"
  <2>1. Seen(m, t) = DeleteItems(m, op) /\ op.kind = "DELETE items"
    BY <1>16 DEF Seen
  <2>2. op.story \in Nat /\ IDList(op.ids)
    BY <2>1, MessageFacts
  <2> QED BY <2>1, <2>2, DeleteItemsProper DEF Answered
<1>17. CASE t.do = "SWAP stories"
  <2>1. Seen(m, t) = SwapStories(m, op) /\ op.kind = "SWAP stories"
    BY <1>17 DEF Seen
  <2>2. IDList(op.ids) /\ Len(op.ids) = 2
    BY <2>1, MessageFacts
  <2> QED BY <2>1, <2>2, SwapProper DEF Answered
<1>18. CASE t.do = "SWAP items"
  <2>1. Seen(m, t) = SwapItems(m, op) /\ op.kind = "SWAP items"
    BY <1>18 DEF Seen
  <2>2. op.story \in Nat /\ IDList(op.ids) /\ Len(op.ids) = 2
    BY <2>1, MessageFacts
  <2> QED BY <2>1, <2>2, SwapProper DEF Answered
<1>19. t.do \in {"roMetadataReplace", "roReadyToAir", "RO status", "PLAY", "STOP", "ITEM status",
                 "roCtrl", "roItemCue", "roStorySend", "NEW", "UPDATE", "mosItemReplace",
                 "INSERT stories", "INSERT items", "REPLACE stories", "REPLACE items", "MOVE stories",
                 "MOVE items", "DELETE stories", "DELETE items", "SWAP stories", "SWAP items"}
  BY DEF MessageTasks, Kinds, Whole, Fields, StoryEdits, Wire
<1> QED BY <1>1, <1>2, <1>3, <1>4, <1>5, <1>6, <1>7, <1>8, <1>9, <1>10, <1>11, <1>12, <1>13, <1>14,
           <1>15, <1>16, <1>17, <1>18, <1>19

\* What follows from any read but the first stays within the running order.
LEMMA SeenProper ==
    ASSUME NEW m, NEW r, NEW ros, Setting(m, r, ros), NEW t, TaskOf(m, t, r, ros), t.do \notin Calls \cup {"refuse"}
    PROVE  Proper(m, Seen(m, t), r, ros)
<1>0. TaskOK(t)
  BY DEF TaskOf
<1>1. CASE t.do \in ReadTasks
  BY <1>1, ReadProper
<1>2. CASE t.do = "NEW"
  <2> DEFINE op == t.op
             q == op.ro
  <2>1. op \in Messages /\ op.kind \in {"NEW", "REPLACE"}
    BY <1>0, <1>2 DEF TaskOK
  <2>2. q \in ROs /\ ~Keyed
    BY <2>1, MessageFacts DEF Keyed, KeyedMessages
  <2>3. t.do \in MessageTasks
    BY <1>2 DEF MessageTasks, Kinds, Sends, Whole
  <2>4. Setting(m, q, ros \cup {q})
    BY <2>2, OwnOrder
  <2>5. Proper(m, Seen(m, t), q, ros \cup {q})
    BY <1>2, <2>1, <2>3, <2>4, MessageProper
  <2> QED BY <2>2, <2>5, ProperAny
<1> QED BY <1>0, <1>1, <1>2 DEF TaskOK

\* What follows from the first read stays within the running order, or asks
\* for a resynchronisation.
LEMMA FirstReadAnswered ==
    ASSUME NEW m, NEW ros, NEW op \in Messages, Setting(m, op.ro, ros), op.kind \in MessageTasks
    PROVE  Answered(m, Seen(m, Unread(op)[1]) \o Tail(Unread(op)), op.ro, ros)
<1> DEFINE t == [do |-> op.kind, op |-> op]
<1>1. Unread(op) = <<t>>
  BY DEF Unread
<1>2. t.do = op.kind /\ t.op = op
  OBVIOUS
<1> HIDE DEF t
<1>3. Unread(op)[1] = t /\ Tail(Unread(op)) = << >>
  BY <1>1
<1>4. Answered(m, Seen(m, t), op.ro, ros)
  BY <1>2, MessageProper
<1>5. IsList(Seen(m, t))
  <2>1. IsList(Refuse("RESYNC"))
    BY DEF Refuse, IsList, ToSet
  <2> QED BY <1>4, <2>1 DEF Answered, Proper
<1>6. Seen(m, t) \o << >> = Seen(m, t)
  BY <1>5, ConcatEmptySeq DEF IsList
<1> QED BY <1>3, <1>4, <1>6

-----------------------------------------------------------------------------
(* What a repository call leaves.                                          *)

\* A store has three finite tables of storable records.
LEMMA TableNames ==
    ASSUME NEW m, Consistent(m)
    PROVE  /\ DOMAIN m = {"ro", "story", "item"}
           /\ \A repo \in Tables : IsFiniteSet(DOMAIN m[repo]) /\ \A k \in DOMAIN m[repo] : Storable(repo, k, m[repo][k])
BY DEF Consistent, Tables

\* What may be stored is stored in one of the tables.
LEMMA StorableTable ==
    ASSUME NEW repo, NEW key, NEW rec, Storable(repo, key, rec)
    PROVE  repo \in Tables
BY DEF Storable, Tables

\* What a repository call leaves in each table.
LEMMA WrittenFacts ==
    ASSUME NEW m, Consistent(m), NEW t, t.repo \in Tables
    PROVE  LET n == Written(m, t)
           IN  /\ DOMAIN n = {"ro", "story", "item"}
               /\ \A x \in Tables : x # t.repo => n[x] = m[x]
               /\ t.do = "delete" => /\ DOMAIN n[t.repo] = DOMAIN m[t.repo] \ t.keys
                                     /\ \A k \in DOMAIN n[t.repo] : n[t.repo][k] = m[t.repo][k]
               /\ t.do # "delete" => /\ DOMAIN n[t.repo] = DOMAIN m[t.repo] \cup {t.key}
                                     /\ n[t.repo][t.key] = t.rec
                                     /\ \A k \in DOMAIN m[t.repo] : k # t.key => n[t.repo][k] = m[t.repo][k]
<1> DEFINE old == m[t.repo]
           new == IF t.do = "delete" THEN Restricted(old, DOMAIN old \ t.keys)
                  ELSE [k \in DOMAIN old \cup {t.key} |-> IF k = t.key THEN t.rec ELSE old[k]]
           n == Written(m, t)
<1>1. n = [m EXCEPT ![t.repo] = new]
  BY DEF Written
<1>2. DOMAIN m = {"ro", "story", "item"}
  BY TableNames
<1>3. /\ t.do = "delete" => /\ DOMAIN new = DOMAIN old \ t.keys
                            /\ \A k \in DOMAIN new : new[k] = old[k]
      /\ t.do # "delete" => /\ DOMAIN new = DOMAIN old \cup {t.key}
                            /\ new[t.key] = t.rec
                            /\ \A k \in DOMAIN old : k # t.key => new[k] = old[k]
  BY DEF Restricted
<1> HIDE DEF n, new
<1>4. DOMAIN n = DOMAIN m /\ n[t.repo] = new /\ \A x \in Tables : x # t.repo => n[x] = m[x]
  BY <1>1, <1>2 DEF Tables
<1>5. /\ t.do = "delete" => /\ DOMAIN n[t.repo] = DOMAIN m[t.repo] \ t.keys
                            /\ \A k \in DOMAIN n[t.repo] : n[t.repo][k] = m[t.repo][k]
      /\ t.do # "delete" => /\ DOMAIN n[t.repo] = DOMAIN m[t.repo] \cup {t.key}
                            /\ n[t.repo][t.key] = t.rec
                            /\ \A k \in DOMAIN m[t.repo] : k # t.key => n[t.repo][k] = m[t.repo][k]
  BY <1>3, <1>4
<1> QED BY <1>2, <1>4, <1>5 DEF n

\* A repository call names a table and, unless it deletes, what it stores.
LEMMA CallNames ==
    ASSUME NEW t, TaskOK(t), t.do \in Calls
    PROVE  /\ t.repo \in Tables
           /\ t.do # "delete" => Storable(t.repo, t.key, t.rec)
           /\ t.do \in {"create", "update", "delete"}
BY StorableTable DEF TaskOK, Calls

\* A repository call leaves records of their kind under keys of their kind.
LEMMA WrittenConsistent ==
    ASSUME NEW m, Consistent(m), NEW t, TaskOK(t), t.do \in Calls
    PROVE  Consistent(Written(m, t))
<1> DEFINE n == Written(m, t)
<1>1. t.repo \in Tables /\ (t.do # "delete" => Storable(t.repo, t.key, t.rec))
  BY CallNames
<1>2. /\ DOMAIN n = {"ro", "story", "item"}
      /\ \A x \in Tables : x # t.repo => n[x] = m[x]
      /\ t.do = "delete" => /\ DOMAIN n[t.repo] = DOMAIN m[t.repo] \ t.keys
                            /\ \A k \in DOMAIN n[t.repo] : n[t.repo][k] = m[t.repo][k]
      /\ t.do # "delete" => /\ DOMAIN n[t.repo] = DOMAIN m[t.repo] \cup {t.key}
                            /\ n[t.repo][t.key] = t.rec
                            /\ \A k \in DOMAIN m[t.repo] : k # t.key => n[t.repo][k] = m[t.repo][k]
  BY <1>1, WrittenFacts
<1> HIDE DEF n
<1>3. ASSUME NEW x \in Tables PROVE IsFiniteSet(DOMAIN n[x])
  <2>1. IsFiniteSet(DOMAIN m[x]) /\ IsFiniteSet(DOMAIN m[t.repo])
    BY <1>1, TableNames
  <2>2. IsFiniteSet(DOMAIN m[t.repo] \cup {t.key})
    BY <2>1, FS_AddElement
  <2>3. IsFiniteSet(DOMAIN m[t.repo] \ t.keys)
    BY <2>1, FS_Subset
  <2> QED BY <1>2, <2>1, <2>2, <2>3
<1>4. ASSUME NEW x \in Tables, NEW k \in DOMAIN n[x] PROVE Storable(x, k, n[x][k])
  <2>1. \A l \in DOMAIN m[x] : Storable(x, l, m[x][l])
    BY TableNames
  <2> QED BY <1>1, <1>2, <2>1
<1>5. Consistent(n)
  BY <1>2, <1>3, <1>4 DEF Consistent, Tables
<1> QED BY <1>5 DEF n

\* With composite keys only, a call leaves no story under a wire identifier.
LEMMA WrittenKeyed ==
    ASSUME Keyed, NEW m, Consistent(m), KeyedStore(m), NEW t, NEW r, NEW ros, TaskOf(m, t, r, ros), t.do \in Calls
    PROVE  KeyedStore(Written(m, t))
<1> DEFINE n == Written(m, t)
<1>1. t.repo \in Tables /\ t.do \in {"create", "update", "delete"}
  BY CallNames DEF TaskOf
<1>2. /\ \A x \in Tables : x # t.repo => n[x] = m[x]
      /\ t.do = "delete" => /\ DOMAIN n[t.repo] = DOMAIN m[t.repo] \ t.keys
                            /\ \A k \in DOMAIN n[t.repo] : n[t.repo][k] = m[t.repo][k]
      /\ t.do # "delete" => /\ DOMAIN n[t.repo] = DOMAIN m[t.repo] \cup {t.key}
                            /\ n[t.repo][t.key] = t.rec
                            /\ \A k \in DOMAIN m[t.repo] : k # t.key => n[t.repo][k] = m[t.repo][k]
  BY <1>1, WrittenFacts
<1>3. InsideCall(m, t, r, ros)
  BY DEF TaskOf, Inside
<1> HIDE DEF n
<1>4. \A k \in DOMAIN n.story : Len(k) = 2
  <2>1. CASE t.repo # "story"
    BY <1>2, <2>1 DEF Tables, KeyedStore
  <2>2. CASE t.repo = "story" /\ t.do = "delete"
    BY <1>2, <2>2 DEF KeyedStore
  <2>3. CASE t.repo = "story" /\ t.do # "delete"
    <3>1. Len(t.key) = 2
      BY <1>1, <1>3, <2>3 DEF InsideCall, Inner
    <3> QED BY <1>2, <2>3, <3>1 DEF KeyedStore
  <2> QED BY <2>1, <2>2, <2>3
<1>5. \A k \in DOMAIN n.item : Len(n.item[k].story) = 2
  <2>1. CASE t.repo # "item"
    BY <1>2, <2>1 DEF Tables, KeyedStore
  <2>2. CASE t.repo = "item" /\ t.do = "delete"
    BY <1>2, <2>2 DEF KeyedStore
  <2>3. CASE t.repo = "item" /\ t.do # "delete"
    <3>1. Len(t.rec.story) = 2
      BY <1>1, <1>3, <2>3 DEF InsideCall, Inner, KeyedStore
    <3> QED BY <1>2, <2>3, <3>1 DEF KeyedStore
  <2> QED BY <2>1, <2>2, <2>3
<1>6. \A k \in DOMAIN n.ro : Len(n.ro[k].onAir) # 1
  <2>1. CASE t.repo # "ro"
    BY <1>2, <2>1 DEF Tables, KeyedStore
  <2>2. CASE t.repo = "ro" /\ t.do = "delete"
    BY <1>2, <2>2 DEF KeyedStore
  <2>3. CASE t.repo = "ro" /\ t.do # "delete"
    <3>1. Len(t.rec.onAir) # 1
      BY <1>1, <1>3, <2>3 DEF InsideCall
    <3> QED BY <1>2, <2>3, <3>1 DEF KeyedStore
  <2> QED BY <2>1, <2>2, <2>3
<1>7. KeyedStore(n)
  BY <1>4, <1>5, <1>6 DEF KeyedStore
<1> QED BY <1>7 DEF n

\* takeSnapshot keeps the stories of the listed running orders and the items
\* of those stories, as they are.
LEMMA ListingFacts ==
    ASSUME NEW m, NEW ros
    PROVE  LET n == Listing(m, ros)
           IN  /\ DOMAIN n = {"ro", "story", "item"} /\ n.ro = ros
               /\ DOMAIN n.story \subseteq DOMAIN m.story /\ DOMAIN n.item \subseteq DOMAIN m.item
               /\ \A k \in DOMAIN n.story : n.story[k] = m.story[k]
               /\ \A k \in DOMAIN n.item : n.item[k] = m.item[k]
               /\ \A k \in DOMAIN m.story : k \in DOMAIN n.story <=> m.story[k].ro \in DOMAIN ros
               /\ \A k \in DOMAIN m.item : k \in DOMAIN n.item <=> m.item[k].story \in DOMAIN n.story
BY DEF Listing, Restricted

\* A listing is a store.
LEMMA ListingConsistent ==
    ASSUME NEW m, Consistent(m), NEW o, Consistent(o)
    PROVE  Consistent(Listing(m, o.ro))
<1> DEFINE n == Listing(m, o.ro)
<1>1. /\ DOMAIN n = {"ro", "story", "item"} /\ n.ro = o.ro
      /\ DOMAIN n.story \subseteq DOMAIN m.story /\ DOMAIN n.item \subseteq DOMAIN m.item
      /\ \A k \in DOMAIN n.story : n.story[k] = m.story[k]
      /\ \A k \in DOMAIN n.item : n.item[k] = m.item[k]
  BY ListingFacts
<1> HIDE DEF n
<1>2. /\ IsFiniteSet(DOMAIN o.ro) /\ IsFiniteSet(DOMAIN m.story) /\ IsFiniteSet(DOMAIN m.item)
      /\ \A k \in DOMAIN o.ro : Storable("ro", k, o.ro[k])
      /\ \A k \in DOMAIN m.story : Storable("story", k, m.story[k])
      /\ \A k \in DOMAIN m.item : Storable("item", k, m.item[k])
  BY TableNames DEF Tables
<1>3. IsFiniteSet(DOMAIN n.story) /\ IsFiniteSet(DOMAIN n.item)
  BY <1>1, <1>2, FS_Subset
<1>4. Consistent(n)
  BY <1>1, <1>2, <1>3 DEF Consistent, Tables
<1> QED BY <1>4 DEF n

\* A listing has no story under a wire identifier if the store has none.
LEMMA ListingKeyed ==
    ASSUME NEW m, KeyedStore(m), NEW o, KeyedStore(o)
    PROVE  KeyedStore(Listing(m, o.ro))
BY ListingFacts DEF KeyedStore

\* The empty store is a store.
LEMMA EmptyStore == Consistent(Empty) /\ KeyedStore(Empty)
<1>1. /\ DOMAIN Empty = {"ro", "story", "item"}
      /\ DOMAIN Empty.ro = {} /\ DOMAIN Empty.story = {} /\ DOMAIN Empty.item = {}
  BY DEF Empty
<1>2. \A x \in Tables : DOMAIN Empty[x] = {}
  BY <1>1 DEF Tables
<1> QED BY <1>1, <1>2, FS_EmptySet DEF Consistent, KeyedStore, Tables

-----------------------------------------------------------------------------

\* A task of one message stays inside when another message writes.
LEMMA TaskStable ==
    ASSUME NEW m, Consistent(m), Keyed => KeyedStore(m), NEW ros, NEW q \in ros, NEW call, TaskOf(m, call, q, ros), call.do \in Calls,
           ~Refused(m, call), NEW t, NEW r, TaskOf(m, t, r, ros)
    PROVE  TaskOf(Written(m, call), t, r, ros)
<1> DEFINE n == Written(m, call)
<1>1. call.repo \in Tables /\ call.do \in {"create", "update", "delete"}
  BY CallNames DEF TaskOf
<1>2. /\ \A x \in Tables : x # call.repo => n[x] = m[x]
      /\ call.do = "delete" => /\ DOMAIN n[call.repo] = DOMAIN m[call.repo] \ call.keys
                            /\ \A k \in DOMAIN n[call.repo] : n[call.repo][k] = m[call.repo][k]
      /\ call.do # "delete" => /\ DOMAIN n[call.repo] = DOMAIN m[call.repo] \cup {call.key}
                            /\ n[call.repo][call.key] = call.rec
                            /\ \A k \in DOMAIN m[call.repo] : k # call.key => n[call.repo][k] = m[call.repo][k]
  BY <1>1, WrittenFacts
<1> HIDE DEF n
<1>3. SUFFICES ASSUME Keyed PROVE InsideCall(n, t, r, ros)
  BY DEF TaskOf, Inside, n
<1>4. InsideCall(m, call, q, ros) /\ InsideCall(m, t, r, ros)
  BY <1>3 DEF TaskOf, Inside
<1>5. ASSUME NEW k \in DOMAIN n.item
      PROVE  \/ k \in DOMAIN m.item /\ n.item[k] = m.item[k]
             \/ n.item[k].story[1] \in ros /\ (k \in DOMAIN m.item => m.item[k].story[1] \in ros)
  <2>1. CASE call.repo # "item"
    BY <1>2, <2>1 DEF Tables
  <2>2. CASE call.repo = "item" /\ call.do = "delete"
    BY <1>2, <2>2
  <2>3. CASE call.repo = "item" /\ call.do # "delete"
    <3>1. CASE k # call.key
      BY <1>2, <2>3, <3>1
    <3>2. CASE k = call.key
      <4>1. n.item[k] = call.rec
        BY <1>2, <2>3, <3>2
      <4>2. call.do = "create" => k \notin DOMAIN m.item
        BY <2>3, <3>2 DEF Refused
      <4> QED BY <1>1, <1>4, <2>3, <3>2, <4>1, <4>2 DEF InsideCall, Inner
    <3> QED BY <3>1, <3>2
  <2> QED BY <2>1, <2>2, <2>3
<1>6. ASSUME NEW k \in DOMAIN m.item, k \notin DOMAIN n.item PROVE m.item[k].story[1] \in ros
  <2>1. call.repo = "item" /\ call.do = "delete" /\ k \in call.keys
    BY <1>2, <1>6 DEF Tables
  <2> QED BY <1>4, <2>1 DEF InsideCall
<1>7. ASSUME t.do \in {"create", "update"}, t.repo = "item"
      PROVE  \/ /\ Inner(t.rec.story, r) \/ (Len(t.rec.story) = 2 /\ t.rec.story[1] \in ros)
                /\ t.do = "update" /\ t.key \in DOMAIN n.item => n.item[t.key].story[1] \in ros
             \/ t.do = "update" /\ t.key \in DOMAIN n.item /\ n.item[t.key] = t.rec
  <2>1. CASE /\ Inner(t.rec.story, r) \/ (Len(t.rec.story) = 2 /\ t.rec.story[1] \in ros)
             /\ t.do = "update" /\ t.key \in DOMAIN m.item => m.item[t.key].story[1] \in ros
    BY <1>5, <2>1
  <2>2. CASE t.do = "update" /\ t.key \in DOMAIN m.item /\ m.item[t.key] = t.rec
    <3>1. CASE t.key \in DOMAIN n.item /\ n.item[t.key] = m.item[t.key]
      BY <2>2, <3>1
    <3>2. CASE ~(t.key \in DOMAIN n.item /\ n.item[t.key] = m.item[t.key])
      <4>1. m.item[t.key].story[1] \in ros
        BY <1>5, <1>6, <2>2, <3>2
      <4>2. t.key \in DOMAIN n.item => n.item[t.key].story[1] \in ros
        BY <1>5, <3>2
      <4>3. Len(t.rec.story) = 2
        BY <2>2, <1>3 DEF KeyedStore
      <4> QED BY <2>2, <4>1, <4>2, <4>3
    <3> QED BY <3>1, <3>2
  <2> QED BY <1>4, <1>7, <2>1, <2>2 DEF InsideCall
<1>8. ASSUME t.do = "delete", t.repo = "item", NEW k \in t.keys \cap DOMAIN n.item
      PROVE  n.item[k].story[1] \in ros
  BY <1>4, <1>5, <1>8 DEF InsideCall
<1>9. /\ t.do \in {"create", "update"} =>
          /\ t.repo = "ro" => t.key = r /\ Len(t.rec.onAir) # 1
          /\ t.repo = "story" => Inner(t.key, r)
      /\ t.do = "delete" =>
          /\ t.repo = "ro" => t.keys = {r}
          /\ t.repo = "story" => \A k \in t.keys : Len(k) = 2 => k[1] = r
  BY <1>4 DEF InsideCall
<1> QED BY <1>7, <1>8, <1>9 DEF InsideCall

\* A task that stays within the running orders of the messages in hand does
\* so when more messages come.
LEMMA TaskGrows ==
    ASSUME NEW m, NEW t, NEW r, NEW ros, NEW more, ros \subseteq more, TaskOf(m, t, r, ros)
    PROVE  TaskOf(m, t, r, more)
<1>1. CASE ~Keyed
  BY <1>1 DEF TaskOf
<1>2. CASE Keyed
  <2>1. InsideCall(m, t, r, ros)
    BY <1>2 DEF TaskOf, Inside
  <2>2. InsideCall(m, t, r, more)
    BY <2>1 DEF InsideCall
  <2> QED BY <1>2, <2>2 DEF TaskOf, Inside
<1> QED BY <1>1, <1>2

-----------------------------------------------------------------------------
(* The service.                                                            *)

\* Every worker that saves has a message, and busy is what the workers that
\* have one began with.
Occupied ==
    /\ \A w \in Workers : saving[w] # "no" => Working(w)
    /\ (busy = << >>) <=> (\A w \in Workers : ~Working(w))
    /\ busy \in Seq(Messages)

Counted == sent \in 0 .. MaxOps

ServiceInv == JobType /\ JobsInOrder /\ Alone /\ StoresInOrder /\ Occupied /\ Counted

\* Another message in hand.
LEMMA NamedGrows ==
    ASSUME NEW old, NEW op \in Messages, old \in Seq(Messages)
    PROVE  /\ Append(old, op) \in Seq(Messages) /\ Append(old, op) # << >>
           /\ Promise!NamedBy(old) \subseteq Promise!NamedBy(Append(old, op))
           /\ op.ro \in Promise!NamedBy(Append(old, op))
           /\ Len(Append(old, op)) = 1 => old = << >> /\ Append(old, op)[1] = op
<1> DEFINE new == Append(old, op)
<1>1. /\ new \in Seq(Messages) /\ Len(old) \in Nat /\ Len(new) = Len(old) + 1 /\ new[Len(old) + 1] = op
      /\ \A n \in 1 .. Len(old) : new[n] = old[n]
  BY AppendProperties
<1> HIDE DEF new
<1>2. new # << >>
  BY <1>1
<1>3. Promise!NamedBy(old) \subseteq Promise!NamedBy(new)
  BY <1>1 DEF Promise!NamedBy
<1>4. op.ro \in Promise!NamedBy(new)
  BY <1>1 DEF Promise!NamedBy
<1>5. Len(new) = 1 => old = << >> /\ new[1] = op
  BY <1>1, EmptySeq
<1> QED BY <1>1, <1>2, <1>3, <1>4, <1>5 DEF new

\* A worker with a message is not idle.
LEMMA IdleFacts ==
    ASSUME NEW j
    PROVE  /\ j.op \in Messages => j # Idle
           /\ Idle.todo = << >>
BY ServiceAssumption DEF Idle

\* The service starts in order.
LEMMA ServiceInit == Init => ServiceInv
<1> SUFFICES ASSUME Init PROVE ServiceInv
  OBVIOUS
<1>1. /\ job = [w \in Workers |-> Idle] /\ sent = 0 /\ busy = << >>
      /\ mem = Held /\ disk = Snapshot(Held) /\ image = Empty
      /\ saving = [w \in Workers |-> "no"]
  BY DEF Init, StoreInit
<1>2. \A w \in Workers : ~Working(w)
  BY <1>1 DEF Working
<1>3. Consistent(Held) /\ MaxOps \in Nat
  BY ServiceAssumption
<1>4. Consistent(disk) /\ (Keyed => KeyedStore(disk))
  BY <1>1, <1>3, ListingConsistent, ListingKeyed DEF Snapshot, Keyed
<1>5. StoresInOrder
  BY <1>1, <1>3, <1>4, EmptyStore DEF StoresInOrder, Keyed
<1>6. JobType /\ JobsInOrder /\ Alone /\ Counted
  BY <1>1, <1>2, <1>3 DEF JobType, JobsInOrder, Alone, Counted
<1>7. Occupied
  BY <1>1, <1>2 DEF Occupied
<1> QED BY <1>5, <1>6, <1>7 DEF ServiceInv

\* A worker goes on with other tasks.
LEMMA GoesOn ==
    ASSUME ServiceInv, NEW w \in Workers, Working(w), NEW tasks, Left(w, tasks),
           UNCHANGED <<sent, busy, since>>,
           Doing(mem', tasks, job[w].op, busy, since),
           \A v \in Workers \ {w} : Working(v) => Doing(mem', job[v].todo, job[v].op, busy, since),
           \A v \in Workers : saving'[v] # "no" => v = w \/ saving[v] # "no",
           StoresInOrder'
    PROVE  ServiceInv'
<1>1. job' = [job EXCEPT ![w] = [job[w] EXCEPT !.todo = tasks]] /\ DOMAIN job = Workers
  BY DEF Left, ServiceInv, JobType
<1>2. DOMAIN job' = Workers /\ \A v \in Workers \ {w} : job'[v] = job[v]
  BY <1>1
<1>3. job[w].op \in Messages /\ DOMAIN job[w] = {"op", "todo"} /\ job[w].op.ro \in Named
  BY DEF ServiceInv, JobsInOrder
<1>4. job'[w] = [job[w] EXCEPT !.todo = tasks]
  BY <1>1
<1>5. job'[w].op = job[w].op /\ job'[w].todo = tasks /\ DOMAIN job'[w] = {"op", "todo"}
  BY <1>3, <1>4
<1>6. job'[w] # Idle
  BY <1>3, <1>5, IdleFacts
<1>7. \A v \in Workers : Working(v)' <=> Working(v)
  BY <1>2, <1>6 DEF Working
<1>8. Named' = Named
  BY DEF Named
<1>9. JobsInOrder'
  <2> SUFFICES ASSUME NEW v \in Workers, Working(v)'
               PROVE  /\ job'[v].op \in Messages
                      /\ DOMAIN job'[v] = {"op", "todo"}
                      /\ job'[v].op.ro \in Named
                      /\ Doing(mem', job'[v].todo, job'[v].op, busy, since)
    BY <1>8 DEF JobsInOrder
  <2>1. CASE v = w
    BY <1>3, <1>5, <2>1
  <2>2. CASE v # w
    BY <1>2, <1>7, <2>2 DEF ServiceInv, JobsInOrder
  <2> QED BY <2>1, <2>2
<1>10. Occupied'
  BY <1>7 DEF ServiceInv, Occupied
<1>11. JobType' /\ Counted'
  BY <1>2 DEF JobType, ServiceInv, Counted
<1>12. Alone'
  BY <1>2, <1>5, <1>7 DEF ServiceInv, Alone
<1> QED BY <1>9, <1>10, <1>11, <1>12 DEF ServiceInv

\* A handler is entered.
LEMMA ReceiveKeeps ==
    ASSUME ServiceInv, NEW w \in Workers, NEW op \in Messages, Receive(w, op)
    PROVE  ServiceInv'
<1>1. /\ ~Working(w) /\ sent < Budget /\ sent' = sent + 1 /\ busy' = Append(busy, op)
      /\ job' = [job EXCEPT ![w] = [op |-> op, todo |-> Program(op)]]
      /\ UNCHANGED storeVars
      /\ busy = << >> => since' = View(mem)
  BY DEF Receive
<1>2. DOMAIN job = Workers /\ busy \in Seq(Messages)
  BY DEF ServiceInv, JobType, Occupied
<1>3. /\ DOMAIN job' = Workers /\ \A v \in Workers \ {w} : job'[v] = job[v]
      /\ job'[w] = [op |-> op, todo |-> Program(op)]
  BY <1>1, <1>2
<1>4. job'[w].op = op /\ job'[w].todo = Program(op) /\ DOMAIN job'[w] = {"op", "todo"}
  BY <1>3
<1>5. Working(w)' /\ \A v \in Workers \ {w} : Working(v)' <=> Working(v)
  BY <1>3, <1>4, IdleFacts DEF Working
<1>6. /\ busy' \in Seq(Messages) /\ busy' # << >> /\ Named \subseteq Named' /\ op.ro \in Named'
      /\ Len(busy') = 1 => busy = << >> /\ busy'[1] = op
  BY <1>1, <1>2, NamedGrows DEF Named
<1>7. mem' = mem /\ disk' = disk /\ image' = image /\ saving' = saving
  BY <1>1 DEF storeVars
<1>8. JobsInOrder'
  <2> SUFFICES ASSUME NEW v \in Workers, Working(v)'
               PROVE  /\ job'[v].op \in Messages
                      /\ DOMAIN job'[v] = {"op", "todo"}
                      /\ job'[v].op.ro \in Named'
                      /\ Doing(mem', job'[v].todo, job'[v].op, busy', since')
    BY DEF JobsInOrder
  <2>1. CASE v = w
    <3>1. \/ Proper(mem', Program(op), op.ro, Named')
          \/ Program(op) = Unread(op) /\ op.kind \in MessageTasks
      BY ProgramProper
    <3>2. Len(busy') = 1 => since' = View(mem')
      BY <1>1, <1>6, <1>7
    <3>3. Doing(mem', Program(op), op, busy', since')
      BY <3>1, <3>2 DEF Doing, Fresh, Named
    <3> QED BY <1>4, <1>6, <2>1, <3>3
  <2>2. CASE v # w
    <3>1. /\ job[v].op \in Messages /\ DOMAIN job[v] = {"op", "todo"} /\ job[v].op.ro \in Named
          /\ Doing(mem, job[v].todo, job[v].op, busy, since)
      BY <1>5, <2>2 DEF ServiceInv, JobsInOrder
    <3>2. Proper(mem, job[v].todo, job[v].op.ro, Named)
              => Proper(mem, job[v].todo, job[v].op.ro, Named')
      BY <1>6, TaskGrows DEF Proper
    <3>3. Len(busy') # 1
      BY <1>5, <1>6, <2>2 DEF ServiceInv, Occupied
    <3>4. Doing(mem', job[v].todo, job[v].op, busy', since')
      BY <1>7, <3>1, <3>2, <3>3 DEF Doing, Named
    <3> QED BY <1>3, <1>6, <2>2, <3>1, <3>4
  <2> QED BY <2>1, <2>2
<1>9. Occupied'
  BY <1>5, <1>6, <1>7 DEF ServiceInv, Occupied
<1>10. Counted'
  BY <1>1, ServiceAssumption DEF ServiceInv, Counted, Budget
<1>11. StoresInOrder'
  BY <1>7 DEF ServiceInv, StoresInOrder
<1>12. Alone'
  <2> SUFFICES ASSUME Len(busy') = 1, NEW u \in Workers, NEW v \in Workers, Working(u)', Working(v)'
               PROVE  u = v /\ job'[v].op = busy'[1]
    BY DEF Alone
  <2>1. u = w /\ v = w
    BY <1>5, <1>6 DEF ServiceInv, Occupied
  <2> QED BY <1>4, <1>6, <2>1
<1> QED BY <1>3, <1>8, <1>9, <1>10, <1>11, <1>12 DEF ServiceInv, JobType

\* What a worker with a message can rely on.
LEMMA Serves ==
    ASSUME ServiceInv, NEW w \in Workers, Working(w)
    PROVE  /\ job[w].op \in Messages /\ job[w].op.ro \in ROs /\ job[w].op.ro \in Named
           /\ Setting(mem, job[w].op.ro, Named)
           /\ Doing(mem, job[w].todo, job[w].op, busy, since)
<1>1. /\ job[w].op \in Messages /\ job[w].op.ro \in Named
      /\ Doing(mem, job[w].todo, job[w].op, busy, since)
  BY DEF ServiceInv, JobsInOrder
<1>2. Consistent(mem) /\ (Keyed => KeyedStore(mem))
  BY DEF ServiceInv, StoresInOrder
<1>3. job[w].op.ro \in ROs
  BY <1>1, MessageFacts
<1> QED BY <1>1, <1>2, <1>3 DEF Setting

\* The first task of a message that has changed nothing is neither a call
\* nor one of those that follow a read.
LEMMA FreshTask ==
    ASSUME NEW op \in Messages, NEW s, Fresh(s, op)
    PROVE  /\ s # << >> /\ s[1].do \notin Calls
           /\ s[1].do # "refuse" => s = Unread(op) /\ op.kind \in MessageTasks
<1>1. CASE s = Refuse("RESYNC")
  BY <1>1 DEF Refuse, Calls
<1>2. CASE s = Unread(op) /\ op.kind \in MessageTasks
  <2>1. s # << >> /\ s[1].do = op.kind
    BY <1>2 DEF Unread
  <2> QED BY <1>2, <2>1 DEF MessageTasks, Kinds, Whole, Fields, Sends, StoryEdits, ItemEdits, Wire, Calls
<1> QED BY <1>1, <1>2 DEF Fresh

\* The repository call a worker is at, and the tasks after it.
LEMMA AtCall ==
    ASSUME ServiceInv, NEW w \in Workers, At(w, Calls)
    PROVE  /\ Working(w) /\ job[w].todo # << >> /\ job[w].todo[1].do \in Calls
           /\ TaskOf(mem, job[w].todo[1], job[w].op.ro, Named)
           /\ Proper(mem, Tail(job[w].todo), job[w].op.ro, Named)
<1>1. Working(w) /\ job[w].todo # << >> /\ job[w].todo[1].do \in Calls
  BY DEF At
<1>2. job[w].op \in Messages /\ Doing(mem, job[w].todo, job[w].op, busy, since)
  BY <1>1, Serves
<1>3. Proper(mem, job[w].todo, job[w].op.ro, Named)
  BY <1>1, <1>2, FreshTask DEF Doing, Named
<1> QED BY <1>1, <1>3, ProperTail

\* A message whose tasks are in order.
LEMMA ProperDoing ==
    ASSUME NEW m, NEW s, NEW op, Proper(m, s, op.ro, Named)
    PROVE  Doing(m, s, op, busy, since)
BY DEF Doing, Named

\* A read from the repositories.
LEMMA ReadKeeps ==
    ASSUME ServiceInv, NEW w \in Workers, Read(w)
    PROVE  ServiceInv'
<1> DEFINE todo == job[w].todo
           tasks == Seen(mem, todo[1]) \o Tail(todo)
           op == job[w].op
<1>1. /\ Working(w) /\ todo # << >> /\ todo[1].do \notin Calls \cup {"refuse"}
      /\ Left(w, tasks) /\ UNCHANGED <<storeVars, sent, busy, since>>
  BY DEF Read, At
<1>2. mem' = mem /\ disk' = disk /\ image' = image /\ saving' = saving
  BY <1>1 DEF storeVars
<1>3. op \in Messages /\ Setting(mem, op.ro, Named) /\ Doing(mem, todo, op, busy, since)
  BY <1>1, Serves
<1> HIDE DEF todo, op
<1>4. ASSUME Proper(mem, todo, op.ro, Named) PROVE Doing(mem', tasks, op, busy, since)
  <2>1. TaskOf(mem, todo[1], op.ro, Named) /\ Proper(mem, Tail(todo), op.ro, Named)
    BY <1>1, <1>4, ProperTail
  <2>2. Proper(mem, Seen(mem, todo[1]), op.ro, Named)
    BY <1>1, <1>3, <2>1, SeenProper
  <2>3. Proper(mem, tasks, op.ro, Named)
    BY <2>1, <2>2, ProperConcat
  <2> QED BY <1>2, <2>3 DEF Doing, Named
<1>5. ASSUME Fresh(todo, op), Len(busy) = 1 => since = View(mem)
      PROVE  Doing(mem', tasks, op, busy, since)
  <2>1. todo = Unread(op) /\ op.kind \in MessageTasks
    BY <1>1, <1>3, <1>5, FreshTask
  <2>2. Answered(mem, tasks, op.ro, Named)
    BY <1>3, <2>1, FirstReadAnswered
  <2> HIDE DEF tasks
  <2> QED BY <1>2, <1>5, <2>2 DEF Doing, Named, Answered, Fresh
<1>6. Doing(mem', tasks, op, busy, since)
  BY <1>3, <1>4, <1>5 DEF Doing, Named
<1>7. StoresInOrder'
  BY <1>2 DEF ServiceInv, StoresInOrder
<1>8. \A v \in Workers \ {w} : Working(v) => Doing(mem', job[v].todo, job[v].op, busy, since)
  BY <1>2 DEF ServiceInv, JobsInOrder
<1> HIDE DEF tasks
<1> QED BY <1>1, <1>2, <1>6, <1>7, <1>8, GoesOn DEF op

\* A repository call of one worker disturbs no other worker: its tasks stay
\* in order whatever the others write.
LEMMA WriteKeeps ==
    ASSUME ServiceInv, SavingType, NEW w \in Workers, Write(w)
    PROVE  ServiceInv'
<1> DEFINE call == job[w].todo[1]
           r == job[w].op.ro
           tasks == Tail(job[w].todo)
<1>1. /\ At(w, Calls) /\ Working(w) /\ call.do \in Calls /\ ~Refused(mem, call)
      /\ mem' = Written(mem, call) /\ saving' = [saving EXCEPT ![w] = "due"]
      /\ UNCHANGED <<disk, degraded, image>>
      /\ Left(w, tasks) /\ UNCHANGED <<sent, busy, since>>
  BY DEF Write, At, Mutate
<1>2. /\ TaskOf(mem, call, r, Named) /\ Proper(mem, tasks, r, Named)
  BY <1>1, AtCall
<1>3. r \in Named /\ Consistent(mem) /\ (Keyed => KeyedStore(mem)) /\ TaskOK(call)
  BY <1>1, <1>2, Serves DEF Setting, TaskOf
<1> HIDE DEF tasks, call, r
<1>4. \A t, q : TaskOf(mem, t, q, Named) => TaskOf(mem', t, q, Named)
  BY <1>1, <1>2, <1>3, TaskStable
<1>5. \A s, q : Proper(mem, s, q, Named) => Proper(mem', s, q, Named)
  BY <1>4 DEF Proper
<1>6. StoresInOrder'
  BY <1>1, <1>2, <1>3, WrittenConsistent, WrittenKeyed DEF ServiceInv, StoresInOrder
<1>7. \A v \in Workers : saving'[v] # "no" => v = w \/ saving[v] # "no"
  BY <1>1 DEF SavingType
<1>8. ASSUME NEW v \in Workers \ {w}, Working(v)
      PROVE  Doing(mem', job[v].todo, job[v].op, busy, since)
  <2>1. Len(busy) # 1
    BY <1>1, <1>8 DEF ServiceInv, Alone
  <2>2. Doing(mem, job[v].todo, job[v].op, busy, since)
    BY <1>8, Serves
  <2> QED BY <1>5, <2>1, <2>2 DEF Doing, Named
<1>9. Doing(mem', tasks, job[w].op, busy, since)
  BY <1>2, <1>5 DEF r, Doing, Named
<1> QED BY <1>1, <1>6, <1>7, <1>8, <1>9, GoesOn

\* A repository refuses.
LEMMA WriteRefusedKeeps ==
    ASSUME ServiceInv, NEW w \in Workers, WriteRefused(w)
    PROVE  ServiceInv'
<1> DEFINE tasks == IF job[w].todo[1].refused = "ignored" THEN Tail(job[w].todo) ELSE Refuse("NACK")
           r == job[w].op.ro
<1>1. /\ At(w, Calls) /\ Left(w, tasks) /\ UNCHANGED <<storeVars, sent, busy, since>>
  BY DEF WriteRefused
<1>2. mem' = mem /\ disk' = disk /\ image' = image /\ saving' = saving
  BY <1>1 DEF storeVars
<1>3. Working(w) /\ Proper(mem, Tail(job[w].todo), r, Named)
  BY <1>1, AtCall
<1>4. Proper(mem', tasks, r, Named)
  BY <1>2, <1>3, RefuseProper
<1>5. Doing(mem', tasks, job[w].op, busy, since)
  BY <1>4 DEF Doing, Named
<1>6. StoresInOrder'
  BY <1>2 DEF ServiceInv, StoresInOrder
<1>7. \A v \in Workers \ {w} : Working(v) => Doing(mem', job[v].todo, job[v].op, busy, since)
  BY <1>2 DEF ServiceInv, JobsInOrder
<1> HIDE DEF tasks
<1> QED BY <1>1, <1>2, <1>3, <1>5, <1>6, <1>7, GoesOn

\* Durable.persist changes no record in memory.
LEMMA PersistKeeps ==
    ASSUME ServiceInv, SavingType, NEW w \in Workers, Persist(w)
    PROVE  ServiceInv'
<1>1. mem' = mem /\ job' = job /\ sent' = sent /\ busy' = busy /\ since' = since
  BY DEF Persist, serviceVars, SkipSave, Lock, List, Save
<1>2. \A v \in Workers : saving'[v] # "no" => saving[v] # "no"
  BY DEF Persist, SkipSave, Lock, List, Save, SavingType
<1>3. StoresInOrder'
  <2>1. /\ Consistent(mem) /\ Consistent(disk) /\ Consistent(image)
        /\ Keyed => KeyedStore(mem) /\ KeyedStore(disk) /\ KeyedStore(image)
    BY DEF ServiceInv, StoresInOrder
  <2>2. \/ image' = image \/ image' = Empty
        \/ image' = Listing(Empty, mem.ro) \/ image' = Listing(mem, image.ro)
    BY DEF Persist, SkipSave, Lock, List, Save
  <2>3. disk' = disk \/ disk' = image
    BY DEF Persist, SkipSave, Lock, List, Save
  <2>4. Consistent(image') /\ (Keyed => KeyedStore(image'))
    BY <2>1, <2>2, EmptyStore, ListingConsistent, ListingKeyed
  <2> QED BY <1>1, <2>1, <2>3, <2>4 DEF StoresInOrder
<1>4. JobType' /\ JobsInOrder' /\ Alone' /\ Counted'
  BY <1>1 DEF ServiceInv, JobType, JobsInOrder, Alone, Counted, Working, Named
<1>5. Occupied'
  BY <1>1, <1>2 DEF ServiceInv, Occupied, Working
<1> QED BY <1>3, <1>4, <1>5 DEF ServiceInv

\* A handler responds.
LEMMA ReplyKeeps ==
    ASSUME ServiceInv, NEW w \in Workers, Reply(w)
    PROVE  ServiceInv'
<1>1. /\ Working(w) /\ saving[w] = "no" /\ job' = [job EXCEPT ![w] = Idle]
      /\ UNCHANGED <<storeVars, sent>>
      /\ (\E v \in Workers \ {w} : Working(v)) => busy' = busy /\ since' = since
      /\ ~(\E v \in Workers \ {w} : Working(v)) => busy' = << >>
  BY DEF Reply
<1>2. mem' = mem /\ disk' = disk /\ image' = image /\ saving' = saving
  BY <1>1 DEF storeVars
<1>3. /\ DOMAIN job' = Workers /\ job'[w] = Idle /\ \A v \in Workers \ {w} : job'[v] = job[v]
  BY <1>1 DEF ServiceInv, JobType
<1>4. ~Working(w)' /\ \A v \in Workers \ {w} : Working(v)' <=> Working(v)
  BY <1>3 DEF Working
<1>5. JobsInOrder'
  <2> SUFFICES ASSUME NEW v \in Workers, Working(v)'
               PROVE  /\ job'[v].op \in Messages
                      /\ DOMAIN job'[v] = {"op", "todo"}
                      /\ job'[v].op.ro \in Named'
                      /\ Doing(mem', job'[v].todo, job'[v].op, busy', since')
    BY DEF JobsInOrder
  <2>1. v # w /\ Working(v)
    BY <1>4
  <2>2. Named' = Named /\ busy' = busy /\ since' = since
    BY <1>1, <2>1 DEF Named
  <2> QED BY <1>2, <1>3, <2>1, <2>2 DEF ServiceInv, JobsInOrder
<1>6. Occupied'
  <2>1. \A v \in Workers : saving'[v] # "no" => Working(v)'
    BY <1>1, <1>2, <1>4 DEF ServiceInv, Occupied
  <2>a. << >> \in Seq(Messages)
    OBVIOUS
  <2>2. busy' \in Seq(Messages)
    BY <1>1, <2>a, Zenon DEF ServiceInv, Occupied
  <2>3. (busy' = << >>) <=> (\A v \in Workers : ~Working(v)')
    BY <1>1, <1>4 DEF ServiceInv, Occupied
  <2> QED BY <2>1, <2>2, <2>3 DEF Occupied
<1>7. Counted' /\ StoresInOrder'
  BY <1>1, <1>2 DEF ServiceInv, Counted, StoresInOrder
<1>8. Alone'
  BY <1>1, <1>3, <1>4 DEF ServiceInv, Alone
<1> QED BY <1>3, <1>5, <1>6, <1>7, <1>8 DEF ServiceInv, JobType

\* A new process opens the store.
LEMMA RestartKeeps ==
    ASSUME ServiceInv, Restart
    PROVE  ServiceInv'
<1>1. /\ mem' = disk /\ disk' = disk /\ image' = Empty /\ saving' = [v \in Workers |-> "no"]
      /\ job' = [v \in Workers |-> Idle] /\ busy' = << >> /\ sent' = sent
  BY DEF Restart, Reopen
<1>2. \A v \in Workers : ~Working(v)'
  BY <1>1 DEF Working
<1>3. StoresInOrder'
  BY <1>1, EmptyStore DEF ServiceInv, StoresInOrder
<1>4. JobType' /\ JobsInOrder' /\ Alone' /\ Counted'
  BY <1>1, <1>2 DEF JobType, JobsInOrder, Alone, ServiceInv, Counted
<1>5. Occupied'
  BY <1>1, <1>2 DEF Occupied
<1> QED BY <1>3, <1>4, <1>5 DEF ServiceInv

\* The service stays in order.
LEMMA ServiceInvStep == ServiceInv /\ SavingType /\ [Next]_vars => ServiceInv'
<1> SUFFICES ASSUME ServiceInv, SavingType, [Next]_vars PROVE ServiceInv'
  OBVIOUS
<1>1. CASE UNCHANGED vars
  <2>1. UNCHANGED <<mem, disk, image, saving, job, sent, busy, since>>
    BY <1>1 DEF vars, storeVars, serviceVars
  <2> QED BY <2>1 DEF ServiceInv, JobType, JobsInOrder, Alone, StoresInOrder, Occupied, Counted, Working, Named
<1>2. CASE Restart
  BY <1>2, RestartKeeps
<1>3. ASSUME NEW w \in Workers, Step(w) PROVE ServiceInv'
  BY <1>3, ReadKeeps, WriteKeeps, WriteRefusedKeeps, PersistKeeps, ReplyKeeps DEF Step
<1>4. ASSUME NEW w \in Workers, NEW op \in Messages, Receive(w, op) PROVE ServiceInv'
  BY <1>4, ReceiveKeeps
<1> QED BY <1>1, <1>2, <1>3, <1>4 DEF Next

\* A service in order is typed.
LEMMA ServiceInvType == ServiceInv => TypeOK
<1> SUFFICES ASSUME ServiceInv PROVE TypeOK
  OBVIOUS
<1>0. Consistent(mem)
  BY DEF ServiceInv, StoresInOrder
<1>1. DOMAIN mem.ro \subseteq ROs
  BY <1>0, ROFacts
<1>2. ASSUME NEW k \in DOMAIN mem.story PROVE Len(k) \in 1 .. 2 /\ mem.story[k].ro \in ROs
  BY <1>0, StoryRecordFacts, StoryKeyFacts
<1>3. ASSUME NEW k \in DOMAIN mem.item PROVE Len(k) \in 1 .. 3 /\ mem.item[k].story # NoKey
  <2> DEFINE u == mem.item[k].story
  <2>1. StoryKey(u) /\ ItemKeyOf(k, u)
    BY <1>0, ItemRecordFacts
  <2> HIDE DEF u
  <2>2. Len(u) \in 1 .. 2 /\ (Len(k) = Len(u) + 1 \/ Len(k) = 1)
    BY <2>1, ItemKeyFacts
  <2>3. u # NoKey
    BY <2>1, StoryKeyFacts DEF StoryKey
  <2>4. \A a, b : b \in 1 .. 2 /\ (a = b + 1 \/ a = 1) => a \in 1 .. 3
    OBVIOUS
  <2>5. Len(k) \in 1 .. 3
    BY <2>2, <2>4, Zenon
  <2> QED BY <2>3, <2>5 DEF u
<1> QED BY <1>1, <1>2, <1>3 DEF TypeOK, ServiceInv, Occupied, Counted

\* The steps of the service keep the invariant of the store.
LEMMA StoreInvNext == StoreInv /\ [Next]_vars => StoreInv'
<1> SUFFICES ASSUME StoreInv, [Next]_vars PROVE StoreInv'
  OBVIOUS
<1>1. CASE StoreStep
  BY <1>1, StoreInvStep
<1>2. CASE UNCHANGED storeVars
  BY <1>2 DEF storeVars, StoreInv, SavingType, OneHolder, Current, Closed, Snapshot, Listing
<1> QED BY <1>1, <1>2, ServiceStepsStore

\* For every store, every set of messages and any number of goroutines: the
\* tables hold records of their kind under keys of their kind whatever the
\* handlers interleave, a save is always that of a message in hand, and the
\* messages in hand are those the handlers have (RunningOrderService over the
\* memory repositories).
THEOREM ServiceIsTyped == Spec => []TypeOK
<1>1. StoreInv => SavingType
  BY DEF StoreInv
<1>2. (ServiceInv /\ StoreInv) /\ [Next]_vars => (ServiceInv /\ StoreInv)'
  BY <1>1, ServiceInvStep, StoreInvNext
<1>3. Init => ServiceInv /\ StoreInv
  BY ServiceInit, StoreInvInit
<1> QED BY <1>2, <1>3, ServiceInvType, PTL DEF Spec

-----------------------------------------------------------------------------
(* Running orders that no message in hand names.                           *)

SameStories(m, n, r) ==
    /\ \A k \in DOMAIN m.story : m.story[k].ro = r => k \in DOMAIN n.story /\ n.story[k] = m.story[k]
    /\ \A k \in DOMAIN m.item : m.item[k].story[1] = r /\ m.item[k].story \in DOMAIN m.story => k \in DOMAIN n.item /\ n.item[k] = m.item[k]

SameRO(m, n, r) ==
    /\ r \in DOMAIN m.ro <=> r \in DOMAIN n.ro
    /\ r \in DOMAIN m.ro => m.ro[r] = n.ro[r]

SameRundown(m, n, r) ==
    /\ SameRO(m, n, r)
    /\ r \in DOMAIN m.ro => SameStories(m, n, r) /\ SameStories(n, m, r)

\* What no message in hand names is as it was when they began, and is safe.
Since(r) == busy # << >> => since[r] = RundownView(mem, r)

Safe(r) ==
    degraded = "no" =>
    /\ SameRundown(mem, disk, r)
    /\ \A w \in Workers : saving[w] = "listing" => SameRO(mem, image, r)
    /\ \A w \in Workers : saving[w] = "held" => SameRundown(mem, image, r)

FrameInv == \A r \in ROs \ Named : Since(r) /\ Safe(r)

\* Tables that agree on some keys sort them alike.
LEMMA SameSorted ==
    ASSUME NEW T, NEW U, NEW S, Sortable(T, S), Sortable(U, S), \A k \in S : T[k] = U[k]
    PROVE  Sorted(T, S) = Sorted(U, S)
<1> DEFINE N == Cardinality(S)
           A == Sorted(T, S)
           B == Sorted(U, S)
<1>1. \A k, l \in S : Before(T, k, l) <=> Before(U, k, l)
  BY DEF Before
<1>2. \A k \in S : Earlier(T, S, k) = Earlier(U, S, k)
  BY <1>1 DEF Earlier
<1>3. \A k \in S : Rank(T, S, k) = Rank(U, S, k)
  BY <1>2 DEF Rank
<1>4. /\ IsList(A) /\ Len(A) = N /\ N \in Nat
      /\ \A n \in 1 .. N : A[n] \in S /\ Rank(T, S, A[n]) = n - 1
  BY SortedFacts
<1>5. /\ IsList(B) /\ Len(B) = N
      /\ \A k \in S : B[Rank(U, S, k) + 1] = k
  BY SortedFacts
<1> HIDE DEF A, B, N
<1>6. ASSUME NEW n \in 1 .. N PROVE A[n] = B[n]
  <2>1. A[n] \in S /\ Rank(U, S, A[n]) = n - 1
    BY <1>3, <1>4, <1>6
  <2>2. B[(n - 1) + 1] = A[n]
    BY <1>5, <2>1
  <2>3. (n - 1) + 1 = n
    BY <1>4
  <2> QED BY <2>2, <2>3
<1>7. A = [n \in 1 .. N |-> A[n]] /\ B = [n \in 1 .. N |-> B[n]]
  BY <1>4, <1>5, ListFacts
<1>8. A = B
  BY <1>6, <1>7
<1> QED BY <1>8 DEF A, B

\* A composite key begins with the running order of the story.
LEMMA KeyedStory ==
    ASSUME NEW m, Consistent(m), KeyedStore(m), NEW k \in DOMAIN m.story
    PROVE  k[1] = m.story[k].ro
<1>1. StoryKeyOf(k, m.story[k].ro) /\ Len(k) = 2
  BY StoryRecordFacts DEF KeyedStore
<1> QED BY <1>1, StoryKeyFacts

\* Having one rundown is symmetric.
LEMMA SameBack ==
    ASSUME NEW m, NEW n, NEW r, SameRundown(m, n, r)
    PROVE  SameRundown(n, m, r)
BY DEF SameRundown, SameRO

\* Having the stories of a third store.
LEMMA SameStoriesChain ==
    ASSUME NEW l, NEW m, NEW n, NEW r, Consistent(l), KeyedStore(l),
           SameStories(l, m, r), SameStories(m, n, r)
    PROVE  SameStories(l, n, r)
<1>1. \A k \in DOMAIN l.story : l.story[k].ro = r => k \in DOMAIN n.story /\ n.story[k] = l.story[k]
  BY DEF SameStories
<1>2. ASSUME NEW k \in DOMAIN l.item, l.item[k].story[1] = r, l.item[k].story \in DOMAIN l.story
      PROVE  k \in DOMAIN n.item /\ n.item[k] = l.item[k]
  <2> DEFINE u == l.item[k].story
  <2>1. l.story[u].ro = r
    BY <1>2, KeyedStory
  <2>2. u \in DOMAIN m.story
    BY <1>2, <2>1 DEF SameStories
  <2>3. k \in DOMAIN m.item /\ m.item[k] = l.item[k]
    BY <1>2 DEF SameStories
  <2> QED BY <1>2, <2>2, <2>3 DEF SameStories
<1> QED BY <1>1, <1>2 DEF SameStories

\* Having one rundown is transitive.
LEMMA SameChain ==
    ASSUME NEW l, NEW m, NEW n, NEW r, Consistent(l), KeyedStore(l), Consistent(n), KeyedStore(n),
           SameRundown(l, m, r), SameRundown(m, n, r)
    PROVE  SameRundown(l, n, r)
BY SameStoriesChain DEF SameRundown, SameRO

\* Stores that agree on a running order, its stories and their items answer
\* a roReq for it alike.
LEMMA SameView ==
    ASSUME NEW m, NEW n, NEW r, Consistent(m), KeyedStore(m), Consistent(n), KeyedStore(n),
           SameRundown(m, n, r)
    PROVE  RundownView(m, r) = RundownView(n, r)
<1>1. CASE r \notin DOMAIN m.ro
  <2>1. r \notin DOMAIN n.ro
    BY <1>1 DEF SameRundown, SameRO
  <2> QED BY <1>1, <2>1 DEF RundownView
<1>2. CASE r \in DOMAIN m.ro
  <2> DEFINE S == StoriesOf(m, r)
             A == ListByRunningOrder(m, r)
             B == ListByRunningOrder(n, r)
  <2>1. r \in DOMAIN n.ro /\ m.ro[r] = n.ro[r] /\ SameStories(m, n, r) /\ SameStories(n, m, r)
    BY <1>2 DEF SameRundown, SameRO
  <2>2. S = StoriesOf(n, r) /\ \A k \in S : m.story[k] = n.story[k]
    BY <2>1 DEF SameStories, StoriesOf
  <2>3. A = B
    <3>1. Sortable(m.story, S) /\ Sortable(n.story, S)
      BY <2>2, StoriesSortable
    <3>2. A = Sorted(m.story, S) /\ B = Sorted(n.story, S)
      BY <2>2 DEF ListByRunningOrder, StoriesOf
    <3> QED BY <2>2, <3>1, <3>2, SameSorted
  <2>4. \A i \in 1 .. Len(A) : A[i] \in DOMAIN m.story /\ m.story[A[i]].ro = r
    BY StoryListFacts
  <2>5. ASSUME NEW k \in S PROVE StoryView(m, k) = StoryView(n, k)
    <3> DEFINE I == ItemsOf(m, k)
               X == ListByStory(m, k)
               Y == ListByStory(n, k)
    <3>1. k \in DOMAIN m.story /\ k \in DOMAIN n.story /\ k[1] = r /\ m.story[k] = n.story[k]
      BY <2>2, <2>5, KeyedStory DEF StoriesOf
    <3>2. I = ItemsOf(n, k) /\ \A i \in I : m.item[i] = n.item[i]
      BY <2>1, <3>1 DEF SameStories, ItemsOf
    <3>3. X = Y
      <4>1. Sortable(m.item, I) /\ Sortable(n.item, I)
        BY <3>2, ItemsSortable
      <4>2. X = Sorted(m.item, I) /\ Y = Sorted(n.item, I)
        BY <3>2 DEF ListByStory, ItemsOf
      <4> QED BY <3>2, <4>1, <4>2, SameSorted
    <3>4. \A i \in 1 .. Len(X) : X[i] \in I
      BY ItemListFacts DEF ItemsOf
    <3> HIDE DEF X, Y, I
    <3>5. \A i \in 1 .. Len(X) : m.item[X[i]] = n.item[Y[i]]
      BY <3>2, <3>3, <3>4
    <3>6. [i \in 1 .. Len(X) |-> [id |-> Last(X[i]), body |-> m.item[X[i]].body]]
          = [i \in 1 .. Len(Y) |-> [id |-> Last(Y[i]), body |-> n.item[Y[i]].body]]
      BY <3>3, <3>5
    <3>7. ItemView(m, k) = ItemView(n, k)
      BY <3>6 DEF ItemView, X, Y
    <3> QED BY <3>1, <3>7 DEF StoryView
  <2>6. \A i \in 1 .. Len(A) : A[i] \in S
    BY <2>4 DEF StoriesOf
  <2> HIDE DEF A, B, S
  <2>7. \A i \in 1 .. Len(A) : StoryView(m, A[i]) = StoryView(n, B[i])
    BY <2>3, <2>5, <2>6
  <2>8. [i \in 1 .. Len(A) |-> StoryView(m, A[i])] = [i \in 1 .. Len(B) |-> StoryView(n, B[i])]
    BY <2>3, <2>7
  <2> QED BY <1>2, <2>1, <2>8 DEF RundownView, A, B
<1> QED BY <1>1, <1>2

\* A repository call of a message leaves the running orders alone that no
\* message in hand names.
LEMMA FrameWrite ==
    ASSUME Keyed, NEW m, Consistent(m), KeyedStore(m), NEW ros, NEW q \in ros,
           NEW t, TaskOf(m, t, q, ros), t.do \in Calls, ~Refused(m, t), NEW r, r \notin ros
    PROVE  SameRundown(m, Written(m, t), r)
<1> DEFINE n == Written(m, t)
<1>1. /\ t.repo \in Tables /\ t.do \in {"create", "update", "delete"}
      /\ t.do # "delete" => Storable(t.repo, t.key, t.rec)
  BY CallNames DEF TaskOf
<1>2. /\ \A x \in Tables : x # t.repo => n[x] = m[x]
      /\ t.do = "delete" => /\ DOMAIN n[t.repo] = DOMAIN m[t.repo] \ t.keys
                            /\ \A k \in DOMAIN n[t.repo] : n[t.repo][k] = m[t.repo][k]
      /\ t.do # "delete" => /\ DOMAIN n[t.repo] = DOMAIN m[t.repo] \cup {t.key}
                            /\ n[t.repo][t.key] = t.rec
                            /\ \A k \in DOMAIN m[t.repo] : k # t.key => n[t.repo][k] = m[t.repo][k]
  BY <1>1, WrittenFacts
<1>3. InsideCall(m, t, q, ros) /\ q # r
  BY DEF TaskOf, Inside
<1>4. \A k \in DOMAIN m.story : Len(k) = 2 /\ k[1] = m.story[k].ro
  BY KeyedStory DEF KeyedStore
<1> SUFFICES SameRundown(m, n, r)
  OBVIOUS
<1> HIDE DEF n
<1>5. CASE t.repo = "ro"
  <2>1. n.story = m.story /\ n.item = m.item
    BY <1>2, <1>5 DEF Tables
  <2>2. t.do = "delete" => t.keys = {q}
    BY <1>3, <1>5 DEF InsideCall
  <2>3. t.do # "delete" => t.key = q
    BY <1>1, <1>3, <1>5 DEF InsideCall
  <2>4. SameRO(m, n, r)
    BY <1>2, <1>3, <1>5, <2>2, <2>3 DEF SameRO
  <2> QED BY <2>1, <2>4 DEF SameRundown, SameStories
<1>6. CASE t.repo = "story"
  <2>1. n.ro = m.ro /\ n.item = m.item
    BY <1>2, <1>6 DEF Tables
  <2>2. t.do = "delete" => \A k \in t.keys : Len(k) = 2 => k[1] = q
    BY <1>3, <1>6 DEF InsideCall
  <2>3. t.do # "delete" => Inner(t.key, q) /\ StoryKeyOf(t.key, t.rec.ro)
    BY <1>1, <1>3, <1>6 DEF InsideCall, Storable
  <2>4. t.do # "delete" => t.key[1] = q /\ t.rec.ro = q
    BY <2>3, StoryKeyFacts DEF Inner
  <2>5. \A k \in DOMAIN m.story : m.story[k].ro = r => k \in DOMAIN n.story /\ n.story[k] = m.story[k]
    BY <1>2, <1>3, <1>4, <1>6, <2>2, <2>4
  <2>6. \A k \in DOMAIN n.story : n.story[k].ro = r => k \in DOMAIN m.story /\ m.story[k] = n.story[k]
    BY <1>2, <1>3, <1>4, <1>6, <2>2, <2>4
  <2> QED BY <2>1, <2>5, <2>6 DEF SameRundown, SameRO, SameStories
<1>7. CASE t.repo = "item"
  <2>1. n.ro = m.ro /\ n.story = m.story
    BY <1>2, <1>7 DEF Tables
  <2>2. t.do = "delete" => \A k \in t.keys \cap DOMAIN m.item : m.item[k].story[1] # r
    BY <1>3, <1>7 DEF InsideCall
  <2>3. t.do # "delete" =>
            \/ t.rec.story[1] # r /\ (t.key \in DOMAIN m.item => m.item[t.key].story[1] # r)
            \/ t.key \in DOMAIN m.item /\ m.item[t.key] = t.rec
    BY <1>1, <1>3, <1>7 DEF InsideCall, Inner, Refused
  <2>4. \A k \in DOMAIN m.item : m.item[k].story[1] = r => k \in DOMAIN n.item /\ n.item[k] = m.item[k]
    BY <1>2, <1>7, <2>2, <2>3
  <2>5. \A k \in DOMAIN n.item : n.item[k].story[1] = r => k \in DOMAIN m.item /\ m.item[k] = n.item[k]
    BY <1>2, <1>7, <2>2, <2>3
  <2> QED BY <2>1, <2>4, <2>5 DEF SameRundown, SameRO, SameStories
<1> QED BY <1>1, <1>5, <1>6, <1>7 DEF Tables

\* A listing has all of a running order whose entry is current.
LEMMA SameListing ==
    ASSUME NEW m, Consistent(m), KeyedStore(m), NEW o, NEW r, SameRO(m, o, r)
    PROVE  SameRundown(m, Listing(m, o.ro), r)
<1> DEFINE n == Listing(m, o.ro)
<1>1. /\ n.ro = o.ro
      /\ DOMAIN n.story = {k \in DOMAIN m.story : m.story[k].ro \in DOMAIN o.ro}
      /\ \A k \in DOMAIN n.story : n.story[k] = m.story[k]
      /\ DOMAIN n.item = {k \in DOMAIN m.item : m.item[k].story \in DOMAIN n.story}
      /\ \A k \in DOMAIN n.item : n.item[k] = m.item[k]
  BY DEF Listing, Restricted
<1>2. \A k \in DOMAIN m.story : k[1] = m.story[k].ro
  BY KeyedStory
<1> HIDE DEF n
<1>3. SameRO(m, n, r)
  BY <1>1 DEF SameRO
<1>4. ASSUME r \in DOMAIN m.ro PROVE SameStories(m, n, r) /\ SameStories(n, m, r)
  <2>1. r \in DOMAIN o.ro
    BY <1>4 DEF SameRO
  <2> QED BY <1>1, <1>2, <2>1 DEF SameStories
<1>5. SameRundown(m, n, r)
  BY <1>3, <1>4 DEF SameRundown
<1> QED BY <1>5 DEF n

\* A snapshot has the rundowns of the store it was taken of.
LEMMA SameSnapshot ==
    ASSUME NEW m, Consistent(m), KeyedStore(m), NEW r
    PROVE  SameRundown(m, Snapshot(m), r)
<1>1. SameRO(m, m, r)
  BY DEF SameRO
<1> QED BY <1>1, SameListing DEF Snapshot

\* Having one rundown is reflexive.
LEMMA SameItself == \A m, r : SameRundown(m, m, r)
BY DEF SameRundown, SameRO, SameStories

\* What memory, the file and the listing in hand are, with composite keys only.
LEMMA KeyedStores ==
    ASSUME Keyed, ServiceInv
    PROVE  /\ Consistent(mem) /\ KeyedStore(mem)
           /\ Consistent(disk) /\ KeyedStore(disk)
           /\ Consistent(image) /\ KeyedStore(image)
BY DEF ServiceInv, StoresInOrder

\* The file starts as a snapshot of what is held.
LEMMA FrameInit == Keyed /\ Init => FrameInv
<1> SUFFICES ASSUME Keyed, Init, NEW r \in ROs PROVE Since(r) /\ Safe(r)
  BY DEF FrameInv
<1>1. /\ mem = Held /\ disk = Snapshot(Held) /\ saving = [w \in Workers |-> "no"]
      /\ busy = << >>
  BY DEF Init, StoreInit
<1>2. Consistent(Held) /\ KeyedStore(Held)
  BY ServiceAssumption DEF Keyed, KeyedMessages
<1>3. SameRundown(mem, disk, r)
  BY <1>1, <1>2, SameSnapshot
<1> QED BY <1>1, <1>3 DEF Since, Safe

\* Steps that change neither the records nor the messages in hand.
LEMMA FrameQuiet ==
    ASSUME FrameInv, UNCHANGED <<mem, disk, degraded, saving, image, busy, since>>
    PROVE  FrameInv'
BY DEF FrameInv, Since, Safe, Named

\* Another message: fewer running orders are left that none names.
LEMMA FrameReceive ==
    ASSUME ServiceInv, FrameInv, NEW w \in Workers, NEW op \in Messages, Receive(w, op)
    PROVE  FrameInv'
<1>1. /\ busy' = Append(busy, op) /\ UNCHANGED <<mem, disk, degraded, saving, image>>
      /\ since' = IF busy = << >> THEN View(mem) ELSE since
  BY DEF Receive, storeVars
<1>2. Named \subseteq Named'
  BY <1>1, NamedGrows DEF Named, ServiceInv, Occupied
<1> SUFFICES ASSUME NEW r \in ROs \ Named' PROVE Since(r)' /\ Safe(r)'
  BY DEF FrameInv
<1>3. Since(r) /\ Safe(r)
  BY <1>2 DEF FrameInv
<1>4. Safe(r)'
  BY <1>1, <1>3 DEF Safe
<1>5. View(mem)[r] = RundownView(mem, r)
  BY DEF View
<1>6. since'[r] = RundownView(mem, r)
  BY <1>1, <1>3, <1>5 DEF Since
<1> QED BY <1>1, <1>4, <1>6 DEF Since

\* A repository call touches no running order that no message names.
LEMMA FrameWrites ==
    ASSUME Keyed, ServiceInv, ServiceInv', SavingType, FrameInv, NEW w \in Workers, Write(w)
    PROVE  FrameInv'
<1> DEFINE call == job[w].todo[1]
           q == job[w].op.ro
<1>1. /\ At(w, Calls) /\ call.do \in Calls /\ ~Refused(mem, call)
      /\ mem' = Written(mem, call) /\ saving' = [saving EXCEPT ![w] = "due"]
      /\ UNCHANGED <<disk, degraded, image, busy, since>>
  BY DEF Write, At, Mutate
<1>2. TaskOf(mem, call, q, Named) /\ q \in Named
  BY <1>1, AtCall, Serves
<1> HIDE DEF call, q
<1>3. /\ Consistent(mem) /\ KeyedStore(mem) /\ Consistent(mem') /\ KeyedStore(mem')
      /\ Consistent(disk) /\ KeyedStore(disk) /\ Consistent(image) /\ KeyedStore(image)
  BY DEF ServiceInv, StoresInOrder
<1>4. \A v \in Workers : saving'[v] \in {"listing", "held"} => saving'[v] = saving[v]
  BY <1>1 DEF SavingType
<1> SUFFICES ASSUME NEW r \in ROs \ Named PROVE Since(r)' /\ Safe(r)'
  BY <1>1 DEF FrameInv, Named
<1>5. SameRundown(mem, mem', r)
  BY <1>1, <1>2, <1>3, FrameWrite
<1>6. SameRundown(mem', mem, r)
  BY <1>5, SameBack
<1>7. RundownView(mem', r) = RundownView(mem, r)
  BY <1>3, <1>5, SameView
<1>8. Since(r) /\ Safe(r)
  BY DEF FrameInv
<1>9. Since(r)'
  BY <1>1, <1>7, <1>8 DEF Since
<1>10. Safe(r)'
  <2>1. \A n : Consistent(n) /\ KeyedStore(n) /\ SameRundown(mem, n, r) => SameRundown(mem', n, r)
    BY <1>3, <1>6, SameChain
  <2>2. SameRO(mem, image, r) => SameRO(mem', image, r)
    BY <1>6 DEF SameRundown, SameRO
  <2> QED BY <1>1, <1>3, <1>4, <1>8, <2>1, <2>2 DEF Safe
<1> QED BY <1>9, <1>10

\* A save lists and writes those running orders as they are in memory.
LEMMA FramePersist ==
    ASSUME Keyed, ServiceInv, StoreInv, FrameInv, NEW w \in Workers, Persist(w)
    PROVE  FrameInv'
<1>1. UNCHANGED <<mem, busy, since>>
  BY DEF Persist, serviceVars, SkipSave, Lock, List, Save
<1>2. Consistent(mem) /\ KeyedStore(mem)
  BY KeyedStores
<1>3. saving \in [Workers -> {"no", "due", "listing", "held"}]
  BY DEF StoreInv, SavingType, Locked
<1> SUFFICES ASSUME NEW r \in ROs \ Named PROVE Since(r)' /\ Safe(r)'
  BY <1>1 DEF FrameInv, Named
<1>4. Since(r) /\ Safe(r)
  BY DEF FrameInv
<1>5. Since(r)'
  BY <1>1, <1>4 DEF Since
<1>6. CASE SkipSave(w)
  BY <1>5, <1>6 DEF SkipSave, Safe
<1>7. CASE Lock(w)
  <2>1. /\ saving' = [saving EXCEPT ![w] = "listing"] /\ image' = Listing(Empty, mem.ro)
        /\ UNCHANGED <<disk, degraded>> /\ \A v \in Workers : saving[v] \in {"no", "due"}
    BY <1>7 DEF Lock, Unlocked
  <2>2. image'.ro = mem.ro
    BY <2>1, ListingNamesItsOrders
  <2>3. SameRO(mem, image', r)
    BY <2>2 DEF SameRO
  <2>4. \A v \in Workers : saving'[v] # "held"
    BY <1>3, <2>1
  <2> QED BY <1>1, <1>4, <1>5, <2>1, <2>3, <2>4 DEF Safe
<1>8. CASE List(w)
  <2>1. /\ saving[w] = "listing" /\ saving' = [saving EXCEPT ![w] = "held"]
        /\ image' = Listing(mem, image.ro) /\ UNCHANGED <<disk, degraded>>
    BY <1>8 DEF List
  <2>2. \A v \in Workers : saving'[v] # "listing"
    BY <1>3, <2>1 DEF StoreInv, OneHolder, Locked
  <2>3. SameRO(mem, image, r) => SameRundown(mem, image', r)
    BY <1>2, <2>1, SameListing
  <2> QED BY <1>1, <1>4, <1>5, <2>1, <2>2, <2>3 DEF Safe
<1>9. CASE Save(w)
  <2>1. /\ saving[w] = "held" /\ saving' = [saving EXCEPT ![w] = "no"]
        /\ \/ disk' = image /\ degraded' = degraded
           \/ degraded' = "yes"
    BY <1>9 DEF Save
  <2>2. \A v \in Workers : saving'[v] \notin {"listing", "held"}
    BY <1>3, <2>1 DEF StoreInv, OneHolder, Locked
  <2> QED BY <1>1, <1>4, <1>5, <2>1, <2>2 DEF Safe
<1> QED BY <1>6, <1>7, <1>8, <1>9 DEF Persist

\* Nobody has a save to make once nobody has a message.
LEMMA Quiescent ==
    ASSUME ServiceInv, StoreInv, \A w \in Workers : saving[w] = "no", degraded = "no"
    PROVE  disk = Snapshot(mem)
BY DEF StoreInv, Current

\* The last message in hand is answered after its save, so the file has all
\* running orders, unless a save failed.
LEMMA FrameReply ==
    ASSUME Keyed, ServiceInv, StoreInv, FrameInv, NEW w \in Workers, Reply(w)
    PROVE  FrameInv'
<1>1. /\ saving[w] = "no" /\ UNCHANGED <<mem, disk, degraded, saving, image>>
  BY DEF Reply, storeVars
<1>2. CASE \E v \in Workers \ {w} : Working(v)
  <2>1. UNCHANGED <<busy, since>>
    BY <1>2 DEF Reply
  <2> QED BY <1>1, <2>1, FrameQuiet
<1>3. CASE ~\E v \in Workers \ {w} : Working(v)
  <2>1. busy' = << >>
    BY <1>3 DEF Reply
  <2>2. \A v \in Workers : saving[v] = "no"
    BY <1>1, <1>3 DEF ServiceInv, Occupied
  <2>3. ASSUME NEW r PROVE degraded = "no" => SameRundown(mem, disk, r)
    BY <2>2, Quiescent, KeyedStores, SameSnapshot
  <2>4. \A r : Since(r)' /\ Safe(r)'
    BY <1>1, <2>1, <2>2, <2>3 DEF Since, Safe
  <2> QED BY <2>4 DEF FrameInv
<1> QED BY <1>2, <1>3

\* A new process holds what the file holds.
LEMMA FrameRestart ==
    ASSUME Restart
    PROVE  FrameInv'
<1>1. mem' = disk /\ disk' = disk /\ saving' = [v \in Workers |-> "no"] /\ busy' = << >>
  BY DEF Restart, Reopen
<1>2. \A r : Since(r)' /\ Safe(r)'
  BY <1>1, SameItself DEF Since, Safe
<1> QED BY <1>2 DEF FrameInv

\* Running orders that no message in hand names stay as they are and are safe.
LEMMA FrameStep ==
    Keyed /\ ServiceInv /\ ServiceInv' /\ StoreInv /\ FrameInv /\ [Next]_vars => FrameInv'
<1> SUFFICES ASSUME Keyed, ServiceInv, ServiceInv', StoreInv, FrameInv, [Next]_vars PROVE FrameInv'
  OBVIOUS
<1>1. CASE UNCHANGED vars
  BY <1>1, FrameQuiet DEF vars, storeVars, serviceVars
<1>2. CASE Restart
  BY <1>2, FrameRestart
<1>3. ASSUME NEW w \in Workers, Step(w) PROVE FrameInv'
  <2>1. CASE Read(w) \/ WriteRefused(w)
    BY <2>1, FrameQuiet DEF Read, WriteRefused, storeVars
  <2>2. CASE Write(w)
    BY <2>2, FrameWrites DEF StoreInv
  <2>3. CASE Persist(w)
    BY <2>3, FramePersist
  <2>4. CASE Reply(w)
    BY <2>4, FrameReply
  <2> QED BY <1>3, <2>1, <2>2, <2>3, <2>4 DEF Step
<1>4. ASSUME NEW w \in Workers, NEW op \in Messages, Receive(w, op) PROVE FrameInv'
  BY <1>4, FrameReceive
<1> QED BY <1>1, <1>2, <1>3, <1>4 DEF Next

-----------------------------------------------------------------------------
(* The steps of the promise.                                               *)

\* The rundown of the abstract specification.
Shown == IF busy = << >> THEN View(mem) ELSE since

\* A worker with a message began it.
LEMMA WorkingIsBusy ==
    ASSUME ServiceInv, NEW w \in Workers, Working(w)
    PROVE  busy # << >>
BY DEF ServiceInv, Occupied

\* Steps within a message.
LEMMA Stutters ==
    ASSUME busy # << >>, UNCHANGED <<busy, since, health, answer, degraded>>
    PROVE  UNCHANGED Promise!vars
BY DEF Promise!vars

\* Entering a handler is the beginning of a message.
LEMMA ReceiveBegins ==
    ASSUME ServiceInv, NEW w \in Workers, NEW op \in Messages, Receive(w, op)
    PROVE  Promise!Begin(op)
<1>1. /\ busy' = Append(busy, op) /\ UNCHANGED <<mem, degraded, health>> /\ answer' = "none"
      /\ since' = IF busy = << >> THEN View(mem) ELSE since
  BY DEF Receive, storeVars
<1>2. busy' # << >>
  BY <1>1, NamedGrows DEF ServiceInv, Occupied
<1> QED BY <1>1, <1>2 DEF Promise!Begin

\* A save that fails is StopSaving, and one that does not is nothing to see.
LEMMA PersistPromises ==
    ASSUME ServiceInv, NEW w \in Workers, Persist(w)
    PROVE  Promise!StopSaving \/ UNCHANGED Promise!vars
<1>1. UNCHANGED <<mem, busy, since, health, answer>> /\ saving[w] # "no"
  BY DEF Persist, serviceVars, SkipSave, Lock, List, Save
<1>2. busy # << >>
  BY <1>1 DEF ServiceInv, Occupied
<1>3. degraded' = degraded \/ degraded' = "yes"
  BY DEF Persist, SkipSave, Lock, List, Save
<1>4. CASE degraded' = degraded
  BY <1>1, <1>2, <1>4, Stutters
<1>5. CASE degraded' = "yes"
  BY <1>1, <1>2, <1>5 DEF Promise!StopSaving
<1> QED BY <1>3, <1>4, <1>5

\* What the last worker to reply has to say, when it was alone.
LEMMA ReplyAnswers ==
    ASSUME ServiceInv, NEW w \in Workers, Reply(w), Len(busy) = 1
    PROVE  \/ job[w].todo = << >> /\ AnswerOf(w) = "OK"
           \/ AnswerOf(w) = "NACK"
           \/ AnswerOf(w) = "RESYNC" /\ since = View(mem)
<1>1. Working(w) /\ (job[w].todo = << >> \/ job[w].todo[1].do = "refuse")
  BY DEF Reply, At
<1>2. job[w].op \in Messages /\ Doing(mem, job[w].todo, job[w].op, busy, since)
  BY <1>1, Serves
<1>3. CASE job[w].todo = << >>
  BY <1>3 DEF AnswerOf
<1>4. CASE job[w].todo # << >> /\ job[w].todo[1].do = "refuse"
  <2>1. AnswerOf(w) = job[w].todo[1].how
    BY <1>4 DEF AnswerOf
  <2>2. CASE Proper(mem, job[w].todo, job[w].op.ro, Named)
    <3>1. TaskOf(mem, job[w].todo[1], job[w].op.ro, Named)
      BY <1>4, <2>2, ProperTail
    <3> QED BY <1>4, <2>1, <3>1 DEF TaskOf, TaskOK
  <2>3. CASE Fresh(job[w].todo, job[w].op) /\ since = View(mem)
    <3>1. CASE job[w].todo = Refuse("RESYNC")
      BY <2>1, <2>3, <3>1 DEF Refuse
    <3>2. CASE job[w].todo = Unread(job[w].op) /\ job[w].op.kind \in MessageTasks
      <4>1. job[w].todo[1].do = job[w].op.kind
        BY <3>2 DEF Unread
      <4> QED BY <1>4, <3>2, <4>1 DEF MessageTasks, Kinds, Whole, Fields, Sends, StoryEdits, ItemEdits, Wire
    <3> QED BY <2>3, <3>1, <3>2 DEF Fresh
  <2> QED BY <1>2, <2>2, <2>3 DEF Doing, Named
<1> QED BY <1>1, <1>3, <1>4

\* The end of a period.
LEMMA LastReply ==
    ASSUME ServiceInv, FrameInv, NEW w \in Workers, Reply(w), ~\E v \in Workers \ {w} : Working(v)
    PROVE  (Promise!Closing /\ Len(busy) = 1) \/ Promise!Settle
<1>1. /\ Working(w) /\ busy' = << >> /\ UNCHANGED <<mem, degraded>>
      /\ answer' = IF Len(busy) > 1 THEN "several" ELSE AnswerOf(w)
      /\ health' = HealthAfter(w)
  BY DEF Reply, storeVars
<1>2. busy # << >> /\ busy \in Seq(Messages)
  BY <1>1, WorkingIsBusy DEF ServiceInv, Occupied
<1>3. Len(busy) \in Nat /\ Len(busy) # 0
  BY <1>2, EmptySeq
<1>4. \A r \in ROs \ Named : View(mem)[r] = since[r]
  BY <1>2 DEF FrameInv, Since, View
<1>5. CASE Len(busy) > 1
  <2>1. health' = [r \in ROs |-> IF r \in Named THEN "mixed" ELSE health[r]]
    BY <1>1, <1>5 DEF HealthAfter, Named
  <2>2. Promise!Untouched(Named)
    BY <1>1, <1>2, <1>4 DEF Promise!Untouched
  <2> QED BY <1>1, <1>5, <2>1, <2>2 DEF Promise!Settle, Named
<1>6. CASE Len(busy) = 1
  <2> DEFINE op == busy[1]
  <2>1. job[w].op = op
    BY <1>1, <1>6 DEF ServiceInv, Alone
  <2>2. Named = {op.ro}
    BY <1>6 DEF Named, Promise!NamedBy
  <2>3. answer' = AnswerOf(w) /\ ~(Len(busy) > 1)
    BY <1>1, <1>6
  <2>4. /\ AnswerOf(w) = "OK" => health' = [health EXCEPT ![op.ro] = Promise!After(op, since[op.ro], @)]
        /\ AnswerOf(w) # "OK" => health' = IF View(mem) = since THEN health
                                           ELSE [health EXCEPT ![op.ro] = Promise!Worse(@)]
    BY <1>1, <2>1, <2>3 DEF HealthAfter
  <2>5. AnswerOf(w) = "OK" \/ AnswerOf(w) = "NACK" \/ (AnswerOf(w) = "RESYNC" /\ since = View(mem))
    BY <1>6, ReplyAnswers
  <2>6. Promise!Untouched({op.ro})
    BY <1>1, <1>2, <1>4, <2>2 DEF Promise!Untouched
  <2>7. \/ /\ answer' = "OK"
           /\ health' = [health EXCEPT ![op.ro] = Promise!After(op, since[op.ro], @)]
        \/ answer' \in {"NACK", "RESYNC"} /\ View(mem) = since /\ health' = health
        \/ answer' = "NACK" /\ health' = [health EXCEPT ![op.ro] = Promise!Worse(@)]
    <3>1. CASE AnswerOf(w) = "OK"
      BY <2>3, <2>4, <3>1
    <3>2. CASE AnswerOf(w) # "OK" /\ View(mem) = since
      <4>1. AnswerOf(w) \in {"NACK", "RESYNC"} /\ health' = health
        BY <2>4, <2>5, <3>2
      <4> QED BY <2>3, <3>2, <4>1
    <3>3. CASE AnswerOf(w) # "OK" /\ View(mem) # since
      <4>1. AnswerOf(w) = "NACK" /\ health' = [health EXCEPT ![op.ro] = Promise!Worse(@)]
        BY <2>4, <2>5, <3>3
      <4> QED BY <2>3, <4>1
    <3> QED BY <3>1, <3>2, <3>3
  <2> QED BY <1>1, <1>2, <1>6, <2>6, <2>7 DEF Promise!Closing
<1>7. \A n \in Nat : n # 0 => n > 1 \/ n = 1
  OBVIOUS
<1> QED BY <1>3, <1>5, <1>6, <1>7

\* A new process reports the running orders that were in no message's hand as
\* the last one did, unless a save had failed.
LEMMA RestartPromises ==
    ASSUME Keyed, ServiceInv, FrameInv, Restart
    PROVE  Promise!Restart
<1>1. /\ mem' = disk /\ busy' = << >> /\ answer' = "none" /\ degraded' = "no"
      /\ health' = Promise!Reloaded(health, Named, degraded)
  BY DEF Restart, Reopen, Named
<1>2. ASSUME degraded = "no", NEW r \in ROs \ Named
      PROVE  View(disk)[r] = Shown[r]
  <2>1. SameRundown(mem, disk, r) /\ Since(r)
    BY <1>2 DEF FrameInv, Safe
  <2>2. RundownView(mem, r) = RundownView(disk, r)
    BY <2>1, KeyedStores, SameView
  <2> QED BY <2>1, <2>2 DEF Shown, Since, View
<1>3. degraded = "no" => \A r \in ROs \ Named : View(disk)[r] = Shown[r]
  BY <1>2
<1> QED BY <1>1, <1>3 DEF Promise!Restart, Promise!Untouched, Named, Shown

\* The service starts where the promise does.
LEMMA PromiseInit == Init => Promise!Init
<1> SUFFICES ASSUME Init PROVE Promise!Init
  OBVIOUS
<1>1. DOMAIN View(mem) = ROs
  BY DEF View
<1> QED BY <1>1 DEF Init, StoreInit, Promise!Init

\* Every step of the service is a step of the promise or leaves it alone.
LEMMA PromiseStep ==
    ASSUME Keyed, ServiceInv, FrameInv, [Next]_vars
    PROVE  \/ \E op \in Messages : Promise!Begin(op)
           \/ Promise!StopSaving
           \/ /\ Promise!Closing /\ Len(busy) = 1
              /\ \E w \in Workers : Reply(w)
           \/ Promise!Settle
           \/ Promise!Restart
           \/ UNCHANGED Promise!vars
<1>1. CASE UNCHANGED vars
  BY <1>1 DEF vars, storeVars, serviceVars, Promise!vars
<1>2. CASE Restart
  BY <1>2, RestartPromises
<1>3. ASSUME NEW w \in Workers, Step(w)
      PROVE  \/ Promise!StopSaving
             \/ Promise!Closing /\ Len(busy) = 1 /\ Reply(w)
             \/ Promise!Settle
             \/ UNCHANGED Promise!vars
  <2>1. CASE Read(w) \/ Write(w) \/ WriteRefused(w)
    <3>1. Working(w) /\ UNCHANGED <<busy, since, health, answer, degraded>>
      BY <2>1 DEF Read, Write, WriteRefused, At, Mutate, storeVars
    <3> QED BY <3>1, WorkingIsBusy, Stutters
  <2>2. CASE Persist(w)
    BY <2>2, PersistPromises
  <2>3. CASE Reply(w) /\ \E v \in Workers \ {w} : Working(v)
    <3>1. Working(w) /\ UNCHANGED <<busy, since, health, answer, degraded>>
      BY <2>3 DEF Reply, storeVars
    <3> QED BY <3>1, WorkingIsBusy, Stutters
  <2>4. CASE Reply(w) /\ ~\E v \in Workers \ {w} : Working(v)
    BY <2>4, LastReply
  <2> QED BY <1>3, <2>1, <2>2, <2>3, <2>4 DEF Step
<1>4. ASSUME NEW w \in Workers, NEW op \in Messages, Receive(w, op) PROVE Promise!Begin(op)
  BY <1>4, ReceiveBegins
<1> QED BY <1>1, <1>2, <1>3, <1>4 DEF Next

-----------------------------------------------------------------------------
(* Effects.                                                                *)

\* The messages whose effect is proved.
Proven == {"roDelete", "roMetadataReplace", "roReadyToAir", "PLAY", "STOP",
           "RO status", "ITEM status", "roCtrl", "roItemCue"}

Deletion(r) == [do |-> "delete", repo |-> "ro", keys |-> {r}]
OnAirMove(op, key) == [do |-> "onAir", ro |-> op.ro, key |-> key, status |-> op.kind]

\* The tasks end with the deletion of the running order.
EndsGone(s, r) == IsList(s) /\ s # << >> /\ s[Len(s)] = Deletion(r)

\* One call is left, and it has the effect.
LastCall(m, s, op) ==
    \E c : /\ s = <<c>> /\ c.do = "update"
           /\ c.key \in DOMAIN m[c.repo]
           /\ Promise!Asked(op, RundownView(m, op.ro), RundownView(Written(m, c), op.ro))

\* The pointer is still to be moved to or from the story, and before that the
\* story may be written as it is.
Pointing(s, op) ==
    \E key : /\ op.kind \in {"PLAY", "STOP"}
             /\ StoryKeyOf(key, op.ro) /\ Len(key) = 2 /\ Last(key) = op.story
             /\ s = <<OnAirMove(op, key)>>

Echoing(m, s, op) ==
    \E c, t : /\ s = <<c, t>> /\ Pointing(<<t>>, op)
              /\ c.do = "update" /\ c.repo = "story"
              /\ c.key \in DOMAIN m.story /\ c.rec = m.story[c.key]

\* How far a message handled alone has come.
Owing(m, s, op, then) ==
    \/ s # << >> /\ s[1].do = "refuse"
    \/ s = << >> /\ Promise!Asked(op, then[op.ro], RundownView(m, op.ro))
    \/ op.kind = "roDelete" /\ EndsGone(s, op.ro)
    \/ /\ then = View(m)
       /\ op.kind # "roDelete"
       /\ s = Unread(op) \/ LastCall(m, s, op) \/ Pointing(s, op) \/ Echoing(m, s, op)

Owed ==
    Len(busy) = 1 => \A w \in Workers :
        Working(w) /\ job[w].op.kind \in Proven => Owing(mem, job[w].todo, job[w].op, since)

\* What the proved messages ask for, by kind.
LEMMA AskedOf ==
    ASSUME NEW op, NEW R, NEW S
    PROVE  /\ op.kind = "roDelete" /\ S = NoRundown => Promise!Asked(op, R, S)
           /\ op.kind \in {"RO status", "ITEM status", "roCtrl", "roItemCue"} /\ S = R => Promise!Asked(op, R, S)
           /\ op.kind = "roMetadataReplace" /\ Promise!Only(R, S, "meta") /\ S.meta = op.meta => Promise!Asked(op, R, S)
           /\ op.kind = "roReadyToAir" /\ Promise!Only(R, S, "air") /\ S.air = op.air => Promise!Asked(op, R, S)
           /\ op.kind = "PLAY" /\ Promise!Only(R, S, "onAir") /\ S.onAir = op.story => Promise!Asked(op, R, S)
           /\ op.kind = "STOP" /\ Promise!Only(R, S, "onAir")
                  /\ S.onAir = (IF R.onAir = op.story THEN 0 ELSE R.onAir) => Promise!Asked(op, R, S)
BY DEF Promise!Asked

\* Writing a record back as it is changes nothing.
LEMMA EchoSame ==
    ASSUME Keyed, NEW m, Consistent(m), KeyedStore(m), NEW c, c.do = "update", c.repo \in Tables,
           c.key \in DOMAIN m[c.repo], c.rec = m[c.repo][c.key]
    PROVE  /\ \A r : RundownView(Written(m, c), r) = RundownView(m, r)
           /\ View(Written(m, c)) = View(m)
<1> DEFINE n == Written(m, c)
<1>1. /\ DOMAIN n = {"ro", "story", "item"}
      /\ \A x \in Tables : x # c.repo => n[x] = m[x]
      /\ DOMAIN n[c.repo] = DOMAIN m[c.repo] \cup {c.key}
      /\ n[c.repo][c.key] = c.rec
      /\ \A k \in DOMAIN m[c.repo] : k # c.key => n[c.repo][k] = m[c.repo][k]
  BY WrittenFacts
<1> HIDE DEF n
<1>2. \A x \in Tables : DOMAIN n[x] = DOMAIN m[x] /\ \A k \in DOMAIN m[x] : n[x][k] = m[x][k]
  BY <1>1
<1>3. Consistent(n)
  BY <1>1, <1>2 DEF Consistent, Tables
<1>4. KeyedStore(n)
  BY <1>2 DEF KeyedStore, Tables
<1>5. ASSUME NEW r PROVE RundownView(n, r) = RundownView(m, r)
  <2>1. SameRundown(m, n, r)
    BY <1>2 DEF SameRundown, SameRO, SameStories, Tables
  <2> QED BY <1>3, <1>4, <2>1, SameView
<1> QED BY <1>5 DEF View, n

\* What a change of the running order's own record does to its rundown.
LEMMA FieldView ==
    ASSUME NEW m, Consistent(m), NEW r \in DOMAIN m.ro, NEW c, c.do = "update", c.repo = "ro", c.key = r
    PROVE  LET R == RundownView(m, r)
               S == RundownView(Written(m, c), r)
           IN  /\ R # NoRundown /\ S # NoRundown
               /\ DOMAIN R = {"meta", "air", "onAir", "stories"}
               /\ S.stories = R.stories
               /\ R.meta = m.ro[r].meta /\ S.meta = c.rec.meta
               /\ R.air = m.ro[r].air /\ S.air = c.rec.air
               /\ R.onAir = IF m.ro[r].onAir = NoKey THEN 0 ELSE Last(m.ro[r].onAir)
               /\ S.onAir = IF c.rec.onAir = NoKey THEN 0 ELSE Last(c.rec.onAir)
<1> DEFINE n == Written(m, c)
           A == ListByRunningOrder(m, r)
           R == RundownView(m, r)
           S == RundownView(n, r)
<1>1. n.story = m.story /\ n.item = m.item /\ r \in DOMAIN n.ro /\ n.ro[r] = c.rec
  BY WrittenFacts DEF Tables
<1> HIDE DEF n
<1>2. ListByRunningOrder(n, r) = A
  BY <1>1 DEF ListByRunningOrder
<1>3. \A k : ListByStory(n, k) = ListByStory(m, k)
  BY <1>1 DEF ListByStory
<1>4. \A k : ItemView(n, k) = ItemView(m, k)
  BY <1>1, <1>3 DEF ItemView
<1>5. \A k : StoryView(n, k) = StoryView(m, k)
  BY <1>1, <1>4 DEF StoryView
<1>6. R = [meta |-> m.ro[r].meta, air |-> m.ro[r].air,
           onAir |-> IF m.ro[r].onAir = NoKey THEN 0 ELSE Last(m.ro[r].onAir),
           stories |-> [i \in 1 .. Len(A) |-> StoryView(m, A[i])]]
  BY DEF RundownView
<1>7. S = [meta |-> c.rec.meta, air |-> c.rec.air,
           onAir |-> IF c.rec.onAir = NoKey THEN 0 ELSE Last(c.rec.onAir),
           stories |-> [i \in 1 .. Len(A) |-> StoryView(n, A[i])]]
  BY <1>1, <1>2 DEF RundownView
<1> HIDE DEF A, R, S
<1>8. DOMAIN NoRundown = {"answer"}
  BY DEF NoRundown
<1>9. S.stories = R.stories
  BY <1>5, <1>6, <1>7
<1>10. DOMAIN R = {"meta", "air", "onAir", "stories"} /\ DOMAIN S = {"meta", "air", "onAir", "stories"}
  BY <1>6, <1>7
<1>11. R # NoRundown /\ S # NoRundown
  BY <1>8, <1>10
<1>12. /\ R.meta = m.ro[r].meta /\ S.meta = c.rec.meta
       /\ R.air = m.ro[r].air /\ S.air = c.rec.air
       /\ R.onAir = IF m.ro[r].onAir = NoKey THEN 0 ELSE Last(m.ro[r].onAir)
       /\ S.onAir = IF c.rec.onAir = NoKey THEN 0 ELSE Last(c.rec.onAir)
  BY <1>6, <1>7
<1> QED BY <1>9, <1>10, <1>11, <1>12 DEF R, S, n

\* The call of a message that changes one field.
LEMMA FieldCall ==
    ASSUME NEW m, Consistent(m), NEW op, op.ro \in DOMAIN m.ro,
           op.kind \in {"roMetadataReplace", "roReadyToAir"}
    PROVE  LastCall(m, IF op.kind = "roMetadataReplace" THEN ReplaceMetadata(m, op) ELSE SetReadyToAir(m, op), op)
<1> DEFINE r == op.ro
           rec == IF op.kind = "roMetadataReplace" THEN [m.ro[r] EXCEPT !.meta = op.meta]
                  ELSE [m.ro[r] EXCEPT !.air = op.air]
           c == Call("update", "ro", r, rec, "NACK")
           s == IF op.kind = "roMetadataReplace" THEN ReplaceMetadata(m, op) ELSE SetReadyToAir(m, op)
           R == RundownView(m, r)
           S == RundownView(Written(m, c), r)
<1>1. DOMAIN m.ro[r] = {"meta", "air", "onAir"}
  BY ROFacts
<1>2. /\ op.kind = "roMetadataReplace" => rec.meta = op.meta /\ rec.air = m.ro[r].air /\ rec.onAir = m.ro[r].onAir
      /\ op.kind = "roReadyToAir" => rec.meta = m.ro[r].meta /\ rec.air = op.air /\ rec.onAir = m.ro[r].onAir
  BY <1>1
<1>3. s = Update("ro", r, rec)
  BY DEF ReplaceMetadata, SetReadyToAir
<1> HIDE DEF rec
<1>4. s = <<c>>
  BY <1>3, CallForms
<1>5. c.do = "update" /\ c.repo = "ro" /\ c.key = r /\ c.rec = rec
  BY DEF Call
<1> HIDE DEF c
<1>6. /\ R # NoRundown /\ S # NoRundown
      /\ DOMAIN R = {"meta", "air", "onAir", "stories"}
      /\ S.stories = R.stories
      /\ R.meta = m.ro[r].meta /\ S.meta = rec.meta
      /\ R.air = m.ro[r].air /\ S.air = rec.air
      /\ R.onAir = IF m.ro[r].onAir = NoKey THEN 0 ELSE Last(m.ro[r].onAir)
      /\ S.onAir = IF rec.onAir = NoKey THEN 0 ELSE Last(rec.onAir)
  BY <1>5, FieldView
<1> HIDE DEF R, S
<1>7. op.kind = "roMetadataReplace" => Promise!Only(R, S, "meta") /\ S.meta = op.meta
  BY <1>2, <1>6 DEF Promise!Only
<1>8. op.kind = "roReadyToAir" => Promise!Only(R, S, "air") /\ S.air = op.air
  BY <1>2, <1>6 DEF Promise!Only
<1>9. Promise!Asked(op, R, S)
  BY <1>7, <1>8, AskedOf
<1>10. c.key \in DOMAIN m[c.repo]
  BY <1>5
<1> HIDE DEF s
<1>11. LastCall(m, s, op)
  BY <1>4, <1>5, <1>9, <1>10 DEF LastCall, R, S
<1> QED BY <1>11 DEF s

Reports == {"RO status", "ITEM status", "roCtrl", "roItemCue"}

\* The call of a status report.
LEMMA EchoLastCall ==
    ASSUME Keyed, NEW m, Consistent(m), KeyedStore(m), NEW op,
           op.kind \in Reports,
           NEW c, c.do = "update", c.repo \in Tables,
           c.key \in DOMAIN m[c.repo], c.rec = m[c.repo][c.key]
    PROVE  LastCall(m, <<c>>, op)
<1>1. RundownView(Written(m, c), op.ro) = RundownView(m, op.ro)
  BY EchoSame
<1>2. Promise!Asked(op, RundownView(m, op.ro), RundownView(Written(m, c), op.ro))
  BY <1>1, AskedOf DEF Reports
<1> QED BY <1>2 DEF LastCall

\* What a message decides when it first looks.
LEMMA FirstLook ==
    ASSUME Keyed, NEW m, NEW ros, NEW op \in Messages, Setting(m, op.ro, ros),
           op.kind \in Proven \ {"roDelete"}
    PROVE  Owing(m, Seen(m, Unread(op)[1]) \o Tail(Unread(op)), op, View(m))
<1> DEFINE t == [do |-> op.kind, op |-> op]
           r == op.ro
           s == Seen(m, t)
<1>1. Unread(op) = <<t>> /\ t.do = op.kind /\ t.op = op
  BY DEF Unread
<1> HIDE DEF t
<1>2. Unread(op)[1] = t /\ Tail(Unread(op)) = << >>
  BY <1>1
<1>3. op.kind \in MessageTasks
  BY DEF Proven, MessageTasks, Kinds, Fields, Wire, Whole
<1>4. IsList(s)
  <2>1. Answered(m, s, r, ros)
    BY <1>1, <1>3, MessageProper
  <2>2. IsList(Refuse("RESYNC"))
    BY DEF Refuse, IsList, ToSet
  <2> QED BY <2>1, <2>2 DEF Answered, Proper
<1>5. Seen(m, Unread(op)[1]) \o Tail(Unread(op)) = s
  BY <1>2, <1>4, ConcatEmptySeq DEF IsList
<1> SUFFICES Owing(m, s, op, View(m))
  BY <1>5
<1>6. Consistent(m) /\ KeyedStore(m) /\ r \in ROs
  BY DEF Setting
<1>7. \A how : Refuse(how) # << >> /\ Refuse(how)[1].do = "refuse"
  BY DEF Refuse
<1>8. LastCall(m, s, op) => Owing(m, s, op, View(m))
  BY DEF Owing
<1>9. CASE op.kind \in {"roMetadataReplace", "roReadyToAir"}
  <2>1. s = IF op.kind = "roMetadataReplace" THEN ReplaceMetadata(m, op) ELSE SetReadyToAir(m, op)
    BY <1>1, <1>9 DEF Seen
  <2>2. CASE r \notin DOMAIN m.ro
    BY <1>7, <2>1, <2>2 DEF Owing, ReplaceMetadata, SetReadyToAir
  <2>3. CASE r \in DOMAIN m.ro
    <3> HIDE DEF s
    <3> QED BY <1>6, <1>8, <1>9, <2>1, <2>3, FieldCall
  <2> QED BY <2>2, <2>3
<1>10. CASE op.kind = "RO status"
  <2>1. s = IF r \notin DOMAIN m.ro THEN Refuse("NACK") ELSE Update("ro", r, m.ro[r])
    BY <1>1, <1>10 DEF Seen, ProcessElementStatus, applyROStatus
  <2> HIDE DEF s
  <2>2. CASE r \notin DOMAIN m.ro
    BY <1>7, <2>1, <2>2 DEF Owing
  <2>3. CASE r \in DOMAIN m.ro
    <3> DEFINE c == Call("update", "ro", r, m.ro[r], "NACK")
    <3>1. s = <<c>>
      BY <2>1, <2>3, CallForms
    <3>2. c.do = "update" /\ c.repo = "ro" /\ c.key = r /\ c.rec = m.ro[r]
      BY DEF Call
    <3> HIDE DEF c
    <3>3. c.repo \in Tables /\ c.key \in DOMAIN m[c.repo] /\ c.rec = m[c.repo][c.key]
      BY <2>3, <3>2 DEF Tables
    <3>4. op.kind \in Reports
      BY <1>10 DEF Reports
    <3>5. c.do = "update"
      BY <3>2
    <3>6. LastCall(m, <<c>>, op)
      BY <1>6, <3>3, <3>4, <3>5, EchoLastCall, Zenon
    <3> QED BY <1>8, <3>1, <3>6, Zenon
  <2> QED BY <2>2, <2>3
<1>11. CASE op.kind = "ITEM status"
  <2> DEFINE story == resolveStory(m, r, op.story)
             item == resolveItem(m, story, op.item)
  <2>1. s = IF story = NoKey THEN Refuse("RESYNC")
            ELSE IF item = NoKey THEN Refuse("NACK")
            ELSE Update("item", item, m.item[item])
    BY <1>1, <1>11 DEF Seen, ProcessElementStatus, applyItemStatus
  <2>2. op.story \in Nat /\ op.item \in Nat
    BY <1>11, MessageFacts
  <2> HIDE DEF s
  <2>3. CASE story = NoKey \/ item = NoKey
    BY <1>7, <2>1, <2>3 DEF Owing
  <2>4. CASE story # NoKey /\ item # NoKey
    <3>1. StoryKey(story)
      BY <2>2, <2>4, ResolvedInner
    <3>2. item \in DOMAIN m.item
      <4> HIDE DEF story
      <4> QED BY <1>6, <2>2, <2>4, <3>1, ResolvedItem
    <3> HIDE DEF item, story
    <3> DEFINE c == Call("update", "item", item, m.item[item], "NACK")
    <3>3. s = <<c>>
      BY <2>1, <2>4, CallForms
    <3>4. c.do = "update" /\ c.repo = "item" /\ c.key = item /\ c.rec = m.item[item]
      BY DEF Call
    <3> HIDE DEF c
    <3>5. c.repo \in Tables /\ c.key \in DOMAIN m[c.repo] /\ c.rec = m[c.repo][c.key]
      BY <3>2, <3>4 DEF Tables
    <3>6. op.kind \in Reports
      BY <1>11 DEF Reports
    <3>7. c.do = "update"
      BY <3>4
    <3>8. LastCall(m, <<c>>, op)
      BY <1>6, <3>5, <3>6, <3>7, EchoLastCall, Zenon
    <3> QED BY <1>8, <3>3, <3>8, Zenon
  <2> QED BY <2>3, <2>4
<1>12. CASE op.kind \in {"roCtrl", "roItemCue"}
  <2> DEFINE k == <<op.item>>
             u == Update("item", k, m.item[k])
  <2>1. \/ s = IF k \notin DOMAIN m.item THEN Refuse("NACK") ELSE u
        \/ op.kind = "roItemCue" /\ s = IF k \notin DOMAIN m.item THEN << >> ELSE Leniently(u)
    BY <1>1, <1>12 DEF Seen, ProcessROCtrl, ProcessROItemCue
  <2> HIDE DEF k, s
  <2>2. u = <<Call("update", "item", k, m.item[k], "NACK")>>
    BY CallForms
  <2>3. Leniently(<<Call("update", "item", k, m.item[k], "NACK")>>)
        = <<Call("update", "item", k, m.item[k], "ignored")>>
    BY DEF Leniently, Call
  <2>4. CASE s = << >> /\ op.kind = "roItemCue"
    <3>1. View(m)[r] = RundownView(m, r)
      BY <1>6 DEF View
    <3> QED BY <2>4, <3>1, AskedOf DEF Owing
  <2>5. CASE s = Refuse("NACK")
    BY <1>7, <2>5 DEF Owing
  <2>6. CASE k \in DOMAIN m.item /\ (s = u \/ s = Leniently(u))
    <3>1. PICK refused : s = <<Call("update", "item", k, m.item[k], refused)>>
      BY <2>2, <2>3, <2>6
    <3> DEFINE c == Call("update", "item", k, m.item[k], refused)
    <3>2. c.do = "update" /\ c.repo = "item" /\ c.key = k /\ c.rec = m.item[k]
      BY DEF Call
    <3> HIDE DEF c
    <3>3. c.repo \in Tables /\ c.key \in DOMAIN m[c.repo] /\ c.rec = m[c.repo][c.key]
      BY <2>6, <3>2 DEF Tables
    <3>4. op.kind \in Reports
      BY <1>12 DEF Reports
    <3>5. c.do = "update"
      BY <3>2
    <3>6. LastCall(m, <<c>>, op)
      BY <1>6, <3>3, <3>4, <3>5, EchoLastCall, Zenon
    <3> QED BY <1>8, <3>1, <3>6 DEF c
  <2> QED BY <2>1, <2>4, <2>5, <2>6
<1>13. CASE op.kind \in {"PLAY", "STOP"}
  <2> DEFINE key == resolveStory(m, r, op.story)
             c == Call("update", "story", key, m.story[key], "NACK")
             x == OnAirMove(op, key)
  <2>1. s = IF key = NoKey THEN Refuse("RESYNC") ELSE Update("story", key, m.story[key]) \o <<x>>
    BY <1>1, <1>13 DEF Seen, ProcessElementStatus, applyStoryStatus, OnAirMove
  <2>2. op.story \in Nat
    BY <1>13, MessageFacts
  <2> HIDE DEF s
  <2>3. CASE key = NoKey
    BY <1>7, <2>1, <2>3 DEF Owing
  <2>4. CASE key # NoKey
    <3>1. key \in DOMAIN m.story /\ StoryKeyOf(key, r) /\ Len(key) = 2
      BY <2>2, <2>4, ResolvedInner
    <3>2. Last(key) = op.story
      BY <1>6, <2>2, <2>4, ResolvedStory
    <3> HIDE DEF key
    <3>3. Pointing(<<x>>, op)
      BY <1>13, <3>1, <3>2 DEF Pointing
    <3>4. c.do = "update" /\ c.repo = "story" /\ c.key = key /\ c.rec = m.story[key]
      BY DEF Call
    <3>5. s = <<c>> \o <<x>>
      BY <2>1, <2>4, CallForms
    <3> HIDE DEF c, x
    <3>a. \A a, b : <<a>> \o <<b>> = <<a, b>>
      <4> SUFFICES ASSUME NEW a, NEW b PROVE <<a>> \o <<b>> = <<a, b>>
        OBVIOUS
      <4> DEFINE S == {a, b}
      <4>1. <<a>> \in Seq(S) /\ <<b>> \in Seq(S) /\ <<a, b>> \in Seq(S)
        OBVIOUS
      <4>2. <<a>> \o <<b>> \in Seq(S) /\ Len(<<a>> \o <<b>>) = Len(<<a>>) + Len(<<b>>)
        BY <4>1, ConcatProperties
      <4>3. (<<a>> \o <<b>>)[1] = a /\ (<<a>> \o <<b>>)[2] = b
        OBVIOUS
      <4>4. Len(<<a>> \o <<b>>) = 2 /\ Len(<<a, b>>) = 2
        BY <4>2
      <4> DEFINE u == <<a>> \o <<b>>
                 v == <<a, b>>
      <4>5. u \in Seq(S) /\ v \in Seq(S) /\ Len(u) = Len(v) /\ Len(u) = 2 /\ u[1] = v[1] /\ u[2] = v[2]
        BY <4>1, <4>2, <4>3, <4>4
      <4> HIDE DEF u, v
      <4>6. \A i \in 1 .. Len(u) : u[i] = v[i]
        BY <4>5
      <4>7. u = v
        BY <4>5, <4>6, SeqEqual
      <4> QED BY <4>7 DEF u, v
    <3>6. s = <<c, x>>
      BY <3>5, <3>a
    <3>7. Echoing(m, s, op)
      BY <3>1, <3>3, <3>4, <3>6 DEF Echoing
    <3> QED BY <1>13, <3>7 DEF Owing
  <2> QED BY <2>3, <2>4
<1> QED BY <1>9, <1>10, <1>11, <1>12, <1>13 DEF Proven

\* What the move of the on-air pointer finds.
LEMMA PointerLook ==
    ASSUME Keyed, NEW m, Consistent(m), KeyedStore(m), NEW op \in Messages, NEW s, Pointing(s, op)
    PROVE  Owing(m, Seen(m, s[1]) \o Tail(s), op, View(m))
<1> DEFINE r == op.ro
<1>1. PICK key : /\ op.kind \in {"PLAY", "STOP"}
                 /\ StoryKeyOf(key, r) /\ Len(key) = 2 /\ Last(key) = op.story
                 /\ s = <<OnAirMove(op, key)>>
  BY DEF Pointing
<1> DEFINE t == OnAirMove(op, key)
<1>2. t.do = "onAir" /\ t.ro = r /\ t.key = key /\ t.status = op.kind
  BY DEF OnAirMove
<1>3. s[1] = t /\ Tail(s) = << >>
  BY <1>1
<1> HIDE DEF t
<1>4. Seen(m, t) = MoveOnAirPointer(m, t)
  BY <1>2 DEF Seen
<1>5. CASE r \notin DOMAIN m.ro
  <2>1. Seen(m, t) = Refuse("NACK")
    BY <1>2, <1>4, <1>5 DEF MoveOnAirPointer
  <2>2. Seen(m, t) \o << >> = Refuse("NACK")
    BY <2>1 DEF Refuse
  <2>3. Refuse("NACK") # << >> /\ Refuse("NACK")[1].do = "refuse"
    BY DEF Refuse
  <2> QED BY <1>3, <2>2, <2>3 DEF Owing
<1>6. CASE r \in DOMAIN m.ro
  <2> DEFINE x == OnAirAfter(m.ro[r].onAir, key, op.kind)
             rec == [m.ro[r] EXCEPT !.onAir = x]
             c == Call("update", "ro", r, rec, "NACK")
             R == RundownView(m, r)
             S == RundownView(Written(m, c), r)
  <2>1. DOMAIN m.ro[r] = {"meta", "air", "onAir"} /\ (m.ro[r].onAir = NoKey \/ StoryKeyOf(m.ro[r].onAir, r))
    BY <1>6, ROFacts
  <2>2. Seen(m, t) = Update("ro", r, rec)
    BY <1>2, <1>4, <1>6 DEF MoveOnAirPointer
  <2>3. /\ op.kind = "PLAY" => x = key
        /\ op.kind = "STOP" => x = IF m.ro[r].onAir = key THEN NoKey ELSE m.ro[r].onAir
    BY DEF OnAirAfter
  <2> HIDE DEF x
  <2>4. rec.meta = m.ro[r].meta /\ rec.air = m.ro[r].air /\ rec.onAir = x
    BY <2>1
  <2> HIDE DEF rec
  <2>5. Seen(m, t) = <<c>>
    BY <2>2, CallForms
  <2>6. c.do = "update" /\ c.repo = "ro" /\ c.key = r /\ c.rec = rec
    BY DEF Call
  <2> HIDE DEF c
  <2>7. /\ R # NoRundown /\ S # NoRundown
        /\ DOMAIN R = {"meta", "air", "onAir", "stories"}
        /\ S.stories = R.stories
        /\ R.meta = m.ro[r].meta /\ S.meta = rec.meta
        /\ R.air = m.ro[r].air /\ S.air = rec.air
        /\ R.onAir = IF m.ro[r].onAir = NoKey THEN 0 ELSE Last(m.ro[r].onAir)
        /\ S.onAir = IF rec.onAir = NoKey THEN 0 ELSE Last(rec.onAir)
    BY <1>6, <2>6, FieldView
  <2> HIDE DEF R, S
  <2>8. Promise!Only(R, S, "onAir")
    BY <2>4, <2>7 DEF Promise!Only
  <2>9. key # NoKey /\ key = <<r, op.story>>
    BY <1>1, StoryKeyFacts
  <2>10. m.ro[r].onAir # NoKey => m.ro[r].onAir = <<r, Last(m.ro[r].onAir)>>
    BY <1>6, <2>1, StoryKeyFacts DEF KeyedStore
  <2>11. op.kind = "PLAY" => S.onAir = op.story
    BY <1>1, <2>3, <2>4, <2>7, <2>9
  <2>12. op.kind = "STOP" => S.onAir = IF R.onAir = op.story THEN 0 ELSE R.onAir
    <3>1. CASE m.ro[r].onAir = NoKey
      BY <2>3, <2>4, <2>7, <3>1
    <3>2. CASE m.ro[r].onAir # NoKey /\ m.ro[r].onAir = key
      BY <2>3, <2>4, <2>7, <1>1, <3>2
    <3>3. CASE m.ro[r].onAir # NoKey /\ m.ro[r].onAir # key
      <4>1. Last(m.ro[r].onAir) # op.story
        BY <2>9, <2>10, <3>3
      <4> QED BY <2>3, <2>4, <2>7, <3>3, <4>1
    <3> QED BY <3>1, <3>2, <3>3
  <2>13. Promise!Asked(op, R, S)
    BY <1>1, <2>8, <2>11, <2>12, AskedOf
  <2>14. c.key \in DOMAIN m[c.repo]
    BY <1>6, <2>6
  <2>15. LastCall(m, <<c>>, op)
    BY <2>6, <2>13, <2>14 DEF LastCall, R, S
  <2>16. Seen(m, s[1]) \o Tail(s) = <<c>>
    <3>1. \A a : <<a>> \o << >> = <<a>>
      OBVIOUS
    <3> QED BY <1>3, <2>5, <3>1
  <2> QED BY <1>1, <2>15, <2>16 DEF Owing
<1> QED BY <1>5, <1>6

\* What comes before does not matter.
LEMMA EndsLater ==
    ASSUME NEW u, NEW v, NEW r, IsList(u), EndsGone(v, r)
    PROVE  EndsGone(u \o v, r)
<1>1. IsList(v) /\ v # << >> /\ v[Len(v)] = Deletion(r) /\ Len(v) \in Nat /\ Len(u) \in Nat
  BY ListFacts DEF EndsGone
<1>2. Len(v) # 0
  BY <1>1, EmptySeq DEF IsList
<1>3. /\ IsList(u \o v) /\ Len(u \o v) = Len(u) + Len(v)
      /\ \A n \in 1 .. Len(u \o v) :
            \/ n \in 1 .. Len(u) /\ (u \o v)[n] = u[n]
            \/ n - Len(u) \in 1 .. Len(v) /\ (u \o v)[n] = v[n - Len(u)]
  BY <1>1, ConcatIsList
<1> DEFINE w == u \o v
<1> HIDE DEF w
<1>4. Len(w) \in 1 .. Len(w) /\ Len(w) \notin 1 .. Len(u) /\ Len(w) - Len(u) = Len(v)
  BY <1>1, <1>2, <1>3 DEF w
<1>5. w[Len(w)] = Deletion(r)
  BY <1>1, <1>3, <1>4 DEF w
<1>6. w # << >>
  BY <1>4
<1> QED BY <1>3, <1>5, <1>6 DEF EndsGone, w

\* The deletion stays at the end.
LEMMA DeletionLast ==
    ASSUME NEW s, NEW r, EndsGone(s, r)
    PROVE  /\ s[1] # Deletion(r) => /\ EndsGone(Tail(s), r)
                                    /\ \A u : IsList(u) => EndsGone(u \o Tail(s), r)
           /\ Tail(s) = << >> => s[1] = Deletion(r)
           /\ Tail(s) # << >> => EndsGone(Tail(s), r)
<1>1. /\ IsList(s) /\ IsList(Tail(s)) /\ Len(Tail(s)) = Len(s) - 1 /\ Len(s) >= 1
      /\ \A n \in 1 .. Len(Tail(s)) : Tail(s)[n] = s[n + 1]
      /\ s[Len(s)] = Deletion(r)
  BY TailIsList DEF EndsGone
<1>2. Len(s) \in Nat /\ Len(Tail(s)) \in Nat
  BY <1>1, ListFacts
<1>3. ASSUME Tail(s) = << >> PROVE s[1] = Deletion(r)
  <2>a. Len(<< >>) = 0
    OBVIOUS
  <2>1. Len(Tail(s)) = 0
    BY <1>3, <2>a, Zenon
  <2>2. Len(s) = 1
    BY <1>1, <1>2, <2>1
  <2> QED BY <1>1, <2>2
<1>4. ASSUME Tail(s) # << >> PROVE EndsGone(Tail(s), r)
  <2>1. Len(Tail(s)) # 0
    BY <1>1, <1>4, EmptySeq DEF IsList
  <2>a. \A a, b \in Nat : a = b - 1 /\ a # 0 => a \in 1 .. a /\ a + 1 = b
    OBVIOUS
  <2>2. Len(Tail(s)) \in 1 .. Len(Tail(s)) /\ Len(Tail(s)) + 1 = Len(s)
    BY <1>1, <1>2, <2>1, <2>a, Zenon
  <2>3. Tail(s)[Len(Tail(s))] = s[Len(s)]
    BY <1>1, <2>2
  <2> QED BY <1>1, <1>4, <2>3 DEF EndsGone
<1> QED BY <1>3, <1>4, EndsLater

\* A message that begins.
LEMMA OwingBegins ==
    ASSUME NEW m, NEW op \in Messages, op.kind \in Proven
    PROVE  Owing(m, Program(op), op, View(m))
<1>1. CASE op.kind = "roDelete"
  <2> DEFINE c == [do |-> "clear", ro |-> op.ro]
             d == Deletion(op.ro)
  <2>1. Program(op) = <<c>> \o <<d>>
    BY <1>1 DEF Program, DeleteRunningOrder, Delete, Deletion
  <2> HIDE DEF c, d
  <2>2. \A x : IsList(<<x>>) /\ <<x>> # << >> /\ Len(<<x>>) = 1 /\ <<x>>[1] = x
    BY DEF IsList, ToSet
  <2>3. EndsGone(<<d>>, op.ro)
    BY <2>2 DEF EndsGone, d
  <2>4. EndsGone(<<c>> \o <<d>>, op.ro)
    BY <2>2, <2>3, EndsLater
  <2> QED BY <1>1, <2>1, <2>4 DEF Owing
<1>2. CASE op.kind # "roDelete"
  <2>1. Program(op) = Unread(op)
    BY <1>2 DEF Proven, Program, Unread
  <2> QED BY <1>2, <2>1 DEF Owing
<1> QED BY <1>1, <1>2

\* The first task of a message, by how far it has come.
LEMMA OwingNow ==
    ASSUME NEW m, NEW s, NEW op \in Messages, op.kind \in Proven, NEW then, Owing(m, s, op, then),
           s # << >>, s[1].do # "refuse"
    PROVE  \/ op.kind = "roDelete" /\ EndsGone(s, op.ro)
           \/ /\ then = View(m) /\ op.kind # "roDelete"
              /\ \/ s = Unread(op) /\ s[1].do \notin Calls
                 \/ Pointing(s, op) /\ s[1].do \notin Calls
                 \/ LastCall(m, s, op) /\ s[1].do = "update" /\ ~Refused(m, s[1])
                 \/ Echoing(m, s, op) /\ s[1].do = "update" /\ ~Refused(m, s[1])
<1>1. s = Unread(op) => s[1].do = op.kind
  BY DEF Unread
<1>2. op.kind \notin Calls
  BY DEF Proven, Calls
<1>3. Pointing(s, op) => s[1].do = "onAir"
  BY DEF Pointing, OnAirMove
<1>4. LastCall(m, s, op) => s[1].do = "update" /\ ~Refused(m, s[1])
  BY DEF LastCall, Refused
<1>5. Echoing(m, s, op) => s[1].do = "update" /\ ~Refused(m, s[1])
  <2> SUFFICES ASSUME NEW c, NEW t, s = <<c, t>>, c.do = "update", c.repo = "story", c.key \in DOMAIN m.story
               PROVE  s[1].do = "update" /\ ~Refused(m, s[1])
    BY DEF Echoing
  <2>1. s[1] = c
    OBVIOUS
  <2> QED BY <2>1 DEF Refused
<1>6. "onAir" \notin Calls
  BY DEF Calls
<1> QED BY <1>1, <1>2, <1>3, <1>4, <1>5, <1>6 DEF Owing

\* A read brings the message on.
LEMMA OwingRead ==
    ASSUME Keyed, NEW m, NEW ros, NEW op \in Messages, op.kind \in Proven, Setting(m, op.ro, ros),
           NEW s, s # << >>, s[1].do \notin Calls \cup {"refuse"},
           op.kind = "roDelete" => IsList(Seen(m, s[1])),
           NEW then, Owing(m, s, op, then)
    PROVE  Owing(m, Seen(m, s[1]) \o Tail(s), op, then)
<1>1. "update" \in Calls /\ "delete" \in Calls
  BY DEF Calls
<1>2. CASE op.kind = "roDelete" /\ EndsGone(s, op.ro)
  <2>1. s[1] # Deletion(op.ro)
    BY <1>1 DEF Deletion
  <2>2. EndsGone(Seen(m, s[1]) \o Tail(s), op.ro)
    BY <1>2, <2>1, DeletionLast
  <2> QED BY <1>2, <2>2 DEF Owing
<1>3. CASE then = View(m) /\ op.kind # "roDelete" /\ s = Unread(op)
  BY <1>3, FirstLook
<1>4. CASE then = View(m) /\ op.kind # "roDelete" /\ Pointing(s, op)
  BY <1>4, PointerLook DEF Setting
<1> QED BY <1>1, <1>2, <1>3, <1>4, OwingNow

\* So does a repository call: the last one has the effect.
LEMMA OwingWrite ==
    ASSUME Keyed, NEW m, Consistent(m), KeyedStore(m), NEW op \in Messages, op.kind \in Proven,
           NEW s, s # << >>, s[1].do \in Calls, s[1].repo \in Tables,
           NEW then, Owing(m, s, op, then)
    PROVE  Owing(Written(m, s[1]), Tail(s), op, then)
<1> DEFINE n == Written(m, s[1])
           r == op.ro
<1>0. s[1].do # "refuse" /\ r \in ROs
  BY MessageFacts DEF Calls
<1>1. CASE op.kind = "roDelete" /\ EndsGone(s, r) /\ Tail(s) # << >>
  BY <1>1, DeletionLast DEF Owing
<1>2. CASE op.kind = "roDelete" /\ EndsGone(s, r) /\ Tail(s) = << >>
  <2>1. s[1] = Deletion(r)
    BY <1>2, DeletionLast
  <2>2. s[1].do = "delete" /\ s[1].repo = "ro" /\ s[1].keys = {r}
    BY <2>1 DEF Deletion
  <2>3. r \notin DOMAIN n.ro
    BY <2>2, WrittenFacts
  <2>4. RundownView(n, r) = NoRundown
    BY <2>3 DEF RundownView
  <2>5. Promise!Asked(op, then[r], RundownView(n, r))
    BY <1>2, <2>4, AskedOf
  <2> QED BY <1>2, <2>5 DEF Owing
<1>3. CASE then = View(m) /\ op.kind # "roDelete" /\ LastCall(m, s, op)
  <2>1. PICK c : s = <<c>> /\ Promise!Asked(op, RundownView(m, r), RundownView(Written(m, c), r))
    BY <1>3 DEF LastCall
  <2>2. s[1] = c /\ Tail(s) = << >>
    BY <2>1
  <2>3. then[r] = RundownView(m, r)
    BY <1>0, <1>3 DEF View
  <2>4. Promise!Asked(op, then[r], RundownView(n, r))
    BY <2>1, <2>2, <2>3
  <2> HIDE DEF n
  <2> QED BY <2>2, <2>4 DEF Owing, n
<1>4. CASE then = View(m) /\ op.kind # "roDelete" /\ Echoing(m, s, op)
  <2>1. PICK c, t : /\ s = <<c, t>> /\ Pointing(<<t>>, op)
                    /\ c.do = "update" /\ c.repo = "story"
                    /\ c.key \in DOMAIN m.story /\ c.rec = m.story[c.key]
    BY <1>4 DEF Echoing
  <2>2. s[1] = c /\ Tail(s) = <<t>>
    BY <2>1
  <2>3. c.repo \in Tables /\ c.key \in DOMAIN m[c.repo] /\ c.rec = m[c.repo][c.key]
    BY <2>1 DEF Tables
  <2>4. View(Written(m, c)) = View(m)
    BY <2>1, <2>3, EchoSame
  <2> QED BY <1>4, <2>1, <2>2, <2>4 DEF Owing
<1> QED BY <1>0, <1>1, <1>2, <1>3, <1>4, OwingNow

\* And a refused call: a deletion of a whole running order is the only one of
\* these messages that meets one, before its own last call.
LEMMA OwingRefused ==
    ASSUME NEW m, NEW op \in Messages, op.kind \in Proven,
           NEW s, s # << >>, s[1].do \in Calls, Refused(m, s[1]),
           NEW then, Owing(m, s, op, then)
    PROVE  Owing(m, IF s[1].refused = "ignored" THEN Tail(s) ELSE Refuse("NACK"), op, then)
<1>1. s[1].do # "refuse"
  BY DEF Calls
<1>2. op.kind = "roDelete" /\ EndsGone(s, op.ro)
  BY <1>1, OwingNow
<1>3. s[1] # Deletion(op.ro)
  BY DEF Deletion, Refused
<1>4. EndsGone(Tail(s), op.ro)
  BY <1>2, <1>3, DeletionLast
<1>5. Refuse("NACK") # << >> /\ Refuse("NACK")[1].do = "refuse"
  BY DEF Refuse
<1> QED BY <1>2, <1>4, <1>5 DEF Owing

\* Nothing is in hand at the start.
LEMMA OwedInit == Init => Owed
<1> SUFFICES ASSUME Init PROVE Owed
  OBVIOUS
<1>1. busy = << >> /\ Len(<< >>) = 0
  BY DEF Init
<1>2. Len(busy) # 1
  BY <1>1
<1> QED BY <1>2 DEF Owed

\* The worker of a message handled alone goes on.
LEMMA OwedGoesOn ==
    ASSUME ServiceInv, NEW w \in Workers, Working(w), NEW tasks, Left(w, tasks), UNCHANGED <<busy, since>>,
           Len(busy) = 1 /\ job[w].op.kind \in Proven => Owing(mem', tasks, job[w].op, since)
    PROVE  Owed'
<1> SUFFICES ASSUME Len(busy) = 1, NEW v \in Workers, Working(v)', job'[v].op.kind \in Proven
             PROVE  Owing(mem', job'[v].todo, job'[v].op, since)
  BY DEF Owed
<1>1. job' = [job EXCEPT ![w] = [job[w] EXCEPT !.todo = tasks]] /\ DOMAIN job = Workers
  BY DEF Left, ServiceInv, JobType
<1>2. \A u \in Workers \ {w} : job'[u] = job[u]
  BY <1>1
<1>3. job'[w] = [job[w] EXCEPT !.todo = tasks] /\ DOMAIN job[w] = {"op", "todo"}
  BY <1>1 DEF ServiceInv, JobsInOrder
<1>4. job'[w].op = job[w].op /\ job'[w].todo = tasks
  BY <1>3
<1>5. v = w
  BY <1>2 DEF ServiceInv, Alone, Working
<1> QED BY <1>4, <1>5

\* Steps that change neither records nor tasks.
LEMMA OwedQuiet ==
    ASSUME Owed, UNCHANGED <<mem, job, busy, since>>
    PROVE  Owed'
BY DEF Owed, Working

\* A message that comes when nothing is in hand begins.
LEMMA OwedReceive ==
    ASSUME ServiceInv, NEW w \in Workers, NEW op \in Messages, Receive(w, op)
    PROVE  Owed'
<1>1. /\ ~Working(w) /\ busy' = Append(busy, op) /\ UNCHANGED storeVars
      /\ job' = [job EXCEPT ![w] = [op |-> op, todo |-> Program(op)]]
      /\ busy = << >> => since' = View(mem)
  BY DEF Receive
<1>2. DOMAIN job = Workers /\ busy \in Seq(Messages)
  BY DEF ServiceInv, JobType, Occupied
<1>3. /\ \A v \in Workers \ {w} : job'[v] = job[v]
      /\ job'[w] = [op |-> op, todo |-> Program(op)]
  BY <1>1, <1>2
<1>4. job'[w].op = op /\ job'[w].todo = Program(op)
  BY <1>3
<1> SUFFICES ASSUME Len(busy') = 1, NEW v \in Workers, Working(v)', job'[v].op.kind \in Proven
             PROVE  Owing(mem', job'[v].todo, job'[v].op, since')
  BY DEF Owed
<1>5. busy = << >>
  BY <1>1, <1>2, NamedGrows
<1>6. v = w
  BY <1>3, <1>5 DEF ServiceInv, Occupied, Working
<1>7. mem' = mem /\ since' = View(mem)
  BY <1>1, <1>5 DEF storeVars
<1>8. op.kind \in Proven
  BY <1>4, <1>6
<1>9. Owing(mem, Program(op), op, View(mem))
  BY <1>8, OwingBegins
<1> QED BY <1>4, <1>6, <1>7, <1>9

\* A read of the only message in hand.
LEMMA OwedRead ==
    ASSUME Keyed, ServiceInv, Owed, NEW w \in Workers, Read(w)
    PROVE  Owed'
<1> DEFINE todo == job[w].todo
           tasks == Seen(mem, todo[1]) \o Tail(todo)
           op == job[w].op
<1>1. /\ Working(w) /\ todo # << >> /\ todo[1].do \notin Calls \cup {"refuse"}
      /\ Left(w, tasks) /\ UNCHANGED <<storeVars, busy, since>>
  BY DEF Read, At
<1>2. mem' = mem
  BY <1>1 DEF storeVars
<1>3. op \in Messages /\ Setting(mem, op.ro, Named) /\ Doing(mem, todo, op, busy, since)
  BY <1>1, Serves
<1>4. ASSUME Len(busy) = 1, op.kind \in Proven
      PROVE  Owing(mem, tasks, op, since)
  <2>1. Owing(mem, todo, op, since)
    BY <1>1, <1>4 DEF Owed
  <2> HIDE DEF todo, op
  <2>2. ASSUME op.kind = "roDelete" PROVE IsList(Seen(mem, todo[1]))
    <3>1. op.kind \notin MessageTasks
      BY <2>2 DEF MessageTasks, Whole
    <3>2. todo[1].do # "refuse"
      BY <1>1
    <3>3. Proper(mem, todo, op.ro, Named)
      BY <1>3, <3>1, <3>2, FreshTask DEF Doing, Named
    <3>4. TaskOf(mem, todo[1], op.ro, Named)
      BY <1>1, <3>3, ProperTail
    <3>5. Proper(mem, Seen(mem, todo[1]), op.ro, Named)
      BY <1>1, <1>3, <3>4, SeenProper
    <3> QED BY <3>5 DEF Proper
  <2> QED BY <1>1, <1>3, <1>4, <2>1, <2>2, OwingRead
<1> HIDE DEF tasks
<1> QED BY <1>1, <1>2, <1>4, OwedGoesOn

\* A repository call of the only message in hand.
LEMMA OwedWrite ==
    ASSUME Keyed, ServiceInv, Owed, NEW w \in Workers, Write(w)
    PROVE  Owed'
<1> DEFINE todo == job[w].todo
           tasks == Tail(todo)
           op == job[w].op
<1>1. /\ At(w, Calls) /\ Working(w) /\ todo # << >> /\ todo[1].do \in Calls
      /\ mem' = Written(mem, todo[1]) /\ Left(w, tasks) /\ UNCHANGED <<busy, since>>
  BY DEF Write, At, Mutate
<1>2. op \in Messages /\ Consistent(mem) /\ KeyedStore(mem)
  BY <1>1, Serves, KeyedStores
<1>3. TaskOK(todo[1])
  BY <1>1, AtCall DEF TaskOf
<1>4. todo[1].repo \in Tables
  BY <1>1, <1>3 DEF TaskOK, Storable, Calls, Tables
<1>5. ASSUME Len(busy) = 1, op.kind \in Proven
      PROVE  Owing(mem', tasks, op, since)
  <2>1. Owing(mem, todo, op, since)
    BY <1>1, <1>5 DEF Owed
  <2> HIDE DEF todo, op
  <2> QED BY <1>1, <1>2, <1>4, <1>5, <2>1, OwingWrite
<1> HIDE DEF tasks
<1> QED BY <1>1, <1>5, OwedGoesOn

\* A refused call of the only message in hand.
LEMMA OwedWriteRefused ==
    ASSUME Keyed, ServiceInv, Owed, NEW w \in Workers, WriteRefused(w)
    PROVE  Owed'
<1> DEFINE todo == job[w].todo
           tasks == IF todo[1].refused = "ignored" THEN Tail(todo) ELSE Refuse("NACK")
           op == job[w].op
<1>1. /\ Working(w) /\ todo # << >> /\ todo[1].do \in Calls /\ Refused(mem, todo[1])
      /\ Left(w, tasks) /\ UNCHANGED <<storeVars, busy, since>>
  BY DEF WriteRefused, At
<1>2. op \in Messages /\ mem' = mem
  BY <1>1, Serves DEF storeVars
<1>3. ASSUME Len(busy) = 1, op.kind \in Proven
      PROVE  Owing(mem, tasks, op, since)
  <2>1. Owing(mem, todo, op, since)
    BY <1>1, <1>3 DEF Owed
  <2> HIDE DEF todo, op
  <2> QED BY <1>1, <1>2, <1>3, <2>1, OwingRefused
<1> HIDE DEF tasks
<1> QED BY <1>1, <1>2, <1>3, OwedGoesOn

\* A response ends the message.
LEMMA OwedReply ==
    ASSUME ServiceInv, Owed, NEW w \in Workers, Reply(w)
    PROVE  Owed'
<1>1. /\ Working(w) /\ job' = [job EXCEPT ![w] = Idle] /\ UNCHANGED storeVars
      /\ (\E v \in Workers \ {w} : Working(v)) => busy' = busy
      /\ ~(\E v \in Workers \ {w} : Working(v)) => busy' = << >>
  BY DEF Reply
<1>2. Len(busy') # 1
  <2>1. CASE \E v \in Workers \ {w} : Working(v)
    BY <1>1, <2>1 DEF ServiceInv, Alone
  <2>2. CASE ~\E v \in Workers \ {w} : Working(v)
    <3>1. Len(<< >>) = 0
      OBVIOUS
    <3> QED BY <1>1, <2>2, <3>1
  <2> QED BY <2>1, <2>2
<1> QED BY <1>2 DEF Owed

\* A message handled alone is always on its way to its effect.
LEMMA OwedStep ==
    ASSUME Keyed, ServiceInv, Owed, [Next]_vars
    PROVE  Owed'
<1>1. CASE UNCHANGED vars
  BY <1>1, OwedQuiet DEF vars, storeVars, serviceVars
<1>2. CASE Restart
  <2>1. busy' = << >> /\ Len(<< >>) = 0
    BY <1>2 DEF Restart
  <2>2. Len(busy') # 1
    BY <2>1
  <2> QED BY <2>2 DEF Owed
<1>3. ASSUME NEW w \in Workers, Step(w) PROVE Owed'
  <2>1. CASE Persist(w)
    BY <2>1, OwedQuiet DEF Persist, serviceVars, SkipSave, Lock, List, Save
  <2> QED BY <1>3, <2>1, OwedRead, OwedWrite, OwedWriteRefused, OwedReply DEF Step
<1>4. ASSUME NEW w \in Workers, NEW op \in Messages, Receive(w, op) PROVE Owed'
  BY <1>4, OwedReceive
<1> QED BY <1>1, <1>2, <1>3, <1>4 DEF Next

\* An acknowledged message had its effect.
LEMMA Acknowledged ==
    ASSUME ServiceInv, Owed, Promise!Closing, NEW w \in Workers, Reply(w), busy[1].kind \in Proven
    PROVE  Promise!TakesEffect(busy[1])
<1> DEFINE op == busy[1]
<1>1. Len(busy) = 1 /\ busy' = << >> /\ Working(w) /\ UNCHANGED mem
  BY DEF Promise!Closing, Reply, storeVars
<1>2. busy # << >>
  BY <1>1
<1>3. job[w].op = op /\ op \in Messages /\ op.ro \in ROs
  BY <1>1, Serves DEF ServiceInv, Alone
<1>4. Owing(mem, job[w].todo, op, since)
  BY <1>1, <1>3 DEF Owed
<1>5. ~\E v \in Workers \ {w} : Working(v)
  BY <1>1 DEF ServiceInv, Alone
<1>6. answer' = AnswerOf(w)
  BY <1>1, <1>5 DEF Reply
<1>7. ASSUME answer' = "OK" PROVE job[w].todo = << >>
  <2>1. CASE job[w].todo # << >>
    <3>1. AnswerOf(w) = "NACK" \/ (AnswerOf(w) = "RESYNC" /\ since = View(mem))
      BY <1>1, <2>1, ReplyAnswers
    <3> QED BY <1>6, <1>7, <3>1
  <2> QED BY <2>1
<1>8. ASSUME job[w].todo = << >> PROVE Promise!Asked(op, since[op.ro], RundownView(mem, op.ro))
  <2>1. \A x : <<x>> # << >>
    OBVIOUS
  <2>2. job[w].todo # Unread(op) /\ ~LastCall(mem, job[w].todo, op) /\ ~Pointing(job[w].todo, op)
    BY <1>8, <2>1 DEF Unread, LastCall, Pointing
  <2>3. ~Echoing(mem, job[w].todo, op)
    BY <1>8 DEF Echoing
  <2>4. ~EndsGone(job[w].todo, op.ro)
    BY <1>8 DEF EndsGone
  <2> HIDE DEF op
  <2> QED BY <1>4, <1>8, <2>2, <2>3, <2>4 DEF Owing
<1>9. View(mem)[op.ro] = RundownView(mem, op.ro)
  BY <1>3 DEF View
<1> HIDE DEF op
<1>10. Promise!TakesEffect(op)
  BY <1>1, <1>2, <1>7, <1>8, <1>9 DEF Promise!TakesEffect
<1> QED BY <1>10 DEF op

\* Every step of the service is one that the promise allows.
LEMMA PromisedStep ==
    ASSUME Keyed, ServiceInv, FrameInv, Owed, [Next]_vars
    PROVE  [Promise!NextFor(Proven)]_(Promise!vars)
<1>1. ASSUME Promise!Closing, NEW w \in Workers, Reply(w)
      PROVE  busy[1].kind \in Proven => Promise!TakesEffect(busy[1])
  BY <1>1, Acknowledged
<1> QED BY <1>1, PromiseStep DEF Promise!NextFor

\* For every store and set of messages with composite keys, any number of
\* goroutines, and a disk that may fail: the service implements Rundown.  No
\* message changes the rundown of a running order that it, or one handled
\* beside it, does not name; a refusal that asks for a resynchronisation
\* changed nothing; a process that starts after a crash reports every running
\* order that was in no message's hand as before, unless a save had failed; and
\* a roDelete, roMetadataReplace, roReadyToAir, a PLAY or STOP, a status, a
\* roCtrl or a roItemCue that was handled alone and acknowledged did what it
\* asks for.
THEOREM PromiseIsKept ==
    ASSUME Keyed
    PROVE  Spec => Promise!SpecFor(Proven)
<1> DEFINE Inv == ServiceInv /\ StoreInv /\ FrameInv /\ Owed
<1>1. Init => Inv
  BY ServiceInit, StoreInvInit, FrameInit, OwedInit
<1>2. Inv /\ [Next]_vars => Inv'
  <2> SUFFICES ASSUME Inv, [Next]_vars PROVE Inv'
    OBVIOUS
  <2>1. SavingType
    BY DEF StoreInv
  <2>2. ServiceInv' /\ StoreInv'
    BY <2>1, ServiceInvStep, StoreInvNext
  <2> QED BY <2>2, FrameStep, OwedStep
<1>3. Inv /\ [Next]_vars => [Promise!NextFor(Proven)]_(Promise!vars)
  BY PromisedStep
<1>4. Init => Promise!Init
  BY PromiseInit
<1> HIDE DEF Inv
<1> QED BY <1>1, <1>2, <1>3, <1>4, PTL DEF Spec, Promise!SpecFor
=============================================================================
