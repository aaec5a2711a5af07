-------------------------- MODULE AccessLogsProofs --------------------------
(***************************************************************************)
(* Proofs about AccessLogs, for every size of the queue and of a batch and *)
(* every number of entries: typing, then the order and the conservation of *)
(* the entries, then the cause of duplicates, and the implementation of    *)
(* AccessLogQueue.                                                         *)
(***************************************************************************)
EXTENDS AccessLogs, SequenceTheorems, TLAPS

USE SizeAssumption

-----------------------------------------------------------------------------
(* What Drain and Restore do to the sequences *)

LEMMA DrainSplits ==
    ASSUME items \in Seq(Nat)
    PROVE  /\ Drained \in Seq(Nat) /\ Len(Drained) <= BatchMax
           /\ LeftByDrain \in Seq(Nat) /\ Len(LeftByDrain) <= Len(items)
           /\ Drained \o LeftByDrain = items
           /\ items # <<>> => Drained # <<>>
<1> DEFINE k == Shorter(BatchMax, Len(items))
<1>1. k \in 0..Len(items) /\ k <= BatchMax /\ (items # <<>> => k > 0)
  BY EmptySeq DEF Shorter
<1>2. Drained = SubSeq(items, 1, k) /\ LeftByDrain = SubSeq(items, k + 1, Len(items))
  BY DEF Drained, LeftByDrain
<1> HIDE DEF k
<1>3. SubSeq(items, 1, k) \o SubSeq(items, k + 1, Len(items)) = items
  <2>1. SubSeq(items, 1, k) \o SubSeq(items, k + 1, Len(items))
          = SubSeq(items, 1, Len(items))
    <3>1. 1 \in 1..Len(items) + 1 /\ k \in (1 - 1)..Len(items)
          /\ Len(items) \in k..Len(items)
      BY <1>1
    <3> QED BY <3>1, ConcatAdjacentSubSeq
  <2> QED BY <2>1, SubSeqFull
<1>4. SubSeq(items, 1, k) \in Seq(Nat) /\ Len(SubSeq(items, 1, k)) = k
  BY <1>1, SubSeqProperties
<1>5. /\ SubSeq(items, k + 1, Len(items)) \in Seq(Nat)
      /\ Len(SubSeq(items, k + 1, Len(items))) <= Len(items)
  BY <1>1, SubSeqProperties
<1>6. k > 0 => SubSeq(items, 1, k) # <<>>
  BY <1>1, <1>4
<1> QED BY <1>1, <1>2, <1>3, <1>4, <1>5, <1>6

LEMMA RestoreSplits ==
    ASSUME items \in Seq(Nat), batch \in Seq(Nat)
    PROVE  /\ Waiting \in Seq(Nat) /\ Restored \in Seq(Nat) /\ CutOff \in Seq(Nat)
           /\ Len(Restored) = Shorter(QueueMax, Len(Waiting))
           /\ \A k \in 1..Len(Restored) : Restored[k] = Waiting[k]
           /\ Len(CutOff) = Len(Waiting) - Len(Restored)
           /\ \A k \in 1..Len(CutOff) : CutOff[k] = Waiting[Len(Restored) + k]
<1> DEFINE m == Shorter(QueueMax, Len(Waiting))
<1>1. Waiting \in Seq(Nat) /\ Len(Waiting) \in Nat
  BY ConcatProperties DEF Waiting
<1>2. m \in 0..Len(Waiting) /\ m <= QueueMax
  BY <1>1 DEF Shorter
<1>3. Restored = SubSeq(Waiting, 1, m) /\ CutOff = SubSeq(Waiting, QueueMax + 1, Len(Waiting))
  BY DEF Restored, CutOff, Waiting
<1> HIDE DEF m
<1>4. \A k \in 1..Len(Waiting) : Waiting[k] \in Nat
  BY <1>1, ElementOfSeq
<1>5. /\ SubSeq(Waiting, 1, m) \in Seq(Nat) /\ Len(SubSeq(Waiting, 1, m)) = m
      /\ \A k \in 1..m : SubSeq(Waiting, 1, m)[k] = Waiting[k]
  BY <1>1, <1>2, SubSeqProperties
<1>6. /\ CutOff \in Seq(Nat)
      /\ Len(CutOff) = Len(Waiting) - m
      /\ \A k \in 1..Len(CutOff) : CutOff[k] = Waiting[m + k]
  <2>1. CASE Len(Waiting) <= QueueMax
    <3>1. m = Len(Waiting)
      BY <1>1, <2>1 DEF m, Shorter
    <3>2. CutOff = <<>>
      BY <1>1, <1>3, <2>1, SubSeqEmpty
    <3> QED BY <1>1, <3>1, <3>2, EmptySeq
  <2>2. CASE Len(Waiting) > QueueMax
    <3>1. m = QueueMax
      BY <1>1, <2>2 DEF m, Shorter
    <3>2. /\ SubSeq(Waiting, QueueMax + 1, Len(Waiting)) \in Seq(Nat)
          /\ Len(SubSeq(Waiting, QueueMax + 1, Len(Waiting))) = Len(Waiting) - QueueMax
          /\ \A k \in 1..(Len(Waiting) - QueueMax) :
                SubSeq(Waiting, QueueMax + 1, Len(Waiting))[k] = Waiting[QueueMax + k]
      BY <1>1, <1>4, <2>2, SubSeqProperties
    <3> QED BY <1>3, <3>1, <3>2
  <2> QED BY <1>1, <2>1, <2>2
<1> QED BY <1>1, <1>3, <1>5, <1>6 DEF m

-----------------------------------------------------------------------------
(* Types *)

\* A batch is under way exactly while the reporter is in a POST.
BatchInv == (batch # <<>>) <=> Sending

LEMMA DrainTyped ==
    ASSUME TypeOK, items # <<>>
    PROVE  /\ Drained \in Seq(Nat) /\ Len(Drained) <= BatchMax /\ Drained # <<>>
           /\ LeftByDrain \in Seq(Nat) /\ Len(LeftByDrain) <= QueueMax
<1>1. items \in Seq(Nat) /\ Len(items) <= QueueMax /\ Len(items) \in Nat
  BY DEF TypeOK
<1>2. /\ Drained \in Seq(Nat) /\ Len(Drained) <= BatchMax
      /\ LeftByDrain \in Seq(Nat) /\ Len(LeftByDrain) <= Len(items)
      /\ Drained # <<>>
  BY <1>1, DrainSplits
<1>3. Len(LeftByDrain) \in Nat
  BY <1>2
<1> QED BY <1>1, <1>2, <1>3

\* The typing invariant, with the limits of the queue and of a batch.
THEOREM TypeCorrect == Spec => [](TypeOK /\ BatchInv)
<1>1. Init => TypeOK /\ BatchInv
  <2> HAVE Init
  <2>1. <<>> \in Seq(Nat) /\ Len(<<>>) = 0
    BY EmptySeq
  <2>2. stop \in [last : Nat, len : Nat, failed : BOOLEAN]
    BY DEF Init
  <2>3. 0 \in 0..MaxRecorded /\ 0 <= QueueMax /\ 0 <= BatchMax
    OBVIOUS
  <2> QED BY <2>1, <2>2, <2>3 DEF Init, TypeOK, BatchInv, Sending, ReporterStates
<1>2. TypeOK /\ BatchInv /\ [Next]_vars => TypeOK' /\ BatchInv'
  <2> SUFFICES ASSUME TypeOK, BatchInv, [Next]_vars PROVE TypeOK' /\ BatchInv'
    OBVIOUS
  <2> USE DEF TypeOK, BatchInv, Sending, ReporterStates, kboard
  <2>1. CASE Record
    <3>1. recorded' \in Nat /\ recorded' \in 0..MaxRecorded
      BY <2>1 DEF Record
    <3>2. Append(items, recorded') \in Seq(Nat) /\ Len(Append(items, recorded')) = Len(items) + 1
      BY <3>1, AppendProperties
    <3>3. Len(items) \in Nat
      OBVIOUS
    <3>4. items' \in Seq(Nat) /\ Len(items') <= QueueMax /\ refused' \subseteq Nat
      <4>1. CASE recorded' \in Blank \/ Len(items) >= QueueMax
        BY <2>1, <3>1, <4>1 DEF Record
      <4>2. CASE ~(recorded' \in Blank \/ Len(items) >= QueueMax)
        <5>1. items' = Append(items, recorded') /\ UNCHANGED refused
          BY <2>1, <4>2 DEF Record
        <5>2. Len(items') <= QueueMax
          BY <3>2, <3>3, <4>2, <5>1
        <5> QED BY <3>2, <5>1, <5>2
      <4> QED BY <4>1, <4>2
    <3> QED BY <2>1, <3>1, <3>4 DEF Record
  <2>2. CASE Cancel
    BY <2>2 DEF Cancel
  <2>3. CASE Upload
    <3>1. /\ Drained \in Seq(Nat) /\ Len(Drained) <= BatchMax /\ Drained # <<>>
          /\ LeftByDrain \in Seq(Nat) /\ Len(LeftByDrain) <= QueueMax
      <4>1. items # <<>>
        BY <2>3 DEF Upload
      <4> QED BY <4>1, DrainTyped
    <3> QED BY <2>3, <3>1 DEF Upload
  <2>4. CASE FinalUpload
    <3>1. stop' \in [last : Nat, len : Nat, failed : BOOLEAN]
      <4>1. recorded \in Nat /\ Len(items) \in Nat
        OBVIOUS
      <4> QED BY <2>4, <4>1 DEF FinalUpload
    <3>2. UNCHANGED <<ctxDone, recorded, refused, acked, kboard>>
      BY <2>4 DEF FinalUpload
    <3>3. CASE HasEndpoint /\ items # <<>>
      <4>1. /\ Drained \in Seq(Nat) /\ Len(Drained) <= BatchMax /\ Drained # <<>>
            /\ LeftByDrain \in Seq(Nat) /\ Len(LeftByDrain) <= QueueMax
        BY <3>3, DrainTyped
      <4>2. batch' = Drained /\ items' = LeftByDrain /\ reporter' = "final"
        BY <2>4, <3>3 DEF FinalUpload
      <4> QED BY <3>1, <3>2, <4>1, <4>2
    <3>4. CASE ~(HasEndpoint /\ items # <<>>)
      <4>1. reporter' = "exit" /\ UNCHANGED <<batch, items>> /\ batch = <<>>
        BY <2>4, <3>4 DEF FinalUpload
      <4> QED BY <3>1, <3>2, <4>1
    <3> QED BY <3>3, <3>4
  <2>5. CASE PostSucceeds
    <3>1. Range(batch) \subseteq Nat
      BY RangeOfSeq
    <3>2. batch' = <<>> /\ reporter' \in {"select", "exit"}
      BY <2>5 DEF PostSucceeds, AfterPost
    <3>3. acked' \subseteq Nat /\ stored' \subseteq Nat /\ storedTwice' \subseteq Nat
      BY <2>5, <3>1 DEF PostSucceeds, Stores
    <3>4. UNCHANGED <<items, ctxDone, recorded, refused, stop, uncertain, inFlight>>
      BY <2>5 DEF PostSucceeds
    <3>5. <<>> \in Seq(Nat) /\ Len(<<>>) <= BatchMax
      BY EmptySeq
    <3> QED BY <3>2, <3>3, <3>4, <3>5
  <2>6. ASSUME NEW outcome, PostFails(outcome) PROVE TypeOK' /\ BatchInv'
    <3>1. /\ Restored \in Seq(Nat) /\ Len(Restored) <= QueueMax
          /\ Range(CutOff) \subseteq Nat /\ Range(batch) \subseteq Nat
      <4>1. Waiting \in Seq(Nat) /\ Restored \in Seq(Nat) /\ CutOff \in Seq(Nat)
        BY RestoreSplits
      <4>2. Len(Restored) = Shorter(QueueMax, Len(Waiting)) /\ Len(Waiting) \in Nat
        BY <4>1, RestoreSplits
      <4>3. Len(Restored) <= QueueMax
        BY <4>2 DEF Shorter
      <4> QED BY <4>1, <4>3, RangeOfSeq
    <3>2. items' = Restored /\ refused' = refused \cup Range(CutOff) /\ batch' = <<>>
      BY <2>6 DEF PostFails
    <3>3. reporter' \in {"select", "exit"} /\ UNCHANGED <<ctxDone, recorded, acked>>
      BY <2>6 DEF PostFails, AfterPost
    <3>4. stop' \in [last : Nat, len : Nat, failed : BOOLEAN]
      BY <2>6 DEF PostFails
    <3>5. /\ stored' \subseteq Nat /\ storedTwice' \subseteq Nat
          /\ uncertain' \subseteq Nat /\ inFlight' \subseteq Seq(Nat)
      BY <2>6, <3>1 DEF PostFails, Stores
    <3>6. <<>> \in Seq(Nat) /\ Len(<<>>) <= BatchMax
      BY EmptySeq
    <3>7. refused' \subseteq Nat
      BY <3>1, <3>2
    <3> QED BY <3>1, <3>2, <3>3, <3>4, <3>5, <3>6, <3>7
  <2>7. ASSUME NEW b \in inFlight, LateArrival(b) PROVE TypeOK' /\ BatchInv'
    <3>1. b \in Seq(Nat) /\ Range(b) \subseteq Nat
      BY RangeOfSeq
    <3> QED BY <2>7, <3>1 DEF LateArrival, Stores
  <2>8. CASE Terminated \/ UNCHANGED vars
    BY <2>8 DEF Terminated, vars
  <2> QED BY <2>1, <2>2, <2>3, <2>4, <2>5, <2>6, <2>7, <2>8 DEF Next, PostEnds
<1> QED BY <1>1, <1>2, PTL DEF Spec
-----------------------------------------------------------------------------
(* What a step does to the waiting entries *)

Nothing == Waiting' = Waiting /\ UNCHANGED <<recorded, acked, refused>>

Enqueued == /\ recorded + 1 \notin Blank
            /\ Waiting' = Append(Waiting, recorded + 1)
            /\ recorded' = recorded + 1
            /\ UNCHANGED <<acked, refused>>

Turned == /\ Waiting' = Waiting
          /\ recorded + 1 \in Blank \/ Len(items) = QueueMax
          /\ recorded' = recorded + 1
          /\ refused' = refused \cup {recorded + 1}
          /\ UNCHANGED <<items, batch, acked>>

Acknowledged == /\ batch # <<>>
                /\ Waiting' = items
                /\ acked' = acked \cup Range(batch)
                /\ UNCHANGED <<recorded, refused>>

PutBack == /\ Waiting' = Restored
           /\ items' = Restored
           /\ refused' = refused \cup Range(CutOff)
           /\ UNCHANGED <<recorded, acked>>

\* Every step of the detailed log is one of five for the waiting entries.
LEMMA StepShape ==
    ASSUME TypeOK, BatchInv, [Next]_vars
    PROVE  Nothing \/ Enqueued \/ Turned \/ Acknowledged \/ PutBack
<1> DEFINE Shape == Nothing \/ Enqueued \/ Turned \/ Acknowledged \/ PutBack
<1> USE DEF kboard
<1>1. items \in Seq(Nat) /\ batch \in Seq(Nat) /\ Len(items) \in Nat /\ Len(items) <= QueueMax
  BY DEF TypeOK
<1>2. CASE Record
  <2>1. recorded + 1 \in Nat
    BY DEF TypeOK
  <2>2. batch \o Append(items, recorded + 1) = Append(batch \o items, recorded + 1)
    <3>1. Append(items, recorded + 1) = items \o <<recorded + 1>>
      BY <1>1, <2>1, AppendIsConcat
    <3>2. batch \o items \in Seq(Nat)
      BY <1>1, ConcatProperties
    <3>3. Append(batch \o items, recorded + 1) = (batch \o items) \o <<recorded + 1>>
      BY <2>1, <3>2, AppendIsConcat
    <3>4. <<recorded + 1>> \in Seq(Nat)
      BY <2>1
    <3>5. (batch \o items) \o <<recorded + 1>> = batch \o (items \o <<recorded + 1>>)
      BY <1>1, <3>4, ConcatAssociative
    <3> QED BY <3>1, <3>3, <3>5
  <2>3. CASE recorded + 1 \in Blank \/ Len(items) >= QueueMax
    <3>1. recorded + 1 \in Blank \/ Len(items) = QueueMax
      <4>1. Len(items) >= QueueMax => Len(items) = QueueMax
        BY <1>1
      <4> QED BY <2>3, <4>1
    <3>2. /\ recorded' = recorded + 1 /\ refused' = refused \cup {recorded + 1}
          /\ UNCHANGED <<items, batch, acked>>
      BY <1>2, <2>3 DEF Record
    <3>3. Waiting' = Waiting
      BY <3>2 DEF Waiting
    <3> QED BY <3>1, <3>2, <3>3 DEF Turned
  <2>4. CASE ~(recorded + 1 \in Blank \/ Len(items) >= QueueMax)
    <3>1. /\ items' = Append(items, recorded + 1) /\ recorded' = recorded + 1
          /\ UNCHANGED <<batch, acked, refused>>
      BY <1>2, <2>4 DEF Record
    <3>2. Waiting' = batch \o Append(items, recorded + 1)
      BY <3>1 DEF Waiting
    <3> QED BY <2>2, <2>4, <3>1, <3>2 DEF Enqueued, Waiting
  <2> QED BY <2>3, <2>4
<1>3. ASSUME batch = <<>>, batch' = Drained, items' = LeftByDrain PROVE Waiting' = Waiting
  <2>1. Waiting' = Drained \o LeftByDrain
    BY <1>3 DEF Waiting
  <2>2. Waiting = items
    BY <1>1, <1>3, ConcatEmptySeq DEF Waiting
  <2> QED BY <1>1, <2>1, <2>2, DrainSplits
<1>4. CASE Upload
  BY <1>3, <1>4 DEF Upload, Nothing, BatchInv, Sending
<1>5. CASE FinalUpload
  <2>1. batch = <<>>
    BY <1>5 DEF FinalUpload, BatchInv, Sending
  <2>2. Waiting' = Waiting
    <3>1. CASE HasEndpoint /\ items # <<>>
      BY <1>3, <1>5, <2>1, <3>1 DEF FinalUpload
    <3>2. CASE ~(HasEndpoint /\ items # <<>>)
      BY <1>5, <3>2 DEF FinalUpload, Waiting
    <3> QED BY <3>1, <3>2
  <2> QED BY <1>5, <2>2 DEF FinalUpload, Nothing
<1>6. CASE PostSucceeds
  <2>1. batch # <<>>
    BY <1>6 DEF PostSucceeds, BatchInv
  <2>2. batch' = <<>> /\ items' = items
    BY <1>6 DEF PostSucceeds
  <2>3. Waiting' = items
    BY <1>1, <2>2, ConcatEmptySeq DEF Waiting
  <2> QED BY <1>6, <2>1, <2>3 DEF PostSucceeds, Acknowledged
<1>7. ASSUME NEW outcome, PostFails(outcome) PROVE Shape
  <2>1. batch' = <<>> /\ items' = Restored
    BY <1>7 DEF PostFails
  <2>2. Restored \in Seq(Nat)
    BY <1>1, RestoreSplits
  <2>3. Waiting' = Restored
    BY <2>1, <2>2, ConcatEmptySeq DEF Waiting
  <2> QED BY <1>7, <2>1, <2>3 DEF PostFails, PutBack
<1>8. CASE Cancel \/ Terminated \/ UNCHANGED vars
  BY <1>8 DEF Cancel, Terminated, vars, Nothing, Waiting
<1>9. ASSUME NEW b \in inFlight, LateArrival(b) PROVE Shape
  BY <1>9 DEF LateArrival, Nothing, Waiting
<1> QED BY <1>2, <1>4, <1>5, <1>6, <1>7, <1>8, <1>9 DEF Next, PostEnds
-----------------------------------------------------------------------------
(* Order and conservation *)

WaitingInv == InOrder /\ NothingVanishes

\* Positions in a sequence that consists of a first and a second part.
LEMMA TwoParts ==
    ASSUME NEW a \in Nat, NEW b \in Nat, NEW j \in 1..a, NEW k \in 1..b
    PROVE  j \in 1..(a + b) /\ a + k \in 1..(a + b) /\ j < a + k
OBVIOUS

\* The waiting entries as a sequence of the entries recorded so far.
LEMMA WaitingTyped ==
    ASSUME TypeOK
    PROVE  /\ items \in Seq(Nat) /\ batch \in Seq(Nat)
           /\ Waiting \in Seq(Nat) /\ Len(Waiting) \in Nat
           /\ Range(Waiting) = {Waiting[k] : k \in 1..Len(Waiting)}
           /\ Range(Waiting) = Range(batch) \cup Range(items)
           /\ Len(Waiting) = Len(batch) + Len(items)
           /\ recorded \in Nat
<1>1. items \in Seq(Nat) /\ batch \in Seq(Nat) /\ recorded \in Nat
  BY DEF TypeOK
<1>2. Waiting \in Seq(Nat) /\ Len(Waiting) \in Nat /\ Len(Waiting) = Len(batch) + Len(items)
  BY <1>1, ConcatProperties DEF Waiting
<1>3. Range(Waiting) = Range(batch) \cup Range(items)
  BY <1>1, RangeConcatenation DEF Waiting
<1>4. Range(Waiting) = {Waiting[k] : k \in 1..Len(Waiting)}
  BY <1>2, RangeEquality
<1> QED BY <1>1, <1>2, <1>3, <1>4

\* In order, and within what was recorded: the new entry is the largest.
LEMMA NewEntryIsLargest ==
    ASSUME TypeOK, WaitingInv
    PROVE  /\ \A k \in 1..Len(Waiting) : Waiting[k] \in Nat /\ Waiting[k] <= recorded
           /\ recorded + 1 \notin Range(Waiting) \cup acked \cup refused
<1>1. Range(Waiting) \cup acked \cup refused = 1..recorded /\ recorded \in Nat
  BY WaitingTyped DEF WaitingInv, NothingVanishes, Entries
<1>2. \A k \in 1..Len(Waiting) : Waiting[k] \in 1..recorded
  BY <1>1, WaitingTyped
<1> QED BY <1>1, <1>2

\* The batch and the queue share no entry, for the waiting entries increase.
LEMMA BatchAndItemsDiffer ==
    ASSUME TypeOK, WaitingInv
    PROVE  Range(batch) \cap Range(items) = {}
<1>1. SUFFICES ASSUME NEW j \in 1..Len(batch), NEW k \in 1..Len(items)
               PROVE  batch[j] # items[k]
  <2>1. /\ Range(batch) = {batch[j] : j \in 1..Len(batch)}
        /\ Range(items) = {items[k] : k \in 1..Len(items)}
    BY WaitingTyped, RangeEquality
  <2> QED BY <1>1, <2>1
<1>2. /\ Waiting[j] = batch[j] /\ Waiting[Len(batch) + k] = items[k]
      /\ Len(batch) \in Nat /\ Len(items) \in Nat
  BY WaitingTyped, ConcatProperties DEF Waiting
<1>3. /\ j \in 1..Len(Waiting) /\ Len(batch) + k \in 1..Len(Waiting)
      /\ j < Len(batch) + k
  <2>1. Len(Waiting) = Len(batch) + Len(items)
    BY WaitingTyped
  <2> QED BY <1>2, <2>1, TwoParts
<1>4. Waiting[j] < Waiting[Len(batch) + k]
  BY <1>3 DEF WaitingInv, InOrder
<1>5. Waiting[j] \in Nat
  BY <1>3, NewEntryIsLargest
<1> QED BY <1>2, <1>4, <1>5

\* Restore splits the waiting entries into what it keeps and what it cuts off.
LEMMA RestoreRanges ==
    ASSUME TypeOK, WaitingInv
    PROVE  /\ Range(Waiting) = Range(Restored) \cup Range(CutOff)
           /\ \A x \in Range(CutOff), k \in 1..Len(Restored) : Restored[k] < x
           /\ Range(Restored) \cap Range(CutOff) = {}
<1>1. /\ Restored \in Seq(Nat) /\ CutOff \in Seq(Nat) /\ Waiting \in Seq(Nat)
      /\ Len(Restored) \in Nat /\ Len(CutOff) \in Nat /\ Len(Waiting) \in Nat
      /\ Len(Waiting) = Len(Restored) + Len(CutOff)
      /\ \A k \in 1..Len(Restored) : Restored[k] = Waiting[k]
      /\ \A k \in 1..Len(CutOff) : CutOff[k] = Waiting[Len(Restored) + k]
  <2>1. items \in Seq(Nat) /\ batch \in Seq(Nat)
    BY WaitingTyped
  <2>2. /\ Waiting \in Seq(Nat) /\ Restored \in Seq(Nat) /\ CutOff \in Seq(Nat)
        /\ \A k \in 1..Len(Restored) : Restored[k] = Waiting[k]
        /\ Len(CutOff) = Len(Waiting) - Len(Restored)
        /\ \A k \in 1..Len(CutOff) : CutOff[k] = Waiting[Len(Restored) + k]
    BY <2>1, RestoreSplits
  <2> QED BY <2>2
<1>2. /\ Range(Waiting) = {Waiting[k] : k \in 1..Len(Waiting)}
      /\ Range(Restored) = {Restored[k] : k \in 1..Len(Restored)}
      /\ Range(CutOff) = {CutOff[k] : k \in 1..Len(CutOff)}
  BY <1>1, RangeEquality
<1>3. Range(Waiting) = Range(Restored) \cup Range(CutOff)
  <2>1. ASSUME NEW k \in 1..Len(Waiting)
        PROVE  Waiting[k] \in Range(Restored) \cup Range(CutOff)
    <3>1. CASE k <= Len(Restored)
      <4>1. k \in 1..Len(Restored)
        BY <1>1, <3>1
      <4> QED BY <1>1, <1>2, <4>1
    <3>2. CASE k > Len(Restored)
      <4>1. k - Len(Restored) \in 1..Len(CutOff) /\ Len(Restored) + (k - Len(Restored)) = k
        BY <1>1, <3>2
      <4> QED BY <1>1, <1>2, <4>1
    <3> QED BY <1>1, <3>1, <3>2
  <2>2. ASSUME NEW k \in 1..Len(Restored) PROVE Restored[k] \in Range(Waiting)
    <3>1. k \in 1..Len(Waiting)
      BY <1>1
    <3> QED BY <1>1, <1>2, <3>1
  <2>3. ASSUME NEW k \in 1..Len(CutOff) PROVE CutOff[k] \in Range(Waiting)
    <3>1. Len(Restored) + k \in 1..Len(Waiting)
      BY <1>1
    <3> QED BY <1>1, <1>2, <3>1
  <2> QED BY <1>2, <2>1, <2>2, <2>3
<1>4. ASSUME NEW k \in 1..Len(Restored), NEW j \in 1..Len(CutOff)
      PROVE  Restored[k] < CutOff[j]
  <2>1. /\ k \in 1..Len(Waiting) /\ Len(Restored) + j \in 1..Len(Waiting)
        /\ k < Len(Restored) + j
    BY <1>1, TwoParts
  <2>2. Waiting[k] < Waiting[Len(Restored) + j]
    BY <2>1 DEF WaitingInv, InOrder
  <2> QED BY <1>1, <2>2
<1>5. \A x \in Range(CutOff), k \in 1..Len(Restored) : Restored[k] < x
  BY <1>2, <1>4
<1>6. \A k \in 1..Len(Restored) : Restored[k] \in Nat
  BY <1>1, ElementOfSeq
<1>7. Range(Restored) \cap Range(CutOff) = {}
  <2> SUFFICES ASSUME NEW x \in Range(CutOff), x \in Range(Restored) PROVE FALSE
    OBVIOUS
  <2>1. PICK k \in 1..Len(Restored) : x = Restored[k]
    BY <1>2
  <2>2. x < x /\ x \in Nat
    BY <1>5, <1>6, <2>1
  <2> QED BY <2>2
<1> QED BY <1>3, <1>5, <1>7

LEMMA WaitingInvNext == TypeOK /\ BatchInv /\ WaitingInv /\ [Next]_vars => WaitingInv'
<1> SUFFICES ASSUME TypeOK, BatchInv, WaitingInv, [Next]_vars PROVE WaitingInv'
  OBVIOUS
<1> DEFINE W == Waiting
<1>1. /\ items \in Seq(Nat) /\ batch \in Seq(Nat) /\ W \in Seq(Nat) /\ Len(W) \in Nat
      /\ Range(W) = Range(batch) \cup Range(items) /\ recorded \in Nat
  BY WaitingTyped
<1>2. /\ \A k \in 1..Len(W) : W[k] \in Nat /\ W[k] <= recorded
      /\ recorded + 1 \notin Range(W) \cup acked \cup refused
  BY NewEntryIsLargest
<1>3. /\ Range(W) \cup acked \cup refused = 1..recorded
      /\ Range(W) \cap acked = {} /\ Range(W) \cap refused = {} /\ acked \cap refused = {}
  BY DEF WaitingInv, NothingVanishes, Entries
<1>4. \A j, k \in 1..Len(W) : j < k => W[j] < W[k]
  BY DEF WaitingInv, InOrder
<1>5. 1..(recorded + 1) = (1..recorded) \cup {recorded + 1}
  BY <1>1
<1> HIDE DEF W
<1>6. CASE Nothing
  BY <1>6 DEF Nothing, WaitingInv, InOrder, NothingVanishes, Entries
<1>7. CASE Enqueued
  <2>1. Waiting' = Append(W, recorded + 1) /\ recorded' = recorded + 1
        /\ UNCHANGED <<acked, refused>>
    BY <1>7 DEF Enqueued, W
  <2>2. /\ Append(W, recorded + 1) \in Seq(Nat)
        /\ Len(Append(W, recorded + 1)) = Len(W) + 1
        /\ \A k \in 1..Len(W) : Append(W, recorded + 1)[k] = W[k]
        /\ Append(W, recorded + 1)[Len(W) + 1] = recorded + 1
    BY <1>1, AppendProperties
  <2>3. Range(Waiting') = Range(W) \cup {recorded + 1}
    <3>1. Append(W, recorded + 1) = W \o <<recorded + 1>> /\ <<recorded + 1>> \in Seq(Nat)
      <4>1. recorded + 1 \in Nat
        BY <1>1
      <4>2. Append(W, recorded + 1) = W \o <<recorded + 1>>
        BY <1>1, <4>1, AppendIsConcat
      <4>3. <<recorded + 1>> \in Seq(Nat)
        BY <4>1
      <4> QED BY <4>2, <4>3
    <3> DEFINE one == <<recorded + 1>>
    <3>2. Range(one) = {recorded + 1}
      BY DEF Range
    <3>3. Append(W, recorded + 1) = W \o one /\ one \in Seq(Nat)
      BY <3>1
    <3> HIDE DEF one
    <3>4. Range(W \o one) = Range(W) \cup Range(one)
      BY <1>1, <3>3, RangeConcatenation
    <3> QED BY <2>1, <3>2, <3>3, <3>4
  <2>4. InOrder'
    <3> SUFFICES ASSUME NEW j \in 1..(Len(W) + 1), NEW k \in 1..(Len(W) + 1), j < k
                 PROVE  Append(W, recorded + 1)[j] < Append(W, recorded + 1)[k]
      BY <2>1, <2>2 DEF InOrder
    <3>1. j \in 1..Len(W)
      BY <1>1
    <3>2. CASE k = Len(W) + 1
      <4>1. W[j] < recorded + 1
        BY <1>1, <1>2, <3>1
      <4> QED BY <2>2, <3>1, <3>2, <4>1
    <3>3. CASE k \in 1..Len(W)
      BY <1>4, <2>2, <3>1, <3>3
    <3>4. k = Len(W) + 1 \/ k \in 1..Len(W)
      BY <1>1
    <3> QED BY <3>2, <3>3, <3>4
  <2>5. NothingVanishes'
    BY <1>2, <1>3, <1>5, <2>1, <2>3 DEF NothingVanishes, Entries
  <2> QED BY <2>4, <2>5 DEF WaitingInv
<1>8. CASE Turned
  <2>1. /\ Waiting' = W /\ recorded' = recorded + 1 /\ UNCHANGED acked
        /\ refused' = refused \cup {recorded + 1}
    BY <1>8 DEF Turned, W
  <2>2. NothingVanishes'
    BY <1>2, <1>3, <1>5, <2>1 DEF NothingVanishes, Entries
  <2>3. InOrder'
    BY <1>4, <2>1 DEF InOrder
  <2> QED BY <2>2, <2>3 DEF WaitingInv
<1>9. CASE Acknowledged
  <2>1. /\ Waiting' = items /\ acked' = acked \cup Range(batch)
        /\ UNCHANGED <<recorded, refused>>
    BY <1>9 DEF Acknowledged
  <2>2. Range(batch) \cap Range(items) = {}
    BY BatchAndItemsDiffer
  <2>3. NothingVanishes'
    BY <1>1, <1>3, <2>1, <2>2 DEF NothingVanishes, Entries
  <2>4. ASSUME NEW j \in 1..Len(items), NEW k \in 1..Len(items), j < k
        PROVE  items[j] < items[k]
    <3>1. /\ Len(batch) \in Nat /\ Len(items) \in Nat
          /\ Len(W) = Len(batch) + Len(items)
      BY WaitingTyped DEF W
    <3>2. /\ Len(batch) + j \in 1..Len(W) /\ Len(batch) + k \in 1..Len(W)
          /\ Len(batch) + j < Len(batch) + k
      BY <2>4, <3>1
    <3>3. W[Len(batch) + j] = items[j] /\ W[Len(batch) + k] = items[k]
      BY <1>1, <3>1, ConcatProperties DEF W, Waiting
    <3> QED BY <1>4, <3>2, <3>3
  <2> QED BY <2>1, <2>3, <2>4 DEF WaitingInv, InOrder
<1>10. CASE PutBack
  <2>1. /\ Waiting' = Restored /\ refused' = refused \cup Range(CutOff)
        /\ UNCHANGED <<recorded, acked>>
    BY <1>10 DEF PutBack
  <2>2. /\ Range(W) = Range(Restored) \cup Range(CutOff)
        /\ Range(Restored) \cap Range(CutOff) = {}
    BY RestoreRanges DEF W
  <2>3. NothingVanishes'
    BY <1>3, <2>1, <2>2 DEF NothingVanishes, Entries
  <2>4. /\ Len(Restored) \in Nat /\ Len(Restored) <= Len(W)
        /\ \A k \in 1..Len(Restored) : Restored[k] = W[k]
    BY <1>1, RestoreSplits DEF W
  <2>5. ASSUME NEW j \in 1..Len(Restored), NEW k \in 1..Len(Restored), j < k
        PROVE  Restored[j] < Restored[k]
    <3>1. j \in 1..Len(W) /\ k \in 1..Len(W)
      BY <1>1, <2>4
    <3> QED BY <1>4, <2>4, <2>5, <3>1
  <2> QED BY <2>1, <2>3, <2>5 DEF WaitingInv, InOrder
<1> QED BY <1>6, <1>7, <1>8, <1>9, <1>10, StepShape

\* Entries wait in order, none is lost or doubled on the node, whatever the
\* interleaving of Record, Drain and Restore (access_log.go:38-84).
THEOREM WaitingCorrect == Spec => [](InOrder /\ NothingVanishes)
<1>1. Init => WaitingInv
  <2> HAVE Init
  <2>1. Waiting = <<>> /\ Len(<<>>) = 0
    BY EmptySeq, ConcatEmptySeq DEF Init, Waiting
  <2>2. Range(<<>>) = {}
    BY DEF Range
  <2> QED BY <2>1, <2>2 DEF Init, WaitingInv, InOrder, NothingVanishes, Entries
<1>2. Spec => []WaitingInv
  BY TypeCorrect, WaitingInvNext, <1>1, PTL DEF Spec
<1> QED BY <1>2, PTL DEF WaitingInv

\* Only the newest entries are given up, and but for blank ones only at the limit
\* of the queue (access_log.go:39-46, 80-82).
THEOREM OnlyNewestLost == Spec => OnlyNewestAreLost
<1>1. TypeOK /\ BatchInv /\ WaitingInv /\ [Next]_vars
        => [\A id \in refused' \ refused :
                /\ id \notin Blank => Len(items') = QueueMax
                /\ \A k \in 1..Len(items') : items'[k] < id]_vars
  <2> SUFFICES ASSUME TypeOK, BatchInv, WaitingInv, [Next]_vars,
                      NEW id \in refused' \ refused
               PROVE  /\ id \notin Blank => Len(items') = QueueMax
                      /\ \A k \in 1..Len(items') : items'[k] < id
    OBVIOUS
  <2>1. ~Nothing /\ ~Enqueued /\ ~Acknowledged
    BY DEF Nothing, Enqueued, Acknowledged
  <2>2. CASE Turned
    <3>1. id = recorded + 1 /\ items' = items /\ (id \in Blank \/ Len(items) = QueueMax)
      BY <2>2 DEF Turned
    <3>2. ASSUME NEW k \in 1..Len(items) PROVE items[k] < recorded + 1
      <4>1. items[k] \in Range(Waiting)
        BY WaitingTyped, RangeEquality
      <4>2. Range(Waiting) \subseteq 1..recorded /\ recorded \in Nat
        BY WaitingTyped DEF WaitingInv, NothingVanishes, Entries
      <4> QED BY <4>1, <4>2
    <3> QED BY <3>1, <3>2
  <2>3. CASE PutBack
    <3>1. items' = Restored /\ id \in Range(CutOff)
      BY <2>3 DEF PutBack
    <3>2. \A k \in 1..Len(Restored) : Restored[k] < id
      BY <3>1, RestoreRanges
    <3>3. Len(Restored) = QueueMax
      <4>1. /\ CutOff \in Seq(Nat) /\ Len(CutOff) = Len(Waiting) - Len(Restored)
            /\ Len(Restored) = Shorter(QueueMax, Len(Waiting)) /\ Len(Waiting) \in Nat
        BY WaitingTyped, RestoreSplits
      <4>2. Len(CutOff) # 0
        <5>1. Range(CutOff) = {CutOff[k] : k \in 1..Len(CutOff)}
          BY <4>1, RangeEquality
        <5> QED BY <3>1, <5>1
      <4> QED BY <4>1, <4>2 DEF Shorter
    <3> QED BY <3>1, <3>2, <3>3
  <2> QED BY <2>1, <2>2, <2>3, StepShape
<1>2. Spec => []WaitingInv
  BY WaitingCorrect, PTL DEF WaitingInv
<1> QED BY TypeCorrect, <1>1, <1>2, PTL DEF Spec, OnlyNewestAreLost

-----------------------------------------------------------------------------
(* Duplicates *)

\* What Kboard has was acknowledged or is uncertain; what is under way on the
\* wire without the node waiting for it is uncertain.
KboardInv ==
    /\ acked \subseteq stored
    /\ stored \subseteq acked \cup uncertain
    /\ \A b \in inFlight : Range(b) \subseteq uncertain
    /\ storedTwice \subseteq uncertain

\* No entry is acknowledged that Kboard does not have, and none is stored twice
\* without an upload whose outcome was open (kboard.go:186-193).
THEOREM KboardCorrect == Spec => []KboardAccount
<1>1. Init => KboardInv
  BY DEF Init, KboardInv
<1>2. TypeOK /\ WaitingInv /\ KboardInv /\ [Next]_vars => KboardInv'
  <2> SUFFICES ASSUME TypeOK, WaitingInv, KboardInv, [Next]_vars PROVE KboardInv'
    OBVIOUS
  <2> USE DEF KboardInv, Stores, kboard
  <2>1. Range(batch) \cap acked = {}
    BY WaitingTyped DEF WaitingInv, NothingVanishes
  <2>2. CASE Record \/ Cancel \/ Upload \/ FinalUpload \/ Terminated \/ UNCHANGED vars
    BY <2>2 DEF Record, Cancel, Upload, FinalUpload, Terminated, vars
  <2>3. CASE PostSucceeds
    BY <2>1, <2>3 DEF PostSucceeds
  <2>4. ASSUME NEW outcome, PostFails(outcome) PROVE KboardInv'
    BY <2>1, <2>4 DEF PostFails
  <2>5. ASSUME NEW b \in inFlight, LateArrival(b) PROVE KboardInv'
    BY <2>5 DEF LateArrival
  <2> QED BY <2>2, <2>3, <2>4, <2>5 DEF Next, PostEnds
<1>3. Spec => []WaitingInv
  BY WaitingCorrect, PTL DEF WaitingInv
<1>4. KboardInv => KboardAccount
  BY DEF KboardInv, KboardAccount
<1> QED BY TypeCorrect, <1>1, <1>2, <1>3, <1>4, PTL DEF Spec

-----------------------------------------------------------------------------
(* What the last upload leaves behind *)

\* How many of the entries it found the last upload did not take.
Overflow == stop.len - Shorter(BatchMax, stop.len)

\* From the last upload on, unless it failed, the queue begins with what it did
\* not take, and all that is behind it was recorded later.
LastUploadInv ==
    reporter \in {"final", "exit"} /\ HasEndpoint /\ ~stop.failed =>
        /\ stop.last <= recorded
        /\ Overflow <= Len(items)
        /\ \A k \in 1..Len(items) : items[k] <= stop.last <=> k <= Overflow

\* What a Drain leaves is the end of what there was.
LEMMA LeftIsTheEnd ==
    ASSUME items \in Seq(Nat)
    PROVE  /\ Len(LeftByDrain) = Len(items) - Shorter(BatchMax, Len(items))
           /\ \A k \in 1..Len(LeftByDrain) :
                /\ Shorter(BatchMax, Len(items)) + k \in 1..Len(items)
                /\ LeftByDrain[k] = items[Shorter(BatchMax, Len(items)) + k]
<1> DEFINE m == Shorter(BatchMax, Len(items))
<1>1. m \in 0..Len(items) /\ Len(items) \in Nat
  BY DEF Shorter
<1>2. LeftByDrain = SubSeq(items, m + 1, Len(items))
  BY DEF LeftByDrain
<1> HIDE DEF m
<1>3. CASE m = Len(items)
  <2>1. LeftByDrain = <<>>
    BY <1>1, <1>2, <1>3, SubSeqEmpty
  <2> QED BY <1>1, <1>3, <2>1, EmptySeq DEF m
<1>4. CASE m # Len(items)
  <2>1. /\ Len(LeftByDrain) = Len(items) - m
        /\ \A k \in 1..(Len(items) - m) : LeftByDrain[k] = items[m + k]
    BY <1>1, <1>2, <1>4, SubSeqProperties
  <2>2. \A k \in 1..(Len(items) - m) : m + k \in 1..Len(items)
    BY <1>1
  <2> QED BY <2>1, <2>2 DEF m
<1> QED BY <1>3, <1>4

LEMMA LastUploadNext ==
    TypeOK /\ WaitingInv /\ LastUploadInv /\ [Next]_vars => LastUploadInv'
<1> SUFFICES ASSUME TypeOK, WaitingInv, LastUploadInv, [Next]_vars,
                    reporter' \in {"final", "exit"}, HasEndpoint, ~stop'.failed
             PROVE  /\ stop'.last <= recorded'
                    /\ Overflow' <= Len(items')
                    /\ \A k \in 1..Len(items') :
                            items'[k] <= stop'.last <=> k <= Overflow'
  BY DEF LastUploadInv
<1>0. /\ items \in Seq(Nat) /\ Len(items) \in Nat /\ recorded \in Nat
      /\ stop \in [last : Nat, len : Nat, failed : BOOLEAN]
      /\ \A k \in 1..Len(items) : items[k] \in Nat
  BY ElementOfSeq DEF TypeOK
<1>1. CASE Record
  <2>1. reporter' = reporter /\ stop' = stop /\ recorded' = recorded + 1
    BY <1>1 DEF Record
  <2>2. /\ stop.last <= recorded /\ Overflow <= Len(items) /\ Overflow' = Overflow
        /\ \A k \in 1..Len(items) : items[k] <= stop.last <=> k <= Overflow
    BY <2>1 DEF LastUploadInv, Overflow
  <2>3. Overflow \in Int
    BY <1>0 DEF Overflow, Shorter
  <2>4. CASE items' = items
    BY <1>0, <2>1, <2>2, <2>4
  <2>5. CASE items' = Append(items, recorded + 1)
    <3>1. /\ Len(items') = Len(items) + 1
          /\ \A k \in 1..Len(items) : items'[k] = items[k]
          /\ items'[Len(items) + 1] = recorded + 1
      BY <1>0, <2>5, AppendProperties
    <3>2. ASSUME NEW k \in 1..Len(items')
          PROVE  items'[k] <= stop'.last <=> k <= Overflow
      BY <1>0, <2>1, <2>2, <2>3, <3>1
    <3> QED BY <1>0, <2>1, <2>2, <2>3, <3>1, <3>2
  <2> QED BY <1>1, <2>4, <2>5 DEF Record
<1>2. CASE FinalUpload
  <2>1. /\ stop'.last = recorded /\ stop'.len = Len(items) /\ recorded' = recorded
        /\ Overflow' = Len(items) - Shorter(BatchMax, Len(items))
    BY <1>2 DEF FinalUpload, Overflow
  <2>2. \A k \in 1..Len(items) : items[k] <= recorded
    <3>1. /\ Range(items) \subseteq Range(Waiting)
          /\ Range(items) = {items[k] : k \in 1..Len(items)}
          /\ Range(Waiting) = {Waiting[k] : k \in 1..Len(Waiting)}
      BY <1>0, WaitingTyped, RangeEquality
    <3>2. \A k \in 1..Len(Waiting) : Waiting[k] <= recorded
      BY NewEntryIsLargest
    <3> QED BY <3>1, <3>2
  <2>3. CASE items # <<>>
    <3>1. items' = LeftByDrain
      BY <1>2, <2>3 DEF FinalUpload
    <3>2. /\ Len(items') = Overflow'
          /\ \A k \in 1..Len(items') : items'[k] <= recorded
      BY <1>0, <2>1, <2>2, <3>1, LeftIsTheEnd
    <3>3. Overflow' \in Int
      BY <1>0, <2>1 DEF Shorter
    <3>4. recorded <= recorded /\ Overflow' <= Overflow'
      BY <1>0, <3>3
    <3>5. \A k \in 1..Len(items') : k <= Overflow'
      BY <3>2, <3>3
    <3> QED BY <2>1, <3>2, <3>4, <3>5
  <2>4. CASE items = <<>>
    <3>1. items' = <<>> /\ Len(items) = 0
      BY <1>2, <2>4, EmptySeq DEF FinalUpload
    <3>2. Overflow' = 0
      <4>1. Shorter(BatchMax, 0) = 0 /\ 0 - 0 = 0
        BY DEF Shorter
      <4> QED BY <2>1, <3>1, <4>1, Zenon
    <3> QED BY <1>0, <2>1, <2>4, <3>1, <3>2
  <2> QED BY <2>3, <2>4
<1>3. ASSUME NEW outcome, PostFails(outcome) PROVE FALSE
  <2>1. /\ reporter \in {"upload", "final"}
        /\ stop' = [stop EXCEPT !.failed = (reporter = "final")]
        /\ reporter' = IF reporter = "final" THEN "exit" ELSE "select"
    BY <1>3 DEF PostFails, Sending, AfterPost
  <2>2. reporter = "final"
    BY <2>1
  <2> QED BY <1>0, <2>1, <2>2
<1>4. CASE Upload
  BY <1>4 DEF Upload
<1>5. CASE PostSucceeds
  <2>1. reporter \in {"final", "exit"} /\ UNCHANGED <<items, recorded, stop>>
    BY <1>5 DEF PostSucceeds, Sending, AfterPost
  <2> QED BY <2>1 DEF LastUploadInv, Overflow
<1>6. ASSUME UNCHANGED <<items, recorded, stop, reporter>>
      PROVE  /\ stop'.last <= recorded'
             /\ Overflow' <= Len(items')
             /\ \A k \in 1..Len(items') : items'[k] <= stop'.last <=> k <= Overflow'
  BY <1>6 DEF LastUploadInv, Overflow
<1>7. CASE Cancel \/ Terminated \/ UNCHANGED vars \/ \E b \in inFlight : LateArrival(b)
  BY <1>6, <1>7 DEF Cancel, Terminated, vars, LateArrival
<1> QED BY <1>1, <1>2, <1>3, <1>4, <1>5, <1>7 DEF Next, PostEnds

\* Of the entries from before an accepted last upload, those that did not fit
\* into its batch are left, in place, and no others (kboard.go:102-104).
THEOREM ExitCorrect == Spec => []ExitLeavesOverflowOnly
<1>1. Init => LastUploadInv
  BY DEF Init, LastUploadInv
<1>2. TypeOK /\ LastUploadInv => ExitLeavesOverflowOnly
  <2> SUFFICES ASSUME TypeOK, LastUploadInv, reporter = "exit", HasEndpoint, ~stop.failed
               PROVE  /\ stop.len - BatchMax <= Len(items)
                      /\ \A k \in 1..Len(items) :
                            items[k] <= stop.last <=> k <= stop.len - BatchMax
    BY DEF ExitLeavesOverflowOnly
  <2>1. stop.len \in Nat /\ Len(items) \in Nat
    BY DEF TypeOK
  <2>2. /\ Overflow <= Len(items) /\ Overflow \in Int
        /\ stop.len - BatchMax <= Overflow
        /\ \A k \in 1..Len(items) : k <= Overflow <=> k <= stop.len - BatchMax
    BY <2>1 DEF LastUploadInv, Overflow, Shorter
  <2>3. \A k \in 1..Len(items) : items[k] <= stop.last <=> k <= Overflow
    BY DEF LastUploadInv
  <2> QED BY <2>1, <2>2, <2>3
<1>3. Spec => []WaitingInv
  BY WaitingCorrect, PTL DEF WaitingInv
<1> QED BY TypeCorrect, LastUploadNext, <1>1, <1>2, <1>3, PTL DEF Spec

-----------------------------------------------------------------------------
(* The detailed log implements the bounded queue *)

\* Cutting the waiting entries behind the batch.
LEMMA CutBehindBatch ==
    ASSUME items \in Seq(Nat), batch \in Seq(Nat), batch # <<>>
    PROVE  /\ SubSeq(Waiting, 1, Len(batch)) = batch
           /\ SubSeq(Waiting, Len(batch) + 1, Len(Waiting)) = items
<1>1. /\ Len(batch) \in Nat \ {0} /\ Len(items) \in Nat
      /\ Len(Waiting) = Len(batch) + Len(items) /\ Waiting \in Seq(Nat)
  BY EmptySeq, ConcatProperties DEF Waiting
<1>2. SubSeq(Waiting, 1, Len(batch)) = SubSeq(batch, 1, Len(batch))
  <2>1. 1 \in 1..Len(batch) /\ Len(batch) \in 1..Len(batch)
    BY <1>1
  <2> QED BY <2>1, SubSeqOfConcat1 DEF Waiting
<1>3. SubSeq(batch, 1, Len(batch)) = batch
  BY SubSeqFull
<1>4. SubSeq(Waiting, Len(batch) + 1, Len(Waiting)) = items
  <2>1. CASE Len(items) = 0
    <3>1. items = <<>>
      BY <2>1, EmptySeq
    <3>2. SubSeq(Waiting, Len(batch) + 1, Len(Waiting)) = <<>>
      BY <1>1, <2>1, SubSeqEmpty
    <3> QED BY <3>1, <3>2
  <2>2. CASE Len(items) # 0
    <3> DEFINE lo == Len(batch) + 1
               hi == Len(batch) + Len(items)
    <3>1. lo \in lo..hi /\ hi \in lo..hi /\ lo - Len(batch) = 1 /\ hi - Len(batch) = Len(items)
      BY <1>1, <2>2
    <3>2. SubSeq(batch \o items, lo, hi) = SubSeq(items, lo - Len(batch), hi - Len(batch))
      BY <3>1, SubSeqOfConcat2
    <3>3. SubSeq(items, 1, Len(items)) = items
      BY SubSeqFull
    <3> QED BY <1>1, <3>1, <3>2, <3>3 DEF Waiting
  <2> QED BY <2>1, <2>2
<1> QED BY <1>2, <1>3, <1>4

\* Every step of the access log is a step of the queue or a stutter.
THEOREM LogImplementsQueue == Spec => ImplementsQueue
<1>1. Init => Queue!Init
  <2> HAVE Init
  <2>1. Waiting = <<>>
    BY EmptySeq, ConcatEmptySeq DEF Init, Waiting
  <2> QED BY <2>1 DEF Init, Queue!Init
<1>2. TypeOK /\ BatchInv /\ [Next]_vars => [Queue!Next]_Queue!vars
  <2> SUFFICES ASSUME TypeOK, BatchInv, [Next]_vars PROVE [Queue!Next]_Queue!vars
    OBVIOUS
  <2>0. /\ items \in Seq(Nat) /\ batch \in Seq(Nat)
        /\ Len(items) \in Nat /\ Len(batch) \in Nat /\ Len(batch) <= BatchMax
        /\ Waiting \in Seq(Nat) /\ Len(Waiting) \in Nat
        /\ Len(Waiting) = Len(batch) + Len(items)
    BY WaitingTyped DEF TypeOK
  <2>1. CASE Nothing
    BY <2>1 DEF Nothing, Queue!vars
  <2>2. CASE Enqueued
    BY <2>2 DEF Enqueued, Queue!Next, Queue!Enqueue
  <2>3. CASE Turned
    BY <2>0, <2>3 DEF Turned, Queue!Next, Queue!Refuse
  <2>4. CASE Acknowledged
    <3>1. /\ SubSeq(Waiting, 1, Len(batch)) = batch
          /\ SubSeq(Waiting, Len(batch) + 1, Len(Waiting)) = items
      BY <2>0, <2>4, CutBehindBatch DEF Acknowledged
    <3>2. Queue!Deliver(Len(batch))
      BY <2>4, <3>1 DEF Acknowledged, Queue!Deliver, Queue!Range, Range
    <3>3. Len(batch) \in 1..BatchMax /\ Len(batch) <= Len(Waiting)
      BY <2>0, <2>4, EmptySeq DEF Acknowledged
    <3> QED BY <3>2, <3>3 DEF Queue!Next
  <2>5. CASE PutBack
    <3>1. CASE Len(Waiting) > QueueMax
      <4>1. /\ Restored = SubSeq(Waiting, 1, QueueMax)
            /\ CutOff = SubSeq(Waiting, QueueMax + 1, Len(Waiting))
        BY <2>0, <3>1 DEF Restored, CutOff, Shorter, Waiting
      <4> QED BY <2>5, <3>1, <4>1 
             DEF PutBack, Queue!Next, Queue!Discard, Queue!Range, Range
    <3>2. CASE ~(Len(Waiting) > QueueMax)
      <4>1. Restored = SubSeq(Waiting, 1, Len(Waiting))
        BY <2>0, <3>2 DEF Restored, Shorter, Waiting
      <4>2. Restored = Waiting
        BY <2>0, <4>1, SubSeqFull
      <4>3. CutOff = <<>>
        BY <2>0, <3>2, SubSeqEmpty DEF CutOff, Waiting
      <4>4. Range(CutOff) = {}
        BY <4>3 DEF Range
      <4> QED BY <2>5, <4>2, <4>4 DEF PutBack, Queue!vars
    <3> QED BY <3>1, <3>2
  <2> QED BY <2>1, <2>2, <2>3, <2>4, <2>5, StepShape
<1> QED BY TypeCorrect, <1>1, <1>2, PTL DEF Spec, ImplementsQueue, Queue!Spec
=============================================================================
