--------------------------- MODULE Delivery_proofs ---------------------------
(***************************************************************************)
(* Proofs about the two components that bring samples to another system    *)
(* which may fail.  Forwarder, for any queue, batch size and number of     *)
(* calls: the pipeline conserves what Forward accepted, in order, and the  *)
(* backend receives it.  Backfill, for any number of runs, any source and  *)
(* any length of the range and of a chunk: a checkpoint claims only what   *)
(* was attempted, and a run that completes has covered its range.          *)
(***************************************************************************)
EXTENDS Forwarder, Backfill, SequenceTheorems, FiniteSetTheorems, TLAPS

\* Where the worker stands says what it holds: it is sending a batch only inside flush,
\* and the current batch is empty from the last flush on.  Each call adds one series.
WorkerHolds ==
  /\ worker \in {"select", "exited"} => sending = <<>>
  /\ worker \in {"send-last", "exited"} => currentBatch = <<>>
  /\ stop = "done" => worker = "exited"
  /\ Len(accepted) <= calls

IInv == TypeOK /\ PipelineConserves /\ FullBatchIsFlushed /\ WorkerHolds

-----------------------------------------------------------------------------
(* Sequences. *)

\* Moving the head of a sequence to the end of the one before it.
LEMMA MoveHead ==
  ASSUME NEW a \in Seq(Ids), NEW c \in Seq(Ids), NEW d \in Seq(Ids), d # <<>>
  PROVE  (a \o Append(c, Head(d))) \o Tail(d) = (a \o c) \o d
<1> DEFINE h == <<Head(d)>>
           r == Tail(d)
<1>1. Head(d) \in Ids /\ r \in Seq(Ids) /\ h \in Seq(Ids)
  BY HeadTailProperties
<1>2. Append(c, Head(d)) = c \o h
  BY <1>1, AppendIsConcat
<1>3. h \o r = d
  <2>1. /\ h \o r \in Seq(Ids)
        /\ Len(h \o r) = Len(d)
        /\ \A i \in 1..Len(d) : (h \o r)[i] = d[i]
    BY <1>1, HeadTailProperties, ConcatProperties, LenProperties
  <2> QED
    BY <2>1, SeqEqual
<1> HIDE DEF h, r
<1>4. \A T : \A s, t, u \in Seq(T) : (s \o t) \o u = s \o (t \o u)
  BY ConcatAssociative
<1>5. \A s, t, u \in Seq(Ids) : (s \o t) \o u = s \o (t \o u)
  BY <1>4, SMTT(30)
<1> DEFINE ac == a \o c
<1>6. ac \in Seq(Ids)
  BY ConcatProperties
<1>7. ac \o h = a \o (c \o h)
  BY <1>1, <1>5, SMTT(30)
<1> HIDE DEF ac
<1>8. (ac \o h) \o r = ac \o (h \o r)
  BY <1>1, <1>5, <1>6
<1>9. (a \o Append(c, Head(d))) \o r = ac \o d
  BY <1>2, <1>3, <1>7, <1>8
<1> QED
  BY <1>9 DEF ac, r

\* Appending to the last of two sequences appends to both.
LEMMA AppendToConcat ==
  ASSUME NEW S, NEW a \in Seq(S), NEW d \in Seq(S), NEW x \in S
  PROVE  a \o Append(d, x) = Append(a \o d, x)
<1>1. <<x>> \in Seq(S) /\ a \o d \in Seq(S)
  BY ConcatProperties
<1>2. Append(d, x) = d \o <<x>> /\ Append(a \o d, x) = (a \o d) \o <<x>>
  BY <1>1, AppendIsConcat
<1> QED
  BY <1>1, <1>2, ConcatAssociative

-----------------------------------------------------------------------------
LEMMA InitHolds == Init => IInv
<1> SUFFICES ASSUME Init PROVE IInv
  OBVIOUS
<1>1. <<>> \in Seq(Ids) /\ Len(<<>>) = 0 /\ <<>> \o <<>> = <<>>
  BY EmptySeq, ConcatEmptySeq
<1>2. TypeOK
  <2>1. <<>> \in Seq(1..MaxCalls)
    BY EmptySeq
  <2>2. 0 \in 0..MaxCalls /\ 0 \in 0..MaxRetries
    BY ForwarderAssumption
  <2> QED
    BY <2>1, <2>2 DEF Init, TypeOK, Ids
<1>3. PipelineConserves
  BY <1>1 DEF Init, PipelineConserves
<1>4. FullBatchIsFlushed
  BY <1>1, ForwarderAssumption DEF Init, FullBatchIsFlushed
<1> QED
  BY <1>2, <1>3, <1>4 DEF Init, IInv, WorkerHolds

\* flush is done with the batch: what it sent joins what is settled.
LEMMA EndFlushKeeps ==
  ASSUME IInv, worker \in {"send", "send-last"}, EndFlush,
         UNCHANGED <<calls, batchCh, currentBatch, flushCh, accepted, stop>>
  PROVE  /\ settled' \in Seq(Ids) /\ sending' \in Seq(Ids)
         /\ worker' \in {"select", "send", "send-last", "exited"}
         /\ PipelineConserves' /\ FullBatchIsFlushed' /\ WorkerHolds'
<1>1. settled \in Seq(Ids) /\ sending \in Seq(Ids)
  BY DEF IInv, TypeOK
<1>2. settled \o sending \in Seq(Ids) /\ <<>> \in Seq(Ids)
  BY <1>1, ConcatProperties
<1>3. settled' \o sending' = settled \o sending
  BY <1>2, ConcatEmptySeq DEF EndFlush
<1>4. PipelineConserves'
  BY <1>3 DEF IInv, PipelineConserves
<1> QED
  BY <1>2, <1>4 DEF EndFlush, IInv, FullBatchIsFlushed, WorkerHolds

\* flush takes the current batch: what it sends was next in line.
LEMMA BeginFlushKeeps ==
  ASSUME IInv, worker = "select",
         NEW whenSending \in {"send", "send-last"}, NEW otherwise \in {"select", "exited"},
         (whenSending = "send-last") <=> (otherwise = "exited"),
         BeginFlush(whenSending, otherwise),
         UNCHANGED <<calls, batchCh, settled, accepted, stop>>
  PROVE  /\ currentBatch' = <<>> /\ sending' \in Seq(Ids)
         /\ attempt' \in 0..MaxRetries
         /\ worker' \in {"select", "send", "send-last", "exited"}
         /\ PipelineConserves' /\ FullBatchIsFlushed' /\ WorkerHolds'
<1>1. /\ settled \in Seq(Ids) /\ currentBatch \in Seq(Ids) /\ sending = <<>>
      /\ attempt \in 0..MaxRetries /\ 0 \in 0..MaxRetries
  BY ForwarderAssumption DEF IInv, TypeOK, WorkerHolds
<1>2. currentBatch' = <<>> /\ sending' = currentBatch
  BY <1>1 DEF BeginFlush
<1>3. settled' \o sending' \o currentBatch' = settled \o sending \o currentBatch
  <2>1. settled \o <<>> = settled
    BY <1>1, ConcatEmptySeq
  <2>2. settled \o currentBatch \in Seq(Ids)
    BY <1>1, ConcatProperties
  <2>3. (settled \o currentBatch) \o <<>> = settled \o currentBatch
    BY <2>2, ConcatEmptySeq
  <2> QED
    BY <1>1, <1>2, <2>1, <2>3
<1>4. PipelineConserves'
  BY <1>3 DEF IInv, PipelineConserves
<1>5. FullBatchIsFlushed'
  BY <1>2, EmptySeq, ForwarderAssumption DEF FullBatchIsFlushed
<1>6. WorkerHolds'
  BY <1>1, <1>2 DEF BeginFlush, WorkerHolds, IInv
<1> QED
  BY <1>1, <1>2, <1>4, <1>5, <1>6 DEF BeginFlush

LEMMA StepKeeps == IInv /\ [Next]_vars => IInv'
<1> SUFFICES ASSUME IInv, [Next]_vars PROVE IInv'
  OBVIOUS
<1>0. /\ calls \in 0..MaxCalls
      /\ batchCh \in Seq(Ids) /\ currentBatch \in Seq(Ids) /\ sending \in Seq(Ids)
      /\ accepted \in Seq(Ids) /\ settled \in Seq(Ids) /\ backend \in Seq(Ids)
      /\ flushCh \in BOOLEAN /\ stopCh \in BOOLEAN
      /\ worker \in {"select", "send", "send-last", "exited"}
      /\ attempt \in 0..MaxRetries
      /\ timer \in {"running", "exited"}
      /\ stop \in {"none", "waiting", "done"}
      /\ failed \subseteq Ids
      /\ PipelineConserves /\ FullBatchIsFlushed /\ WorkerHolds
      /\ MaxCalls \in Nat /\ MaxRetries \in Nat
  BY ForwarderAssumption DEF IInv, TypeOK
<1>1. CASE Forward
  <2>1. CASE Len(batchCh) < QueueCap
    <3>1. calls' \in Ids /\ calls' \in 0..MaxCalls
      BY <1>0, <1>1 DEF Forward, Ids
    <3>2. batchCh' = Append(batchCh, calls') /\ accepted' = Append(accepted, calls')
      BY <1>1, <2>1 DEF Forward
    <3>3. batchCh' \in Seq(Ids) /\ accepted' \in Seq(Ids)
      BY <1>0, <3>1, <3>2, AppendProperties
    <3>4. settled \o sending \o currentBatch \in Seq(Ids)
      BY <1>0, ConcatProperties
    <3>5. PipelineConserves'
      <4> DEFINE before == settled \o sending \o currentBatch
      <4>1. before' = before
        BY <1>1 DEF Forward
      <4>2. before \o batchCh = accepted
        BY <1>0 DEF PipelineConserves
      <4> HIDE DEF before
      <4>3. before \o Append(batchCh, calls') = Append(before \o batchCh, calls')
        BY <1>0, <3>1, <3>4, AppendToConcat, SMTT(30) DEF before
      <4> QED
        BY <3>2, <4>1, <4>2, <4>3 DEF before, PipelineConserves
    <3>6. Len(accepted') = Len(accepted) + 1 /\ calls' = calls + 1
      BY <1>0, <1>1, <3>1, <3>2, AppendProperties DEF Forward
    <3>7. Len(accepted') <= calls'
      BY <1>0, <3>6, LenProperties DEF WorkerHolds
    <3> QED
      BY <1>0, <1>1, <3>1, <3>3, <3>5, <3>7 DEF Forward, IInv, TypeOK, FullBatchIsFlushed,
            WorkerHolds
  <2>2. CASE ~(Len(batchCh) < QueueCap)
    <3>1. calls' \in 0..MaxCalls /\ calls' = calls + 1
      BY <1>0, <1>1 DEF Forward
    <3>2. UNCHANGED <<batchCh, currentBatch, flushCh, stopCh, worker, sending, attempt,
                      timer, stop, accepted, settled, failed, backend>>
      BY <1>1, <2>2 DEF Forward
    <3>3. Len(accepted') <= calls'
      <4>1. Len(accepted) \in Nat
        BY <1>0, LenProperties
      <4> QED
        BY <1>0, <3>1, <3>2, <4>1 DEF WorkerHolds
    <3>4. WorkerHolds'
      BY <1>0, <3>2, <3>3 DEF WorkerHolds
    <3>5. PipelineConserves' /\ FullBatchIsFlushed'
      BY <1>0, <3>2 DEF PipelineConserves, FullBatchIsFlushed
    <3> QED
      BY <1>0, <3>1, <3>2, <3>4, <3>5 DEF IInv, TypeOK
  <2> QED
    BY <2>1, <2>2
<1>2. CASE WorkerTakes
  <2>1. Head(batchCh) \in Ids /\ batchCh' \in Seq(Ids)
    BY <1>0, <1>2, HeadTailProperties DEF WorkerTakes
  <2>2. currentBatch' \in Seq(Ids)
    BY <1>0, <1>2, <2>1, AppendProperties DEF WorkerTakes
  <2>3. PipelineConserves'
    <3> DEFINE before == settled \o sending
    <3>1. /\ batchCh # <<>> /\ batchCh' = Tail(batchCh)
          /\ currentBatch' = Append(currentBatch, Head(batchCh))
          /\ before' = before /\ accepted' = accepted
      BY <1>2 DEF WorkerTakes
    <3>2. before \in Seq(Ids)
      BY <1>0, ConcatProperties
    <3>3. (before \o currentBatch) \o batchCh = accepted
      BY <1>0 DEF PipelineConserves
    <3> HIDE DEF before
    <3>4. (before \o Append(currentBatch, Head(batchCh))) \o Tail(batchCh)
            = (before \o currentBatch) \o batchCh
      BY <1>0, <3>1, <3>2, MoveHead
    <3>5. (before' \o currentBatch') \o batchCh' = accepted'
      BY <3>1, <3>3, <3>4
    <3> QED
      BY <3>5 DEF before, PipelineConserves
  <2>4. FullBatchIsFlushed' /\ flushCh' \in BOOLEAN
    BY <1>0, <1>2 DEF WorkerTakes, BatchIsFull, FullBatchIsFlushed
  <2> QED
    BY <1>0, <1>2, <2>1, <2>2, <2>3, <2>4 DEF WorkerTakes, IInv, TypeOK, WorkerHolds
<1>3. CASE WorkerFlushes
  <2>1. /\ currentBatch' = <<>> /\ sending' \in Seq(Ids) /\ attempt' \in 0..MaxRetries
        /\ worker' \in {"select", "send", "send-last", "exited"}
        /\ PipelineConserves' /\ FullBatchIsFlushed' /\ WorkerHolds'
    BY <1>3, BeginFlushKeeps DEF WorkerFlushes
  <2>2. <<>> \in Seq(Ids)
    BY EmptySeq
  <2>3. UNCHANGED <<calls, batchCh, stopCh, timer, stop, accepted, settled, failed,
        backend>> /\ flushCh' \in BOOLEAN
    BY <1>0, <1>3 DEF WorkerFlushes
  <2>4. TypeOK'
    BY <1>0, <2>1, <2>2, <2>3 DEF TypeOK
  <2> QED
    BY <2>1, <2>4 DEF IInv
<1>4. CASE WorkerStops
  <2>1. /\ currentBatch' = <<>> /\ sending' \in Seq(Ids) /\ attempt' \in 0..MaxRetries
        /\ worker' \in {"select", "send", "send-last", "exited"}
        /\ PipelineConserves' /\ FullBatchIsFlushed' /\ WorkerHolds'
    BY <1>4, BeginFlushKeeps DEF WorkerStops
  <2>2. <<>> \in Seq(Ids)
    BY EmptySeq
  <2>3. UNCHANGED <<calls, batchCh, stopCh, timer, stop, accepted, settled, failed,
        backend>> /\ flushCh' \in BOOLEAN
    BY <1>0, <1>4 DEF WorkerStops
  <2>4. TypeOK'
    BY <1>0, <2>1, <2>2, <2>3 DEF TypeOK
  <2> QED
    BY <2>1, <2>4 DEF IInv
<1>5. ASSUME NEW taken \in BOOLEAN, NEW error \in BOOLEAN, WriteBatch(taken, error)
      PROVE  IInv'
  <2>1. backend' \in Seq(Ids) /\ attempt' \in 0..MaxRetries
    BY <1>0, <1>5, ConcatProperties DEF WriteBatch, AttemptsLeft
  <2>2. CASE error
    BY <1>0, <1>5, <2>1, <2>2
    DEF WriteBatch, IInv, TypeOK, PipelineConserves, FullBatchIsFlushed, WorkerHolds
  <2>3. CASE ~error
    <3>1. /\ settled' \in Seq(Ids) /\ sending' \in Seq(Ids)
          /\ worker' \in {"select", "send", "send-last", "exited"}
          /\ PipelineConserves' /\ FullBatchIsFlushed' /\ WorkerHolds'
      BY <1>5, <2>3, EndFlushKeeps DEF WriteBatch
    <3> QED
      BY <1>0, <1>5, <2>1, <3>1 DEF WriteBatch, IInv, TypeOK
  <2> QED
    BY <2>2, <2>3
<1>6. CASE GiveUp
  <2>1. /\ settled' \in Seq(Ids) /\ sending' \in Seq(Ids)
        /\ worker' \in {"select", "send", "send-last", "exited"}
        /\ PipelineConserves' /\ FullBatchIsFlushed' /\ WorkerHolds'
    BY <1>6, EndFlushKeeps DEF GiveUp
  <2>2. failed' \subseteq Ids
    BY <1>0, <1>6, ElementOfSeq, LenProperties DEF GiveUp
  <2> QED
    BY <1>0, <1>6, <2>1, <2>2 DEF GiveUp, IInv, TypeOK
<1>7. CASE Tick
  BY <1>0, <1>7 DEF Tick, IInv, TypeOK, PipelineConserves, FullBatchIsFlushed, WorkerHolds
<1>8. CASE TimerExits
  BY <1>0, <1>8 DEF TimerExits, IInv, TypeOK, PipelineConserves, FullBatchIsFlushed, WorkerHolds
<1>9. CASE Stop
  <2>1. Len(accepted) \in 0..MaxCalls
    BY <1>0, LenProperties DEF WorkerHolds
  <2> QED
    BY <1>0, <1>9, <2>1 DEF Stop, IInv, TypeOK, PipelineConserves, FullBatchIsFlushed, WorkerHolds
<1>10. CASE StopReturns
  BY <1>0, <1>10
  DEF StopReturns, IInv, TypeOK, PipelineConserves, FullBatchIsFlushed, WorkerHolds
<1>11. CASE UNCHANGED vars
  BY <1>0, <1>11 DEF vars, IInv, TypeOK, PipelineConserves, FullBatchIsFlushed, WorkerHolds
<1> QED
  BY <1>1, <1>2, <1>3, <1>4, <1>5, <1>6, <1>7, <1>8, <1>9, <1>10, <1>11 DEF Next, Send

\* The pipeline, the full-batch rule and the types hold in every reachable state.
THEOREM Invariant == Safety => []IInv
<1>1. Init => IInv
  BY InitHolds
<1>2. IInv /\ [Next]_vars => IInv'
  BY StepKeeps
<1> QED
  BY <1>1, <1>2, PTL DEF Safety

\* The variables keep their types for every size of queue and batch and any retries.
THEOREM Types == Safety => []TypeOK
<1>1. IInv => TypeOK
  BY DEF IInv
<1> QED
  BY <1>1, Invariant, PTL

\* No interleaving of Forward, batchWorker, flushTimer and Stop loses, duplicates or
\* reorders an accepted series inside the pipeline, and a full batch always has its flush
\* signal pending, although triggerFlush discards a signal when there is one already.
THEOREM PipelineStaysSound == Safety => []PipelineIsSound
<1>1. IInv => PipelineIsSound
  BY DEF IInv, PipelineIsSound
<1> QED
  BY <1>1, Invariant, PTL

\* When Stop has returned, every series the worker took from the queue was sent or given
\* up: the batches are empty, so what is settled and what is still queued is everything.
THEOREM StopLeavesNothingHalfway == Safety => []NothingHalfway
<1>1. IInv => NothingHalfway
  <2> SUFFICES ASSUME IInv, stop = "done" PROVE settled \o batchCh = accepted
    BY DEF NothingHalfway
  <2>1. sending = <<>> /\ currentBatch = <<>>
    BY DEF IInv, WorkerHolds
  <2>2. settled \o <<>> = settled
    BY ConcatEmptySeq DEF IInv, TypeOK
  <2> QED
    BY <2>1, <2>2 DEF IInv, PipelineConserves
<1> QED
  BY <1>1, Invariant, PTL

-----------------------------------------------------------------------------
(* What the backend receives. *)

Increasing(s) == \A i, j \in DOMAIN s : i < j => s[i] < s[j]
Below(s, t) == \A i \in DOMAIN s, j \in DOMAIN t : s[i] < t[j]
TimesIn(x, s) == Cardinality({i \in DOMAIN s : s[i] = x})

\* Series are numbered by the calls that brought them, so they are accepted in increasing
\* order.
AcceptedInOrder ==
  /\ Increasing(accepted)
  /\ \A i \in DOMAIN accepted : accepted[i] <= calls

\* What has reached the backend is settled or in the batch being sent.  A batch arrives
\* whole, so when one of its series is there all are, and once for each attempt at most.
Arrivals ==
  /\ \A i \in DOMAIN backend : In(backend[i], settled) \/ In(backend[i], sending)
  /\ \A i \in DOMAIN backend :
       In(backend[i], sending) => \A j \in DOMAIN sending : In(sending[j], backend)
  /\ \A i \in DOMAIN sending : TimesIn(sending[i], backend) <= attempt

ArrivalInv == AcceptedInOrder /\ Arrivals /\ ForwardedIsReceived /\ BackendInOrder

LEMMA ConcatAt ==
  ASSUME NEW s \in Seq(Ids), NEW t \in Seq(Ids)
  PROVE  /\ s \o t \in Seq(Ids)
         /\ DOMAIN s = 1..Len(s) /\ DOMAIN t = 1..Len(t)
         /\ DOMAIN (s \o t) = 1..(Len(s) + Len(t))
         /\ Len(s) \in Nat /\ Len(t) \in Nat
         /\ \A i \in 1..Len(s) : (s \o t)[i] = s[i]
         /\ \A i \in 1..Len(t) : (s \o t)[Len(s) + i] = t[i]
         /\ \A i \in 1..(Len(s) + Len(t)) :
              (s \o t)[i] = IF i <= Len(s) THEN s[i] ELSE t[i - Len(s)]
<1>1. s \o t \in Seq(Ids) /\ Len(s \o t) = Len(s) + Len(t)
  BY ConcatProperties
<1>2. DOMAIN s = 1..Len(s) /\ DOMAIN t = 1..Len(t) /\ Len(s) \in Nat /\ Len(t) \in Nat
  BY LenProperties
<1>3. DOMAIN (s \o t) = 1..(Len(s) + Len(t))
  BY <1>1, LenProperties
<1>4. \A i \in 1..(Len(s) + Len(t)) :
        (s \o t)[i] = IF i <= Len(s) THEN s[i] ELSE t[i - Len(s)]
  BY <1>2, ConcatProperties
<1> QED
  BY <1>1, <1>2, <1>3, <1>4

\* The members of a concatenation are those of its parts.
LEMMA InConcat ==
  ASSUME NEW s \in Seq(Ids), NEW t \in Seq(Ids), NEW x
  PROVE  In(x, s \o t) <=> In(x, s) \/ In(x, t)
<1>1. ASSUME In(x, s \o t) PROVE In(x, s) \/ In(x, t)
  <2>1. PICK i \in DOMAIN (s \o t) : (s \o t)[i] = x
    BY <1>1 DEF In
  <2>2. CASE i <= Len(s)
    BY <2>1, <2>2, ConcatAt DEF In
  <2>3. CASE ~(i <= Len(s))
    <3>1. i - Len(s) \in DOMAIN t /\ t[i - Len(s)] = x
      BY <2>1, <2>3, ConcatAt
    <3> QED
      BY <3>1 DEF In
  <2> QED
    BY <2>2, <2>3
<1>2. ASSUME In(x, s) PROVE In(x, s \o t)
  <2>1. PICK i \in DOMAIN s : s[i] = x
    BY <1>2 DEF In
  <2>2. i \in DOMAIN (s \o t) /\ (s \o t)[i] = x
    BY <2>1, ConcatAt
  <2> QED
    BY <2>2 DEF In
<1>3. ASSUME In(x, t) PROVE In(x, s \o t)
  <2>1. PICK i \in DOMAIN t : t[i] = x
    BY <1>3 DEF In
  <2>2. Len(s) + i \in DOMAIN (s \o t) /\ (s \o t)[Len(s) + i] = x
    BY <2>1, ConcatAt
  <2> QED
    BY <2>2 DEF In
<1> QED
  BY <1>1, <1>2, <1>3

\* The parts of an increasing sequence increase, and the first is below the second.
LEMMA IncreasingParts ==
  ASSUME NEW s \in Seq(Ids), NEW t \in Seq(Ids), Increasing(s \o t)
  PROVE  Increasing(s) /\ Increasing(t) /\ Below(s, t)
<1> DEFINE st == s \o t
<1>1. \A i, j \in 1..(Len(s) + Len(t)) : i < j => st[i] < st[j]
  BY ConcatAt DEF Increasing
<1>2. /\ \A i \in 1..Len(s) : st[i] = s[i]
      /\ \A i \in 1..Len(t) : st[Len(s) + i] = t[i]
      /\ DOMAIN s = 1..Len(s) /\ DOMAIN t = 1..Len(t)
      /\ Len(s) \in Nat /\ Len(t) \in Nat
  BY ConcatAt
<1> HIDE DEF st
<1>3. Increasing(s)
  BY <1>1, <1>2 DEF Increasing
<1>4. ASSUME NEW i \in 1..Len(t), NEW j \in 1..Len(t), i < j PROVE t[i] < t[j]
  <2>1. st[Len(s) + i] < st[Len(s) + j]
    BY <1>1, <1>2, <1>4
  <2> QED
    BY <1>2, <2>1
<1>5. ASSUME NEW i \in 1..Len(s), NEW j \in 1..Len(t) PROVE s[i] < t[j]
  <2>1. st[i] < st[Len(s) + j]
    BY <1>1, <1>2
  <2> QED
    BY <1>2, <2>1
<1> QED
  BY <1>2, <1>3, <1>4, <1>5 DEF Increasing, Below

\* A sequence in increasing order holds each of its members once.
LEMMA TimesInIncreasing ==
  ASSUME NEW s \in Seq(Ids), NEW t \in Seq(Ids), Increasing(t), NEW x \in Ids
  PROVE  /\ TimesIn(x, s) \in Nat /\ TimesIn(x, s \o t) \in Nat
         /\ In(x, t) => TimesIn(x, s \o t) = TimesIn(x, s) + 1
         /\ ~In(x, t) => TimesIn(x, s \o t) = TimesIn(x, s)
<1> DEFINE at == {i \in DOMAIN s : s[i] = x}
           both == {i \in DOMAIN (s \o t) : (s \o t)[i] = x}
<1>0. Ids \subseteq Int
  BY ForwarderAssumption DEF Ids
<1>1. /\ DOMAIN s = 1..Len(s) /\ DOMAIN t = 1..Len(t)
      /\ DOMAIN (s \o t) = 1..(Len(s) + Len(t))
      /\ Len(s) \in Nat /\ Len(t) \in Nat
      /\ \A i \in 1..Len(s) : (s \o t)[i] = s[i]
      /\ \A i \in 1..Len(t) : (s \o t)[Len(s) + i] = t[i]
      /\ \A i \in 1..(Len(s) + Len(t)) :
           (s \o t)[i] = IF i <= Len(s) THEN s[i] ELSE t[i - Len(s)]
  BY ConcatAt
<1>2. IsFiniteSet(at) /\ IsFiniteSet(both)
  <2>1. IsFiniteSet(1..Len(s)) /\ IsFiniteSet(1..(Len(s) + Len(t)))
    BY <1>1, FS_Interval
  <2> QED
    BY <1>1, <2>1, FS_Subset
<1>3. TimesIn(x, s) \in Nat /\ TimesIn(x, s \o t) \in Nat
  BY <1>2, FS_CardinalityType DEF TimesIn
<1>4. ASSUME ~In(x, t) PROVE both = at
  <2>1. \A i \in 1..Len(t) : t[i] # x
    BY <1>1, <1>4 DEF In
  <2>2. ASSUME NEW i \in both PROVE i \in at
    <3>1. i <= Len(s)
      <4> SUFFICES ASSUME ~(i <= Len(s)) PROVE FALSE
        OBVIOUS
      <4>1. i - Len(s) \in 1..Len(t) /\ t[i - Len(s)] = x
        BY <1>1
      <4> QED
        BY <2>1, <4>1
    <3> QED
      BY <1>1, <3>1
  <2>3. ASSUME NEW i \in at PROVE i \in both
    BY <1>1
  <2> QED
    BY <2>2, <2>3
<1>5. ASSUME In(x, t)
      PROVE  \E n : n \notin at /\ both = at \cup {n}
  <2>1. PICK k \in 1..Len(t) : t[k] = x
    BY <1>1, <1>5 DEF In
  <2>2. ASSUME NEW i \in both, i # Len(s) + k PROVE i \in at
    <3>1. i <= Len(s)
      <4> SUFFICES ASSUME ~(i <= Len(s)) PROVE FALSE
        OBVIOUS
      <4> DEFINE l == i - Len(s)
      <4>0. i \in 1..(Len(s) + Len(t)) /\ (s \o t)[i] = x
        BY <1>1
      <4>4. l \in 1..Len(t) /\ i = Len(s) + l
        BY <1>1, <4>0
      <4> HIDE DEF l
      <4>1. t[l] = x /\ l # k
        BY <1>1, <2>2, <4>0, <4>4
      <4>2. l < k \/ k < l
        BY <1>1, <2>1, <4>1, <4>4
      <4>3. t[l] < t[k] \/ t[k] < t[l]
        BY <1>1, <2>1, <4>4, <4>2 DEF Increasing
      <4> QED
        BY <1>0, <2>1, <4>1, <4>3
    <3> QED
      BY <1>1, <3>1
  <2>3. ASSUME NEW i \in at PROVE i \in both
    BY <1>1
  <2>4. Len(s) + k \in both /\ Len(s) + k \notin at
    BY <1>1, <2>1
  <2> QED
    BY <2>2, <2>3, <2>4
<1>6. ASSUME In(x, t) PROVE Cardinality(both) = Cardinality(at) + 1
  <2>1. PICK n : n \notin at /\ both = at \cup {n}
    BY <1>5, <1>6
  <2> HIDE DEF at, both
  <2> QED
    BY <1>2, <2>1, FS_AddElement
<1> QED
  BY <1>3, <1>4, <1>6 DEF TimesIn

\* Where the accepted series are, the earlier ones are further on.
LEMMA PlacesInOrder ==
  ASSUME IInv, AcceptedInOrder
  PROVE  /\ Increasing(sending) /\ Increasing(currentBatch)
         /\ Below(settled, sending) /\ Below(settled, currentBatch)
<1>1. /\ settled \in Seq(Ids) /\ sending \in Seq(Ids) /\ currentBatch \in Seq(Ids)
      /\ batchCh \in Seq(Ids) /\ Increasing(((settled \o sending) \o currentBatch) \o batchCh)
  BY DEF IInv, TypeOK, PipelineConserves, AcceptedInOrder
<1>2. settled \o sending \in Seq(Ids) /\ (settled \o sending) \o currentBatch \in Seq(Ids)
  BY <1>1, ConcatProperties
<1> DEFINE ss == settled \o sending
<1>3. Increasing(ss \o currentBatch)
  BY <1>1, <1>2, IncreasingParts
<1>4. Increasing(ss) /\ Increasing(currentBatch) /\ Below(ss, currentBatch)
  BY <1>1, <1>2, <1>3, IncreasingParts
<1>5. Increasing(sending) /\ Below(settled, sending)
  BY <1>1, <1>4, IncreasingParts
<1>6. Below(settled, currentBatch)
  <2> SUFFICES ASSUME NEW i \in DOMAIN settled, NEW j \in DOMAIN currentBatch
               PROVE  settled[i] < currentBatch[j]
    BY DEF Below
  <2>1. i \in DOMAIN ss /\ ss[i] = settled[i]
    BY <1>1, ConcatAt
  <2> HIDE DEF ss
  <2> QED
    BY <1>4, <2>1 DEF Below
<1> QED
  BY <1>4, <1>5, <1>6

\* Sequences in order of which one is below the other have no member in common.
LEMMA BelowIsApart ==
  ASSUME NEW s \in Seq(Ids), NEW t \in Seq(Ids), Below(s, t), NEW x, In(x, s), In(x, t)
  PROVE  FALSE
<1>1. PICK i \in DOMAIN s : s[i] = x
  BY DEF In
<1>2. PICK j \in DOMAIN t : t[j] = x
  BY DEF In
<1>3. x \in Int
  BY <1>1, ElementOfSeq, LenProperties, ForwarderAssumption DEF Ids
<1> QED
  BY <1>1, <1>2, <1>3 DEF Below

InOrder(b) ==
  \A i, j \in DOMAIN b : i < j /\ b[j] < b[i] => \E k \in 1..(i - 1) : b[k] = b[j]

\* A batch that arrives once more keeps the order of first arrivals: what it repeats has
\* all been there.
LEMMA ArrivesInOrder ==
  ASSUME IInv, AcceptedInOrder, Arrivals, BackendInOrder
  PROVE  InOrder(backend \o sending)
<1> DEFINE b == backend \o sending
<1>1. backend \in Seq(Ids) /\ sending \in Seq(Ids) /\ settled \in Seq(Ids)
  BY DEF IInv, TypeOK
<1>2. /\ DOMAIN backend = 1..Len(backend) /\ DOMAIN sending = 1..Len(sending)
      /\ DOMAIN b = 1..(Len(backend) + Len(sending))
      /\ Len(backend) \in Nat /\ Len(sending) \in Nat
      /\ \A i \in 1..Len(backend) : b[i] = backend[i]
      /\ \A i \in 1..(Len(backend) + Len(sending)) :
           b[i] = IF i <= Len(backend) THEN backend[i] ELSE sending[i - Len(backend)]
  BY <1>1, ConcatAt
<1>3. Increasing(sending) /\ Below(settled, sending)
  BY PlacesInOrder
<1>4. /\ \A i \in DOMAIN backend : backend[i] \in Int
      /\ \A i \in DOMAIN sending : sending[i] \in Int
      /\ \A i \in DOMAIN settled : settled[i] \in Int
  BY <1>1, <1>2, LenProperties, ElementOfSeq, ForwarderAssumption DEF Ids
<1> HIDE DEF b
<1> SUFFICES ASSUME NEW i \in DOMAIN b, NEW j \in DOMAIN b, i < j, b[j] < b[i]
             PROVE  \E k \in 1..(i - 1) : b[k] = b[j]
  BY DEF InOrder, b
<1>5. CASE j <= Len(backend)
  <2>1. i \in DOMAIN backend /\ j \in DOMAIN backend /\ backend[j] < backend[i]
        /\ b[i] = backend[i] /\ b[j] = backend[j]
    BY <1>2, <1>5
  <2>2. PICK k \in 1..(i - 1) : backend[k] = backend[j]
    BY <2>1 DEF BackendInOrder
  <2>3. b[k] = backend[k]
    BY <1>2, <2>1, <2>2
  <2> QED
    BY <2>1, <2>2, <2>3
<1>6. CASE ~(j <= Len(backend)) /\ i <= Len(backend)
  <2> DEFINE m == j - Len(backend)
  <2>1. /\ i \in DOMAIN backend /\ b[i] = backend[i]
        /\ m \in DOMAIN sending /\ b[j] = sending[m]
    BY <1>2, <1>6
  <2> HIDE DEF m
  <2>2. ~In(backend[i], settled)
    <3> SUFFICES ASSUME NEW n \in DOMAIN settled, settled[n] = backend[i] PROVE FALSE
      BY DEF In
    <3>1. settled[n] < sending[m]
      BY <1>3, <2>1 DEF Below
    <3> QED
      BY <1>4, <2>1, <3>1
  <2>3. In(sending[m], backend)
    BY <2>1, <2>2 DEF Arrivals
  <2>4. PICK k \in DOMAIN backend : backend[k] = sending[m]
    BY <2>3 DEF In
  <2>5. k # i
    BY <1>4, <2>1, <2>4
  <2>6. CASE k < i
    BY <1>2, <2>1, <2>4, <2>6
  <2>7. CASE i < k
    <3>1. PICK k2 \in 1..(i - 1) : backend[k2] = backend[k]
      BY <2>1, <2>4, <2>7 DEF BackendInOrder
    <3>2. k2 \in 1..Len(backend)
      BY <1>2, <2>1, <3>1
    <3> QED
      BY <1>2, <2>1, <2>4, <3>1, <3>2
  <2> QED
    BY <1>2, <2>1, <2>4, <2>5, <2>6, <2>7
<1>7. CASE ~(j <= Len(backend)) /\ ~(i <= Len(backend))
  <2> DEFINE m == j - Len(backend)
             n == i - Len(backend)
  <2>1. /\ m \in DOMAIN sending /\ b[j] = sending[m]
        /\ n \in DOMAIN sending /\ b[i] = sending[n] /\ n < m
    BY <1>2, <1>7
  <2> HIDE DEF m, n
  <2>2. sending[n] < sending[m]
    BY <1>3, <2>1 DEF Increasing
  <2> QED
    BY <1>4, <2>1, <2>2
<1> QED
  BY <1>2, <1>5, <1>6, <1>7

\* An attempt, whether the backend takes the batch or not.
LEMMA AttemptArrives ==
  ASSUME IInv, ArrivalInv, attempt < MaxRetries,
         NEW b, b = backend \/ b = backend \o sending
  PROVE  /\ \A i \in DOMAIN b : In(b[i], settled) \/ In(b[i], sending)
         /\ \A i \in DOMAIN b :
              In(b[i], sending) => \A j \in DOMAIN sending : In(sending[j], b)
         /\ \A i \in DOMAIN sending : TimesIn(sending[i], b) <= attempt + 1
         /\ \A x \in Ids : TimesIn(x, b) <= MaxRetries
         /\ InOrder(b)
         /\ \A x : In(x, backend) => In(x, b)
         /\ b = backend \o sending => \A x : In(x, sending) => In(x, b)
<1>1. /\ backend \in Seq(Ids) /\ sending \in Seq(Ids) /\ settled \in Seq(Ids)
      /\ attempt \in Nat /\ MaxRetries \in Nat
  BY ForwarderAssumption DEF IInv, TypeOK
<1>2. AcceptedInOrder /\ Arrivals /\ ForwardedIsReceived /\ BackendInOrder
  BY DEF ArrivalInv
<1>3. Increasing(sending)
  BY <1>2, PlacesInOrder
<1>4. \A i \in DOMAIN sending : sending[i] \in Ids
  BY <1>1, LenProperties, ElementOfSeq
<1>5. \A x \in Ids : TimesIn(x, backend) \in Nat /\ TimesIn(x, backend) <= MaxRetries
  <2>1. \A x \in Ids : TimesIn(x, backend) \in Nat
    BY <1>1, <1>3, TimesInIncreasing
  <2> QED
    BY <1>2, <2>1 DEF ForwardedIsReceived, TimesIn
<1>6. CASE b = backend
  <2>1. \A i \in DOMAIN sending : TimesIn(sending[i], b) <= attempt + 1
    BY <1>1, <1>2, <1>4, <1>5, <1>6 DEF Arrivals
  <2>2. b = backend \o sending => \A x : In(x, sending) => In(x, b)
    BY <1>1, InConcat
  <2> QED
    BY <1>2, <1>5, <1>6, <2>1, <2>2 DEF Arrivals, BackendInOrder, InOrder
<1>7. CASE b = backend \o sending
  <2>1. \A x : In(x, b) <=> In(x, backend) \/ In(x, sending)
    BY <1>1, <1>7, InConcat
  <2>2. ASSUME NEW i \in DOMAIN b PROVE In(b[i], settled) \/ In(b[i], sending)
    <3>1. In(b[i], backend) \/ In(b[i], sending)
      BY <2>1 DEF In
    <3> QED
      BY <1>2, <3>1 DEF Arrivals, In
  <2>3. \A j \in DOMAIN sending : In(sending[j], b)
    BY <2>1 DEF In
  <2>4. ASSUME NEW x \in Ids
        PROVE  /\ In(x, sending) => TimesIn(x, b) = TimesIn(x, backend) + 1
               /\ ~In(x, sending) => TimesIn(x, b) = TimesIn(x, backend)
    BY <1>1, <1>3, <1>7, TimesInIncreasing
  <2>5. ASSUME NEW i \in DOMAIN sending PROVE TimesIn(sending[i], b) <= attempt + 1
    <3>1. In(sending[i], sending) /\ TimesIn(sending[i], backend) <= attempt
      BY <1>2 DEF In, Arrivals
    <3> QED
      BY <1>1, <1>4, <1>5, <2>4, <3>1
  <2>6. ASSUME NEW x \in Ids PROVE TimesIn(x, b) <= MaxRetries
    <3>1. CASE In(x, sending)
      <4>1. PICK i \in DOMAIN sending : sending[i] = x
        BY <3>1 DEF In
      <4>2. TimesIn(x, b) = TimesIn(x, backend) + 1 /\ TimesIn(x, backend) <= attempt
        BY <1>2, <2>4, <3>1, <4>1 DEF Arrivals
      <4> QED
        BY <1>1, <1>5, <4>2
    <3>2. CASE ~In(x, sending)
      BY <1>5, <2>4, <3>2
    <3> QED
      BY <3>1, <3>2
  <2>7. InOrder(b)
    BY <1>2, <1>7, ArrivesInOrder
  <2> QED
    BY <2>1, <2>2, <2>3, <2>5, <2>6, <2>7
<1> QED
  BY <1>6, <1>7

\* A batch that was taken just now has not been near the backend.
LEMMA FreshBatch ==
  ASSUME IInv, ArrivalInv, worker = "select", NEW w1, NEW w2, BeginFlush(w1, w2),
         UNCHANGED <<calls, settled, accepted, failed, backend>>
  PROVE  ArrivalInv'
<1>1. /\ settled \in Seq(Ids) /\ currentBatch \in Seq(Ids) /\ sending = <<>>
      /\ backend \in Seq(Ids) /\ DOMAIN sending = {}
  <2>1. <<>> \in Seq(Ids) /\ Len(<<>>) = 0
    BY EmptySeq
  <2>2. DOMAIN <<>> = {}
    BY <2>1, LenProperties
  <2> QED
    BY <2>2 DEF IInv, TypeOK, WorkerHolds
<1>2. \A i \in DOMAIN backend : In(backend[i], settled)
  BY <1>1 DEF ArrivalInv, Arrivals, In
<1>3. AcceptedInOrder' /\ ForwardedIsReceived' /\ BackendInOrder'
  BY DEF ArrivalInv, AcceptedInOrder, ForwardedIsReceived, BackendInOrder, In, Increasing
<1>4. CASE currentBatch = <<>>
  BY <1>3, <1>4 DEF BeginFlush, ArrivalInv, Arrivals, In, TimesIn
<1>5. CASE currentBatch # <<>>
  <2>1. sending' = currentBatch /\ attempt' = 0
    BY <1>5 DEF BeginFlush
  <2>2. Below(settled, currentBatch)
    BY PlacesInOrder DEF ArrivalInv
  <2>3. \A i \in DOMAIN backend : ~In(backend[i], currentBatch)
    BY <1>1, <1>2, <2>2, BelowIsApart
  <2>4. ASSUME NEW j \in DOMAIN currentBatch PROVE TimesIn(currentBatch[j], backend) = 0
    <3>1. In(currentBatch[j], currentBatch)
      BY DEF In
    <3>2. {i \in DOMAIN backend : backend[i] = currentBatch[j]} = {}
      BY <2>3, <3>1
    <3> QED
      BY <3>2, FS_EmptySet DEF TimesIn
  <2>5. /\ \A i \in DOMAIN backend : In(backend[i], settled) \/ In(backend[i], currentBatch)
        /\ \A i \in DOMAIN backend :
             In(backend[i], currentBatch)
               => \A j \in DOMAIN currentBatch : In(currentBatch[j], backend)
        /\ \A i \in DOMAIN currentBatch : TimesIn(currentBatch[i], backend) <= 0
    BY <1>2, <2>3, <2>4
  <2>6. Arrivals'
    BY <2>1, <2>5 DEF Arrivals, In, TimesIn
  <2> QED
    BY <1>3, <2>6 DEF ArrivalInv
<1> QED
  BY <1>4, <1>5

\* flush is done with a batch that the backend received or that is given up.
LEMMA BatchIsSettled ==
  ASSUME IInv, AcceptedInOrder, EndFlush, backend' \in Seq(Ids),
         \A i \in DOMAIN backend' : In(backend'[i], settled) \/ In(backend'[i], sending),
         \A i \in DOMAIN settled : In(settled[i], backend') \/ settled[i] \in failed',
         \A i \in DOMAIN sending : In(sending[i], backend') \/ sending[i] \in failed',
         \A x \in Ids : TimesIn(x, backend') <= MaxRetries,
         InOrder(backend'), UNCHANGED <<calls, accepted>>
  PROVE  ArrivalInv'
<1>1. settled \in Seq(Ids) /\ sending \in Seq(Ids)
  BY DEF IInv, TypeOK
<1>2. settled' = settled \o sending /\ sending' = <<>> /\ DOMAIN sending' = {}
  <2>1. <<>> \in Seq(Ids) /\ Len(<<>>) = 0
    BY EmptySeq
  <2>2. DOMAIN <<>> = {}
    BY <2>1, LenProperties
  <2> QED
    BY <2>2 DEF EndFlush
<1>3. AcceptedInOrder' /\ BackendInOrder'
  BY DEF AcceptedInOrder, Increasing, InOrder, BackendInOrder
<1>4. \A x : In(x, settled \o sending) <=> In(x, settled) \/ In(x, sending)
  BY <1>1, InConcat
<1>5. Arrivals'
  <2>1. \A i \in DOMAIN backend' : In(backend'[i], settled \o sending)
    BY <1>4
  <2> QED
    BY <1>2, <2>1 DEF Arrivals, In, TimesIn
<1>6. ASSUME NEW i \in DOMAIN (settled \o sending)
      PROVE  In((settled \o sending)[i], backend') \/ (settled \o sending)[i] \in failed'
  <2>1. In((settled \o sending)[i], settled) \/ In((settled \o sending)[i], sending)
    BY <1>4 DEF In
  <2> QED
    BY <2>1 DEF In
<1>7. ForwardedIsReceived'
  BY <1>2, <1>6 DEF ForwardedIsReceived, In, TimesIn
<1> QED
  BY <1>3, <1>5, <1>7 DEF ArrivalInv

LEMMA StepArrives == IInv /\ IInv' /\ ArrivalInv /\ [Next]_vars => ArrivalInv'
<1> SUFFICES ASSUME IInv, IInv', ArrivalInv, [Next]_vars PROVE ArrivalInv'
  OBVIOUS
<1>0. /\ sending \in Seq(Ids) /\ settled \in Seq(Ids) /\ accepted \in Seq(Ids)
      /\ backend \in Seq(Ids) /\ backend' \in Seq(Ids) /\ calls \in Nat
      /\ attempt \in Nat /\ MaxRetries \in Nat
      /\ AcceptedInOrder /\ Arrivals /\ ForwardedIsReceived /\ BackendInOrder
  BY ForwarderAssumption DEF IInv, TypeOK, ArrivalInv
<1>1. ASSUME UNCHANGED <<calls, accepted, sending, attempt, settled, failed, backend>>
      PROVE  ArrivalInv'
  BY <1>0, <1>1
  DEF ArrivalInv, AcceptedInOrder, Arrivals, ForwardedIsReceived, BackendInOrder, In,
      Increasing, TimesIn
<1>2. CASE Forward
  <2>1. CASE Len(batchCh) < QueueCap
    <3>1. /\ calls' \in Ids /\ calls' = calls + 1 /\ accepted' = Append(accepted, calls')
          /\ UNCHANGED <<sending, attempt, settled, failed, backend>>
      BY <1>0, <1>2, <2>1, ForwarderAssumption DEF Forward, Ids
    <3>2. /\ Len(accepted') = Len(accepted) + 1 /\ accepted'[Len(accepted) + 1] = calls'
          /\ \A i \in 1..Len(accepted) : accepted'[i] = accepted[i]
          /\ DOMAIN accepted = 1..Len(accepted) /\ Len(accepted) \in Nat
          /\ DOMAIN accepted' = 1..(Len(accepted) + 1)
          /\ \A i \in 1..Len(accepted) : accepted[i] \in Nat
      <4>1. DOMAIN accepted = 1..Len(accepted) /\ Len(accepted) \in Nat
        BY <1>0, LenProperties
      <4>2. \A i \in 1..Len(accepted) : accepted[i] \in Nat
        BY <1>0, <4>1, ElementOfSeq, ForwarderAssumption DEF Ids
      <4>3. /\ accepted' \in Seq(Ids) /\ Len(accepted') = Len(accepted) + 1
            /\ accepted'[Len(accepted) + 1] = calls'
            /\ \A i \in 1..Len(accepted) : accepted'[i] = accepted[i]
        BY <1>0, <3>1, <4>1, AppendProperties
      <4>4. DOMAIN accepted' = 1..(Len(accepted) + 1)
        BY <4>3, LenProperties
      <4> QED
        BY <4>1, <4>2, <4>3, <4>4
    <3>3. ASSUME NEW i \in DOMAIN accepted' PROVE accepted'[i] <= calls'
      BY <1>0, <3>1, <3>2, <3>3 DEF AcceptedInOrder
    <3>4. ASSUME NEW i \in DOMAIN accepted', NEW j \in DOMAIN accepted', i < j
          PROVE  accepted'[i] < accepted'[j]
      <4>1. CASE j = Len(accepted) + 1
        <5>1. i \in 1..Len(accepted) /\ accepted[i] <= calls
          BY <1>0, <3>2, <3>4, <4>1 DEF AcceptedInOrder
        <5> QED
          BY <1>0, <3>1, <3>2, <4>1, <5>1
      <4>2. CASE j # Len(accepted) + 1
        <5>1. i \in 1..Len(accepted) /\ j \in 1..Len(accepted)
          BY <3>2, <3>4, <4>2
        <5> QED
          BY <1>0, <3>2, <3>4, <5>1 DEF AcceptedInOrder, Increasing
      <4> QED
        BY <4>1, <4>2
    <3>5. AcceptedInOrder'
      BY <3>3, <3>4 DEF AcceptedInOrder, Increasing
    <3> QED
      BY <1>0, <3>1, <3>5
      DEF ArrivalInv, Arrivals, ForwardedIsReceived, BackendInOrder, In, TimesIn
  <2>2. CASE ~(Len(batchCh) < QueueCap)
    <3>1. /\ calls' = calls + 1
          /\ UNCHANGED <<accepted, sending, attempt, settled, failed, backend>>
      BY <1>2, <2>2 DEF Forward
    <3>2. \A i \in DOMAIN accepted : accepted[i] \in Nat
      BY <1>0, LenProperties, ElementOfSeq, ForwarderAssumption DEF Ids
    <3>3. AcceptedInOrder'
      BY <1>0, <3>1, <3>2 DEF AcceptedInOrder, Increasing
    <3> QED
      BY <1>0, <3>1, <3>3
      DEF ArrivalInv, Arrivals, ForwardedIsReceived, BackendInOrder, In, TimesIn
  <2> QED
    BY <2>1, <2>2
<1>3. CASE WorkerFlushes
  BY <1>3, FreshBatch DEF WorkerFlushes
<1>4. CASE WorkerStops
  BY <1>4, FreshBatch DEF WorkerStops
<1>5. ASSUME NEW taken \in BOOLEAN, NEW error \in BOOLEAN, WriteBatch(taken, error)
      PROVE  ArrivalInv'
  <2>1. /\ attempt < MaxRetries /\ attempt' = attempt + 1
        /\ backend' = backend \/ backend' = backend \o sending
        /\ ~error => backend' = backend \o sending
        /\ UNCHANGED <<calls, accepted, failed>>
    BY <1>5 DEF WriteBatch, AttemptsLeft
  <2>2. /\ \A i \in DOMAIN backend' : In(backend'[i], settled) \/ In(backend'[i], sending)
        /\ \A i \in DOMAIN backend' :
             In(backend'[i], sending) => \A j \in DOMAIN sending : In(sending[j], backend')
        /\ \A i \in DOMAIN sending : TimesIn(sending[i], backend') <= attempt + 1
        /\ \A x \in Ids : TimesIn(x, backend') <= MaxRetries
        /\ InOrder(backend')
        /\ \A x : In(x, backend) => In(x, backend')
        /\ backend' = backend \o sending => \A x : In(x, sending) => In(x, backend')
    BY <2>1, AttemptArrives
  <2>3. \A i \in DOMAIN settled : In(settled[i], backend') \/ settled[i] \in failed'
    BY <1>0, <2>1, <2>2 DEF ForwardedIsReceived
  <2>4. CASE error
    <3>1. UNCHANGED <<sending, settled>>
      BY <1>5, <2>4 DEF WriteBatch
    <3>2. AcceptedInOrder' /\ BackendInOrder'
      BY <1>0, <2>1, <2>2 DEF AcceptedInOrder, Increasing, InOrder, BackendInOrder
    <3>3. Arrivals' /\ ForwardedIsReceived'
      BY <2>1, <2>2, <2>3, <3>1 DEF Arrivals, ForwardedIsReceived, In, TimesIn
    <3> QED
      BY <3>2, <3>3 DEF ArrivalInv
  <2>5. CASE ~error
    <3>1. EndFlush
      BY <1>5, <2>5 DEF WriteBatch
    <3>2. \A i \in DOMAIN sending : In(sending[i], backend')
      BY <2>1, <2>2, <2>5 DEF In
    <3> QED
      BY <1>0, <2>1, <2>2, <2>3, <3>1, <3>2, BatchIsSettled
  <2> QED
    BY <2>4, <2>5
<1>6. CASE GiveUp
  <2>1. /\ EndFlush /\ failed' = failed \cup {sending[i] : i \in DOMAIN sending}
        /\ UNCHANGED <<calls, accepted, backend>>
    BY <1>6 DEF GiveUp
  <2>2. \A x \in Ids : TimesIn(x, backend') <= MaxRetries
    BY <1>0, <2>1 DEF ForwardedIsReceived, TimesIn
  <2>3. /\ \A i \in DOMAIN settled : In(settled[i], backend') \/ settled[i] \in failed'
        /\ \A i \in DOMAIN sending : In(sending[i], backend') \/ sending[i] \in failed'
        /\ \A i \in DOMAIN backend' : In(backend'[i], settled) \/ In(backend'[i], sending)
    BY <1>0, <2>1 DEF ForwardedIsReceived, Arrivals
  <2>4. InOrder(backend')
    BY <1>0, <2>1 DEF InOrder, BackendInOrder
  <2> QED
    BY <1>0, <2>1, <2>2, <2>3, <2>4, BatchIsSettled
<1>7. CASE WorkerTakes \/ Tick \/ TimerExits \/ Stop \/ StopReturns \/ UNCHANGED vars
  BY <1>1, <1>7 DEF WorkerTakes, Tick, TimerExits, Stop, StopReturns, vars
<1> QED
  BY <1>2, <1>3, <1>4, <1>5, <1>6, <1>7 DEF Next, Send

THEOREM ArrivalInvariant == Safety => []ArrivalInv
<1>1. Init => ArrivalInv
  <2> SUFFICES ASSUME Init PROVE ArrivalInv
    OBVIOUS
  <2>1. <<>> \in Seq(Ids) /\ Len(<<>>) = 0
    BY EmptySeq
  <2>2. DOMAIN <<>> = {}
    BY <2>1, LenProperties
  <2>3. \A x : {i \in {} : <<>>[i] = x} = {}
    OBVIOUS
  <2>4. \A x : Cardinality({i \in DOMAIN backend : backend[i] = x}) = 0
    BY <2>2, <2>3, FS_EmptySet DEF Init
  <2> QED
    BY <2>2, <2>4, ForwarderAssumption
    DEF Init, ArrivalInv, AcceptedInOrder, Increasing, Arrivals, ForwardedIsReceived,
        BackendInOrder, In, TimesIn
<1>2. IInv /\ IInv' /\ ArrivalInv /\ [Next]_vars => ArrivalInv'
  BY StepArrives
<1> QED
  BY <1>1, <1>2, Invariant, PTL DEF Safety

\* flush does not lose a batch behind sendBatch's back: a series it is done with has
\* reached the backend or is in a batch that was given up, and with retries of a batch that
\* did arrive no series reaches the backend more often than sendBatch tries.
THEOREM SettledIsReceived == Safety => []ForwardedIsReceived
<1>1. ArrivalInv => ForwardedIsReceived
  BY DEF ArrivalInv
<1> QED
  BY <1>1, ArrivalInvariant, PTL

\* The series reach the backend for the first time in the order in which Forward accepted
\* them, however many attempts each batch takes and whichever of them arrive.
THEOREM FirstArrivalsInOrder == Safety => []BackendInOrder
<1>1. ArrivalInv => BackendInOrder
  BY DEF ArrivalInv
<1> QED
  BY <1>1, ArrivalInvariant, PTL

-----------------------------------------------------------------------------
(* Backfill. *)

\* What stands behind a saved checkpoint has been covered, even while the file cannot
\* be read.
SavedCovered == Covered(saved.series, saved.lastChunkEnd)

\* So has what stands behind the checkpoint in a run's memory.
RunsCovered == \A r \in Runs : Covered(checkpoint[r].series, checkpoint[r].lastChunkEnd)

\* In a chunk, the series that the loop is done with are covered up to its end.
ChunkCovered ==
  \A r \in Runs : run[r] = "chunk" =>
    \A s \in checkpoint[r].series \ todo[r] : {s} \X ChunkTimes(r) \subseteq received \cup skipped

\* The loop ends at the end of the range.
CompletedAtEnd == \A r \in Runs : run[r] = "completed" => checkpoint[r].lastChunkEnd = EndTime

\* A run that has no list of series yet stands at the start of the range.
FreshRuns ==
  \A r \in Runs : run[r] \in {"new", "discover"} => checkpoint[r] = NewCheckpoint

\* The inductive invariant.
BackfillInv ==
  BackfillTypeOK /\ SavedCovered /\ RunsCovered /\ ChunkCovered /\ CompletedAtEnd /\ FreshRuns

LEMMA EndOfChunkBounds ==
  ASSUME NEW t \in Times
  PROVE  /\ EndOfChunk(t) \in Times
         /\ t <= EndOfChunk(t)
         /\ t < EndTime => t < EndOfChunk(t)
  BY BackfillAssumption DEF EndOfChunk, Times

LEMMA InitIInv == BackfillInit => BackfillInv
  BY BackfillAssumption
  DEF BackfillInit, BackfillInv, BackfillTypeOK, SavedCovered, RunsCovered, ChunkCovered,
        CompletedAtEnd, Covered,
      FreshRuns, Checkpoint, NewCheckpoint, Times, RunState, Ended

\* Nothing is covered by these steps, and nothing claimed.
LEMMA StartsKeep ==
  ASSUME BackfillInv, NEW r \in Runs, Start(r) \/ DiscoverFails(r)
  PROVE  BackfillInv'
<1>1. BackfillTypeOK'
  BY DEF BackfillInv, BackfillTypeOK, Start, DiscoverFails, RunState, Ended
<1>2. SavedCovered' /\ RunsCovered'
  BY DEF BackfillInv, Start, DiscoverFails, SavedCovered, RunsCovered, Covered
<1>3. ChunkCovered' /\ CompletedAtEnd' /\ FreshRuns'
  BY DEF BackfillInv, BackfillTypeOK, Start, DiscoverFails, ChunkCovered, CompletedAtEnd,
        FreshRuns,
         ChunkTimes
<1> QED
  BY <1>1, <1>2, <1>3 DEF BackfillInv

\* A resumed run takes over a checkpoint that is covered.
LEMMA ResumeKeeps ==
  ASSUME BackfillInv, NEW r \in Runs, Resume(r)
  PROVE  BackfillInv'
<1>1. BackfillTypeOK'
  BY DEF BackfillInv, BackfillTypeOK, Resume, RunState, Ended
<1>2. SavedCovered'
  BY DEF BackfillInv, Resume, SavedCovered, Covered
<1>3. RunsCovered'
  <2> SUFFICES ASSUME NEW q \in Runs
               PROVE  Covered(checkpoint[q].series, checkpoint[q].lastChunkEnd)'
    BY DEF RunsCovered
  <2>1. checkpoint'[q] \in {checkpoint[q], saved}
    BY DEF BackfillInv, BackfillTypeOK, Resume
  <2> QED
    BY <2>1 DEF BackfillInv, Resume, SavedCovered, RunsCovered, Covered
<1>4. ChunkCovered' /\ CompletedAtEnd' /\ FreshRuns'
  BY DEF BackfillInv, BackfillTypeOK, Resume, ChunkCovered, CompletedAtEnd, FreshRuns, ChunkTimes
<1> QED
  BY <1>1, <1>2, <1>3, <1>4 DEF BackfillInv

\* A run that has just discovered its series stands at the start of the range.
LEMMA DiscoverKeeps ==
  ASSUME BackfillInv, NEW r \in Runs, DiscoverSeries(r)
  PROVE  BackfillInv'
<1>1. PICK found \in SUBSET Matching :
        IF found = {}
          THEN /\ run' = [run EXCEPT ![r] = "nothing"]
               /\ UNCHANGED checkpoint
          ELSE /\ run' = [run EXCEPT ![r] = "save"]
               /\ checkpoint' = [checkpoint EXCEPT ![r].series = found]
  BY DEF DiscoverSeries
<1>2. UNCHANGED <<todo, file, saved, received, skipped>> /\ run[r] = "discover"
  BY DEF DiscoverSeries
<1>3. found \in SUBSET Series
  BY BackfillAssumption
<1>4. BackfillTypeOK'
  BY <1>1, <1>2, <1>3 DEF BackfillInv, BackfillTypeOK, RunState, Ended, Checkpoint
<1>5. \A q \in Runs \ {r} : checkpoint'[q] = checkpoint[q] /\ run'[q] = run[q]
  BY <1>1 DEF BackfillInv, BackfillTypeOK
<1>6. /\ checkpoint'[r].lastChunkEnd = 0
      /\ run'[r] \in {"nothing", "save"}
  BY <1>1, <1>2 DEF BackfillInv, BackfillTypeOK, FreshRuns, NewCheckpoint, Checkpoint
<1>7. SavedCovered' /\ RunsCovered'
  BY <1>2, <1>5, <1>6 DEF BackfillInv, SavedCovered, RunsCovered, Covered
<1>8. ChunkCovered' /\ CompletedAtEnd' /\ FreshRuns'
  BY <1>2, <1>5, <1>6 DEF BackfillInv, ChunkCovered, CompletedAtEnd, FreshRuns, ChunkTimes
<1> QED
  BY <1>4, <1>7, <1>8 DEF BackfillInv

LEMMA BeginChunkKeeps ==
  ASSUME BackfillInv, NEW r \in Runs, BeginChunk(r)
  PROVE  BackfillInv'
<1>1. BackfillTypeOK'
  BY DEF BackfillInv, BackfillTypeOK, BeginChunk, RunState, Ended, Checkpoint
<1>2. SavedCovered' /\ RunsCovered'
  BY DEF BackfillInv, BeginChunk, SavedCovered, RunsCovered, Covered
<1>3. ChunkCovered'
  BY DEF BackfillInv, BackfillTypeOK, BeginChunk, ChunkCovered, ChunkTimes
<1>4. CompletedAtEnd'
  <2>1. checkpoint[r].lastChunkEnd \in 0..EndTime /\ EndTime \in Nat
    BY BackfillAssumption DEF BackfillInv, BackfillTypeOK, Checkpoint, Times
  <2>2. checkpoint[r].lastChunkEnd < EndTime \/ checkpoint[r].lastChunkEnd = EndTime
    BY <2>1
  <2>3. run'[r] = "completed" => checkpoint[r].lastChunkEnd = EndTime
    BY <2>2 DEF BackfillInv, BackfillTypeOK, BeginChunk
  <2> QED
    BY <2>3 DEF BackfillInv, BackfillTypeOK, BeginChunk, CompletedAtEnd
<1>5. FreshRuns'
  BY DEF BackfillInv, BackfillTypeOK, BeginChunk, FreshRuns
<1> QED
  BY <1>1, <1>2, <1>3, <1>4, <1>5 DEF BackfillInv

\* What a query for s brings, if it succeeds, includes s.
LEMMA SeriesStepKeeps ==
  ASSUME BackfillInv, NEW r \in Runs, NEW s \in Series, run[r] = "chunk", s \in todo[r],
         todo' = [todo EXCEPT ![r] = @ \ {s}],
         UNCHANGED <<run, checkpoint, file, saved>>,
         received' \subseteq Series \X Times, skipped' \subseteq Series \X Times,
         received \cup skipped \subseteq received' \cup skipped',
         {s} \X ChunkTimes(r) \subseteq received' \cup skipped'
  PROVE  BackfillInv'
<1>1. BackfillTypeOK'
  BY DEF BackfillInv, BackfillTypeOK
<1>2. SavedCovered' /\ RunsCovered'
  BY DEF BackfillInv, SavedCovered, RunsCovered, Covered
<1>3. ChunkCovered'
  <2> SUFFICES ASSUME NEW q \in Runs, run[q] = "chunk",
                      NEW x \in checkpoint[q].series \ todo'[q]
               PROVE  {x} \X ChunkTimes(q) \subseteq received' \cup skipped'
    BY DEF ChunkCovered, ChunkTimes
  <2>1. CASE x \in checkpoint[q].series \ todo[q]
    BY <2>1 DEF BackfillInv, ChunkCovered
  <2>2. CASE x \in todo[q]
    BY <2>2 DEF BackfillInv, BackfillTypeOK
  <2> QED
    BY <2>1, <2>2
<1>4. CompletedAtEnd' /\ FreshRuns'
  BY DEF BackfillInv, CompletedAtEnd, FreshRuns
<1> QED
  BY <1>1, <1>2, <1>3, <1>4 DEF BackfillInv

\* The times of a chunk lie in the range.
LEMMA AnswerType ==
  ASSUME BackfillInv, NEW r \in Runs, NEW s \in Series
  PROVE  /\ AnswerFor(s) \X ChunkTimes(r) \subseteq Series \X Times
         /\ {s} \X ChunkTimes(r) \subseteq AnswerFor(s) \X ChunkTimes(r)
<1>1. checkpoint[r].lastChunkEnd \in Times
  BY DEF BackfillInv, BackfillTypeOK, Checkpoint
<1>2. ChunkTimes(r) \subseteq Times
  BY <1>1, EndOfChunkBounds, BackfillAssumption DEF ChunkTimes, Times
<1> QED
  BY <1>2 DEF AnswerFor

LEMMA CopySeriesKeeps ==
  ASSUME BackfillInv, NEW r \in Runs, NEW s \in Series, CopySeries(r, s)
  PROVE  BackfillInv'
<1>1. /\ received' \subseteq Series \X Times /\ skipped' \subseteq Series \X Times
      /\ received \cup skipped \subseteq received' \cup skipped'
      /\ {s} \X ChunkTimes(r) \subseteq received' \cup skipped'
  BY AnswerType DEF BackfillInv, BackfillTypeOK, CopySeries
<1> QED
  BY <1>1, SeriesStepKeeps DEF CopySeries

LEMMA SkipSeriesKeeps ==
  ASSUME BackfillInv, NEW r \in Runs, NEW s \in Series, NEW arrived \in BOOLEAN,
         SkipSeries(r, s, arrived)
  PROVE  BackfillInv'
<1>1. /\ received' \subseteq Series \X Times /\ skipped' \subseteq Series \X Times
      /\ received \cup skipped \subseteq received' \cup skipped'
      /\ {s} \X ChunkTimes(r) \subseteq received' \cup skipped'
  BY AnswerType DEF BackfillInv, BackfillTypeOK, SkipSeries
<1> QED
  BY <1>1, SeriesStepKeeps DEF SkipSeries

\* When no series is left, all are covered up to the end of the chunk; with what lay
\* behind its start that is all up to the new LastChunkEnd.
LEMMA EndChunkKeeps ==
  ASSUME BackfillInv, NEW r \in Runs, EndChunk(r)
  PROVE  BackfillInv'
<1> DEFINE S == checkpoint[r].series
           t == checkpoint[r].lastChunkEnd
           u == EndOfChunk(t)
<1>1. /\ run[r] = "chunk" /\ todo[r] = {}
      /\ run' = [run EXCEPT ![r] = "save"]
      /\ checkpoint' = [checkpoint EXCEPT ![r].lastChunkEnd = u]
      /\ UNCHANGED <<todo, file, saved, received, skipped>>
  BY DEF EndChunk
<1>2. t \in Times /\ S \subseteq Series
  BY DEF BackfillInv, BackfillTypeOK, Checkpoint
<1>3. u \in Times /\ t <= u
  BY <1>2, EndOfChunkBounds
<1> HIDE DEF u
<1>4. BackfillTypeOK'
  BY <1>1, <1>3 DEF BackfillInv, BackfillTypeOK, RunState, Ended, Checkpoint
<1>5. Covered(S, u)
  <2> SUFFICES ASSUME u > 0, NEW s \in S, NEW i \in 0..u
               PROVE  <<s, i>> \in received \cup skipped
    BY DEF Covered
  <2>1. CASE i < t
    <3>1. t > 0 /\ i \in 0..t
      BY <1>2, <1>3, <2>1 DEF Times
    <3> QED
      BY <3>1 DEF BackfillInv, RunsCovered, Covered
  <2>2. CASE t <= i
    <3>1. i \in ChunkTimes(r)
      BY <1>2, <1>3, <2>2 DEF ChunkTimes, Times, u
    <3> QED
      BY <1>1, <3>1 DEF BackfillInv, ChunkCovered
  <2> QED
    BY <1>2, <1>3, <2>1, <2>2 DEF Times
<1>6. \A q \in Runs \ {r} : checkpoint'[q] = checkpoint[q] /\ run'[q] = run[q]
  BY <1>1 DEF BackfillInv, BackfillTypeOK
<1>7. checkpoint'[r].series = S /\ checkpoint'[r].lastChunkEnd = u /\ run'[r] = "save"
  BY <1>1 DEF BackfillInv, BackfillTypeOK, Checkpoint
<1>8. SavedCovered' /\ RunsCovered'
  BY <1>1, <1>5, <1>6, <1>7 DEF BackfillInv, SavedCovered, RunsCovered, Covered
<1>9. ChunkCovered' /\ CompletedAtEnd' /\ FreshRuns'
  BY <1>1, <1>6, <1>7 DEF BackfillInv, ChunkCovered, CompletedAtEnd, FreshRuns, ChunkTimes
<1> QED
  BY <1>4, <1>8, <1>9 DEF BackfillInv

\* What a run saves is what it has in memory.
LEMMA SaveKeeps ==
  ASSUME BackfillInv, NEW r \in Runs, Truncate(r) \/ Write(r) \/ SaveFails(r)
  PROVE  BackfillInv'
<1>1. /\ UNCHANGED <<checkpoint, todo, received, skipped>>
      /\ file' \in {"absent", "empty", "torn", "readable"}
      /\ run' \in {[run EXCEPT ![r] = "write"], [run EXCEPT ![r] = "loop"]}
      /\ saved' \in {saved, checkpoint[r]}
      /\ run[r] \in {"save", "write"}
  BY DEF BackfillInv, BackfillTypeOK, Truncate, Write, SaveFails
<1>2. BackfillTypeOK'
  BY <1>1 DEF BackfillInv, BackfillTypeOK, RunState, Ended
<1>3. SavedCovered' /\ RunsCovered'
  BY <1>1 DEF BackfillInv, SavedCovered, RunsCovered, Covered
<1>4. ChunkCovered' /\ CompletedAtEnd' /\ FreshRuns'
  BY <1>1 DEF BackfillInv, BackfillTypeOK, ChunkCovered, CompletedAtEnd, FreshRuns, ChunkTimes
<1> QED
  BY <1>2, <1>3, <1>4 DEF BackfillInv

LEMMA KillKeeps ==
  ASSUME BackfillInv, NEW r \in Runs, Kill(r)
  PROVE  BackfillInv'
<1>1. BackfillTypeOK'
  BY BackfillAssumption
  DEF BackfillInv, BackfillTypeOK, Kill, RunState, Ended, Checkpoint, NewCheckpoint, Times
<1>2. \A q \in Runs \ {r} : checkpoint'[q] = checkpoint[q] /\ run'[q] = run[q]
                            /\ todo'[q] = todo[q]
  BY DEF BackfillInv, BackfillTypeOK, Kill
<1>3. checkpoint'[r] = NewCheckpoint /\ run'[r] = "killed"
  BY DEF BackfillInv, BackfillTypeOK, Kill
<1>4. SavedCovered' /\ RunsCovered'
  BY <1>2, <1>3 DEF BackfillInv, Kill, SavedCovered, RunsCovered, Covered, NewCheckpoint
<1>5. ChunkCovered' /\ CompletedAtEnd' /\ FreshRuns'
  BY <1>2, <1>3 DEF BackfillInv, Kill, ChunkCovered, CompletedAtEnd, FreshRuns, ChunkTimes
<1> QED
  BY <1>1, <1>4, <1>5 DEF BackfillInv

LEMMA NextKeeps == BackfillInv /\ [BackfillNext]_backfillVars => BackfillInv'
<1> SUFFICES ASSUME BackfillInv, [BackfillNext]_backfillVars PROVE BackfillInv'
  OBVIOUS
<1>1. CASE UNCHANGED backfillVars
  BY <1>1
  DEF backfillVars, BackfillInv, BackfillTypeOK, SavedCovered, RunsCovered, ChunkCovered,
        CompletedAtEnd,
      FreshRuns, Covered, ChunkTimes
<1>2. ASSUME NEW r \in Runs, ChunkStep(r) PROVE BackfillInv'
  BY <1>2, BeginChunkKeeps, CopySeriesKeeps, SkipSeriesKeeps, EndChunkKeeps, SaveKeeps
  DEF ChunkStep
<1>3. CASE BackfillNext
  BY <1>2, <1>3, StartsKeep, ResumeKeeps, DiscoverKeeps, KillKeeps DEF BackfillNext
<1> QED
  BY <1>1, <1>3

-----------------------------------------------------------------------------
\* The inductive invariant holds: behind each checkpoint, in a file or in memory, and
\* in the part of a chunk that a run is done with, everything was attempted.
THEOREM BackfillInvariant == BackfillSafety => []BackfillInv
  BY InitIInv, NextKeeps, PTL DEF BackfillSafety

\* The variables of the backfill keep their types.
THEOREM BackfillTypes == BackfillSafety => []BackfillTypeOK
<1>1. BackfillInv => BackfillTypeOK
  BY DEF BackfillInv
<1> QED
  BY <1>1, BackfillInvariant, PTL

\* A readable checkpoint claims only what was attempted, however many runs were killed,
\* resumed or overlapping before it was written.
THEOREM HonestCheckpoint == BackfillSafety => []CheckpointIsHonest
<1>1. BackfillInv => CheckpointIsHonest
  BY DEF BackfillInv, SavedCovered, CheckpointIsHonest
<1> QED
  BY <1>1, BackfillInvariant, PTL

-----------------------------------------------------------------------------
\* Every list of series, in a checkpoint or left in a chunk, has matching series only,
\* since only discoverSeries makes one.
MatchingLists ==
  /\ saved.series \subseteq Matching
  /\ \A r \in Runs : checkpoint[r].series \subseteq Matching /\ todo[r] \subseteq Matching

MInv == BackfillTypeOK /\ MatchingLists /\ OnlyTheirMetrics

\* What a query for a matching series brings has its metric.
LEMMA AnswerHasMetric ==
  ASSUME NEW r \in Runs, NEW s \in Matching, NEW x \in AnswerFor(s) \X ChunkTimes(r)
  PROVE  MetricOf[x[1]] = MetricOf[s]
  BY DEF AnswerFor

LEMMA CopiesKeepMetrics ==
  ASSUME MInv, NEW r \in Runs, NEW s \in Series,
         CopySeries(r, s) \/ \E arrived \in BOOLEAN : SkipSeries(r, s, arrived)
  PROVE  MatchingLists' /\ OnlyTheirMetrics'
<1>1. /\ s \in todo[r] /\ s \in Matching
      /\ todo' = [todo EXCEPT ![r] = @ \ {s}]
      /\ UNCHANGED <<checkpoint, saved>>
      /\ received' \subseteq received \cup (AnswerFor(s) \X ChunkTimes(r))
  BY DEF MInv, MatchingLists, CopySeries, SkipSeries
<1>2. MatchingLists'
  BY <1>1 DEF MInv, BackfillTypeOK, MatchingLists
<1>3. OnlyTheirMetrics'
  BY <1>1, AnswerHasMetric DEF MInv, OnlyTheirMetrics
<1> QED
  BY <1>2, <1>3

LEMMA NextKeepsMetrics == MInv /\ BackfillTypeOK' /\ [BackfillNext]_backfillVars => MInv'
<1> SUFFICES ASSUME MInv, BackfillTypeOK', [BackfillNext]_backfillVars
      PROVE MatchingLists' /\ OnlyTheirMetrics'
  BY DEF MInv
<1>1. CASE UNCHANGED backfillVars
  BY <1>1 DEF MInv, backfillVars, MatchingLists, OnlyTheirMetrics
<1>2. ASSUME NEW r \in Runs, Start(r) \/ Resume(r) \/ DiscoverFails(r)
      PROVE  MatchingLists' /\ OnlyTheirMetrics'
  BY <1>2
  DEF MInv, BackfillTypeOK, MatchingLists, OnlyTheirMetrics, Start, Resume, DiscoverFails
<1>3. ASSUME NEW r \in Runs, DiscoverSeries(r) PROVE MatchingLists' /\ OnlyTheirMetrics'
  <2>1. UNCHANGED <<todo, saved, received>>
    BY <1>3 DEF DiscoverSeries
  <2>2. \A q \in Runs : checkpoint'[q].series \subseteq Matching
    BY <1>3 DEF MInv, BackfillTypeOK, MatchingLists, DiscoverSeries, Checkpoint
  <2> QED
    BY <2>1, <2>2 DEF MInv, MatchingLists, OnlyTheirMetrics
<1>4. ASSUME NEW r \in Runs, BeginChunk(r) \/ EndChunk(r) \/ Truncate(r)
      PROVE  MatchingLists' /\ OnlyTheirMetrics'
  <2>1. UNCHANGED <<saved, received>>
    BY <1>4 DEF BeginChunk, EndChunk, Truncate
  <2>2. \A q \in Runs : checkpoint'[q].series = checkpoint[q].series
    <3>1. CASE EndChunk(r)
      BY <3>1 DEF MInv, BackfillTypeOK, EndChunk, Checkpoint
    <3> QED
      BY <1>4, <3>1 DEF BeginChunk, Truncate
  <2>3. \A q \in Runs : todo'[q] \in {todo[q], checkpoint[q].series}
    BY <1>4 DEF MInv, BackfillTypeOK, BeginChunk, EndChunk, Truncate
  <2> QED
    BY <2>1, <2>2, <2>3 DEF MInv, MatchingLists, OnlyTheirMetrics
<1>5. ASSUME NEW r \in Runs, Write(r) \/ SaveFails(r)
      PROVE  MatchingLists' /\ OnlyTheirMetrics'
  BY <1>5 DEF MInv, BackfillTypeOK, MatchingLists, OnlyTheirMetrics, Write, SaveFails
<1>6. ASSUME NEW r \in Runs, Kill(r) PROVE MatchingLists' /\ OnlyTheirMetrics'
  <2>1. NewCheckpoint.series = {} /\ UNCHANGED <<saved, received>>
    BY <1>6 DEF Kill, NewCheckpoint
  <2>2. \A q \in Runs : checkpoint'[q] \in {checkpoint[q], NewCheckpoint}
                        /\ todo'[q] \in {todo[q], {}}
    BY <1>6 DEF MInv, BackfillTypeOK, Kill
  <2> QED
    BY <2>1, <2>2 DEF MInv, MatchingLists, OnlyTheirMetrics
<1> QED
  BY <1>1, <1>2, <1>3, <1>4, <1>5, <1>6, CopiesKeepMetrics DEF BackfillNext, ChunkStep

\* A run that reports completion has covered the whole range of its series, and no run
\* has brought a series whose metric no matching series has.
THEOREM CompletionCovers == BackfillSafety => []CopiesTheRange
<1>1. BackfillInv => CompletedMeansCovered
  BY DEF BackfillInv, RunsCovered, CompletedAtEnd, CompletedMeansCovered
<1>2. BackfillInit => MInv
  <2>1. NewCheckpoint.series = {}
    BY DEF NewCheckpoint
  <2> QED
    BY <2>1, InitIInv DEF BackfillInv, MInv, BackfillInit, MatchingLists, OnlyTheirMetrics
<1>3. MInv => OnlyTheirMetrics
  BY DEF MInv
<1> QED
  BY <1>1, <1>2, <1>3, BackfillTypes, BackfillInvariant, NextKeepsMetrics,
        PTL DEF BackfillSafety, CopiesTheRange
==============================================================================
