-------------------------- MODULE CbNotifier_proofs --------------------------
(***************************************************************************)
(* Theorems about CbNotifier, for any number of snapshots of a capture, of *)
(* captures and of notifications.                                          *)
(*                                                                         *)
(* That the snapshots of two captures are never counted together rests on  *)
(* the order of the command queue: STOP goes to its head, so while one is  *)
(* pending no datum is taken, and once none is pending the data of the     *)
(* captures that were stopped have been flushed, but for those that raw    *)
(* jobs enqueued after the flush.  That the count of a capture is not ahead *)
(* of what it produced is an account of every snapshot: those counted and  *)
(* those still in the queue are at most those produced.                    *)
(***************************************************************************)
EXTENDS CbNotifier, FiniteSetTheorems, SequenceTheorems, TLAPS

\* How often x occurs in q.
Occurrences(q, x) == Cardinality({i \in DOMAIN q : q[i] = x})

\* A command with priority is before every job.
JobsAreLast ==
  \A i, j \in DOMAIN cmd_queue :
    i < j /\ cmd_queue[i] = "DO_NEXT_JOB" => cmd_queue[j] = "DO_NEXT_JOB"

NoStopPending == \A i \in DOMAIN cmd_queue : cmd_queue[i] # "STOP_DATA_PROC"

\* The capture whose snapshots may be enqueued, and those whose last one may be late.
live == rawCaptures \cup (IF machine = "free" THEN {capture} ELSE {})

\* Captures are numbered as they are started.
Numbered ==
  /\ capture # 0 => capture = captures
  /\ machine # "free" => capture # 0
  /\ rawJob => capture \in rawCaptures
  /\ \A i \in DOMAIN mDataQ : mDataQ[i] <= captures
  /\ \A n \in rawCaptures \cup counted : n <= captures

\* With no STOP pending, the queue and the count hold live captures.
Flushed ==
  NoStopPending =>
    /\ \A i \in DOMAIN mDataQ : mDataQ[i] \in live \cup {0}
    /\ counted \subseteq live

\* The snapshots of the capture are accounted for.
Accounted ==
  capture # 0 =>
    /\ Occurrences(mDataQ, capture) <= produced
    /\ counted \subseteq {capture} =>
         numOfSnapshotRcvd + Occurrences(mDataQ, capture) <= produced

\* The count and the captures it holds.
Counting ==
  /\ counted = {} => numOfSnapshotRcvd = 0
  /\ thread = "done" => numOfSnapshotRcvd = NumSnapshots

Inv ==
  /\ TypeOK /\ CapturesAreNotMixed
  /\ JobsAreLast /\ Numbered /\ Flushed /\ Accounted /\ Counting

\* The bounds are numbers, and a capture has at least one snapshot.
LEMMA Bounds == NumSnapshots \in Nat \ {0} /\ MaxCaptures \in Nat /\ MaxNotify \in Nat
BY NotifierAssumption DEF NotifierAssumption

-----------------------------------------------------------------------------
(* Occurrences of a value in a sequence.                                    *)

\* The places of a value are finitely many.
LEMMA OccurrencesType ==
  ASSUME NEW S, NEW q \in Seq(S), NEW x
  PROVE  IsFiniteSet({i \in DOMAIN q : q[i] = x}) /\ Occurrences(q, x) \in Nat
<1> DEFINE P == {i \in DOMAIN q : q[i] = x}
<1>1. IsFiniteSet(1 .. Len(q))
  BY FS_Interval
<1>2. P \in SUBSET (1 .. Len(q))
  OBVIOUS
<1>3. IsFiniteSet(P)
  BY <1>1, <1>2, FS_Subset
<1>4. QED
  BY <1>3, FS_CardinalityType DEF Occurrences

\* What is not in a sequence does not occur in it.
LEMMA OccurrencesNone ==
  ASSUME NEW S, NEW q \in Seq(S), NEW x, \A i \in DOMAIN q : q[i] # x
  PROVE  Occurrences(q, x) = 0
<1>1. {i \in DOMAIN q : q[i] = x} = {}
  OBVIOUS
<1>2. QED
  BY <1>1, FS_EmptySet DEF Occurrences

\* Append adds an occurrence of its own element.
LEMMA OccurrencesAppend ==
  ASSUME NEW q \in Seq(0 .. MaxCaptures), NEW d \in 0 .. MaxCaptures, NEW x
  PROVE  Occurrences(Append(q, d), x) = Occurrences(q, x) + IF d = x THEN 1 ELSE 0
<1> DEFINE P == {i \in DOMAIN q : q[i] = x}
           R == {i \in DOMAIN Append(q, d) : Append(q, d)[i] = x}
<1>1. IsFiniteSet(P) /\ Cardinality(P) \in Nat
  BY OccurrencesType DEF Occurrences
<1> SUFFICES Cardinality(R) = Cardinality(P) + IF d = x THEN 1 ELSE 0
  BY DEF Occurrences
<1>2. CASE d = x
  <2>1. R = P \cup {Len(q) + 1} /\ Len(q) + 1 \notin P
    BY <1>2
  <2>2. Cardinality(P \cup {Len(q) + 1}) = Cardinality(P) + 1
    BY <1>1, <2>1, FS_AddElement
  <2>3. QED
    BY <1>2, <2>1, <2>2
<1>3. CASE d # x
  <2>1. R = P
    BY <1>3
  <2> HIDE DEF P, R
  <2>2. QED
    BY <1>1, <1>3, <2>1
<1>4. QED
  BY <1>2, <1>3

\* Tail takes away an occurrence of the head.
LEMMA OccurrencesTail ==
  ASSUME NEW S, NEW q \in Seq(S), q # <<>>, NEW x
  PROVE  Occurrences(Tail(q), x) + (IF Head(q) = x THEN 1 ELSE 0) <= Occurrences(q, x)
<1> DEFINE P == {i \in DOMAIN q : q[i] = x}
           R == {i \in DOMAIN Tail(q) : Tail(q)[i] = x}
           f == [i \in R |-> i + 1]
<1>1. IsFiniteSet(P) /\ Cardinality(P) \in Nat
  BY OccurrencesType DEF Occurrences
<1>2. Cardinality(R) \in Nat
  BY OccurrencesType, Tail(q) \in Seq(S) DEF Occurrences
<1>3. f \in Injection(R, P \ {1})
  <2>1. \A i \in R : i \in Nat \ {0} /\ i + 1 \in P \ {1}
    OBVIOUS
  <2>2. f \in [R -> P \ {1}]
    BY <2>1
  <2>3. \A i, j \in R : f[i] = f[j] => i = j
    BY <2>1
  <2>4. QED
    BY <2>2, <2>3 DEF Injection, IsInjective
<1>4. IsFiniteSet(P \ {1}) /\ Cardinality(P \ {1}) = IF 1 \in P THEN Cardinality(P) - 1
                                                                  ELSE Cardinality(P)
  BY <1>1, FS_RemoveElement
<1>5. Head(q) = x <=> 1 \in P
  OBVIOUS
<1>6. SUFFICES Cardinality(R) + (IF Head(q) = x THEN 1 ELSE 0) <= Cardinality(P)
  BY DEF Occurrences
<1> HIDE DEF P, R, f
<1>7. Cardinality(R) <= Cardinality(P \ {1})
  BY <1>3, <1>4, FS_Injection
<1>8. QED
  BY <1>1, <1>2, <1>4, <1>5, <1>7

\* The head and the rest of a sequence.
LEMMA TailProperties ==
  ASSUME NEW S, NEW q \in Seq(S), q # <<>>
  PROVE  /\ Tail(q) \in Seq(S) /\ Head(q) \in S
         /\ 1 \in DOMAIN q /\ q[1] = Head(q)
         /\ \A i \in DOMAIN Tail(q) : i + 1 \in DOMAIN q /\ Tail(q)[i] = q[i + 1]
OBVIOUS

\* The flush leaves notifications, none of any capture.
LEMMA FlushLeavesNotifications ==
  ASSUME NEW q \in Seq(0 .. MaxCaptures)
  PROVE  /\ flushSnapshots(q) \in Seq(0 .. MaxCaptures)
         /\ \A i \in DOMAIN flushSnapshots(q) : flushSnapshots(q)[i] = 0
<1>1. Occurrences(q, 0) \in Nat
  BY OccurrencesType
<1>2. flushSnapshots(q) = [i \in 1 .. Occurrences(q, 0) |-> 0]
  BY DEF flushSnapshots, Occurrences
<1>3. QED
  BY <1>1, <1>2, Bounds

-----------------------------------------------------------------------------
(* The order of the command queue.                                          *)

\* A command with priority keeps the jobs last; after it, no STOP is pending
\* only if none was and it is none itself.
LEMMA PriorityCommand ==
  ASSUME TypeOK, JobsAreLast, NEW cmd \in Command \ {"DO_NEXT_JOB"}, sendCmd(cmd, TRUE)
  PROVE  /\ cmd_queue' \in Seq(Command) /\ JobsAreLast'
         /\ NoStopPending' => NoStopPending /\ cmd # "STOP_DATA_PROC"
<1>1. cmd_queue \in Seq(Command) /\ cmd_queue' = <<cmd>> \o cmd_queue
  BY DEF TypeOK, sendCmd
<1>2. cmd_queue' \in Seq(Command)
  BY <1>1
<1>3. /\ DOMAIN cmd_queue' = 1 .. Len(cmd_queue) + 1 /\ cmd_queue'[1] = cmd
      /\ \A i \in DOMAIN cmd_queue : i + 1 \in DOMAIN cmd_queue'
                                    /\ cmd_queue'[i + 1] = cmd_queue[i]
      /\ \A i \in DOMAIN cmd_queue' \ {1} : i - 1 \in DOMAIN cmd_queue
                                    /\ cmd_queue'[i] = cmd_queue[i - 1]
  BY <1>1
<1>4. JobsAreLast'
  BY <1>1, <1>3 DEF JobsAreLast, Command
<1>5. NoStopPending' => NoStopPending /\ cmd # "STOP_DATA_PROC"
  <2> SUFFICES ASSUME NoStopPending' PROVE NoStopPending /\ cmd # "STOP_DATA_PROC"
    OBVIOUS
  <2>1. 1 \in DOMAIN cmd_queue'
    BY <1>1, <1>3
  <2>2. cmd # "STOP_DATA_PROC"
    BY <2>1, <1>3 DEF NoStopPending
  <2>3. NoStopPending
    BY <1>3 DEF NoStopPending
  <2>4. QED
    BY <2>2, <2>3
<1>6. QED
  BY <1>2, <1>4, <1>5

\* A job goes to the end, and is no STOP.
LEMMA JobCommand ==
  ASSUME TypeOK, JobsAreLast, sendCmd("DO_NEXT_JOB", FALSE)
  PROVE  /\ cmd_queue' \in Seq(Command) /\ JobsAreLast'
         /\ NoStopPending' => NoStopPending
<1>1. cmd_queue \in Seq(Command) /\ cmd_queue' = Append(cmd_queue, "DO_NEXT_JOB")
  BY DEF TypeOK, sendCmd
<1>2. cmd_queue' \in Seq(Command)
  BY <1>1 DEF Command
<1>3. /\ DOMAIN cmd_queue' = 1 .. Len(cmd_queue) + 1
      /\ cmd_queue'[Len(cmd_queue) + 1] = "DO_NEXT_JOB"
      /\ \A i \in DOMAIN cmd_queue : i \in DOMAIN cmd_queue' /\ cmd_queue'[i] = cmd_queue[i]
  BY <1>1
<1>4. JobsAreLast'
  BY <1>1, <1>3 DEF JobsAreLast
<1>5. QED
  BY <1>2, <1>3, <1>4 DEF NoStopPending

\* A command taken leaves the jobs last; if it was a job, no STOP is pending, and
\* only STOP itself ends that one is.
LEMMA TakenCommand ==
  ASSUME TypeOK, JobsAreLast, NEW cmd, getCmd(cmd)
  PROVE  /\ cmd_queue' \in Seq(Command) /\ JobsAreLast'
         /\ cmd = "DO_NEXT_JOB" => NoStopPending
         /\ cmd # "STOP_DATA_PROC" /\ NoStopPending' => NoStopPending
<1>1. cmd_queue \in Seq(Command) /\ cmd_queue # <<>> /\ cmd_queue' = Tail(cmd_queue)
  BY DEF TypeOK, getCmd
<1>2. cmd_queue' \in Seq(Command)
  BY <1>1
<1>3. /\ DOMAIN cmd_queue = 1 .. Len(cmd_queue) /\ Len(cmd_queue) \in Nat \ {0}
      /\ cmd_queue[1] = cmd
      /\ DOMAIN cmd_queue' = 1 .. Len(cmd_queue) - 1
      /\ \A i \in DOMAIN cmd_queue' : i + 1 \in DOMAIN cmd_queue
                                    /\ cmd_queue'[i] = cmd_queue[i + 1]
  BY <1>1 DEF getCmd
<1>4. JobsAreLast'
  BY <1>3 DEF JobsAreLast
<1>5. cmd = "DO_NEXT_JOB" => NoStopPending
  BY <1>3 DEF JobsAreLast, NoStopPending
<1>6. cmd # "STOP_DATA_PROC" /\ NoStopPending' => NoStopPending
  <2> SUFFICES ASSUME cmd # "STOP_DATA_PROC", NoStopPending', NEW i \in DOMAIN cmd_queue
               PROVE  cmd_queue[i] # "STOP_DATA_PROC"
    BY DEF NoStopPending
  <2>1. CASE i = 1
    BY <2>1, <1>3
  <2>2. CASE i # 1
    <3>1. i - 1 \in DOMAIN cmd_queue' /\ cmd_queue'[i - 1] = cmd_queue[i]
      BY <2>2, <1>3
    <3>2. QED
      BY <3>1 DEF NoStopPending
  <2>3. QED
    BY <2>1, <2>2
<1>7. QED
  BY <1>2, <1>4, <1>5, <1>6

-----------------------------------------------------------------------------
(* The initial state, and the machine thread.                               *)

\* The invariant holds initially.
LEMMA InitInv == Init => Inv
<1> SUFFICES ASSUME Init PROVE Inv
  OBVIOUS
<1>1. TypeOK
  <2>1. <<>> \in Seq(Command) /\ <<>> \in Seq(0 .. MaxCaptures)
    OBVIOUS
  <2>2. cmd_queue \in Seq(Command) /\ mDataQ \in Seq(0 .. MaxCaptures)
    BY <2>1 DEF Init
  <2>3. rawCaptures \cup counted \cup overtaken \cup unheard = {} /\ unsent = {}
    BY DEF Init
  <2>4. mActive \in BOOLEAN /\ isSnapshotActive \in BOOLEAN /\ rawJob \in BOOLEAN
    BY DEF Init
  <2>5. /\ numOfSnapshotRcvd \in Nat /\ produced \in 0 .. NumSnapshots
        /\ capture \in 0 .. MaxCaptures /\ captures \in 0 .. MaxCaptures
        /\ notified \in 0 .. MaxNotify
    BY Bounds DEF Init
  <2>6. thread = "ready" /\ machine = "free"
    BY DEF Init
  <2>7. QED
    BY <2>2, <2>3, <2>4, <2>5, <2>6 DEF TypeOK
<1>2. CapturesAreNotMixed /\ JobsAreLast /\ Numbered /\ Flushed /\ Accounted /\ Counting
  BY DEF Init, CapturesAreNotMixed, JobsAreLast, Numbered, Flushed, Accounted, Counting
<1>3. QED
  BY <1>1, <1>2 DEF Inv

\* A capture started has a number of its own: no snapshot of it is anywhere yet.
LEMMA startSnapshotsInv == ASSUME Inv, startSnapshots PROVE Inv'
<1>1. sendCmd("START_DATA_PROC", TRUE) /\ TypeOK /\ JobsAreLast
  BY DEF startSnapshots, Inv
<1>2. /\ cmd_queue' \in Seq(Command) /\ JobsAreLast'
      /\ NoStopPending' => NoStopPending
  BY <1>1, PriorityCommand DEF Command
<1>3. TypeOK'
  BY <1>1, <1>2, Bounds DEF startSnapshots, threadVars, TypeOK
<1>4. CapturesAreNotMixed' /\ Numbered' /\ Flushed' /\ Counting'
  <2>1. Numbered'
    BY <1>1, Bounds DEF startSnapshots, threadVars, TypeOK, Inv, Numbered
  <2>2. live \ {0} \subseteq live'
    BY <1>1 DEF startSnapshots, machineFree, live
  <2>3. Flushed'
    BY <1>1, <1>2, <2>2, Bounds DEF startSnapshots, threadVars, TypeOK, Inv, Flushed
  <2>4. CapturesAreNotMixed' /\ Counting'
    BY DEF startSnapshots, threadVars, Inv, CapturesAreNotMixed, Counting
  <2>5. QED
    BY <2>1, <2>3, <2>4
<1>5. Accounted'
  <2>1. \A i \in DOMAIN mDataQ : mDataQ[i] # captures + 1
    BY <1>1, Bounds DEF Inv, Numbered, TypeOK
  <2>2. Occurrences(mDataQ, captures + 1) = 0
    BY <1>1, <2>1, OccurrencesNone DEF TypeOK
  <2>3. counted \subseteq {captures + 1} => numOfSnapshotRcvd = 0
    BY <1>1, Bounds DEF Inv, Numbered, Counting, TypeOK
  <2>4. QED
    BY <2>2, <2>3 DEF startSnapshots, threadVars, Accounted
<1>6. QED
  BY <1>2, <1>3, <1>4, <1>5 DEF Inv

\* A capture is stopped by a STOP at the head of the queue.
LEMMA stopSnapshotsInv ==
  ASSUME Inv, capture # 0, NEW why \in {"cancel", "done"}, stopSnapshots(why),
         UNCHANGED <<mDataQ, mActive, threadVars, unsent, rawJob, produced, notified>>
  PROVE  Inv'
<1>1. sendCmd("STOP_DATA_PROC", TRUE) /\ TypeOK /\ JobsAreLast
  BY DEF stopSnapshots, Inv
<1>2. cmd_queue' \in Seq(Command) /\ JobsAreLast' /\ ~ NoStopPending'
  BY <1>1, PriorityCommand DEF Command
<1>3. TypeOK'
  BY <1>1, <1>2 DEF stopSnapshots, threadVars, TypeOK
<1>4. Numbered' /\ CapturesAreNotMixed' /\ Accounted' /\ Counting'
  BY DEF stopSnapshots, threadVars, Inv, Numbered, CapturesAreNotMixed, Accounted, Counting
<1>5. QED
  BY <1>2, <1>3, <1>4 DEF Inv, Flushed

\* The machine waits no more, and the data processing thread is at no job.
LEMMA dataProcStoppedInv == ASSUME Inv, dataProcStopped PROVE Inv'
<1>1. TypeOK'
  BY Bounds DEF dataProcStopped, Inv, TypeOK
<1>2. live \subseteq live'
  BY DEF dataProcStopped, live
<1>3. Flushed'
  BY <1>2 DEF dataProcStopped, Inv, Flushed, NoStopPending
<1>4. Numbered' /\ CapturesAreNotMixed' /\ Accounted' /\ Counting' /\ JobsAreLast'
  BY DEF dataProcStopped, Inv, Numbered, CapturesAreNotMixed, Accounted, Counting, JobsAreLast
<1>5. QED
  BY <1>1, <1>3, <1>4 DEF Inv

\* Each step of the machine thread but the enqueuing of a snapshot.
LEMMA MachineInv ==
  ASSUME Inv, startSnapshots \/ cancelPicture \/ snapshotDone \/ dataProcStopped
  PROVE  Inv'
<1>1. CASE startSnapshots
  BY <1>1, startSnapshotsInv
<1>2. CASE cancelPicture
  BY <1>2, stopSnapshotsInv DEF cancelPicture
<1>3. CASE snapshotDone /\ capture # 0
  BY <1>3, stopSnapshotsInv DEF snapshotDone, threadVars
<1>4. CASE snapshotDone /\ capture = 0
  <2>1. TypeOK'
    BY <1>4 DEF snapshotDone, machineVars, Inv, TypeOK
  <2>2. Flushed'
    BY <1>4 DEF snapshotDone, machineVars, Inv, Flushed, NoStopPending, live
  <2>3. Numbered' /\ CapturesAreNotMixed' /\ Accounted' /\ Counting' /\ JobsAreLast'
    BY <1>4 DEF snapshotDone, machineVars, Inv, Numbered, CapturesAreNotMixed, Accounted,
       Counting, JobsAreLast
  <2>4. QED
    BY <2>1, <2>2, <2>3 DEF Inv
<1>5. CASE dataProcStopped
  BY <1>5, dataProcStoppedInv
<1>6. QED
  BY <1>1, <1>2, <1>3, <1>4, <1>5

-----------------------------------------------------------------------------
(* Those that enqueue data.                                                 *)

\* What is enqueued is a notification, or a snapshot the capture produces while the
\* machine is not stopping it or by a raw job.
LEMMA EnqueueInv ==
  ASSUME Inv, NEW producer \in Thread, NEW datum \in 0 .. MaxCaptures,
         enqueueData(producer, datum), notified' \in 0 .. MaxNotify,
         \/ datum = 0 /\ UNCHANGED produced
         \/ /\ datum = capture /\ capture \in live \ {0}
            /\ produced' = produced + 1 /\ produced' <= NumSnapshots
  PROVE  Inv'
<1>1. TypeOK /\ mDataQ \in Seq(0 .. MaxCaptures) /\ mDataQ' = Append(mDataQ, datum)
  BY DEF Inv, TypeOK, enqueueData
<1>2. TypeOK'
  <2>1. mDataQ' \in Seq(0 .. MaxCaptures)
    BY <1>1
  <2>2. produced' \in 0 .. NumSnapshots
    BY <1>1, Bounds DEF TypeOK
  <2>3. QED
    BY <1>1, <2>1, <2>2 DEF enqueueData, threadVars, machineVars, TypeOK
<1>3. /\ DOMAIN mDataQ' = 1 .. Len(mDataQ) + 1 /\ mDataQ'[Len(mDataQ) + 1] = datum
      /\ \A i \in DOMAIN mDataQ : mDataQ'[i] = mDataQ[i]
      /\ DOMAIN mDataQ = 1 .. Len(mDataQ) /\ Len(mDataQ) \in Nat
  BY <1>1
<1>4. \A i \in DOMAIN mDataQ' : i \in DOMAIN mDataQ \/ mDataQ'[i] = datum
  BY <1>3
<1>5. UNCHANGED <<cmd_queue, machineVars, threadVars, rawJob>>
  BY DEF enqueueData
<1>6. datum = 0 \/ datum = captures
  BY DEF Inv, Numbered
<1>7. datum <= captures
  BY <1>1, <1>6 DEF TypeOK
<1>8. Numbered'
  BY <1>3, <1>4, <1>5, <1>7 DEF Inv, Numbered, threadVars, machineVars
<1>9. Flushed'
  BY <1>3, <1>4, <1>5 DEF Inv, Flushed, NoStopPending, live, threadVars, machineVars
<1>10. Accounted'
  <2>1. Occurrences(mDataQ', capture)
           = Occurrences(mDataQ, capture) + IF datum = capture THEN 1 ELSE 0
    BY <1>1, OccurrencesAppend
  <2>2. Occurrences(mDataQ, capture) \in Nat
    BY <1>1, OccurrencesType
  <2>3. /\ numOfSnapshotRcvd \in Nat /\ produced \in Nat
        /\ UNCHANGED <<capture, counted, numOfSnapshotRcvd>>
    BY <1>1, <1>5, Bounds DEF TypeOK, threadVars, machineVars
  <2>4. Accounted
    BY DEF Inv
  <2>5. ASSUME capture # 0
        PROVE  Occurrences(mDataQ', capture) - produced' = Occurrences(mDataQ, capture) - produced
    BY <2>1, <2>2, <2>3, <2>5
  <2>6. Occurrences(mDataQ', capture) \in Nat /\ produced' \in Nat
    BY <2>1, <2>2, <2>3
  <2> HIDE <2>1
  <2>7. QED
    BY <2>2, <2>3, <2>4, <2>5, <2>6 DEF Accounted
<1>11. CapturesAreNotMixed' /\ JobsAreLast' /\ Counting'
  BY <1>5 DEF Inv, CapturesAreNotMixed, JobsAreLast, Counting, threadVars, machineVars
<1>12. QED
  BY <1>2, <1>8, <1>9, <1>10, <1>11 DEF Inv

\* The machine thread, a raw job and the other threads enqueue what they may.
LEMMA ProducersInv ==
  ASSUME Inv, notifySnapshot \/ notifyRaw \/ notifyOther
  PROVE  Inv'
<1>1. /\ capture \in 0 .. MaxCaptures /\ produced \in 0 .. NumSnapshots
      /\ notified \in 0 .. MaxNotify /\ rawCaptures \subseteq 1 .. MaxCaptures
  BY DEF Inv, TypeOK
<1>2. CASE notifySnapshot
  <2>1. /\ enqueueData("machine", capture) /\ notified' = notified
        /\ capture \in live \ {0} /\ produced' = produced + 1 /\ produced' <= NumSnapshots
    BY <1>1, <1>2, Bounds DEF notifySnapshot, machineFree, live
  <2>2. QED
    BY <1>1, <2>1, EnqueueInv DEF Thread
<1>3. CASE notifyRaw
  <2>1. /\ enqueueData("dataproc", capture) /\ notified' = notified
        /\ capture \in live \ {0} /\ produced' = produced + 1 /\ produced' <= NumSnapshots
    BY <1>1, <1>3, Bounds DEF notifyRaw, live, Inv, Numbered
  <2>2. QED
    BY <1>1, <2>1, EnqueueInv DEF Thread
<1>4. CASE notifyOther
  <2>1. enqueueData("other", 0) /\ UNCHANGED produced /\ notified' \in 0 .. MaxNotify
    BY <1>1, <1>4, Bounds DEF notifyOther
  <2>2. QED
    BY <2>1, Bounds, EnqueueInv DEF Thread
<1>5. QED
  BY <1>2, <1>3, <1>4

\* The other steps of these threads leave data and captures alone.
LEMMA JobsInv ==
  ASSUME Inv, \/ processRawImage \/ notifyRawRefused
              \/ \E producer \in Thread : sendNextJob(producer)
              \/ exit
  PROVE  Inv'
<1>1. /\ cmd_queue' \in Seq(Command) /\ JobsAreLast'
      /\ NoStopPending' => NoStopPending
  <2>1. TypeOK /\ JobsAreLast
    BY DEF Inv
  <2>2. CASE \E producer \in Thread : sendNextJob(producer)
    BY <2>1, <2>2, JobCommand DEF sendNextJob
  <2>3. CASE exit
    BY <2>1, <2>3, PriorityCommand DEF exit, Command
  <2>4. CASE processRawImage \/ notifyRawRefused
    BY <2>1, <2>4 DEF processRawImage, notifyRawRefused, TypeOK, JobsAreLast, NoStopPending
  <2>5. QED
    BY <2>2, <2>3, <2>4
<1>2. /\ UNCHANGED <<mDataQ, threadVars, machineVars, produced, notified>>
      /\ mActive' \in BOOLEAN
      /\ unsent' \subseteq unsent
      /\ rawJob' \in BOOLEAN /\ (rawJob' => capture \in rawCaptures)
  <2>1. CASE \E producer \in Thread : sendNextJob(producer)
    BY <2>1 DEF sendNextJob, Inv, TypeOK, Numbered
  <2>2. CASE exit
    BY <2>2 DEF exit, Inv, TypeOK, Numbered
  <2>3. CASE processRawImage
    BY <2>3 DEF processRawImage, Inv, TypeOK
  <2>4. CASE notifyRawRefused
    BY <2>4 DEF notifyRawRefused, Inv, TypeOK
  <2>5. QED
    BY <2>1, <2>2, <2>3, <2>4
<1>3. TypeOK'
  BY <1>1, <1>2 DEF Inv, TypeOK, threadVars, machineVars
<1>4. Flushed'
  BY <1>1, <1>2 DEF Inv, Flushed, live, threadVars, machineVars
<1>5. Numbered' /\ CapturesAreNotMixed' /\ Accounted' /\ Counting'
  BY <1>2 DEF Inv, Numbered, CapturesAreNotMixed, Accounted, Counting, threadVars, machineVars
<1>6. QED
  BY <1>1, <1>3, <1>4, <1>5 DEF Inv

-----------------------------------------------------------------------------
(* The thread of the notifier.                                              *)

\* START and STOP begin a count; STOP flushes the queue as well.
LEMMA StartStopInv == ASSUME Inv, CmdStart \/ CmdStop PROVE Inv'
<1>1. TypeOK /\ mDataQ \in Seq(0 .. MaxCaptures)
  BY DEF Inv, TypeOK
<1>2. /\ cmd_queue' \in Seq(Command) /\ JobsAreLast'
      /\ CmdStart /\ NoStopPending' => NoStopPending
  BY TakenCommand DEF Inv, CmdStart, CmdStop
<1>3. \/ UNCHANGED mDataQ /\ CmdStart
      \/ mDataQ' \in Seq(0 .. MaxCaptures) /\ \A i \in DOMAIN mDataQ' : mDataQ'[i] = 0
  BY <1>1, FlushLeavesNotifications DEF CmdStart, CmdStop
<1>4. /\ UNCHANGED <<mActive, unsent, rawJob, produced, notified, machineVars, thread, unheard>>
      /\ isSnapshotActive' \in BOOLEAN /\ numOfSnapshotRcvd' = 0 /\ counted' = {}
      /\ thread = "ready"
  BY DEF CmdStart, CmdStop, getCmd
<1>5. TypeOK'
  BY <1>1, <1>2, <1>3, <1>4 DEF TypeOK, machineVars
<1>6. Numbered'
  BY <1>1, <1>3, <1>4 DEF Inv, Numbered, TypeOK, machineVars
<1>7. Flushed'
  BY <1>2, <1>3, <1>4 DEF Inv, Flushed, live, machineVars
<1>8. Accounted'
  <2> SUFFICES ASSUME capture # 0
               PROVE  Occurrences(mDataQ', capture) \in Nat
                      /\ Occurrences(mDataQ', capture) <= produced
    BY <1>4 DEF Accounted, machineVars
  <2>1. CASE UNCHANGED mDataQ
    BY <1>1, <2>1, OccurrencesType DEF Inv, Accounted
  <2>2. CASE mDataQ' \in Seq(0 .. MaxCaptures) /\ \A i \in DOMAIN mDataQ' : mDataQ'[i] = 0
    <3>1. Occurrences(mDataQ', capture) = 0
      BY <2>2, OccurrencesNone
    <3>2. QED
      BY <1>1, <3>1 DEF TypeOK
  <2>3. QED
    BY <1>3, <2>1, <2>2
<1>9. CapturesAreNotMixed' /\ Counting'
  BY <1>4 DEF CapturesAreNotMixed, Counting
<1>10. QED
  BY <1>2, <1>5, <1>6, <1>7, <1>8, <1>9 DEF Inv

\* A datum is taken while no STOP is pending: if it is counted, it is of a live
\* capture, as are those counted before.
LEMMA NextJobInv == ASSUME Inv, CmdNextJob PROVE Inv'
<1>1. /\ TypeOK /\ mDataQ \in Seq(0 .. MaxCaptures)
      /\ UNCHANGED <<mActive, unsent, rawJob, produced, notified, machineVars, isSnapshotActive>>
  BY DEF Inv, TypeOK, CmdNextJob, getCmd, threadVars
<1>2. /\ cmd_queue' \in Seq(Command) /\ JobsAreLast' /\ NoStopPending
  BY TakenCommand DEF Inv, CmdNextJob
<1>3. CASE mDataQ = <<>>
  <2>1. UNCHANGED <<mDataQ, threadVars>>
    BY <1>3 DEF CmdNextJob
  <2>2. TypeOK'
    BY <1>1, <1>2, <2>1 DEF TypeOK, threadVars, machineVars
  <2>3. Flushed'
    BY <1>1, <1>2, <2>1 DEF Inv, Flushed, live, threadVars, machineVars
  <2>4. Numbered' /\ CapturesAreNotMixed' /\ Accounted' /\ Counting'
    BY <1>1, <2>1 DEF Inv, Numbered, CapturesAreNotMixed, Accounted, Counting, threadVars,
       machineVars
  <2>5. QED
    BY <1>2, <2>2, <2>3, <2>4 DEF Inv
<1>4. CASE mDataQ # <<>>
  <2> DEFINE datum == Head(mDataQ)
  <2>1. /\ mDataQ' = Tail(mDataQ) /\ mDataQ' \in Seq(0 .. MaxCaptures)
        /\ datum \in 0 .. MaxCaptures /\ 1 \in DOMAIN mDataQ /\ mDataQ[1] = datum
        /\ \A i \in DOMAIN mDataQ' : i + 1 \in DOMAIN mDataQ /\ mDataQ'[i] = mDataQ[i + 1]
    <3>1. mDataQ' = Tail(mDataQ)
      BY <1>4 DEF CmdNextJob
    <3>2. QED
      BY <1>1, <1>4, <3>1, TailProperties
  <2>2. /\ unheard' \subseteq unheard \cup ({datum} \ {0})
        /\ \/ UNCHANGED <<thread, numOfSnapshotRcvd, counted>>
           \/ /\ datum # 0
              /\ numOfSnapshotRcvd' = numOfSnapshotRcvd + 1
              /\ counted' = counted \cup {datum}
              /\ \/ thread' = "done" /\ numOfSnapshotRcvd' = NumSnapshots
                 \/ thread' = "ready"
    BY <1>4 DEF CmdNextJob, lastExpected
  <2>3. datum \in live \cup {0} /\ counted \subseteq live /\ datum <= captures
    BY <1>2, <2>1 DEF Inv, Flushed, Numbered
  <2> HIDE DEF datum
  <2>4. TypeOK'
    BY <1>1, <1>2, <2>1, <2>2 DEF TypeOK, machineVars
  <2>5. Numbered'
    BY <1>1, <2>1, <2>2, <2>3 DEF Inv, Numbered, machineVars
  <2>6. Flushed'
    BY <1>1, <1>2, <2>1, <2>2, <2>3 DEF Inv, Flushed, live, machineVars
  <2>7. CapturesAreNotMixed'
    <3>1. counted' \subseteq live
      BY <2>2, <2>3
    <3> SUFFICES ASSUME NEW early \in counted', NEW late \in counted', early < late
                 PROVE  early \in rawCaptures
      BY <1>1 DEF CapturesAreNotMixed, machineVars
    <3>2. early \in 1 .. MaxCaptures /\ late \in 1 .. MaxCaptures /\ late <= captures
      BY <1>1, <2>4, <2>5 DEF TypeOK, Numbered, machineVars
    <3>3. early \notin rawCaptures => early = captures
      BY <3>1, <3>2 DEF Inv, Numbered, live
    <3>4. QED
      BY <1>1, <3>2, <3>3 DEF TypeOK
  <2>8. Accounted'
    <3> SUFFICES ASSUME capture # 0
                 PROVE  /\ Occurrences(mDataQ', capture) <= produced
                        /\ counted' \subseteq {capture} =>
                             numOfSnapshotRcvd' + Occurrences(mDataQ', capture) <= produced
      BY <1>1 DEF Accounted, machineVars
    <3>1. Occurrences(mDataQ', capture) + (IF datum = capture THEN 1 ELSE 0)
             <= Occurrences(mDataQ, capture)
      BY <1>1, <1>4, <2>1, OccurrencesTail DEF datum
    <3>2. Occurrences(mDataQ, capture) \in Nat /\ Occurrences(mDataQ', capture) \in Nat
      BY <1>1, <2>1, OccurrencesType
    <3>3. numOfSnapshotRcvd \in Nat /\ produced \in Nat
      BY <1>1, Bounds DEF TypeOK
    <3>4. /\ Occurrences(mDataQ, capture) <= produced
          /\ counted \subseteq {capture} =>
               numOfSnapshotRcvd + Occurrences(mDataQ, capture) <= produced
      BY DEF Inv, Accounted
    <3>5. CASE UNCHANGED <<numOfSnapshotRcvd, counted>>
      BY <3>1, <3>2, <3>3, <3>4, <3>5
    <3>6. CASE /\ numOfSnapshotRcvd' = numOfSnapshotRcvd + 1
               /\ counted' = counted \cup {datum}
      <4>1. counted' \subseteq {capture} => datum = capture /\ counted \subseteq {capture}
        BY <3>6
      <4>2. QED
        BY <3>1, <3>2, <3>3, <3>4, <3>6, <4>1
    <3>7. QED
      BY <2>2, <3>5, <3>6
  <2>9. Counting'
    <3>1. CASE UNCHANGED <<thread, numOfSnapshotRcvd, counted>>
      BY <3>1 DEF Inv, Counting
    <3>2. CASE ~ UNCHANGED <<thread, numOfSnapshotRcvd, counted>>
      BY <2>2, <3>2 DEF Counting
    <3>3. QED
      BY <3>1, <3>2
  <2>10. QED
    BY <1>2, <2>4, <2>5, <2>6, <2>7, <2>8, <2>9 DEF Inv
<1>5. QED
  BY <1>3, <1>4

\* EXIT drops the data.
LEMMA ExitInv == ASSUME Inv, CmdExit PROVE Inv'
<1>1. /\ TypeOK /\ mDataQ' = <<>> /\ thread' = "exited"
      /\ UNCHANGED <<mActive, unsent, rawJob, produced, notified, machineVars,
                     isSnapshotActive, numOfSnapshotRcvd, counted, unheard>>
  BY DEF Inv, CmdExit, getCmd
<1>2. /\ cmd_queue' \in Seq(Command) /\ JobsAreLast' /\ (NoStopPending' => NoStopPending)
  BY TakenCommand DEF Inv, CmdExit
<1>3. mDataQ' \in Seq(0 .. MaxCaptures) /\ \A i : i \notin DOMAIN mDataQ'
  BY <1>1
<1>4. TypeOK'
  BY <1>1, <1>2, <1>3 DEF TypeOK, machineVars
<1>5. Numbered' /\ CapturesAreNotMixed' /\ Counting'
  BY <1>1, <1>3 DEF Inv, Numbered, CapturesAreNotMixed, Counting, machineVars
<1>6. Flushed'
  BY <1>1, <1>2, <1>3 DEF Inv, Flushed, live, machineVars
<1>7. Accounted'
  <2>1. Occurrences(mDataQ', capture) = 0
    BY <1>3, OccurrencesNone
  <2>2. /\ Occurrences(mDataQ, capture) \in Nat
        /\ numOfSnapshotRcvd \in Nat /\ produced \in Nat
    <3>1. mDataQ \in Seq(0 .. MaxCaptures)
      BY <1>1 DEF TypeOK
    <3>2. numOfSnapshotRcvd \in Nat /\ produced \in Nat
      BY <1>1, Bounds DEF TypeOK
    <3>3. QED
      BY <3>1, <3>2, OccurrencesType
  <2>3. Accounted /\ UNCHANGED <<capture, counted, numOfSnapshotRcvd, produced>>
    BY <1>1 DEF Inv, machineVars
  <2>4. QED
    BY <2>1, <2>2, <2>3 DEF Accounted
<1>8. QED
  BY <1>2, <1>4, <1>5, <1>6, <1>7 DEF Inv

-----------------------------------------------------------------------------
(* The theorems.                                                            *)

\* Every step preserves the invariant.
LEMMA NextInv == Inv /\ [Next]_vars => Inv'
<1> SUFFICES ASSUME Inv, [Next]_vars PROVE Inv'
  OBVIOUS
<1>1. CASE startSnapshots \/ cancelPicture \/ snapshotDone \/ dataProcStopped
  BY <1>1, MachineInv
<1>2. CASE notifySnapshot \/ notifyRaw \/ notifyOther
  BY <1>2, ProducersInv
<1>3. CASE \/ processRawImage \/ notifyRawRefused
           \/ \E producer \in Thread : sendNextJob(producer)
           \/ exit
  BY <1>3, JobsInv
<1>4. CASE ThreadStep
  BY <1>4, StartStopInv, NextJobInv, ExitInv DEF ThreadStep
<1>5. CASE UNCHANGED vars
  BY <1>5 DEF vars, Inv, TypeOK, CapturesAreNotMixed, JobsAreLast, Numbered, Flushed,
     NoStopPending, live, Accounted, Counting
<1>6. QED
  BY <1>1, <1>2, <1>3, <1>4, <1>5 DEF Next

\* The invariant holds in every state.
THEOREM InvCorrect == Spec => []Inv
BY InitInv, NextInv, PTL DEF Spec

\* The state has its type; a capture never produces more than its snapshots.
THEOREM TypeCorrect == Spec => []TypeOK
<1>1. Inv => TypeOK
  BY DEF Inv
<1>2. QED
  BY <1>1, InvCorrect, PTL

\* Snapshots of two captures are never counted together, unless the earlier one was
\* raw: cbNotifyRoutine resets its count at START and STOP, whose order in the queue
\* keeps the rest of a capture that was stopped from being counted for the next.
THEOREM CapturesCorrect == Spec => []CapturesAreNotMixed
<1>1. Inv => CapturesAreNotMixed
  BY DEF Inv
<1>2. QED
  BY <1>1, InvCorrect, PTL

\* SNAPSHOT_DONE is posted for a capture only when all its snapshots were produced.
THEOREM DoneCorrect == Spec => []DoneMeansAllProduced
<1>1. Inv => DoneMeansAllProduced
  <2> SUFFICES ASSUME Inv, thread = "done", counted = {capture}
               PROVE  produced = NumSnapshots
    BY DEF DoneMeansAllProduced
  <2>1. capture \in 1 .. MaxCaptures /\ numOfSnapshotRcvd = NumSnapshots
    BY DEF Inv, TypeOK, Counting
  <2>2. numOfSnapshotRcvd + Occurrences(mDataQ, capture) <= produced
    BY <2>1 DEF Inv, Accounted
  <2>3. Occurrences(mDataQ, capture) \in Nat
    BY OccurrencesType DEF Inv, TypeOK
  <2>4. QED
    BY <2>1, <2>2, <2>3, Bounds DEF Inv, TypeOK
<1>2. QED
  BY <1>1, InvCorrect, PTL
=============================================================================
