------------------------- MODULE PostProcessor_proofs -------------------------
(***************************************************************************)
(* Theorems about PostProcessor, for any sets of buffers and formats, any  *)
(* burst and any number of captures, whatever fails; not when a capture is *)
(* stopped before its START was taken or a capture starts before the       *)
(* events of the last one are handled, which the code is exposed to        *)
(* (Orderly).                                                              *)
(*                                                                         *)
(* A buffer that is lent is in one place: Parted says that the queues, the *)
(* notifier and the raw buffers nobody wants share none, and Distinct that *)
(* no queue has one twice.  That nothing is released while the encoder     *)
(* reads it follows from the order of the commands (Commands) and from     *)
(* there being one JPEG job at a time, being encoded or waiting for its    *)
(* event to be handled (OneJob).                                           *)
(***************************************************************************)
EXTENDS PostProcessor, FiniteSetTheorems, SequenceTheorems, TLAPS

Orderly == {"lateEvents", "earlyStop"} \cap Circumstances = {}

\* The buffers of each queue.
InPP == Range(m_inputPPQ)
OngoingPP == Range(m_ongoingPPQ)
InRaw == Range(m_inputRawQ)
InJpeg == bufsOf(Range(m_inputJpegQ))
OngoingJpeg == bufsOf(Range(m_ongoingJpegQ))

\* No buffer is in two places.
Parted ==
  /\ InPP \cap (OngoingPP \cup InRaw \cup InJpeg \cup OngoingJpeg
                \cup notifying \cup unwanted) = {}
  /\ OngoingPP \cap (InRaw \cup InJpeg \cup OngoingJpeg \cup notifying \cup unwanted) = {}
  /\ InRaw \cap (InJpeg \cup OngoingJpeg \cup notifying \cup unwanted) = {}
  /\ InJpeg \cap (OngoingJpeg \cup notifying \cup unwanted) = {}
  /\ OngoingJpeg \cap (notifying \cup unwanted) = {}
  /\ notifying \cap unwanted = {}

\* No buffer is in a queue twice.
Once(queue) == \A i, k \in DOMAIN queue : queue[i] = queue[k] => i = k
Disjoint(queue) ==
  \A i, k \in DOMAIN queue : queue[i].bufs \cap queue[k].bufs # {} => i = k
Distinct ==
  /\ Once(m_inputPPQ) /\ Once(m_ongoingPPQ) /\ Once(m_inputRawQ)
  /\ Disjoint(m_inputJpegQ)

\* A START is queued for a capture that has not begun and is not being stopped; a STOP
\* is the next command there is.
Queued(cmd) == \E i \in DOMAIN cmd_queue : cmd_queue[i] = cmd
Commands ==
  /\ \A i, k \in DOMAIN cmd_queue :
        cmd_queue[i] = "START_DATA_PROC" /\ cmd_queue[k] = "START_DATA_PROC" => i = k
  /\ Queued("START_DATA_PROC")
        => capturing /\ machine = "free" /\ ~is_active /\ jpegEvts = <<>>
  /\ \A i \in DOMAIN cmd_queue : cmd_queue[i] = "STOP_DATA_PROC" => i = 1
  /\ Queued("STOP_DATA_PROC") => machine = "stopping" /\ dataProc # "stop"
  /\ dataProc = "stop" => machine = "stopping"
  /\ machine # "free" => capturing
  /\ is_active => /\ capturing /\ dataProc # "stop"
                  /\ machine = "free" \/ Queued("STOP_DATA_PROC")
  /\ dataProc \in {"encode", "rest"} => is_active

\* One job at a time has the encoder and its output buffer, until its event is handled.
OneJob ==
  /\ Len(m_ongoingJpegQ) <= 1 /\ Len(jpegEvts) <= 1
  /\ m_ongoingJpegQ # <<>> => is_active
  /\ encoder # {} => m_ongoingJpegQ # <<>> /\ encoder = {Head(m_ongoingJpegQ)}
  /\ dataProc = "encode" => m_ongoingJpegQ = <<jpegJob>> /\ encoder = {}
  /\ jpegEvts # <<>> => /\ encoder = {} /\ dataProc # "encode"
                        /\ is_active => m_ongoingJpegQ # <<>>

\* As many frames are expected of the reprocess channel as wait for one.
Reprocessing ==
  /\ reprocessing = Len(m_ongoingPPQ)
  /\ m_ongoingPPQ # <<>> => capturing /\ machine # "stopped"

Inv ==
  /\ TypeOK /\ EveryLentBufferIsHeld /\ NoneReturnedTwice
  /\ Parted /\ Distinct /\ Commands /\ OneJob /\ Reprocessing

\* The bounds are numbers.
LEMMA Bounds == Burst \in Nat /\ MaxCaptures \in Nat
BY PostProcessorAssumption DEF PostProcessorAssumption

-----------------------------------------------------------------------------
(* Facts about queues of buffers and of jobs.                              *)

\* A queue whose head, if any, is taken: its buffers are those it had but the head.
LEMMA RestOfBuffers ==
  ASSUME NEW S, NEW q \in Seq(S), Once(q)
  PROVE  /\ rest(q) \in Seq(S) /\ Once(rest(q))
         /\ Range(rest(q)) = Range(q) \ first(q)
         /\ first(q) \subseteq Range(q) /\ Range(q) \subseteq S
<1>1. CASE q = <<>>
  BY <1>1 DEF rest, first, Range, Once
<1>2. CASE q # <<>>
  <2>1. /\ rest(q) = Tail(q) /\ first(q) = {Head(q)} /\ Tail(q) \in Seq(S)
        /\ 1 \in DOMAIN q /\ q[1] = Head(q)
    BY <1>2 DEF rest, first
  <2>2. \A i \in DOMAIN Tail(q) : i + 1 \in DOMAIN q /\ i + 1 # 1 /\ Tail(q)[i] = q[i + 1]
    BY <1>2
  <2>3. \A k \in DOMAIN q : k # 1 => k - 1 \in DOMAIN Tail(q) /\ Tail(q)[k - 1] = q[k]
    BY <1>2
  <2>4. Once(Tail(q))
    BY <1>2, <2>2 DEF Once
  <2>5. Range(Tail(q)) \subseteq Range(q) \ {Head(q)}
    BY <2>1, <2>2 DEF Once, Range
  <2>6. Range(q) \ {Head(q)} \subseteq Range(Tail(q))
    <3>1. SUFFICES ASSUME NEW b \in Range(q), b # Head(q) PROVE b \in Range(Tail(q))
      OBVIOUS
    <3>2. PICK k \in DOMAIN q : q[k] = b
      BY DEF Range
    <3>3. QED
      BY <2>1, <2>3, <3>1, <3>2 DEF Range
  <2>7. Head(q) \in Range(q) /\ Range(q) \subseteq S
    BY <2>1 DEF Range
  <2>8. QED
    BY <2>1, <2>4, <2>5, <2>6, <2>7
<1>3. QED
  BY <1>1, <1>2

\* A queue with one buffer more.
LEMMA OneBufferMore ==
  ASSUME NEW S, NEW q \in Seq(S), NEW b \in S
  PROVE  /\ Append(q, b) \in Seq(S)
         /\ Range(Append(q, b)) = Range(q) \cup {b}
         /\ Once(q) /\ b \notin Range(q) => Once(Append(q, b))
<1>1. /\ Append(q, b) \in Seq(S) /\ Len(q) + 1 \in DOMAIN Append(q, b)
      /\ Append(q, b)[Len(q) + 1] = b
      /\ \A i \in DOMAIN q : i \in DOMAIN Append(q, b) /\ Append(q, b)[i] = q[i]
      /\ \A i \in DOMAIN Append(q, b) : i \in DOMAIN q \/ i = Len(q) + 1
  OBVIOUS
<1>2. QED
  BY <1>1 DEF Range, Once

\* The same of jobs, whose buffers are those of their frames.
LEMMA RestOfJobs ==
  ASSUME NEW q \in Seq(Job), Disjoint(q)
  PROVE  /\ rest(q) \in Seq(Job) /\ Disjoint(rest(q))
         /\ bufsOf(Range(rest(q))) = bufsOf(Range(q)) \ bufsOf(first(q))
         /\ bufsOf(first(q)) \subseteq bufsOf(Range(q))
<1>1. CASE q = <<>>
  BY <1>1 DEF rest, first, Range, Disjoint, bufsOf
<1>2. CASE q # <<>>
  <2>1. /\ rest(q) = Tail(q) /\ first(q) = {Head(q)} /\ Tail(q) \in Seq(Job)
        /\ 1 \in DOMAIN q /\ q[1] = Head(q)
    BY <1>2 DEF rest, first
  <2>2. \A i \in DOMAIN Tail(q) : i + 1 \in DOMAIN q /\ i + 1 # 1 /\ Tail(q)[i] = q[i + 1]
    BY <1>2
  <2>3. \A k \in DOMAIN q : k # 1 => k - 1 \in DOMAIN Tail(q) /\ Tail(q)[k - 1] = q[k]
    BY <1>2
  <2>4. Disjoint(Tail(q))
    BY <1>2, <2>2 DEF Disjoint
  <2>5. bufsOf(Range(Tail(q))) \subseteq bufsOf(Range(q)) \ Head(q).bufs
    BY <2>1, <2>2 DEF Disjoint, Range, bufsOf
  <2>6. bufsOf(Range(q)) \ Head(q).bufs \subseteq bufsOf(Range(Tail(q)))
    <3>1. SUFFICES ASSUME NEW b \in bufsOf(Range(q)), b \notin Head(q).bufs
                   PROVE  b \in bufsOf(Range(Tail(q)))
      OBVIOUS
    <3>2. PICK k \in DOMAIN q : b \in q[k].bufs
      BY DEF Range, bufsOf
    <3>3. k - 1 \in DOMAIN Tail(q) /\ b \in Tail(q)[k - 1].bufs
      BY <2>1, <2>3, <3>1, <3>2
    <3>4. QED
      BY <3>3 DEF Range, bufsOf
  <2>7. bufsOf(first(q)) = Head(q).bufs /\ Head(q).bufs \subseteq bufsOf(Range(q))
    BY <2>1 DEF Range, bufsOf
  <2>8. QED
    BY <2>1, <2>4, <2>5, <2>6, <2>7
<1>3. QED
  BY <1>1, <1>2

\* A queue with one job more.
LEMMA OneJobMore ==
  ASSUME NEW q \in Seq(Job), NEW j \in Job
  PROVE  /\ Append(q, j) \in Seq(Job)
         /\ bufsOf(Range(Append(q, j))) = bufsOf(Range(q)) \cup j.bufs
         /\ Disjoint(q) /\ j.bufs \cap bufsOf(Range(q)) = {} => Disjoint(Append(q, j))
<1>1. /\ Append(q, j) \in Seq(Job) /\ Len(q) + 1 \in DOMAIN Append(q, j)
      /\ Append(q, j)[Len(q) + 1] = j
      /\ \A i \in DOMAIN q : i \in DOMAIN Append(q, j) /\ Append(q, j)[i] = q[i]
      /\ \A i \in DOMAIN Append(q, j) : i \in DOMAIN q \/ i = Len(q) + 1
  OBVIOUS
<1>2. bufsOf(Range(Append(q, j))) = bufsOf(Range(q)) \cup j.bufs
  BY <1>1 DEF Range, bufsOf
<1>3. ASSUME Disjoint(q), j.bufs \cap bufsOf(Range(q)) = {}
      PROVE  Disjoint(Append(q, j))
  <2>1. \A i \in DOMAIN q : q[i].bufs \cap j.bufs = {}
    BY <1>3 DEF Range, bufsOf
  <2>2. QED
    BY <1>1, <1>3, <2>1 DEF Disjoint
<1>4. QED
  BY <1>1, <1>2, <1>3

\* No job, and one.
LEMMA FewJobs ==
  /\ <<>> \in Seq(Job) /\ Len(<<>>) = 0 /\ bufsOf(Range(<<>>)) = {} /\ Disjoint(<<>>)
  /\ \A j \in Job : /\ <<j>> \in Seq(Job) /\ Len(<<j>>) = 1 /\ Head(<<j>>) = j
                    /\ Tail(<<j>>) = <<>> /\ <<j>> # <<>>
                    /\ Range(<<j>>) = {j} /\ bufsOf({j}) = j.bufs
<1>1. Range(<<>>) = {} /\ Disjoint(<<>>)
  BY DEF Range, Disjoint
<1>2. \A j : Range(<<j>>) = {j} /\ bufsOf({j}) = j.bufs
  BY DEF Range, bufsOf
<1>3. bufsOf({}) = {}
  BY DEF bufsOf
<1>4. QED
  BY <1>1, <1>2, <1>3

\* A queue that holds one at most, and is not empty.
LEMMA QueueOfOne ==
  ASSUME NEW S, NEW q \in Seq(S), Len(q) <= 1, q # <<>>
  PROVE  \E e \in S : q = <<e>>
<1>1. Len(q) = 1
  <2>1. Len(q) \in Nat \ {0}
    BY EmptySeq, Zenon
  <2>2. QED
    BY <2>1
<1>2. q[1] \in S
  BY <1>1, ElementOfSeq
<1>3. q = <<q[1]>>
  BY <1>1
<1>4. QED
  BY <1>2, <1>3

\* No buffer.
LEMMA NoBuffer ==
  /\ Range(<<>>) = {} /\ Once(<<>>) /\ \A S : <<>> \in Seq(S)
BY DEF Range, Once

\* SetToSeq of no frame and of one.
LEMMA SetToSeqOfFew ==
  /\ SetToSeq({}) = <<>>
  /\ \A x : SetToSeq({x}) = <<x>>
<1>1. SetToSeq({}) = <<>>
  BY FS_EmptySet DEF SetToSeq, IsInjective
<1>2. ASSUME NEW x PROVE SetToSeq({x}) = <<x>>
  <2>1. Cardinality({x}) = 1
    BY FS_Singleton
  <2>2. \A f \in [1 .. 1 -> {x}] : f = <<x>>
    OBVIOUS
  <2>3. <<x>> \in [1 .. 1 -> {x}] /\ IsInjective(<<x>>)
    BY DEF IsInjective
  <2>4. QED
    BY <2>1, <2>2, <2>3 DEF SetToSeq
<1>3. QED
  BY <1>1, <1>2

-----------------------------------------------------------------------------
(* Facts about the parts of the invariant.                                 *)

\* A step that moves no buffer leaves the four parts that speak of buffers alone.
LEMMA SameBuffers ==
  ASSUME Inv, UNCHANGED <<queues, notifying, unwanted, lent, returnedTwice>>
  PROVE  EveryLentBufferIsHeld' /\ NoneReturnedTwice' /\ Parted' /\ Distinct'
BY DEF Inv, queues, EveryLentBufferIsHeld, Held, NoneReturnedTwice, Parted, Distinct,
   InPP, OngoingPP, InRaw, InJpeg, OngoingJpeg

\* Commands reads six variables,
LEMMA SameCommands ==
  ASSUME Inv, UNCHANGED <<cmd_queue, is_active, dataProc, machine, capturing, jpegEvts>>
  PROVE  Commands'
BY DEF Inv, Commands, Queued

\* Reprocessing reads two, and when frames are awaited two more,
LEMMA SameReprocessing ==
  ASSUME Inv, UNCHANGED <<m_ongoingPPQ, reprocessing>>,
         (capturing /\ machine # "stopped")' \/ m_ongoingPPQ = <<>>
  PROVE  Reprocessing'
BY DEF Inv, Reprocessing

\* and OneJob reads six.
LEMMA SameJob ==
  ASSUME Inv, UNCHANGED <<m_ongoingJpegQ, jpegEvts, encoder, dataProc, jpegJob, is_active>>
  PROVE  OneJob'
BY DEF Inv, OneJob

\* All the buffers there are.
LEMMA HeldBuffers ==
  /\ Held = InPP \cup OngoingPP \cup InRaw \cup InJpeg \cup OngoingJpeg \cup notifying
  /\ Held' = (InPP \cup OngoingPP \cup InRaw \cup InJpeg \cup OngoingJpeg \cup notifying)'
BY DEF Held, InPP, OngoingPP, InRaw, InJpeg, OngoingJpeg

\* The job that is ongoing, if there is one.
LEMMA OneOngoing ==
  ASSUME Inv, m_ongoingJpegQ # <<>>
  PROVE  \E job \in Job : m_ongoingJpegQ = <<job>>
<1>1. m_ongoingJpegQ \in Seq(Job) /\ Len(m_ongoingJpegQ) <= 1
  BY DEF Inv, TypeOK, OneJob
<1>2. QED
  BY <1>1, QueueOfOne

\* Buffers that are held are returned, and are lent no more.
LEMMA Released ==
  ASSUME Inv, NEW bufs, bufs \subseteq Held, release(bufs)
  PROVE  /\ lent' = (Held \cup unwanted) \ bufs /\ NoneReturnedTwice'
         /\ lent' \subseteq Buffer /\ returnedTwice' \subseteq Buffer
BY DEF Inv, TypeOK, EveryLentBufferIsHeld, NoneReturnedTwice, release

\* A DO_NEXT_JOB is added to the commands.
LEMMA NextJobQueued ==
  ASSUME Inv, cmd_queue' = Append(cmd_queue, "DO_NEXT_JOB")
  PROVE  /\ cmd_queue' \in Seq({"START_DATA_PROC", "STOP_DATA_PROC", "DO_NEXT_JOB"})
         /\ \A cmd \in {"START_DATA_PROC", "STOP_DATA_PROC"} :
               /\ \A i : /\ i \in DOMAIN cmd_queue' /\ cmd_queue'[i] = cmd
                         <=> i \in DOMAIN cmd_queue /\ cmd_queue[i] = cmd
               /\ Queued(cmd)' <=> Queued(cmd)
<1>1. cmd_queue \in Seq({"START_DATA_PROC", "STOP_DATA_PROC", "DO_NEXT_JOB"})
  BY DEF Inv, TypeOK
<1>2. /\ cmd_queue' \in Seq({"START_DATA_PROC", "STOP_DATA_PROC", "DO_NEXT_JOB"})
      /\ \A i \in DOMAIN cmd_queue : i \in DOMAIN cmd_queue' /\ cmd_queue'[i] = cmd_queue[i]
      /\ \A i \in DOMAIN cmd_queue' :
            i \in DOMAIN cmd_queue \/ cmd_queue'[i] = "DO_NEXT_JOB"
  BY <1>1
<1>3. QED
  BY <1>2 DEF Queued

\* A command is taken: no STOP is behind it, and no second START.
LEMMA CmdTaken ==
  ASSUME Inv, NEW cmd, getCmd(cmd)
  PROVE  /\ dataProc = "idle"
         /\ cmd_queue' \in Seq({"START_DATA_PROC", "STOP_DATA_PROC", "DO_NEXT_JOB"})
         /\ Queued(cmd)
         /\ ~ Queued("STOP_DATA_PROC")'
         /\ cmd # "STOP_DATA_PROC" => ~ Queued("STOP_DATA_PROC")
         /\ Queued("START_DATA_PROC")' => Queued("START_DATA_PROC") /\ cmd # "START_DATA_PROC"
         /\ \A i, k \in DOMAIN cmd_queue' :
               cmd_queue'[i] = "START_DATA_PROC" /\ cmd_queue'[k] = "START_DATA_PROC" => i = k
<1>1. /\ cmd_queue \in Seq({"START_DATA_PROC", "STOP_DATA_PROC", "DO_NEXT_JOB"})
      /\ cmd_queue # <<>> /\ Head(cmd_queue) = cmd /\ cmd_queue' = Tail(cmd_queue)
  BY DEF getCmd, Inv, TypeOK
<1>2. /\ cmd_queue' \in Seq({"START_DATA_PROC", "STOP_DATA_PROC", "DO_NEXT_JOB"})
      /\ 1 \in DOMAIN cmd_queue /\ cmd_queue[1] = cmd
      /\ \A i \in DOMAIN cmd_queue' :
            /\ i \in Nat \ {0} /\ i + 1 \in DOMAIN cmd_queue
            /\ cmd_queue'[i] = cmd_queue[i + 1]
  BY <1>1
<1>3. /\ dataProc = "idle" /\ Queued(cmd)
      /\ cmd # "STOP_DATA_PROC" => ~ Queued("STOP_DATA_PROC")
  BY <1>2 DEF getCmd, Queued, Inv, Commands
<1>4. ~ Queued("STOP_DATA_PROC")'
  BY <1>2 DEF Queued, Inv, Commands
<1>5. Queued("START_DATA_PROC")' => Queued("START_DATA_PROC") /\ cmd # "START_DATA_PROC"
  BY <1>2 DEF Queued, Inv, Commands
<1>6. \A i, k \in DOMAIN cmd_queue' :
         cmd_queue'[i] = "START_DATA_PROC" /\ cmd_queue'[k] = "START_DATA_PROC" => i = k
  BY <1>2 DEF Inv, Commands
<1>7. QED
  BY <1>2, <1>3, <1>4, <1>5, <1>6

-----------------------------------------------------------------------------
(* The steps of the state machine thread.                                  *)

\* A capture starts: there is no command of the last one, no job and no event.
LEMMA StartInv == ASSUME Inv, Orderly, start PROVE Inv'
<1>1. TypeOK'
  <2>1. cmd_queue' \in Seq({"START_DATA_PROC", "STOP_DATA_PROC", "DO_NEXT_JOB"})
    BY DEF start, Inv, TypeOK
  <2>2. /\ m_pReprocChannel' \in BOOLEAN /\ reprocessing' \in Nat
        /\ captures' \in 0 .. MaxCaptures /\ delivered' \in 0 .. Burst
    <3>1. /\ captures \in 0 .. MaxCaptures /\ captures < MaxCaptures
          /\ captures' = captures + 1 /\ delivered' = 0
      BY DEF start, Inv, TypeOK
    <3>2. captures' \in 0 .. MaxCaptures /\ delivered' \in 0 .. Burst
      BY <3>1, Bounds
    <3>3. m_pReprocChannel' \in BOOLEAN
      <4>1. PICK fails :
              m_pReprocChannel' = IF format = "reprocess" THEN ~ fails ELSE m_pReprocChannel
        BY DEF start
      <4>2. (~ fails) \in BOOLEAN
        OBVIOUS
      <4>3. QED
        BY <4>1, <4>2 DEF Inv, TypeOK
    <3>4. reprocessing' \in Nat
      BY DEF start, Inv, TypeOK
    <3>5. QED
      BY <3>2, <3>3, <3>4
  <2>3. QED
    BY <2>1, <2>2 DEF start, keep, queues, Inv, TypeOK
<1>2. EveryLentBufferIsHeld' /\ NoneReturnedTwice' /\ Parted' /\ Distinct'
  BY SameBuffers DEF start, keep
<1>3. Commands'
  <2>1. /\ ~ capturing /\ machine = "free" /\ jpegEvts = <<>> /\ capturing'
        /\ cmd_queue' = cmd_queue \/ cmd_queue' = Append(cmd_queue, "START_DATA_PROC")
        /\ UNCHANGED <<machine, is_active, jpegEvts, dataProc>>
    BY DEF start, Orderly
  <2>2. ~ is_active /\ ~ Queued("START_DATA_PROC") /\ ~ Queued("STOP_DATA_PROC")
    BY <2>1 DEF Inv, Commands
  <2>3. CASE cmd_queue' = cmd_queue
    BY <2>1, <2>2, <2>3 DEF Queued, Inv, Commands
  <2>4. CASE cmd_queue' = Append(cmd_queue, "START_DATA_PROC")
    <3>1. /\ \A i \in DOMAIN cmd_queue' :
                \/ i \in DOMAIN cmd_queue /\ cmd_queue'[i] = cmd_queue[i]
                \/ i = Len(cmd_queue) + 1 /\ cmd_queue'[i] = "START_DATA_PROC"
      BY <2>4 DEF Inv, TypeOK
    <3>2. ~ Queued("STOP_DATA_PROC")'
      BY <2>2, <3>1 DEF Queued
    <3>3. \A i \in DOMAIN cmd_queue' :
             cmd_queue'[i] = "START_DATA_PROC" => i = Len(cmd_queue) + 1
      BY <2>2, <3>1 DEF Queued
    <3>4. QED
      BY <2>1, <2>2, <3>2, <3>3 DEF Queued, Inv, Commands
  <2>5. QED
    BY <2>1, <2>3, <2>4
<1>4. OneJob'
  BY SameJob DEF start, queues
<1>5. Reprocessing'
  <2>1. m_ongoingPPQ = <<>> /\ reprocessing = 0
    BY EmptySeq DEF start, Inv, Reprocessing
  <2>2. m_ongoingPPQ' = <<>> /\ reprocessing' = 0
    BY <2>1 DEF start, queues
  <2>3. QED
    BY <2>2, EmptySeq DEF Reprocessing
<1>6. QED
  BY <1>1, <1>2, <1>3, <1>4, <1>5 DEF Inv

\* A capture that was started is stopped: STOP is put before the commands there are.
LEMMA StopInv == ASSUME Inv, Orderly, stop PROVE Inv'
<1>1. /\ cmd_queue' \in Seq({"START_DATA_PROC", "STOP_DATA_PROC", "DO_NEXT_JOB"})
      /\ 1 \in DOMAIN cmd_queue' /\ cmd_queue'[1] = "STOP_DATA_PROC"
      /\ \A i \in DOMAIN cmd_queue' :
            i = 1 \/ (i - 1 \in DOMAIN cmd_queue /\ cmd_queue'[i] = cmd_queue[i - 1])
  <2> DEFINE C == {"START_DATA_PROC", "STOP_DATA_PROC", "DO_NEXT_JOB"}
  <2>1. cmd_queue \in Seq(C) /\ "STOP_DATA_PROC" \in C
    BY DEF Inv, TypeOK
  <2>2. cmd_queue' = <<"STOP_DATA_PROC">> \o cmd_queue
    BY DEF stop
  <2> HIDE DEF C
  <2>3. cmd_queue' \in Seq(C)
    BY <2>1, <2>2
  <2>4. 1 \in DOMAIN cmd_queue' /\ cmd_queue'[1] = "STOP_DATA_PROC"
    BY <2>1, <2>2
  <2>5. \A i \in DOMAIN cmd_queue' :
           i = 1 \/ (i - 1 \in DOMAIN cmd_queue /\ cmd_queue'[i] = cmd_queue[i - 1])
    BY <2>1, <2>2
  <2>6. QED
    BY <2>3, <2>4, <2>5 DEF C
<1>2. TypeOK'
  BY <1>1 DEF stop, keep, queues, history, Inv, TypeOK
<1>3. EveryLentBufferIsHeld' /\ NoneReturnedTwice' /\ Parted' /\ Distinct'
  BY SameBuffers DEF stop, keep
<1>4. Commands'
  <2>1. /\ capturing /\ machine = "free" /\ machine' = "stopping"
        /\ UNCHANGED <<capturing, is_active, dataProc>>
    BY DEF stop
  <2>2. ~ Queued("START_DATA_PROC")
    BY DEF stop, Orderly, Contains, Queued, Inv, TypeOK
  <2>3. ~ Queued("STOP_DATA_PROC") /\ dataProc # "stop"
    BY <2>1 DEF Inv, Commands
  <2>4. ~ Queued("START_DATA_PROC")' /\ Queued("STOP_DATA_PROC")'
    BY <1>1, <2>2 DEF Queued
  <2>5. \A i \in DOMAIN cmd_queue' : cmd_queue'[i] = "STOP_DATA_PROC" => i = 1
    BY <1>1, <2>3 DEF Queued
  <2>6. \A i \in DOMAIN cmd_queue' : cmd_queue'[i] # "START_DATA_PROC"
    BY <2>4 DEF Queued
  <2>7. QED
    BY <2>1, <2>3, <2>4, <2>5, <2>6 DEF Inv, Commands
<1>5. OneJob'
  BY SameJob DEF stop, queues
<1>6. Reprocessing'
  BY SameReprocessing DEF stop, queues
<1>7. QED
  BY <1>2, <1>3, <1>4, <1>5, <1>6 DEF Inv

\* The channel is deleted when nothing of it is lent but what nobody wants.
LEMMA StopCaptureChannelInv == ASSUME Inv, stopCaptureChannel PROVE Inv'
<1>1. TypeOK'
  BY DEF stopCaptureChannel, queues, history, Inv, TypeOK
<1>2. Parted' /\ Distinct' /\ NoneReturnedTwice'
  BY DEF stopCaptureChannel, queues, Inv, Parted, Distinct, NoneReturnedTwice, InPP,
     OngoingPP, InRaw, InJpeg, OngoingJpeg
<1>3. EveryLentBufferIsHeld'
  <2>1. /\ lent = Held \cup unwanted /\ Held \cap unwanted = {}
    BY HeldBuffers DEF Inv, EveryLentBufferIsHeld, Parted
  <2>2. lent' = lent \ unwanted /\ unwanted' = {} /\ Held' = Held
    BY DEF stopCaptureChannel, queues, Held
  <2>3. QED
    BY <2>1, <2>2 DEF EveryLentBufferIsHeld
<1>4. Commands'
  BY DEF stopCaptureChannel, Inv, Commands, Queued
<1>5. OneJob'
  BY SameJob DEF stopCaptureChannel, queues
<1>6. Reprocessing'
  BY SameReprocessing DEF stopCaptureChannel, queues, Inv, Reprocessing
<1>7. QED
  BY <1>1, <1>2, <1>3, <1>4, <1>5, <1>6 DEF Inv

\* The format decides where the next frame goes, and nothing of the frames there are.
LEMMA SetPictureFormatInv == ASSUME Inv, setPictureFormat PROVE Inv'
<1>1. TypeOK'
  BY DEF setPictureFormat, keep, queues, history, Inv, TypeOK
<1>2. EveryLentBufferIsHeld' /\ NoneReturnedTwice' /\ Parted' /\ Distinct'
  BY SameBuffers DEF setPictureFormat, keep
<1>3. Commands' /\ OneJob'
  BY SameCommands, SameJob DEF setPictureFormat, queues
<1>4. Reprocessing'
  BY DEF setPictureFormat, queues, Inv, Reprocessing
<1>5. QED
  BY <1>1, <1>2, <1>3, <1>4 DEF Inv

\* An event is dropped when no job waits for it: STOP released them all.
LEMMA IgnoreJpegEvtInv == ASSUME Inv, ignoreJpegEvt PROVE Inv'
<1>1. jpegEvts' \in Seq(Nat) /\ Len(jpegEvts') <= 1 /\ jpegEvts # <<>> /\ jpegEvts' = <<>>
  BY DEF ignoreJpegEvt, Inv, TypeOK, OneJob
<1>2. TypeOK'
  BY <1>1 DEF ignoreJpegEvt, keep, queues, history, Inv, TypeOK
<1>3. EveryLentBufferIsHeld' /\ NoneReturnedTwice' /\ Parted' /\ Distinct'
  BY SameBuffers DEF ignoreJpegEvt, keep
<1>4. Commands'
  BY <1>1 DEF ignoreJpegEvt, Inv, Commands, Queued
<1>5. OneJob'
  BY <1>1 DEF ignoreJpegEvt, queues, Inv, OneJob
<1>6. Reprocessing'
  BY DEF ignoreJpegEvt, queues, Inv, Reprocessing
<1>7. QED
  BY <1>2, <1>3, <1>4, <1>5, <1>6 DEF Inv

\* The event is of the only job there is, which is released.
LEMMA ProcessJpegEvtInv == ASSUME Inv, processJpegEvt PROVE Inv'
<1>1. jpegEvts' \in Seq(Nat) /\ Len(jpegEvts') <= 1 /\ jpegEvts # <<>> /\ jpegEvts' = <<>>
  BY DEF processJpegEvt, Inv, TypeOK, OneJob
<1>2. m_ongoingJpegQ' = <<>> /\ bufsOf(first(m_ongoingJpegQ)) = OngoingJpeg
  <2>1. CASE m_ongoingJpegQ = <<>>
    <3>1. first(m_ongoingJpegQ) = {} /\ rest(m_ongoingJpegQ) = <<>>
      BY <2>1 DEF rest, first
    <3>2. bufsOf({}) = {}
      BY DEF bufsOf
    <3>3. QED
      BY <2>1, <3>1, <3>2, FewJobs DEF processJpegEvt, OngoingJpeg
  <2>2. CASE m_ongoingJpegQ # <<>>
    <3>1. PICK job \in Job : m_ongoingJpegQ = <<job>>
      BY <2>2, OneOngoing
    <3>2. first(m_ongoingJpegQ) = {job} /\ rest(m_ongoingJpegQ) = <<>>
      BY <3>1, FewJobs DEF rest, first
    <3>3. QED
      BY <3>1, <3>2, FewJobs DEF processJpegEvt, OngoingJpeg
  <2>3. QED
    BY <2>1, <2>2
<1>3. /\ OngoingJpeg' = {} /\ lent' = lent \ OngoingJpeg
      /\ returnedTwice' = returnedTwice \cup (OngoingJpeg \ lent)
  BY <1>2, FewJobs DEF processJpegEvt, release, OngoingJpeg
<1>4. TypeOK'
  <2>1. OngoingJpeg \subseteq Buffer
    BY HeldBuffers DEF Inv, TypeOK, EveryLentBufferIsHeld
  <2>2. lent' \subseteq Buffer /\ returnedTwice' \subseteq Buffer
    BY <1>3, <2>1 DEF Inv, TypeOK
  <2>3. cmd_queue' \in Seq({"START_DATA_PROC", "STOP_DATA_PROC", "DO_NEXT_JOB"})
    BY NextJobQueued DEF processJpegEvt
  <2>4. m_ongoingJpegQ' \in Seq(Job)
    BY <1>2, FewJobs
  <2>5. QED
    BY <1>1, <2>2, <2>3, <2>4 DEF processJpegEvt, history, Inv, TypeOK
<1>5. /\ InPP' = InPP /\ OngoingPP' = OngoingPP /\ InRaw' = InRaw /\ InJpeg' = InJpeg
      /\ UNCHANGED <<notifying, unwanted>>
  BY DEF processJpegEvt, InPP, OngoingPP, InRaw, InJpeg
<1>6. Parted' /\ NoneReturnedTwice' /\ EveryLentBufferIsHeld'
  <2>1. Parted'
    BY <1>3, <1>5 DEF Inv, Parted
  <2>2. NoneReturnedTwice'
    BY <1>3, HeldBuffers DEF Inv, NoneReturnedTwice, EveryLentBufferIsHeld
  <2>3. Held' = Held \ OngoingJpeg
    BY <1>3, <1>5, HeldBuffers DEF Inv, Parted
  <2>4. EveryLentBufferIsHeld'
    BY <1>3, <1>5, <2>3 DEF Inv, Parted, EveryLentBufferIsHeld
  <2>5. QED
    BY <2>1, <2>2, <2>4
<1>7. Distinct'
  BY DEF processJpegEvt, Inv, Distinct
<1>8. Commands'
  BY <1>1, NextJobQueued DEF processJpegEvt, Inv, Commands
<1>9. OneJob'
  BY <1>1, <1>2 DEF processJpegEvt, Inv, OneJob
<1>10. Reprocessing'
  BY DEF processJpegEvt, Inv, Reprocessing
<1>11. QED
  BY <1>4, <1>6, <1>7, <1>8, <1>9, <1>10 DEF Inv

-----------------------------------------------------------------------------
(* The steps of the channels' threads.                                     *)

\* A frame the kernel has is in no queue, so it is once in the one it is added to.
LEMMA ProcessDataInv ==
  ASSUME Inv, NEW frame \in Frame, processData(frame)
  PROVE  Inv'
<1> DEFINE job == [id |-> 0, bufs |-> {frame}]
<1>1. frame \in Buffer /\ job \in Job /\ job.bufs = {frame} /\ format \in AllFormats
  BY PostProcessorAssumption DEF PostProcessorAssumption, Buffer, Job, Inv, TypeOK
<1>2. frame \notin Held \cup unwanted /\ lent' = lent \cup {frame}
  BY DEF processData, Inv, EveryLentBufferIsHeld
<1>3. /\ m_inputPPQ' \in Seq(Frame) /\ Once(m_inputPPQ)'
      /\ InPP' = IF format = "reprocess" THEN InPP \cup {frame} ELSE InPP
  <2>1. m_inputPPQ \in Seq(Frame) /\ Once(m_inputPPQ) /\ frame \notin Range(m_inputPPQ)
    BY <1>2, HeldBuffers DEF Inv, TypeOK, Distinct, InPP
  <2>2. CASE format = "reprocess"
    <3>1. m_inputPPQ' = Append(m_inputPPQ, frame)
      BY <2>2 DEF processData
    <3>2. QED
      BY <1>1, <2>1, <2>2, <3>1, OneBufferMore DEF InPP, Once
  <2>3. CASE ~ (format = "reprocess")
    BY <2>1, <2>3 DEF processData, InPP, Once
  <2>4. QED
    BY <2>2, <2>3
<1>4. /\ m_inputRawQ' \in Seq(Buffer) /\ Once(m_inputRawQ)'
      /\ InRaw' = IF format \in {"nv16", "raw"} THEN InRaw \cup {frame} ELSE InRaw
  <2>1. m_inputRawQ \in Seq(Buffer) /\ Once(m_inputRawQ) /\ frame \notin Range(m_inputRawQ)
    BY <1>2, HeldBuffers DEF Inv, TypeOK, Distinct, InRaw
  <2>2. CASE format \in {"nv16", "raw"}
    <3>1. m_inputRawQ' = Append(m_inputRawQ, frame)
      BY <2>2 DEF processData
    <3>2. QED
      BY <1>1, <2>1, <2>2, <3>1, OneBufferMore DEF InRaw, Once
  <2>3. CASE ~ (format \in {"nv16", "raw"})
    BY <2>1, <2>3 DEF processData, InRaw, Once
  <2>4. QED
    BY <2>2, <2>3
<1>5. /\ m_inputJpegQ' \in Seq(Job) /\ Disjoint(m_inputJpegQ)'
      /\ InJpeg' = IF format = "jpeg" THEN InJpeg \cup {frame} ELSE InJpeg
  <2>1. CASE format = "jpeg"
    <3>1. m_inputJpegQ' = Append(m_inputJpegQ, job) /\ m_inputJpegQ \in Seq(Job)
      BY <2>1 DEF processData, Inv, TypeOK
    <3>2. job.bufs \cap bufsOf(Range(m_inputJpegQ)) = {} /\ Disjoint(m_inputJpegQ)
      BY <1>1, <1>2, HeldBuffers DEF Inv, Distinct, InJpeg
    <3> HIDE DEF job
    <3>3. /\ Append(m_inputJpegQ, job) \in Seq(Job) /\ Disjoint(Append(m_inputJpegQ, job))
          /\ bufsOf(Range(Append(m_inputJpegQ, job))) = InJpeg \cup {frame}
      BY <1>1, <3>1, <3>2, OneJobMore DEF InJpeg
    <3>4. QED
      BY <2>1, <3>1, <3>3 DEF InJpeg, Disjoint
  <2>2. CASE format # "jpeg"
    BY <2>2 DEF processData, Inv, TypeOK, Distinct, InJpeg, Disjoint
  <2>3. QED
    BY <2>1, <2>2
<1>6. /\ OngoingPP' = OngoingPP /\ OngoingJpeg' = OngoingJpeg
      /\ UNCHANGED <<notifying, unwanted, returnedTwice>>
  BY DEF processData, OngoingPP, OngoingJpeg
<1>7. TypeOK'
  <2>1. delivered' \in 0 .. Burst
    BY Bounds DEF processData, Inv, TypeOK
  <2>2. owed' \in [Producer -> 0 .. 2]
    BY DEF processData, Inv, TypeOK, Producer
  <2>3. lent' \subseteq Buffer
    BY <1>1, <1>2 DEF Inv, TypeOK
  <2>4. QED
    BY <1>3, <1>4, <1>5, <2>1, <2>2, <2>3 DEF processData, Inv, TypeOK
<1>8. Parted'
  BY <1>1, <1>2, <1>3, <1>4, <1>5, <1>6, HeldBuffers DEF Inv, Parted
<1>9. EveryLentBufferIsHeld' /\ NoneReturnedTwice'
  <2>1. Held' = Held \cup {frame}
    BY <1>1, <1>3, <1>4, <1>5, <1>6, HeldBuffers DEF AllFormats
  <2>2. QED
    BY <1>2, <1>6, <2>1 DEF Inv, EveryLentBufferIsHeld, NoneReturnedTwice
<1>10. Distinct'
  BY <1>3, <1>4, <1>5 DEF processData, Inv, Distinct, Once
<1>11. Commands' /\ OneJob' /\ Reprocessing'
  BY SameCommands, SameJob DEF processData, Inv, Reprocessing
<1>12. QED
  BY <1>7, <1>8, <1>9, <1>10, <1>11 DEF Inv

\* A frame was expected, so an ongoing job waits for it: the frame joins that job, or
\* replaces its source, which is released.
LEMMA ProcessPPDataInv ==
  ASSUME Inv, NEW frame \in ReprocFrame, processPPData(frame)
  PROVE  Inv'
<1> DEFINE source == Head(m_ongoingPPQ)
           job == [id |-> 0, bufs |-> {frame} \cup {source}]
<1>1. /\ m_ongoingPPQ \in Seq(Frame) /\ m_ongoingPPQ # <<>> /\ first(m_ongoingPPQ) = {source}
      /\ reprocessing \in Nat /\ reprocessing > 0 /\ reprocessing' = reprocessing - 1
  BY EmptySeq DEF processPPData, first, Inv, TypeOK, Reprocessing
<1>2. /\ m_ongoingPPQ' = rest(m_ongoingPPQ) /\ m_ongoingPPQ' \in Seq(Frame)
      /\ Once(m_ongoingPPQ)' /\ OngoingPP' = OngoingPP \ {source} /\ source \in OngoingPP
      /\ source \in Frame
  <2>1. Once(m_ongoingPPQ)
    BY DEF Inv, Distinct
  <2>2. m_ongoingPPQ' = rest(m_ongoingPPQ)
    BY DEF processPPData
  <2>3. QED
    BY <1>1, <2>1, <2>2, RestOfBuffers DEF OngoingPP, Once
<1> HIDE DEF source
<1>3. frame \notin Held \cup unwanted /\ frame # source /\ frame \in Buffer /\ source \in Held
  BY <1>2, HeldBuffers DEF processPPData, Inv, EveryLentBufferIsHeld, Buffer
<1>4. job \in Job /\ job.bufs = {frame, source}
  BY <1>2, <1>3 DEF Job, Buffer
<1>5. /\ m_inputRawQ' \in Seq(Buffer) /\ Once(m_inputRawQ)'
      /\ InRaw' = IF format = "nv16" THEN InRaw \cup {frame} ELSE InRaw
  <2>1. m_inputRawQ \in Seq(Buffer) /\ Once(m_inputRawQ) /\ frame \notin Range(m_inputRawQ)
    BY <1>3, HeldBuffers DEF Inv, TypeOK, Distinct, InRaw
  <2>2. CASE format = "nv16"
    <3>1. m_inputRawQ' = Append(m_inputRawQ, frame)
      BY <1>1, <2>2 DEF processPPData
    <3>2. QED
      BY <1>3, <2>1, <2>2, <3>1, OneBufferMore DEF InRaw, Once
  <2>3. CASE format # "nv16"
    BY <2>1, <2>3 DEF processPPData, InRaw, Once
  <2>4. QED
    BY <2>2, <2>3
<1>6. /\ m_inputJpegQ' \in Seq(Job) /\ Disjoint(m_inputJpegQ)'
      /\ InJpeg' = IF format = "nv16" THEN InJpeg ELSE InJpeg \cup {frame, source}
  <2>1. CASE format # "nv16"
    <3>1. m_inputJpegQ' = Append(m_inputJpegQ, job) /\ m_inputJpegQ \in Seq(Job)
      BY <1>1, <2>1 DEF processPPData, Inv, TypeOK
    <3>2. job.bufs \cap bufsOf(Range(m_inputJpegQ)) = {} /\ Disjoint(m_inputJpegQ)
      BY <1>2, <1>3, <1>4, HeldBuffers DEF Inv, Distinct, Parted, InJpeg
    <3> HIDE DEF job
    <3>3. /\ Append(m_inputJpegQ, job) \in Seq(Job) /\ Disjoint(Append(m_inputJpegQ, job))
          /\ bufsOf(Range(Append(m_inputJpegQ, job))) = InJpeg \cup {frame, source}
      BY <1>4, <3>1, <3>2, OneJobMore DEF InJpeg
    <3>4. QED
      BY <2>1, <3>1, <3>3 DEF InJpeg, Disjoint
  <2>2. CASE format = "nv16"
    BY <2>2 DEF processPPData, Inv, TypeOK, Distinct, InJpeg, Disjoint
  <2>3. QED
    BY <2>1, <2>2
<1>7. /\ lent' = IF format = "nv16" THEN (lent \cup {frame}) \ {source} ELSE lent \cup {frame}
      /\ returnedTwice' = {}
  BY <1>1, <1>3 DEF processPPData, Inv, NoneReturnedTwice, EveryLentBufferIsHeld
<1>8. /\ InPP' = InPP /\ OngoingJpeg' = OngoingJpeg
      /\ UNCHANGED <<notifying, unwanted>>
  BY DEF processPPData, history, InPP, OngoingJpeg
<1>9. TypeOK'
  <2>1. owed' \in [Producer -> 0 .. 2]
    <3>1. Cardinality({source}) = 1
      BY FS_Singleton
    <3>2. owed' = [owed EXCEPT !["reprocess"] = 1]
      BY <1>1, <3>1 DEF processPPData
    <3>3. QED
      BY <3>2 DEF Inv, TypeOK, Producer
  <2>2. reprocessing' \in Nat /\ lent' \subseteq Buffer /\ returnedTwice' \subseteq Buffer
    BY <1>1, <1>3, <1>7 DEF Inv, TypeOK
  <2>3. QED
    BY <1>2, <1>5, <1>6, <2>1, <2>2 DEF processPPData, history, Inv, TypeOK
<1>10. Parted'
  BY <1>2, <1>3, <1>5, <1>6, <1>8, HeldBuffers DEF Inv, Parted
<1>11. EveryLentBufferIsHeld' /\ NoneReturnedTwice'
  <2>1. Held' = IF format = "nv16" THEN (Held \cup {frame}) \ {source} ELSE Held \cup {frame}
    BY <1>2, <1>3, <1>5, <1>6, <1>8, HeldBuffers DEF Inv, Parted
  <2>2. source \notin unwanted
    BY <1>2 DEF Inv, Parted
  <2>3. QED
    BY <1>7, <1>8, <2>1, <2>2 DEF Inv, EveryLentBufferIsHeld, NoneReturnedTwice
<1>12. Distinct'
  BY <1>2, <1>5, <1>6 DEF processPPData, Inv, Distinct, Once
<1>13. Commands' /\ OneJob'
  BY SameCommands, SameJob DEF processPPData
<1>14. Reprocessing'
  <2>1. Len(rest(m_ongoingPPQ)) = Len(m_ongoingPPQ) - 1
    BY <1>1 DEF rest
  <2>2. QED
    BY <1>1, <1>2, <2>1 DEF processPPData, Inv, Reprocessing
<1>15. QED
  BY <1>9, <1>10, <1>11, <1>12, <1>13, <1>14 DEF Inv

\* A DO_NEXT_JOB is added behind the commands there are.
LEMMA SendNextJobInv ==
  ASSUME Inv, NEW p \in Producer, sendNextJob(p)
  PROVE  Inv'
<1>1. owed' \in [Producer -> 0 .. 2]
  BY DEF sendNextJob, Inv, TypeOK
<1>2. TypeOK'
  BY <1>1, NextJobQueued DEF sendNextJob, keep, queues, history, Inv, TypeOK
<1>3. EveryLentBufferIsHeld' /\ NoneReturnedTwice' /\ Parted' /\ Distinct'
  BY SameBuffers DEF sendNextJob, keep
<1>4. Commands'
  BY NextJobQueued DEF sendNextJob, Inv, Commands
<1>5. OneJob' /\ Reprocessing'
  BY SameJob DEF sendNextJob, queues, Inv, Reprocessing
<1>6. QED
  BY <1>2, <1>3, <1>4, <1>5 DEF Inv

-----------------------------------------------------------------------------
(* The steps of dataProcessRoutine.                                        *)

\* The thread becomes active for the capture whose START was queued.
LEMMA CmdStartInv == ASSUME Inv, CmdStart PROVE Inv'
<1>1. /\ Queued("START_DATA_PROC") /\ ~ Queued("START_DATA_PROC")'
      /\ ~ Queued("STOP_DATA_PROC")' /\ dataProc = "idle"
      /\ cmd_queue' \in Seq({"START_DATA_PROC", "STOP_DATA_PROC", "DO_NEXT_JOB"})
  BY CmdTaken DEF CmdStart
<1>2. capturing /\ machine = "free" /\ ~ is_active /\ jpegEvts = <<>>
  BY <1>1 DEF Inv, Commands
<1>3. TypeOK'
  BY <1>1 DEF CmdStart, getCmd, keep, queues, history, Inv, TypeOK
<1>4. EveryLentBufferIsHeld' /\ NoneReturnedTwice' /\ Parted' /\ Distinct'
  BY SameBuffers DEF CmdStart, getCmd, keep
<1>5. Commands'
  BY <1>1, <1>2 DEF CmdStart, getCmd, Inv, Commands, Queued
<1>6. OneJob'
  BY <1>1, <1>2 DEF CmdStart, getCmd, queues, Inv, OneJob
<1>7. Reprocessing'
  BY DEF CmdStart, getCmd, queues, Inv, Reprocessing
<1>8. QED
  BY <1>3, <1>4, <1>5, <1>6, <1>7 DEF Inv

\* The ongoing jobs are released when the encoder has none of them any more.
LEMMA CmdStopInv == ASSUME Inv, CmdStop PROVE Inv'
<1>1. /\ Queued("STOP_DATA_PROC") /\ ~ Queued("STOP_DATA_PROC")'
      /\ Queued("START_DATA_PROC")' => Queued("START_DATA_PROC")
      /\ cmd_queue' \in Seq({"START_DATA_PROC", "STOP_DATA_PROC", "DO_NEXT_JOB"})
  BY CmdTaken DEF CmdStop
<1>2. machine = "stopping" /\ ~ Queued("START_DATA_PROC")' /\ capturing
  BY <1>1 DEF Inv, Commands
<1>3. m_ongoingJpegQ' = <<>> /\ OngoingJpeg' = {}
  BY FewJobs DEF CmdStop, OngoingJpeg
<1>4. /\ InPP' = InPP /\ OngoingPP' = OngoingPP /\ InRaw' = InRaw /\ InJpeg' = InJpeg
      /\ UNCHANGED <<notifying, unwanted>>
  BY DEF CmdStop, getCmd, InPP, OngoingPP, InRaw, InJpeg
<1>5. /\ lent' = (Held \cup unwanted) \ OngoingJpeg /\ NoneReturnedTwice'
      /\ lent' \subseteq Buffer /\ returnedTwice' \subseteq Buffer
  BY Released, HeldBuffers DEF CmdStop, OngoingJpeg
<1>6. TypeOK'
  BY <1>1, <1>3, <1>5, FewJobs DEF CmdStop, getCmd, history, Inv, TypeOK
<1>7. Parted'
  BY <1>3, <1>4 DEF Inv, Parted
<1>8. EveryLentBufferIsHeld'
  <2>1. Held' = Held \ OngoingJpeg /\ OngoingJpeg \cap unwanted = {}
    BY <1>3, <1>4, HeldBuffers DEF Inv, Parted
  <2>2. QED
    BY <1>4, <1>5, <2>1 DEF EveryLentBufferIsHeld
<1>9. Distinct' /\ Reprocessing'
  BY DEF CmdStop, getCmd, Inv, Distinct, Reprocessing
<1>10. Commands'
  BY <1>1, <1>2 DEF CmdStop, getCmd, Commands, Queued
<1>11. OneJob'
  BY <1>3, FewJobs DEF CmdStop, getCmd, Inv, OneJob
<1>12. QED
  BY <1>5, <1>6, <1>7, <1>8, <1>9, <1>10, <1>11 DEF Inv

\* The queues are emptied and all that was in them is released.
LEMMA CmdStopFlushInv == ASSUME Inv, CmdStopFlush PROVE Inv'
<1> DEFINE flushed == OngoingPP \cup InJpeg \cup InPP \cup InRaw
<1>1. /\ dataProc = "stop" /\ dataProc' = "idle"
      /\ machine = "stopping" /\ machine' = "stopped" /\ capturing /\ capturing'
      /\ ~ Queued("START_DATA_PROC") /\ ~ Queued("STOP_DATA_PROC") /\ ~ is_active
      /\ UNCHANGED <<cmd_queue, is_active>>
  BY DEF CmdStopFlush, Inv, Commands
<1>2. /\ m_inputPPQ' = <<>> /\ m_ongoingPPQ' = <<>> /\ m_inputRawQ' = <<>>
      /\ m_inputJpegQ' = <<>>
      /\ InPP' = {} /\ OngoingPP' = {} /\ InRaw' = {} /\ InJpeg' = {}
      /\ OngoingJpeg' = OngoingJpeg /\ UNCHANGED <<notifying, unwanted>>
  BY NoBuffer, FewJobs DEF CmdStopFlush, InPP, OngoingPP, InRaw, InJpeg, OngoingJpeg
<1>3. release(flushed) /\ flushed \subseteq Held
  BY HeldBuffers DEF CmdStopFlush, InPP, OngoingPP, InRaw, InJpeg
<1>4. /\ lent' = (Held \cup unwanted) \ flushed /\ NoneReturnedTwice'
      /\ lent' \subseteq Buffer /\ returnedTwice' \subseteq Buffer
  BY <1>3, Released
<1>5. TypeOK'
  BY <1>2, <1>4, NoBuffer, FewJobs DEF CmdStopFlush, history, Inv, TypeOK
<1>6. Parted'
  BY <1>2 DEF Inv, Parted
<1>7. EveryLentBufferIsHeld'
  <2>1. Held' = Held \ flushed /\ flushed \cap unwanted = {}
    BY <1>2, HeldBuffers DEF Inv, Parted
  <2>2. QED
    BY <1>2, <1>4, <2>1 DEF EveryLentBufferIsHeld
<1>8. Distinct'
  BY <1>2, NoBuffer, FewJobs DEF Distinct, Once, Disjoint
<1>9. Reprocessing'
  BY <1>2, FewJobs DEF CmdStopFlush, Reprocessing
<1>10. Commands'
  BY <1>1 DEF Commands, Queued
<1>11. OneJob'
  BY <1>1 DEF CmdStopFlush, Inv, OneJob
<1>12. QED
  BY <1>4, <1>5, <1>6, <1>7, <1>8, <1>9, <1>10, <1>11 DEF Inv

\* What a DO_NEXT_JOB leaves of the commands.
LEMMA NextJobTaken ==
  ASSUME Inv, getCmd("DO_NEXT_JOB"), UNCHANGED <<is_active, machine>>,
         dataProc' = "idle" \/ (is_active /\ dataProc' \in {"encode", "rest"})
  PROVE  Commands'
<1>1. /\ ~ Queued("STOP_DATA_PROC")' /\ ~ Queued("STOP_DATA_PROC") /\ dataProc = "idle"
      /\ Queued("START_DATA_PROC")' => Queued("START_DATA_PROC")
      /\ \A i, k \in DOMAIN cmd_queue' :
            cmd_queue'[i] = "START_DATA_PROC" /\ cmd_queue'[k] = "START_DATA_PROC" => i = k
  BY CmdTaken
<1>2. \A i \in DOMAIN cmd_queue' : cmd_queue'[i] # "STOP_DATA_PROC"
  BY <1>1 DEF Queued
<1>3. QED
  BY <1>1, <1>2 DEF getCmd, Inv, Commands

\* What is taken from the input queues is released.
LEMMA CmdNextJobInactiveInv == ASSUME Inv, CmdNextJobInactive PROVE Inv'
<1> DEFINE returned == bufsOf(first(m_inputJpegQ)) \cup first(m_inputRawQ)
                         \cup first(m_inputPPQ)
<1>1. /\ m_inputPPQ' \in Seq(Frame) /\ Once(m_inputPPQ)'
      /\ InPP' = InPP \ first(m_inputPPQ) /\ first(m_inputPPQ) \subseteq InPP
  BY RestOfBuffers DEF CmdNextJobInactive, Inv, TypeOK, Distinct, InPP, Once
<1>2. /\ m_inputRawQ' \in Seq(Buffer) /\ Once(m_inputRawQ)'
      /\ InRaw' = InRaw \ first(m_inputRawQ) /\ first(m_inputRawQ) \subseteq InRaw
  BY RestOfBuffers DEF CmdNextJobInactive, Inv, TypeOK, Distinct, InRaw, Once
<1>3. /\ m_inputJpegQ' \in Seq(Job) /\ Disjoint(m_inputJpegQ)'
      /\ InJpeg' = InJpeg \ bufsOf(first(m_inputJpegQ))
      /\ bufsOf(first(m_inputJpegQ)) \subseteq InJpeg
  BY RestOfJobs DEF CmdNextJobInactive, Inv, TypeOK, Distinct, InJpeg, Disjoint
<1>4. /\ OngoingPP' = OngoingPP /\ OngoingJpeg' = OngoingJpeg
      /\ UNCHANGED <<notifying, unwanted>>
  BY DEF CmdNextJobInactive, getCmd, OngoingPP, OngoingJpeg
<1>5. release(returned) /\ returned \subseteq Held
  BY <1>1, <1>2, <1>3, HeldBuffers DEF CmdNextJobInactive
<1>6. /\ lent' = (Held \cup unwanted) \ returned /\ NoneReturnedTwice'
      /\ lent' \subseteq Buffer /\ returnedTwice' \subseteq Buffer
  BY <1>5, Released
<1>7. TypeOK'
  BY <1>1, <1>2, <1>3, <1>6, CmdTaken DEF CmdNextJobInactive, getCmd, history, Inv, TypeOK
<1>8. Parted'
  BY <1>1, <1>2, <1>3, <1>4 DEF Inv, Parted
<1>9. EveryLentBufferIsHeld'
  <2>1. Held' = Held \ returned /\ returned \cap unwanted = {}
    BY <1>1, <1>2, <1>3, <1>4, HeldBuffers DEF Inv, Parted
  <2>2. QED
    BY <1>4, <1>6, <2>1 DEF EveryLentBufferIsHeld
<1>10. Distinct'
  BY <1>1, <1>2, <1>3 DEF CmdNextJobInactive, Inv, Distinct, Once
<1>11. Commands'
  BY NextJobTaken DEF CmdNextJobInactive, getCmd
<1>12. OneJob' /\ Reprocessing'
  BY SameJob DEF CmdNextJobInactive, getCmd, Inv, Reprocessing
<1>13. QED
  BY <1>6, <1>7, <1>8, <1>9, <1>10, <1>11, <1>12 DEF Inv

\* The job that is taken is the only ongoing one, since there was none.
LEMMA CmdNextJobInv == ASSUME Inv, CmdNextJob PROVE Inv'
<1>1. /\ cmd_queue' \in Seq({"START_DATA_PROC", "STOP_DATA_PROC", "DO_NEXT_JOB"})
      /\ dataProc = "idle" /\ Commands'
  BY CmdTaken, NextJobTaken DEF CmdNextJob
<1>2. CASE m_ongoingJpegQ = <<>> /\ m_inputJpegQ # <<>>
  <2> DEFINE job == Head(m_inputJpegQ)
  <2>1. /\ m_inputJpegQ \in Seq(Job) /\ job \in Job /\ first(m_inputJpegQ) = {job}
        /\ rest(m_inputJpegQ) = Tail(m_inputJpegQ)
    BY <1>2 DEF rest, first, Inv, TypeOK
  <2>2. /\ m_inputJpegQ' = rest(m_inputJpegQ) /\ m_ongoingJpegQ' = <<job>> /\ jpegJob' = job
        /\ dataProc' = "encode"
        /\ UNCHANGED <<m_inputPPQ, m_ongoingPPQ, m_inputRawQ, notifying, unwanted>>
    BY <1>2, <2>1 DEF CmdNextJob, getCmd
  <2> HIDE DEF job
  <2>3. bufsOf({job}) = job.bufs /\ bufsOf(Range(<<job>>)) = job.bufs
    BY <2>1, FewJobs
  <2>4. /\ m_inputJpegQ' \in Seq(Job) /\ Disjoint(m_inputJpegQ)'
        /\ InJpeg' = InJpeg \ job.bufs /\ job.bufs \subseteq InJpeg
    BY <2>1, <2>2, <2>3, RestOfJobs DEF Inv, Distinct, InJpeg, Disjoint
  <2>5. OngoingJpeg' = job.bufs /\ OngoingJpeg = {}
    BY <1>2, <2>2, <2>3, FewJobs DEF OngoingJpeg
  <2>6. InPP' = InPP /\ OngoingPP' = OngoingPP /\ InRaw' = InRaw
    BY <2>2 DEF InPP, OngoingPP, InRaw
  <2>7. TypeOK'
    BY <1>1, <2>1, <2>2, <2>4, FewJobs DEF CmdNextJob, getCmd, keep, history, Inv, TypeOK
  <2>8. Parted'
    BY <2>2, <2>4, <2>5, <2>6 DEF Inv, Parted
  <2>9. EveryLentBufferIsHeld' /\ NoneReturnedTwice'
    <3>1. Held' = Held
      BY <2>2, <2>4, <2>5, <2>6, HeldBuffers
    <3>2. QED
      BY <2>2, <3>1 DEF CmdNextJob, keep, Inv, EveryLentBufferIsHeld, NoneReturnedTwice
  <2>10. Distinct'
    BY <2>2, <2>4 DEF Inv, Distinct, Once
  <2>11. OneJob'
    <3>1. /\ encoder = {} /\ jpegEvts = <<>> /\ is_active
          /\ UNCHANGED <<encoder, jpegEvts, is_active>>
      BY <1>2 DEF CmdNextJob, getCmd, Inv, OneJob
    <3>2. QED
      BY <2>1, <2>2, <3>1, FewJobs DEF Inv, OneJob
  <2>12. Reprocessing'
    BY DEF CmdNextJob, getCmd, Inv, Reprocessing
  <2>13. QED
    BY <1>1, <2>7, <2>8, <2>9, <2>10, <2>11, <2>12 DEF Inv
<1>3. CASE ~ (m_ongoingJpegQ = <<>> /\ m_inputJpegQ # <<>>)
  <2>1. dataProc' = "rest" /\ UNCHANGED <<queues, jpegJob>>
    BY <1>3 DEF CmdNextJob, queues
  <2>2. TypeOK'
    BY <1>1, <2>1 DEF CmdNextJob, getCmd, keep, queues, history, Inv, TypeOK
  <2>3. EveryLentBufferIsHeld' /\ NoneReturnedTwice' /\ Parted' /\ Distinct'
    BY <2>1, SameBuffers DEF CmdNextJob, getCmd, keep
  <2>4. OneJob' /\ Reprocessing'
    BY <1>1, <2>1 DEF CmdNextJob, getCmd, queues, Inv, OneJob, Reprocessing
  <2>5. QED
    BY <1>1, <2>2, <2>3, <2>4 DEF Inv
<1>4. QED
  BY <1>2, <1>3

\* The ongoing job gets its id and is the one job of the encoder.
LEMMA EncodeDataInv == ASSUME Inv, encodeData PROVE Inv'
<1> DEFINE started == [jpegJob EXCEPT !.id = jobs + 1]
<1>1. /\ dataProc = "encode" /\ dataProc' = "rest" /\ is_active /\ jpegJob \in Job
      /\ m_ongoingJpegQ = <<jpegJob>> /\ encoder = {} /\ jpegEvts = <<>>
  BY DEF encodeData, Inv, TypeOK, Commands, OneJob
<1>2. started \in Job /\ started.bufs = jpegJob.bufs /\ NoJob \in Job
  <2>1. jobs + 1 \in Nat /\ jpegJob \in Job
    BY <1>1 DEF Inv, TypeOK
  <2>2. \A n \in Nat : /\ [jpegJob EXCEPT !.id = n] \in Job
                       /\ [jpegJob EXCEPT !.id = n].bufs = jpegJob.bufs
    BY <2>1 DEF Job
  <2>3. NoJob \in Job
    BY DEF NoJob, Job
  <2>4. QED
    BY <2>1, <2>2, <2>3
<1>3. /\ m_ongoingJpegQ' = <<started>> /\ encoder' = {started}
      /\ jpegJob' = NoJob /\ jobs' \in Nat
  <2>1. [i \in DOMAIN <<jpegJob>> |-> started] = <<started>>
    OBVIOUS
  <2>2. QED
    BY <1>1, <2>1 DEF encodeData, Inv, TypeOK
<1> HIDE DEF started
<1>4. OngoingJpeg' = OngoingJpeg
  BY <1>1, <1>2, <1>3, FewJobs DEF OngoingJpeg
<1>5. /\ InPP' = InPP /\ OngoingPP' = OngoingPP /\ InRaw' = InRaw /\ InJpeg' = InJpeg
      /\ UNCHANGED <<notifying, unwanted>>
  BY DEF encodeData, InPP, OngoingPP, InRaw, InJpeg
<1>6. TypeOK'
  BY <1>1, <1>2, <1>3, FewJobs DEF encodeData, keep, Inv, TypeOK
<1>7. Parted'
  BY <1>4, <1>5 DEF Inv, Parted
<1>8. EveryLentBufferIsHeld' /\ NoneReturnedTwice'
  <2>1. Held' = Held
    BY <1>4, <1>5, HeldBuffers
  <2>2. QED
    BY <1>5, <2>1 DEF encodeData, keep, Inv, EveryLentBufferIsHeld, NoneReturnedTwice
<1>9. Distinct' /\ Reprocessing'
  BY DEF encodeData, Inv, Distinct, Reprocessing
<1>10. Commands'
  BY <1>1 DEF encodeData, Inv, Commands, Queued
<1>11. OneJob'
  BY <1>1, <1>2, <1>3, FewJobs DEF encodeData, Inv, OneJob
<1>12. QED
  BY <1>6, <1>7, <1>8, <1>9, <1>10, <1>11 DEF Inv

\* The job at the end of the ongoing queue is the one that failed.
LEMMA EncodeDataFailsInv == ASSUME Inv, encodeDataFails PROVE Inv'
<1>1. /\ dataProc = "encode" /\ dataProc' = "rest" /\ is_active /\ jpegJob \in Job
      /\ m_ongoingJpegQ = <<jpegJob>> /\ encoder = {} /\ jpegEvts = <<>>
  BY DEF encodeDataFails, Inv, TypeOK, Commands, OneJob
<1>2. m_ongoingJpegQ' = <<>> /\ jpegJob' = NoJob /\ NoJob \in Job
  <2>1. Front(<<jpegJob>>) = <<>>
    BY DEF Front
  <2>2. QED
    BY <1>1, <2>1, FewJobs DEF encodeDataFails, NoJob, Job
<1>3. OngoingJpeg = jpegJob.bufs /\ OngoingJpeg' = {}
  BY <1>1, <1>2, FewJobs DEF OngoingJpeg
<1>4. /\ InPP' = InPP /\ OngoingPP' = OngoingPP /\ InRaw' = InRaw /\ InJpeg' = InJpeg
      /\ UNCHANGED <<notifying, unwanted>>
  BY DEF encodeDataFails, InPP, OngoingPP, InRaw, InJpeg
<1>5. /\ lent' = (Held \cup unwanted) \ OngoingJpeg /\ NoneReturnedTwice'
      /\ lent' \subseteq Buffer /\ returnedTwice' \subseteq Buffer
  BY <1>3, Released, HeldBuffers DEF encodeDataFails
<1>6. TypeOK'
  BY <1>1, <1>2, <1>5, FewJobs DEF encodeDataFails, Inv, TypeOK
<1>7. Parted'
  BY <1>3, <1>4 DEF Inv, Parted
<1>8. EveryLentBufferIsHeld'
  <2>1. Held' = Held \ OngoingJpeg /\ OngoingJpeg \cap unwanted = {}
    BY <1>3, <1>4, HeldBuffers DEF Inv, Parted
  <2>2. QED
    BY <1>4, <1>5, <2>1 DEF EveryLentBufferIsHeld
<1>9. Distinct' /\ Reprocessing'
  BY DEF encodeDataFails, Inv, Distinct, Reprocessing
<1>10. Commands'
  BY <1>1 DEF encodeDataFails, Inv, Commands, Queued
<1>11. OneJob'
  BY <1>1, <1>2, FewJobs DEF encodeDataFails, Inv, OneJob
<1>12. QED
  BY <1>5, <1>6, <1>7, <1>8, <1>9, <1>10, <1>11 DEF Inv

\* A raw frame goes to the notifier, is released or is unwanted, one to reprocess joins
\* the ongoing jobs or is released.
LEMMA ProcessRawAndReprocessInv == ASSUME Inv, processRawAndReprocess PROVE Inv'
<1> DEFINE raw == first(m_inputRawQ)
           pp == first(m_inputPPQ)
<1>1. PICK outcome \in rawOutcomes(raw), sent \in reprocessOutcomes(pp) :
         /\ notifying' = notifying \cup outcome.sent
         /\ unwanted' = unwanted \cup outcome.unwanted
         /\ release(outcome.released \cup (pp \ sent))
         /\ m_ongoingPPQ' = m_ongoingPPQ \o SetToSeq(sent)
         /\ reprocessing' = reprocessing + Cardinality(sent)
  BY DEF processRawAndReprocess
<1>2. /\ dataProc = "rest" /\ dataProc' = "idle" /\ is_active /\ capturing
      /\ machine # "stopped"
  BY DEF processRawAndReprocess, Inv, Commands, Queued
<1>3. /\ m_inputPPQ' \in Seq(Frame) /\ Once(m_inputPPQ)'
      /\ InPP' = InPP \ pp /\ pp \subseteq InPP /\ InPP \subseteq Frame
  BY RestOfBuffers DEF processRawAndReprocess, Inv, TypeOK, Distinct, InPP, Once
<1>4. /\ m_inputRawQ' \in Seq(Buffer) /\ Once(m_inputRawQ)'
      /\ InRaw' = InRaw \ raw /\ raw \subseteq InRaw
  BY RestOfBuffers DEF processRawAndReprocess, Inv, TypeOK, Distinct, InRaw, Once
<1>5. sent = {} \/ \E frame \in pp : sent = {frame}
  BY DEF reprocessOutcomes, first
<1>6. /\ m_ongoingPPQ' \in Seq(Frame) /\ Once(m_ongoingPPQ)'
      /\ OngoingPP' = OngoingPP \cup sent /\ sent \subseteq pp
      /\ reprocessing' = Len(m_ongoingPPQ') /\ reprocessing' \in Nat
  <2>1. m_ongoingPPQ \in Seq(Frame) /\ Once(m_ongoingPPQ) /\ reprocessing = Len(m_ongoingPPQ)
    BY DEF Inv, TypeOK, Distinct, Reprocessing
  <2>2. CASE sent = {}
    <3>1. SetToSeq(sent) = <<>> /\ Cardinality(sent) = 0
      BY <2>2, SetToSeqOfFew, FS_EmptySet
    <3>2. m_ongoingPPQ' = m_ongoingPPQ /\ reprocessing' = reprocessing
      BY <1>1, <2>1, <3>1
    <3>3. QED
      BY <2>1, <2>2, <3>2 DEF OngoingPP, Once
  <2>3. CASE sent # {}
    <3>1. PICK frame \in pp : sent = {frame}
      BY <1>5, <2>3
    <3>2. SetToSeq(sent) = <<frame>> /\ Cardinality(sent) = 1
      BY <3>1, SetToSeqOfFew, FS_Singleton
    <3>3. /\ m_ongoingPPQ' = Append(m_ongoingPPQ, frame)
          /\ reprocessing' = Len(Append(m_ongoingPPQ, frame))
      BY <1>1, <2>1, <3>2
    <3>4. frame \in Frame /\ frame \notin Range(m_ongoingPPQ)
      BY <1>3 DEF Inv, Parted, OngoingPP
    <3>5. QED
      BY <2>1, <3>1, <3>3, <3>4, OneBufferMore DEF OngoingPP, Once
  <2>4. QED
    BY <2>2, <2>3
<1>7. /\ outcome.sent \cup outcome.unwanted \cup outcome.released = raw
      /\ outcome.sent \cap outcome.unwanted = {}
      /\ outcome.released \cap (outcome.sent \cup outcome.unwanted) = {}
      /\ outcome.sent \subseteq Frame /\ outcome.unwanted \subseteq Frame
  BY DEF rawOutcomes
<1> DEFINE returned == outcome.released \cup (pp \ sent)
<1> HIDE DEF raw, pp
<1>8. OngoingJpeg' = OngoingJpeg /\ InJpeg' = InJpeg
  BY DEF processRawAndReprocess, OngoingJpeg, InJpeg
<1>9. returned \subseteq Held
  BY <1>3, <1>4, <1>7, HeldBuffers
<1>10. /\ lent' = (Held \cup unwanted) \ returned /\ NoneReturnedTwice'
       /\ lent' \subseteq Buffer /\ returnedTwice' \subseteq Buffer
  BY <1>1, <1>9, Released
<1>11. TypeOK'
  <2>1. notifying' \subseteq Frame /\ unwanted' \subseteq Frame
    BY <1>1, <1>7 DEF Inv, TypeOK
  <2>2. QED
    BY <1>2, <1>3, <1>4, <1>6, <1>10, <2>1 DEF processRawAndReprocess, history, Inv, TypeOK
<1>12. Parted'
  BY <1>1, <1>3, <1>4, <1>6, <1>7, <1>8 DEF Inv, Parted
<1>13. EveryLentBufferIsHeld'
  <2>1. (Held \cup unwanted)' = (Held \cup unwanted) \ returned
    BY <1>1, <1>3, <1>4, <1>6, <1>7, <1>8, HeldBuffers DEF Inv, Parted
  <2>2. QED
    BY <1>10, <2>1 DEF EveryLentBufferIsHeld
<1>14. Distinct'
  BY <1>3, <1>4, <1>6 DEF processRawAndReprocess, Inv, Distinct
<1>15. Commands'
  BY <1>2 DEF processRawAndReprocess, Inv, Commands, Queued
<1>16. OneJob'
  BY <1>2 DEF processRawAndReprocess, Inv, OneJob
<1>17. Reprocessing'
  BY <1>2, <1>6 DEF processRawAndReprocess, Reprocessing
<1>18. QED
  BY <1>10, <1>11, <1>12, <1>13, <1>14, <1>15, <1>16, <1>17 DEF Inv

-----------------------------------------------------------------------------
(* The encoder and the notifier.                                           *)

\* The job is done, and stays in the ongoing queue until its event is handled.
LEMMA JpegEvtHandleInv ==
  ASSUME Inv, NEW job, jpegEvtHandle(job)
  PROVE  Inv'
<1>1. /\ m_ongoingJpegQ # <<>> /\ encoder = {job} /\ encoder' = {}
      /\ jpegEvts = <<>> /\ dataProc # "encode" /\ is_active
  BY DEF jpegEvtHandle, Inv, OneJob
<1>2. job \in Job
  BY <1>1 DEF Inv, TypeOK
<1>3. jpegEvts' = <<job.id>> /\ jpegEvts' \in Seq(Nat) /\ Len(jpegEvts') = 1
  BY <1>1, <1>2 DEF jpegEvtHandle, Job
<1>4. TypeOK'
  BY <1>1, <1>3 DEF jpegEvtHandle, keep, queues, history, Inv, TypeOK
<1>5. EveryLentBufferIsHeld' /\ NoneReturnedTwice' /\ Parted' /\ Distinct'
  BY SameBuffers DEF jpegEvtHandle, keep
<1>6. Commands'
  BY <1>1 DEF jpegEvtHandle, Inv, Commands, Queued
<1>7. OneJob'
  BY <1>1, <1>3 DEF jpegEvtHandle, queues, Inv, OneJob
<1>8. Reprocessing'
  BY DEF jpegEvtHandle, queues, Inv, Reprocessing
<1>9. QED
  BY <1>4, <1>5, <1>6, <1>7, <1>8 DEF Inv

\* The notifier returns a frame that is in no queue.
LEMMA ReleaseNotifyDataInv ==
  ASSUME Inv, NEW buf, releaseNotifyData(buf)
  PROVE  Inv'
<1>1. buf \in notifying /\ notifying' = notifying \ {buf} /\ UNCHANGED <<queues, unwanted>>
  BY DEF releaseNotifyData
<1>2. /\ lent' = (Held \cup unwanted) \ {buf} /\ NoneReturnedTwice'
      /\ lent' \subseteq Buffer /\ returnedTwice' \subseteq Buffer
  BY <1>1, Released, HeldBuffers DEF releaseNotifyData
<1>3. /\ InPP' = InPP /\ OngoingPP' = OngoingPP /\ InRaw' = InRaw
      /\ InJpeg' = InJpeg /\ OngoingJpeg' = OngoingJpeg
  BY <1>1 DEF queues, InPP, OngoingPP, InRaw, InJpeg, OngoingJpeg
<1>4. TypeOK'
  BY <1>1, <1>2 DEF releaseNotifyData, queues, history, Inv, TypeOK
<1>5. Parted'
  BY <1>1, <1>3 DEF Inv, Parted
<1>6. EveryLentBufferIsHeld'
  <2>1. Held' = Held \ {buf} /\ buf \notin unwanted
    BY <1>1, <1>3, HeldBuffers DEF Inv, Parted
  <2>2. QED
    BY <1>1, <1>2, <2>1 DEF EveryLentBufferIsHeld
<1>7. Distinct' /\ Reprocessing'
  BY DEF releaseNotifyData, queues, Inv, Distinct, Reprocessing
<1>8. Commands' /\ OneJob'
  BY SameCommands, SameJob DEF releaseNotifyData, queues
<1>9. QED
  BY <1>2, <1>4, <1>5, <1>6, <1>7, <1>8 DEF Inv

-----------------------------------------------------------------------------
(* The invariant, and what follows from it.                                *)

\* The invariant holds initially,
LEMMA InitInv == ASSUME Init PROVE Inv
<1>1. /\ m_inputPPQ = <<>> /\ m_ongoingPPQ = <<>> /\ m_inputRawQ = <<>>
      /\ m_inputJpegQ = <<>> /\ m_ongoingJpegQ = <<>> /\ cmd_queue = <<>> /\ jpegEvts = <<>>
  BY DEF Init
<1>2. Held = {} /\ InPP = {} /\ OngoingPP = {} /\ InRaw = {} /\ InJpeg = {} /\ OngoingJpeg = {}
  BY <1>1, NoBuffer, FewJobs, HeldBuffers
     DEF Init, InPP, OngoingPP, InRaw, InJpeg, OngoingJpeg
<1>3. TypeOK
  <2>1. 0 \in 0 .. MaxCaptures /\ 0 \in 0 .. Burst /\ 0 \in 0 .. 2 /\ 0 \in Nat
    BY Bounds
  <2>2. NoJob \in Job
    BY DEF NoJob, Job
  <2>3. /\ \A S : <<>> \in Seq(S)
        /\ owed \in [Producer -> 0 .. 2]
    BY <2>1 DEF Init
  <2>4. QED
    BY <2>1, <2>2, <2>3 DEF Init, TypeOK
<1>4. EveryLentBufferIsHeld /\ NoneReturnedTwice /\ Parted
  BY <1>2 DEF Init, EveryLentBufferIsHeld, NoneReturnedTwice, Parted
<1>5. Distinct /\ Commands /\ OneJob /\ Reprocessing
  BY <1>1, NoBuffer, FewJobs DEF Init, Distinct, Commands, Queued, OneJob, Reprocessing
<1>6. QED
  BY <1>3, <1>4, <1>5 DEF Inv

\* every step preserves it,
LEMMA NextInv == ASSUME Orderly, Inv, [Next]_vars PROVE Inv'
<1>1. CASE start
  BY <1>1, StartInv
<1>2. CASE stop
  BY <1>2, StopInv
<1>3. CASE setPictureFormat
  BY <1>3, SetPictureFormatInv
<1>4. CASE machineStep
  BY <1>4, StopCaptureChannelInv, ProcessJpegEvtInv, IgnoreJpegEvtInv DEF machineStep
<1>5. ASSUME NEW frame \in Frame, processData(frame)
      PROVE  Inv'
  BY <1>5, ProcessDataInv
<1>6. CASE reprocessStep
  BY <1>6, ProcessPPDataInv DEF reprocessStep
<1>7. ASSUME NEW producer \in Producer, sendNextJob(producer)
      PROVE  Inv'
  BY <1>7, SendNextJobInv
<1>8. CASE dataProcessRoutine
  BY <1>8, CmdStartInv, CmdStopInv, CmdStopFlushInv, CmdNextJobInactiveInv, CmdNextJobInv,
     EncodeDataInv, EncodeDataFailsInv, ProcessRawAndReprocessInv DEF dataProcessRoutine
<1>9. CASE encoderStep
  BY <1>9, JpegEvtHandleInv DEF encoderStep
<1>10. CASE notifierStep
  BY <1>10, ReleaseNotifyDataInv DEF notifierStep
<1>11. CASE UNCHANGED vars
  <2>1. TypeOK'
    BY <1>11 DEF vars, queues, history, Inv, TypeOK
  <2>2. EveryLentBufferIsHeld' /\ NoneReturnedTwice' /\ Parted' /\ Distinct'
    BY <1>11, SameBuffers DEF vars
  <2>3. Commands' /\ OneJob' /\ Reprocessing'
    BY <1>11, SameCommands, SameJob DEF vars, queues, Inv, Reprocessing
  <2>4. QED
    BY <2>1, <2>2, <2>3 DEF Inv
<1>12. QED
  BY <1>1, <1>2, <1>3, <1>4, <1>5, <1>6, <1>7, <1>8, <1>9, <1>10, <1>11 DEF Next

\* so it holds always.
LEMMA InvCorrect == ASSUME Orderly PROVE Spec => []Inv
<1>1. Init => Inv
  BY InitInv
<1>2. Inv /\ [Next]_vars => Inv'
  BY NextInv
<1>3. QED
  BY <1>1, <1>2, PTL DEF Spec

\* Every variable holds a value of its kind.
THEOREM TypeCorrect == ASSUME Orderly PROVE Spec => []TypeOK
<1>1. Inv => TypeOK
  BY DEF Inv
<1>2. QED
  BY <1>1, InvCorrect, PTL

\* No buffer is lost: whichever thread moves a frame and however a step fails, a buffer
\* that was lent is in a queue of the post processor or with the notifier, or is a raw
\* frame the client does not want.
THEOREM BuffersAreKept == ASSUME Orderly PROVE Spec => []EveryLentBufferIsHeld
<1>1. Inv => EveryLentBufferIsHeld
  BY DEF Inv
<1>2. QED
  BY <1>1, InvCorrect, PTL

\* No frame is given back to the kernel twice: a stop, a failed step and an event never
\* release the same one.
THEOREM BuffersReturnOnce == ASSUME Orderly PROVE Spec => []NoneReturnedTwice
<1>1. Inv => NoneReturnedTwice
  BY DEF Inv
<1>2. QED
  BY <1>1, InvCorrect, PTL

\* The encoder never reads a frame that was given back: the job it works on is the
\* ongoing one, and so is the job encodeData is about to hand to it.
THEOREM EncoderIsSafe == ASSUME Orderly PROVE Spec => []EncoderReadsHeldFrames
<1>1. ASSUME Inv PROVE EncoderReadsHeldFrames
  <2>1. CASE m_ongoingJpegQ = <<>>
    BY <1>1, <2>1 DEF Inv, OneJob, EncoderReadsHeldFrames
  <2>2. CASE m_ongoingJpegQ # <<>>
    <3>1. PICK job \in Job : m_ongoingJpegQ = <<job>>
      BY <1>1, <2>2, OneOngoing
    <3>2. Range(m_ongoingJpegQ) = {Head(m_ongoingJpegQ)}
      BY <3>1, FewJobs
    <3>3. QED
      BY <1>1, <3>2 DEF Inv, OneJob, EncoderReadsHeldFrames
  <2>3. QED
    BY <2>1, <2>2
<1>2. QED
  BY <1>1, InvCorrect, PTL

\* The one output buffer is not written while it waits: a picture in it whose event was
\* not handled keeps every other job from the encoder.
THEOREM OutputBufferIsSafe == ASSUME Orderly PROVE Spec => []OutputBufferUndisturbed
<1>1. ASSUME Inv PROVE OutputBufferUndisturbed
  <2>1. Cardinality(encoder) <= 1
    <3>1. encoder = {} \/ encoder = {Head(m_ongoingJpegQ)}
      BY <1>1 DEF Inv, OneJob
    <3>2. Cardinality({}) = 0 /\ Cardinality({Head(m_ongoingJpegQ)}) = 1
      BY FS_EmptySet, FS_Singleton
    <3>3. CASE encoder = {}
      BY <3>2, <3>3
    <3>4. CASE encoder = {Head(m_ongoingJpegQ)}
      BY <3>2, <3>4
    <3>5. QED
      BY <3>1, <3>3, <3>4
  <2>2. QED
    BY <1>1, <2>1 DEF Inv, OneJob, OutputBufferUndisturbed
<1>2. QED
  BY <1>1, InvCorrect, PTL
=============================================================================
