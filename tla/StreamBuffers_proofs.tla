------------------------ MODULE StreamBuffers_proofs ------------------------
(***************************************************************************)
(* Theorems about StreamBuffers, for any set of buffers and any number of  *)
(* starts, when stop does not fall between the test and the queue of       *)
(* processDataNotify (~Preemption).                                        *)
(*                                                                         *)
(* The properties are not inductive: that a count equals its holders       *)
(* depends on no buffer being at two places that share a reference, which  *)
(* depends on kernel buffers having no holder at all, and on each stage of *)
(* a stop leaving its places empty.  Inv says all this buffer by buffer.   *)
(***************************************************************************)
EXTENDS StreamBuffers, TLAPS

Running == {"on", "joinHal", "streamoff", "joinCmd"}

\* What the thread that starts and stops knows of the stream.
Phase ==
    /\ client \in {"off", "getBuf", "failedJoin"} => state = "CFG"
    /\ client \in {"regBuf", "bundle", "put"} => state = "BUFFED"
    /\ client \in {"streamOn", "unreg"} => state = "REG"
    /\ client \in Running <=> state = "ACTIVE"
    /\ client \in Running \ {"on"} => ~ m_bActive

\* Where a buffer may be in each phase.
Empty(b) ==
    /\ b \in dequeued \cup counted => client \in {"on", "joinHal", "streamoff"}
    /\ b \in cmdq \cup taken \cup finishing => client \in Running
    /\ b \in notified => client = "on"
    /\ b \in mDataQ => client \in {"on", "joinHal"}
    /\ b \in channel => client \in Running \cup {"unreg", "bundle"}
    /\ b \in lent => \/ client \in Running \cup {"streamOn", "unreg", "bundle", "put"}
                     \/ client = "failed" /\ state = "REG"

\* The places a buffer cannot be at together.
Apart(b) ==
    /\ b \in cmdq => b \notin taken \cup notified \cup finishing
    /\ b \in taken => b \notin notified \cup finishing
    /\ b \in notified => b \notin finishing
    /\ b \in cmdq \cup taken => b \notin notified \cup mDataQ \cup lent
    /\ b \in notified => b \notin mDataQ \cup lent
    /\ b \in mDataQ => b \notin lent
    /\ b \in counted => b \notin dequeued \cup channel \cup cmdq \cup taken \cup notified
                                \cup finishing \cup mDataQ \cup lent

\* Its reference count.
Count(b) ==
    /\ client \in {"streamOn", "on", "joinHal"} => refcnt[b] = refs(b)
    /\ client \in Running => refcnt[b] >= refs(b)
    /\ client \in Running \cup {"streamOn"} /\ b \in kernel \cup dequeued
          => refcnt[b] = 0 /\ refs(b) = 0
    /\ b \in counted => refcnt[b] = I(Bundled) + I(HasCb)
    /\ b \in kernel /\ client \in Running => b \notin dequeued

\* Each of the two threads is at one buffer.
OneEach ==
    /\ \A b, c \in dequeued \cup counted : b = c
    /\ \A b, c \in taken \cup notified \cup finishing : b = c

Inv ==
    /\ TypeOK /\ Phase /\ OneEach
    /\ \A b \in Buf : Empty(b) /\ Apart(b) /\ Count(b)

\* The constants have their types, and a frame has somebody to go to.
LEMMA Switches == /\ Bundled \in BOOLEAN /\ HasCb \in BOOLEAN
                  /\ MaxStarts \in Nat /\ (Bundled \/ HasCb)
BY StreamAssumption DEF StreamAssumption

-----------------------------------------------------------------------------
(* The poll thread: a buffer it takes from the kernel has no holder, so the *)
(* references it counts are the first.                                     *)

\* The poll thread takes a buffer that nobody holds.
LEMMA PollDequeueInv == ASSUME Inv, NEW b \in Buf, PollDequeue(b) PROVE Inv'
<1>1. TypeOK'
  BY DEF PollDequeue, Inv, TypeOK, thread, hal
<1>2. Phase'
  BY DEF PollDequeue, Inv, Phase, hal
<1>3. OneEach'
  BY DEF PollDequeue, Inv, OneEach, thread
<1>4. \A c \in Buf : Empty(c)'
  BY DEF PollDequeue, Inv, Empty, thread, hal
<1>5. \A c \in Buf : Apart(c)'
  BY DEF PollDequeue, Inv, Apart, thread, hal
<1>6. \A c \in Buf : Count(c)'
  BY DEF PollDequeue, Inv, Count, refs, thread, hal
<1>7. QED
  BY <1>1, <1>2, <1>3, <1>4, <1>5, <1>6 DEF Inv

\* It counts the references of those it will hand the frame to.
LEMMA PollCountInv == ASSUME Inv, NEW b \in Buf, PollCount(b) PROVE Inv'
<1>1. TypeOK'
  BY DEF PollCount, Inv, TypeOK, Empty, Count, I, Running, thread, hal
<1>2. Phase'
  BY DEF PollCount, Inv, Phase, hal
<1>3. OneEach'
  BY DEF PollCount, Inv, OneEach, thread
<1>4. \A c \in Buf : Empty(c)'
  BY DEF PollCount, Inv, Empty, thread, hal
<1>5. \A c \in Buf : Apart(c)'
  BY DEF PollCount, Inv, Empty, Apart, Count, refs, I, Running, thread, hal
<1>6. \A c \in Buf : Count(c)'
  BY Switches DEF PollCount, Inv, TypeOK, Empty, Count, OneEach, refs, I, Running,
     thread, hal
<1>7. QED
  BY <1>1, <1>2, <1>3, <1>4, <1>5, <1>6 DEF Inv

\* The references it has counted become those of the two queues.
LEMMA PollHandInv == ASSUME Inv, NEW b \in Buf, PollHand(b) PROVE Inv'
<1>1. TypeOK'
  BY DEF PollHand, Inv, TypeOK, thread, hal
<1>2. Phase'
  BY DEF PollHand, Inv, Phase, hal
<1>3. OneEach'
  BY DEF PollHand, Inv, OneEach, thread
<1>4. \A c \in Buf : Empty(c)'
  BY DEF PollHand, Inv, Empty, Running, thread, hal
<1>5. \A c \in Buf : Apart(c)'
  BY DEF PollHand, Inv, Apart, thread, hal
<1>6. \A c \in Buf : Count(c)'
  BY DEF PollHand, Inv, Count, OneEach, refs, I, thread, hal
<1>7. QED
  BY <1>1, <1>2, <1>3, <1>4, <1>5, <1>6 DEF Inv

\* A superbuffer gives up one reference and its place with it.
LEMMA ChannelReturnsInv == ASSUME Inv, NEW b \in Buf, ChannelReturns(b) PROVE Inv'
<1>1. TypeOK'
  BY DEF ChannelReturns, Inv, TypeOK, thread, hal, buf_done, qbuf
<1>2. Phase'
  BY DEF ChannelReturns, Inv, Phase, hal
<1>3. OneEach'
  BY DEF ChannelReturns, Inv, OneEach, thread
<1>4. \A c \in Buf : Empty(c)'
  BY DEF ChannelReturns, Inv, Empty, thread, hal
<1>5. \A c \in Buf : Apart(c)'
  BY DEF ChannelReturns, Inv, Apart, thread, hal
<1>6. \A c \in Buf : Count(c)'
  BY DEF ChannelReturns, Inv, TypeOK, Phase, Empty, Count, refs, I, thread, hal,
     buf_done, qbuf
<1>7. QED
  BY <1>1, <1>2, <1>3, <1>4, <1>5, <1>6 DEF Inv

(* The command thread of the stream.                                       *)

\* A frame keeps its reference from the queue to the thread.
LEMMA TakeInv == ASSUME Inv, NEW b \in Buf, Take(b) PROVE Inv'
<1>1. TypeOK'
  BY DEF Take, Inv, TypeOK, hal
<1>2. Phase'
  BY DEF Take, Inv, Phase, hal
<1>3. OneEach'
  BY DEF Take, Inv, OneEach, cmdThreadIdle
<1>4. \A c \in Buf : Empty(c)'
  BY DEF Take, Inv, Empty, hal
<1>5. \A c \in Buf : Apart(c)'
  BY DEF Take, Inv, Apart, hal
<1>6. \A c \in Buf : Count(c)'
  BY DEF Take, Inv, Count, refs, hal, cmdThreadIdle
<1>7. QED
  BY <1>1, <1>2, <1>3, <1>4, <1>5, <1>6 DEF Inv

\* The callback takes a reference of its own.
LEMMA DispatchActiveInv == ASSUME Inv, NEW b \in Buf, DispatchActive(b) PROVE Inv'
<1>1. TypeOK'
  BY DEF DispatchActive, Inv, TypeOK, Phase, Empty, Apart, Count, refs, I, hal
<1>2. Phase'
  BY DEF DispatchActive, Inv, Phase
<1>3. OneEach'
  BY DEF DispatchActive, Inv, OneEach
<1>4. \A c \in Buf : Empty(c)'
  BY DEF DispatchActive, Inv, Phase, Empty
<1>5. \A c \in Buf : Apart(c)'
  BY DEF DispatchActive, Inv, Apart, hal
<1>6. \A c \in Buf : Count(c)'
  BY DEF DispatchActive, Inv, TypeOK, Apart, Count, OneEach, refs, I, hal
<1>7. QED
  BY <1>1, <1>2, <1>3, <1>4, <1>5, <1>6 DEF Inv

\* An inactive stream takes none.
LEMMA DispatchInactiveInv == ASSUME Inv, NEW b \in Buf, DispatchInactive(b) PROVE Inv'
<1>1. TypeOK'
  BY DEF DispatchInactive, Inv, TypeOK, hal
<1>2. Phase'
  BY DEF DispatchInactive, Inv, Phase, hal
<1>3. OneEach'
  BY DEF DispatchInactive, Inv, OneEach
<1>4. \A c \in Buf : Empty(c)'
  BY DEF DispatchInactive, Inv, Empty, hal
<1>5. \A c \in Buf : Apart(c)'
  BY DEF DispatchInactive, Inv, Apart, hal
<1>6. \A c \in Buf : Count(c)'
  BY DEF DispatchInactive, Inv, Count, OneEach, refs, hal
<1>7. QED
  BY <1>1, <1>2, <1>3, <1>4, <1>5, <1>6 DEF Inv

\* The reference of the callback goes with the frame into mDataQ.
LEMMA EnqueueInv == ASSUME Inv, NEW b \in Buf, Enqueue(b) PROVE Inv'
<1>1. TypeOK'
  BY DEF Enqueue, Inv, TypeOK
<1>2. Phase'
  BY DEF Enqueue, Inv, Phase
<1>3. OneEach'
  BY DEF Enqueue, Inv, OneEach
<1>4. \A c \in Buf : Empty(c)'
  BY DEF Enqueue, Inv, Empty, Running
<1>5. \A c \in Buf : Apart(c)'
  BY DEF Enqueue, Inv, Apart
<1>6. \A c \in Buf : Count(c)'
  BY DEF Enqueue, Inv, Count, OneEach, refs
<1>7. QED
  BY <1>1, <1>2, <1>3, <1>4, <1>5, <1>6 DEF Inv

\* The thread gives up the reference of has_cb.
LEMMA DispatchDoneInv == ASSUME Inv, NEW b \in Buf, DispatchDone(b) PROVE Inv'
<1>1. TypeOK'
  BY DEF DispatchDone, Inv, TypeOK, hal, buf_done
<1>2. Phase'
  BY DEF DispatchDone, Inv, Phase, hal
<1>3. OneEach'
  BY DEF DispatchDone, Inv, OneEach
<1>4. \A c \in Buf : Empty(c)'
  BY DEF DispatchDone, Inv, Empty, hal
<1>5. \A c \in Buf : Apart(c)'
  BY DEF DispatchDone, Inv, Apart, hal
<1>6. \A c \in Buf : Count(c)'
  BY DEF DispatchDone, Inv, TypeOK, Apart, Count, OneEach, refs, I, hal, buf_done
<1>7. QED
  BY <1>1, <1>2, <1>3, <1>4, <1>5, <1>6 DEF Inv

(* The thread of QCameraStream, and those it lends frames to.              *)

\* The reference goes on to those the frame is lent to.
LEMMA DoNextJobInv == ASSUME Inv, NEW b \in Buf, DoNextJob(b) PROVE Inv'
<1>1. TypeOK'
  BY DEF DoNextJob, Inv, TypeOK, thread
<1>2. Phase'
  BY DEF DoNextJob, Inv, Phase
<1>3. OneEach'
  BY DEF DoNextJob, Inv, OneEach, thread
<1>4. \A c \in Buf : Empty(c)'
  BY DEF DoNextJob, Inv, Empty, Running, thread
<1>5. \A c \in Buf : Apart(c)'
  BY DEF DoNextJob, Inv, Apart, thread
<1>6. \A c \in Buf : Count(c)'
  BY DEF DoNextJob, Inv, Count, refs, thread
<1>7. QED
  BY <1>1, <1>2, <1>3, <1>4, <1>5, <1>6 DEF Inv

\* A frame that is returned gives up its reference.
LEMMA BufDoneInv == ASSUME Inv, NEW b \in Buf, BufDone(b) PROVE Inv'
<1>1. TypeOK'
  BY DEF BufDone, Inv, TypeOK, thread, hal, buf_done, qbuf
<1>2. Phase'
  BY DEF BufDone, Inv, Phase, hal
<1>3. OneEach'
  BY DEF BufDone, Inv, OneEach, thread
<1>4. \A c \in Buf : Empty(c)'
  BY DEF BufDone, Inv, Empty, thread, hal
<1>5. \A c \in Buf : Apart(c)'
  BY DEF BufDone, Inv, Apart, thread, hal
<1>6. \A c \in Buf : Count(c)'
  BY DEF BufDone, Inv, TypeOK, Phase, Apart, Count, refs, I, Running, thread, hal,
     buf_done, qbuf
<1>7. QED
  BY <1>1, <1>2, <1>3, <1>4, <1>5, <1>6 DEF Inv

(* Start and stop of the channel.                                          *)

\* A start finds a stream whose places are empty.
LEMMA HalStartInv == ASSUME Inv, HalStart PROVE Inv'
<1>1. TypeOK'
  BY Switches DEF HalStart, Inv, TypeOK, thread, step
<1>2. Phase'
  BY DEF HalStart, Inv, Phase, Running, step
<1>3. OneEach'
  BY DEF HalStart, Inv, OneEach, thread
<1>4. \A c \in Buf : Empty(c)'
  BY DEF HalStart, Inv, Empty, Running, thread, step
<1>5. \A c \in Buf : Apart(c)'
  BY DEF HalStart, Inv, Apart, thread
<1>6. \A c \in Buf : Count(c)'
  BY DEF HalStart, Inv, Count, Running, step
<1>7. QED
  BY <1>1, <1>2, <1>3, <1>4, <1>5, <1>6 DEF Inv

\* GET_BUF resets the counts.
LEMMA GetBufInv == ASSUME Inv, GetBuf PROVE Inv'
<1>1. TypeOK'
  BY DEF GetBuf, Inv, TypeOK, thread, hal, none, step
<1>2. Phase'
  BY DEF GetBuf, Inv, Phase, Running, step
<1>3. OneEach'
  BY DEF GetBuf, Inv, OneEach, thread
<1>4. \A c \in Buf : Empty(c)'
  BY DEF GetBuf, Inv, Empty, Running, thread, hal, step
<1>5. \A c \in Buf : Apart(c)'
  BY DEF GetBuf, Inv, Apart, thread, hal
<1>6. \A c \in Buf : Count(c)'
  BY DEF GetBuf, Inv, Empty, Count, Running, step
<1>7. QED
  BY <1>1, <1>2, <1>3, <1>4, <1>5, <1>6 DEF Inv

\* REG_BUF counts exactly the buffers the window keeps.
LEMMA RegBufInv == ASSUME Inv, RegBuf PROVE Inv'
<1>1. TypeOK'
  BY DEF RegBuf, Inv, TypeOK, I, thread, hal, step
<1>2. Phase'
  BY DEF RegBuf, Inv, Phase, Running, step
<1>3. OneEach'
  BY DEF RegBuf, Inv, OneEach, thread
<1>4. \A c \in Buf : Empty(c)'
  BY DEF RegBuf, Inv, Empty, Running, thread, hal, step
<1>5. \A c \in Buf : Apart(c)'
  BY DEF RegBuf, Inv, Empty, Apart, Running, thread, hal, step
<1>6. \A c \in Buf : Count(c)'
  BY DEF RegBuf, Inv, Empty, Count, refs, I, Running, thread, hal, step
<1>7. QED
  BY <1>1, <1>2, <1>3, <1>4, <1>5, <1>6 DEF Inv

\* The stream goes on with those counts.
LEMMA StreamOnInv == ASSUME Inv, StreamOn PROVE Inv'
<1>1. TypeOK'
  BY DEF StreamOn, Inv, TypeOK, thread, hal, step
<1>2. Phase'
  BY DEF StreamOn, Inv, Phase, Running, step
<1>3. OneEach'
  BY DEF StreamOn, Inv, OneEach, thread
<1>4. \A c \in Buf : Empty(c)'
  BY DEF StreamOn, Inv, Phase, Empty, Running, thread, hal, step
<1>5. \A c \in Buf : Apart(c)'
  BY DEF StreamOn, Inv, Apart, thread, hal
<1>6. \A c \in Buf : Count(c)'
  BY DEF StreamOn, Inv, TypeOK, Empty, Count, refs, thread, hal, step
<1>7. QED
  BY <1>1, <1>2, <1>3, <1>4, <1>5, <1>6 DEF Inv

\* A failed start leaves no reference and no buffer in the kernel.
LEMMA StartFailsInv == ASSUME Inv, StartFails PROVE Inv'
<1>1. TypeOK'
  <2>1. refcnt' \in [Buf -> 0 .. 3] /\ kernel' \subseteq Buf
    BY DEF StartFails, Inv, TypeOK, none
  <2>2. lent' = {} /\ m_bActive' = FALSE /\ client' = "failedJoin" /\ state' = "CFG"
    BY DEF StartFails, step
  <2>3. UNCHANGED <<dequeued, counted, channel, cmdq, thread, mDataQ, jobs, starts>>
    BY DEF StartFails
  <2>4. \A places \in {kernel', dequeued', counted', channel', cmdq', taken', notified',
                       finishing', mDataQ', lent'} : places \subseteq Buf
    BY <2>1, <2>2, <2>3 DEF Inv, TypeOK, thread
  <2>5. state' \in {"CFG", "BUFFED", "REG", "ACTIVE"} /\ m_bActive' \in BOOLEAN
    BY <2>2
  <2>6. jobs' \in Nat /\ starts' \in 0 .. MaxStarts
    BY <2>3 DEF Inv, TypeOK
  <2>7. QED
    BY <2>1, <2>2, <2>4, <2>5, <2>6 DEF TypeOK
<1>2. Phase'
  BY DEF StartFails, Inv, Phase, Running, step
<1>3. OneEach'
  BY DEF StartFails, Inv, OneEach, thread
<1>4. \A c \in Buf : Empty(c)'
  BY DEF StartFails, Inv, Empty, Running, thread, step
<1>5. \A c \in Buf : Apart(c)'
  BY DEF StartFails, Inv, Apart, thread
<1>6. \A c \in Buf : Count(c)'
  BY DEF StartFails, Inv, Empty, Count, Running, step
<1>7. QED
  BY <1>1, <1>2, <1>3, <1>4, <1>5, <1>6 DEF Inv

\* After stop no frame is in processDataNotify: here ~ Preemption is needed.
LEMMA HalStopInv == ASSUME Inv, ~ Preemption, HalStop PROVE Inv'
<1>1. TypeOK'
  BY DEF HalStop, Inv, TypeOK, thread, step
<1>2. Phase'
  BY DEF HalStop, Inv, Phase, Running, step
<1>3. OneEach'
  BY DEF HalStop, Inv, OneEach, thread
<1>4. \A c \in Buf : Empty(c)'
  BY DEF HalStop, Inv, Empty, Running, thread, step
<1>5. \A c \in Buf : Apart(c)'
  BY DEF HalStop, Inv, Apart, thread
<1>6. \A c \in Buf : Count(c)'
  BY DEF HalStop, Inv, Count, refs, Running, thread, step
<1>7. QED
  BY <1>1, <1>2, <1>3, <1>4, <1>5, <1>6 DEF Inv

\* The thread of QCameraStream exits with its queue empty.
LEMMA HalExitInv == ASSUME Inv, HalExit PROVE Inv'
<1>1. TypeOK'
  BY DEF HalExit, Inv, TypeOK, thread, step
<1>2. Phase'
  BY DEF HalExit, Inv, Phase, Running, step
<1>3. OneEach'
  BY DEF HalExit, Inv, OneEach, thread
<1>4. \A c \in Buf : Empty(c)'
  BY DEF HalExit, Inv, Empty, Running, thread, step
<1>5. \A c \in Buf : Apart(c)'
  BY DEF HalExit, Inv, Apart, thread
<1>6. \A c \in Buf : Count(c)'
  BY DEF HalExit, Inv, Count, refs, I, Running, thread, step
<1>7. QED
  BY <1>1, <1>2, <1>3, <1>4, <1>5, <1>6 DEF Inv

\* The poll thread holds no frame when the stream is off.
LEMMA StreamOffInv == ASSUME Inv, StreamOff PROVE Inv'
<1>1. TypeOK'
  BY DEF StreamOff, Inv, TypeOK, thread, hal, step
<1>2. Phase'
  BY DEF StreamOff, Inv, Phase, Running, hal, step
<1>3. OneEach'
  BY DEF StreamOff, Inv, OneEach, thread
<1>4. \A c \in Buf : Empty(c)'
  BY DEF StreamOff, Inv, Empty, Running, thread, hal, step
<1>5. \A c \in Buf : Apart(c)'
  BY DEF StreamOff, Inv, Apart, thread, hal
<1>6. \A c \in Buf : Count(c)'
  BY DEF StreamOff, Inv, Count, refs, Running, thread, hal, step
<1>7. QED
  BY <1>1, <1>2, <1>3, <1>4, <1>5, <1>6 DEF Inv

\* The command thread exits with its queue empty.
LEMMA CmdExitInv == ASSUME Inv, CmdExit PROVE Inv'
<1>1. TypeOK'
  BY DEF CmdExit, Inv, TypeOK, thread, hal, step
<1>2. Phase'
  BY DEF CmdExit, Inv, Phase, Running, step
<1>3. OneEach'
  BY DEF CmdExit, Inv, OneEach, thread
<1>4. \A c \in Buf : Empty(c)'
  BY DEF CmdExit, Inv, Empty, thread, hal, cmdThreadIdle, step
<1>5. \A c \in Buf : Apart(c)'
  BY DEF CmdExit, Inv, Apart, thread, hal
<1>6. \A c \in Buf : Count(c)'
  BY DEF CmdExit, Inv, Count, Running, step
<1>7. QED
  BY <1>1, <1>2, <1>3, <1>4, <1>5, <1>6 DEF Inv

\* UNREG_BUF drops the counts, and with them the claim on them.
LEMMA UnregInv == ASSUME Inv, Unreg PROVE Inv'
<1>1. TypeOK'
  BY DEF Unreg, Inv, TypeOK, thread, hal, none, step
<1>2. Phase'
  BY DEF Unreg, Inv, Phase, Running, step
<1>3. OneEach'
  BY DEF Unreg, Inv, OneEach, thread
<1>4. \A c \in Buf : Empty(c)'
  BY DEF Unreg, Inv, Empty, Running, thread, hal, step
<1>5. \A c \in Buf : Apart(c)'
  BY DEF Unreg, Inv, Apart, thread, hal
<1>6. \A c \in Buf : Count(c)'
  BY DEF Unreg, Inv, Empty, Count, Running, step
<1>7. QED
  BY <1>1, <1>2, <1>3, <1>4, <1>5, <1>6 DEF Inv

\* The superbuffer queue is emptied.
LEMMA BundleStopInv == ASSUME Inv, BundleStop PROVE Inv'
<1>1. TypeOK'
  BY DEF BundleStop, Inv, TypeOK, thread, hal, step
<1>2. Phase'
  BY DEF BundleStop, Inv, Phase, Running, step
<1>3. OneEach'
  BY DEF BundleStop, Inv, OneEach, thread
<1>4. \A c \in Buf : Empty(c)'
  BY DEF BundleStop, Inv, Empty, Running, thread, hal, step
<1>5. \A c \in Buf : Apart(c)'
  BY DEF BundleStop, Inv, Apart, thread, hal
<1>6. \A c \in Buf : Count(c)'
  BY DEF BundleStop, Inv, Count, Running, step
<1>7. QED
  BY <1>1, <1>2, <1>3, <1>4, <1>5, <1>6 DEF Inv

\* What is lent is given up, and nothing else is left.
LEMMA PutInv == ASSUME Inv, Put PROVE Inv'
<1>1. TypeOK'
  BY DEF Put, Inv, TypeOK, thread, hal, step
<1>2. Phase'
  BY DEF Put, Inv, Phase, Running, step
<1>3. OneEach'
  BY DEF Put, Inv, OneEach, thread
<1>4. \A c \in Buf : Empty(c)'
  BY DEF Put, Inv, Empty, Running, thread, hal, step
<1>5. \A c \in Buf : Apart(c)'
  BY DEF Put, Inv, Apart, thread, hal
<1>6. \A c \in Buf : Count(c)'
  BY DEF Put, Inv, Count, Running, step
<1>7. QED
  BY <1>1, <1>2, <1>3, <1>4, <1>5, <1>6 DEF Inv

-----------------------------------------------------------------------------
(* The invariant of the specification.                                    *)

\* Inv holds at first.
LEMMA InitInv == Init => Inv
<1> SUFFICES ASSUME Init PROVE Inv
  OBVIOUS
<1>1. TypeOK
  <2>1. refcnt \in [Buf -> 0 .. 3]
    BY DEF Init, none
  <2>2. state = "CFG" /\ client = "off" /\ jobs \in Nat /\ m_bActive \in BOOLEAN
    BY DEF Init
  <2>3. \A places \in {kernel, dequeued, counted, channel, cmdq, taken, notified,
                       finishing, mDataQ, lent} : places \subseteq Buf
    BY DEF Init
  <2>4. starts \in 0 .. MaxStarts
    BY Switches DEF Init
  <2>5. QED
    BY <2>1, <2>2, <2>3, <2>4 DEF TypeOK
<1>2. Phase /\ OneEach
  BY DEF Init, Phase, OneEach, Running
<1>3. \A b \in Buf : Empty(b) /\ Apart(b) /\ Count(b)
  BY DEF Init, Empty, Apart, Count, Running, refs, I, none
<1>4. QED
  BY <1>1, <1>2, <1>3 DEF Inv

\* Inv depends on nothing but the variables.
LEMMA StutterInv == ASSUME Inv, UNCHANGED vars PROVE Inv'
<1> USE DEF vars, thread, hal
<1>1. TypeOK' /\ Phase' /\ OneEach'
  BY DEF Inv, TypeOK, Phase, OneEach
<1>2. \A b \in Buf : Empty(b)' /\ Apart(b)' /\ Count(b)'
  BY DEF Inv, Empty, Apart, Count, refs
<1>3. QED
  BY <1>1, <1>2 DEF Inv

\* Every step preserves Inv.
LEMMA NextInv == ASSUME Inv, ~ Preemption, Next PROVE Inv'
<1>1. CASE \E b \in Buf : PollDequeue(b) \/ ChannelReturns(b) \/ DoNextJob(b) \/ BufDone(b)
  BY <1>1, PollDequeueInv, ChannelReturnsInv, DoNextJobInv, BufDoneInv
<1>2. CASE Poll
  BY <1>2, PollCountInv, PollHandInv DEF Poll
<1>3. CASE CmdThread
  BY <1>3, TakeInv, DispatchActiveInv, DispatchInactiveInv, EnqueueInv, DispatchDoneInv
     DEF CmdThread
<1>4. CASE HalStart \/ HalStop
  BY <1>4, HalStartInv, HalStopInv
<1>5. CASE ClientGoesOn
  BY <1>5, GetBufInv, RegBufInv, StreamOnInv, StartFailsInv, HalExitInv, StreamOffInv,
     CmdExitInv, UnregInv, BundleStopInv, PutInv DEF ClientGoesOn
<1>6. QED
  BY <1>1, <1>2, <1>3, <1>4, <1>5 DEF Next

\* Every buffer is at places that fit together, in every phase of the stream.
THEOREM InvCorrect == ASSUME ~ Preemption PROVE Spec => []Inv
<1>1. Inv /\ [Next]_vars => Inv'
  BY NextInv, StutterInv
<1>2. QED
  BY <1>1, InitInv, PTL DEF Spec

\* No count ever leaves 0 .. 3 (mm_camera_stream.c:236-245, 298, 2804).
THEOREM TypeCorrect == ASSUME ~ Preemption PROVE Spec => []TypeOK
<1>1. Inv => TypeOK
  BY DEF Inv
<1>2. QED
  BY <1>1, InvCorrect, PTL

\* While the stream is on, the count of a buffer is the number of its
\* holders, and never less until it has been stopped.
THEOREM CountsCorrect == ASSUME ~ Preemption PROVE Spec => []RefcntIsHolders
<1>1. Inv => RefcntIsHolders
  BY DEF Inv, Phase, Count, RefcntIsHolders
<1>2. QED
  BY <1>1, InvCorrect, PTL

\* The kernel is never given a buffer that a thread, the superbuffer queue or
\* the window still reads (mm_camera_stream.c:2804-2815).
THEOREM KernelCorrect == ASSUME ~ Preemption PROVE Spec => []NoHeldBufferInKernel
<1>1. Inv => NoHeldBufferInKernel
  BY DEF Inv, TypeOK, Phase, Count, NoHeldBufferInKernel
<1>2. QED
  BY <1>1, InvCorrect, PTL

\* When mm_channel_stop, or the error end of mm_channel_start, has freed the
\* memory of the buffers, no thread and no queue has a frame left.
THEOREM MemoryCorrect == ASSUME ~ Preemption PROVE Spec => []FreedMemoryIsUnused
<1>1. Inv => FreedMemoryIsUnused
  BY DEF Inv, TypeOK, Phase, Empty, Running, FreedMemoryIsUnused
<1>2. QED
  BY <1>1, InvCorrect, PTL
=============================================================================
