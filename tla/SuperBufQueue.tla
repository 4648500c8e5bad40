---------------------------- MODULE SuperBufQueue ----------------------------
(***************************************************************************)
(* The superbuffer queue of a bundled channel                              *)
(* (mm-camera-interface, mm_camera_channel.c).  Every stream of the bundle *)
(* delivers numbered frames; the command thread of the channel joins the   *)
(* frames with one number into a bundle, keeps matched bundles until they  *)
(* are asked for, and gives the buffers of everything else back.           *)
(*                                                                         *)
(* ch is mm_channel_t: its fields have the names of the C structure, plus  *)
(*   held        the buffers out of the kernel, each named by the stream   *)
(*               and the frame it carries,                                 *)
(*   dispatched  bundles sent to the callback thread and not returned,     *)
(*   spinning    the command thread is in a loop that never ends.          *)
(* A frame number is positive: the code reads 0 as "no frame here".        *)
(* Commands are taken one at a time by one thread, so a command and its    *)
(* processing are one step here; frames of one stream keep their order,    *)
(* those of different streams may come in any order.                       *)
(***************************************************************************)
EXTENDS Integers, FiniteSets, SequencesExt

CONSTANTS
    Stream,          \* the streams of the bundle
    MetaStream,      \* the stream of metadata (none if not in Stream)
    Metadata,        \* what a metadata frame may say, see AllMetadata
    Buffers,         \* buffers of each stream
    NotifyMode,      \* the modes the channel may be configured to
    WaterMark, LookBack, PostFrameSkip, MaxUnmatched,   \* channel attributes
    FutureOffset,    \* max_future_frame_offset (100 in the code)
    MaxFrame,        \* bound: the last frame number
    MaxBurst,        \* bound: the largest request
    MaxCommands      \* bound: requests, configurations and flushes

AllMetadata == {"none", "future", "ready", "range", "both"}
AllModes == {"BURST", "CONTINUOUS"}

ASSUME SuperBufAssumption ==
    /\ Stream # {} /\ IsFiniteSet(Stream)
    /\ "none" \in Metadata /\ Metadata \subseteq AllMetadata
    /\ NotifyMode # {} /\ NotifyMode \subseteq AllModes
    /\ {Buffers, MaxFrame, MaxBurst, FutureOffset} \subseteq Nat \ {0}
    /\ {WaterMark, LookBack, PostFrameSkip, MaxUnmatched, MaxCommands} \subseteq Nat

VARIABLES
    ch,          \* the channel
    last,        \* last[s]: the number of the last frame of stream s
    commands     \* commands sent so far (bound only)

vars == <<ch, last, commands>>

Frame == 1 .. MaxFrame

\* mm_channel_queue_node_t; super_buf[s] is 0 while the frame of s is missing.
Node == [frame_idx : Frame, super_buf : [Stream -> 0 .. MaxFrame], matched : BOOLEAN]

\* The buffers in a node, and in a set of nodes.
framesOf(n) == {<<s, n.super_buf[s]>> : s \in {t \in Stream : n.super_buf[t] # 0}}
framesIn(ns) == UNION {framesOf(n) : n \in ns}
nodes(q, a, b) == {q[i] : i \in a .. b}

Init ==
    \E mode \in NotifyMode :
        /\ ch = [superbuf_queue |-> <<>>, match_cnt |-> 0, expected_frame_id |-> 0,
                 notify_mode |-> mode, pending_cnt |-> 0, needLEDFlash |-> FALSE,
                 startZSlSnapshotCalled |-> FALSE,
                 held |-> {}, dispatched |-> {}, spinning |-> FALSE]
        /\ last = [s \in Stream |-> 0]
        /\ commands = 0

-----------------------------------------------------------------------------
(* Helpers of the command thread: from a channel to a channel.             *)

\* mm_channel_qbuf: the buffers go back to the kernel.
qbuf(c, frames) == [c EXCEPT !.held = @ \ frames]

\* mm_channel_superbuf_flush: every node goes, matched or not.
flush(c) ==
    [qbuf(c, framesIn(Range(c.superbuf_queue)))
        EXCEPT !.superbuf_queue = <<>>,
               !.match_cnt = @ - Cardinality({i \in DOMAIN c.superbuf_queue :
                                                c.superbuf_queue[i].matched})]

\* The number of matched nodes at the head of the queue: what a series of
\* mm_channel_superbuf_dequeue can take.
ready(q) ==
    LET unmatched == {i \in DOMAIN q : ~ q[i].matched}
    IN  IF unmatched = {} THEN Len(q) ELSE Min(unmatched) - 1

\* k nodes leave the head of the queue.
behead(c, k) ==
    [c EXCEPT !.superbuf_queue = SubSeq(@, k + 1, Len(@)), !.match_cnt = @ - k]

\* mm_channel_superbuf_bufdone_overflow and mm_channel_superbuf_skip: while
\* match_cnt is above the limit, the head goes if it is matched.  The loop
\* looks at match_cnt only: without a matched head it never ends.
dropAbove(c, limit) ==
    LET k == c.match_cnt - limit
    IN  IF c.notify_mode = "CONTINUOUS" \/ k <= 0 THEN c
        ELSE IF k <= ready(c.superbuf_queue)
        THEN behead(qbuf(c, framesIn(nodes(c.superbuf_queue, 1, k))), k)
        ELSE [c EXCEPT !.spinning = TRUE]

\* mm_channel_handle_metadata, for a metadata frame that says m (range: the
\* first good frame is min).
handleMetadata(c, m, min) ==
    CASE m = "future" ->
            [flush([c EXCEPT !.expected_frame_id = @ + FutureOffset])
                EXCEPT !.needLEDFlash = TRUE]
      [] m = "ready" -> [c EXCEPT !.needLEDFlash = FALSE]
      [] m = "range" -> [c EXCEPT !.expected_frame_id = min]
      [] OTHER -> c

\* The bookkeeping of a bundle that has just become matched.
matchedAt(c, f) ==
    [c EXCEPT !.expected_frame_id = f + PostFrameSkip, !.match_cnt = @ + 1]

\* Mutant of join: two frames make a bundle.
joinEager(c, s, f, pos, older) ==
    LET n == [c.superbuf_queue[pos] EXCEPT !.super_buf[s] = f, !.matched = TRUE]
    IN  [matchedAt(qbuf(c, framesIn(nodes(c.superbuf_queue, 1, pos - 1))), f)
            EXCEPT !.superbuf_queue = <<n>> \o SubSeq(@, pos + 1, Len(@))]

\* Frame f of stream s joins the node at pos; if that completes the bundle,
\* the nodes from the first older one up to pos are released.
join(c, s, f, pos, older) ==
    LET q == c.superbuf_queue
        sb == [q[pos].super_buf EXCEPT ![s] = f]
        n == [q[pos] EXCEPT !.super_buf = sb,
                            !.matched = \A t \in Stream : sb[t] # 0]
        stale == {i \in older : i < pos}
        from == IF stale = {} THEN pos ELSE Min(stale)
    IN  IF n.matched
        THEN [matchedAt(qbuf(c, framesIn(nodes(q, from, pos - 1))), f)
                EXCEPT !.superbuf_queue =
                    SubSeq(q, 1, from - 1) \o <<n>> \o SubSeq(q, pos + 1, Len(q))]
        ELSE [c EXCEPT !.superbuf_queue[pos] = n]

\* Mutant of insert: the node always goes to the tail.
insertAtTail(c, s, f) ==
    [c EXCEPT !.superbuf_queue =
        Append(@, [frame_idx |-> f, matched |-> FALSE,
                   super_buf |-> [t \in Stream |-> IF t = s THEN f ELSE 0]])]

\* Frame f of stream s opens a node, before the first newer unmatched one.
insert(c, s, f) ==
    LET q == c.superbuf_queue
        newer == {i \in DOMAIN q : ~ q[i].matched /\ q[i].frame_idx > f}
        n == [frame_idx |-> f, matched |-> Cardinality(Stream) = 1,
              super_buf |-> [t \in Stream |-> IF t = s THEN f ELSE 0]]
        d == [c EXCEPT !.superbuf_queue =
                 InsertAt(q, IF newer = {} THEN Len(q) + 1 ELSE Min(newer), n)]
    IN  IF n.matched THEN matchedAt(d, f) ELSE d

\* Mutant of evict: the buffers of the node are forgotten.
evictQuietly(c, i) == [c EXCEPT !.superbuf_queue = RemoveAt(@, i)]

\* The oldest unmatched node makes room.
evict(c, i) ==
    [qbuf(c, framesOf(c.superbuf_queue[i]))
        EXCEPT !.superbuf_queue = RemoveAt(@, i)]

\* Mutant of compAndEnqueue: the limit on unmatched nodes is off by one.
compAndEnqueueLate(c, s, f) ==
    LET q == c.superbuf_queue
        unmatched == {i \in DOMAIN q : ~ q[i].matched}
        same == {i \in unmatched : q[i].frame_idx = f}
        older == {i \in unmatched : q[i].frame_idx < f}
        full == MaxUnmatched + 1 < Cardinality(unmatched)
    IN  IF f < c.expected_frame_id THEN qbuf(c, {<<s, f>>})
        ELSE IF same # {} THEN join(c, s, f, Min(same), older)
        ELSE IF full /\ older = {} THEN qbuf(c, {<<s, f>>})
        ELSE IF full THEN insert(evict(c, Min(older)), s, f)
        ELSE insert(c, s, f)

\* mm_channel_superbuf_comp_and_enqueue, after the metadata has been read.
compAndEnqueue(c, s, f) ==
    LET q == c.superbuf_queue
        unmatched == {i \in DOMAIN q : ~ q[i].matched}
        same == {i \in unmatched : q[i].frame_idx = f}
        older == {i \in unmatched : q[i].frame_idx < f}
        full == MaxUnmatched < Cardinality(unmatched)
    IN  IF f < c.expected_frame_id THEN qbuf(c, {<<s, f>>})
        ELSE IF same # {} THEN join(c, s, f, Min(same), older)
        ELSE IF full /\ older = {} THEN qbuf(c, {<<s, f>>})
        ELSE IF full THEN insert(evict(c, Min(older)), s, f)
        ELSE insert(c, s, f)

\* Mutants of dispatch: requests are counted down in continuous mode too;
\* the flash stays on.
dispatchCounts(c) ==
    LET avail == ready(c.superbuf_queue)
        k == IF c.notify_mode = "BURST" /\ c.pending_cnt < avail
             THEN c.pending_cnt ELSE avail
    IN  [behead(c, k) EXCEPT
            !.dispatched = @ \cup nodes(c.superbuf_queue, 1, k),
            !.pending_cnt = @ - k,
            !.startZSlSnapshotCalled = @ /\ c.pending_cnt > k]

dispatchKeepsFlash(c) ==
    LET burst == c.notify_mode = "BURST"
        avail == ready(c.superbuf_queue)
        k == IF burst /\ c.pending_cnt < avail THEN c.pending_cnt ELSE avail
    IN  [behead(c, k) EXCEPT
            !.dispatched = @ \cup nodes(c.superbuf_queue, 1, k),
            !.pending_cnt = IF burst THEN @ - k ELSE @]

\* The loop at the end of mm_channel_process_stream_buf: bundles go to the
\* callback thread while some are pending, or always in continuous mode.
dispatch(c) ==
    LET burst == c.notify_mode = "BURST"
        avail == ready(c.superbuf_queue)
        k == IF burst /\ c.pending_cnt < avail THEN c.pending_cnt ELSE avail
        d == [behead(c, k) EXCEPT
                 !.dispatched = @ \cup nodes(c.superbuf_queue, 1, k),
                 !.pending_cnt = IF burst THEN @ - k ELSE @]
    IN  IF burst /\ k > 0 /\ d.pending_cnt = 0
        THEN [d EXCEPT !.startZSlSnapshotCalled = FALSE] ELSE d

\* What follows every command but a flush.
finish(c) ==
    LET d == dropAbove(c, WaterMark)
    IN  IF d.spinning THEN d ELSE dispatch(d)

-----------------------------------------------------------------------------
(* mm_channel_process_stream_buf, one action per command.                  *)

\* The kernel fills a buffer of stream s with frame f: frames may be missing
\* from a stream, never out of order.
frameComes(s, f) ==
    /\ ~ ch.spinning
    /\ f > last[s]
    /\ Cardinality({b \in ch.held : b[1] = s}) < Buffers
    /\ last' = [last EXCEPT ![s] = f]
    /\ UNCHANGED commands

\* A frame of a stream without metadata (MM_CAMERA_CMD_TYPE_DATA_CB).
DataCb(s, f) ==
    /\ s # MetaStream
    /\ frameComes(s, f)
    /\ ch' = finish(compAndEnqueue([ch EXCEPT !.held = @ \cup {<<s, f>>}], s, f))

\* A frame of metadata.  With both of its flags set the metadata is refused,
\* and the frame is neither queued nor returned.
MetadataCb(f, m, min) ==
    /\ MetaStream \in Stream
    /\ frameComes(MetaStream, f)
    /\ ch' = LET c == [ch EXCEPT !.held = @ \cup {<<MetaStream, f>>}]
             IN  finish(IF m = "both" THEN c
                        ELSE compAndEnqueue(handleMetadata(c, m, min), MetaStream, f))

command == ~ ch.spinning /\ commands < MaxCommands /\ commands' = commands + 1 /\ UNCHANGED last

\* Mutant of ReqDataCb: the request returns without looking at the queue.
ReqDataCbLater(n) ==
    /\ command
    /\ ch' = dropAbove([ch EXCEPT !.pending_cnt = n], LookBack)

\* mm_channel_request_super_buf and mm_channel_cancel_super_buf_request (n = 0).
ReqDataCb(n) ==
    /\ command
    /\ ch' = LET d == dropAbove([ch EXCEPT !.pending_cnt = n], LookBack)
                 start == n > 0 /\ d.needLEDFlash
                 on == d.startZSlSnapshotCalled
             IN  IF d.spinning THEN d
                 ELSE finish([d EXCEPT
                    !.startZSlSnapshotCalled = (start \/ (on /\ n > 0)),
                    !.needLEDFlash = IF start \/ (on /\ n = 0) THEN FALSE ELSE @])

\* mm_channel_config_notify_mode.
ConfigNotify(mode) ==
    /\ command
    /\ ch' = finish([ch EXCEPT !.notify_mode = mode])

\* mm_channel_flush_super_buf_queue: nothing is dispatched after it.
FlushQueue(f) ==
    /\ command
    /\ ch' = flush([ch EXCEPT !.expected_frame_id = f])

\* The camera HAL returns the buffers of a bundle it was given.
BufDone(n) ==
    /\ ch' = [qbuf(ch, framesOf(n)) EXCEPT !.dispatched = @ \ {n}]
    /\ UNCHANGED <<last, commands>>

Next ==
    \/ \E s \in Stream, f \in Frame : DataCb(s, f)
    \/ \E f \in Frame, m \in Metadata \ {"range"} : MetadataCb(f, m, 0)
    \/ "range" \in Metadata /\ \E f, min \in Frame : MetadataCb(f, "range", min)
    \/ \E n \in 0 .. MaxBurst : ReqDataCb(n)
    \/ \E mode \in NotifyMode : ConfigNotify(mode)
    \/ \E f \in 0 .. MaxFrame : FlushQueue(f)
    \/ \E n \in ch.dispatched : BufDone(n)

Spec == Init /\ [][Next]_vars

-----------------------------------------------------------------------------
(* Properties.                                                             *)

\* The shape of the state; pending_cnt, a uint32_t, never goes below zero.
TypeOK ==
    /\ ch.superbuf_queue \in Seq(Node)
    /\ ch.match_cnt \in Nat /\ ch.pending_cnt \in 0 .. MaxBurst
    /\ ch.expected_frame_id \in Nat
    /\ ch.notify_mode \in NotifyMode
    /\ {ch.needLEDFlash, ch.startZSlSnapshotCalled, ch.spinning} \subseteq BOOLEAN
    /\ ch.held \subseteq Stream \X Frame
    /\ ch.dispatched \subseteq Node
    /\ last \in [Stream -> 0 .. MaxFrame] /\ commands \in 0 .. MaxCommands

\* Every buffer out of the kernel is in exactly one place, a node of the queue
\* or a bundle handed out, and what is there is out of the kernel: no path of
\* the matching loses a buffer or returns one that is still in use
\* (mm_camera_channel.c:1570-1756).
EveryBufferInOnePlace ==
    LET q == ch.superbuf_queue
    IN  /\ ch.held = framesIn(Range(q)) \cup framesIn(ch.dispatched)
        /\ framesIn(Range(q)) \cap framesIn(ch.dispatched) = {}
        /\ \A i, j \in DOMAIN q : i # j => framesOf(q[i]) \cap framesOf(q[j]) = {}
        /\ \A m, n \in ch.dispatched : m # n => framesOf(m) \cap framesOf(n) = {}

\* Matching: a bundle handed out has a frame of every stream, all with the
\* number of the bundle.
BundlesAreWhole ==
    \A n \in ch.dispatched : \A s \in Stream : n.super_buf[s] = n.frame_idx

\* The order the comparison loop relies on: matched bundles come first,
\* unmatched ones follow, oldest first, one for each number
\* (mm_camera_channel.c:1614-1645).  match_cnt is the number of the matched,
\* so that the loops that trim the queue, which stop on match_cnt alone and
\* make progress only on a matched head, always end (:1853, :1897).
QueueInOrder ==
    LET q == ch.superbuf_queue
    IN  /\ ch.match_cnt = ready(q) /\ ~ ch.spinning
        /\ \A i, j \in DOMAIN q :
              i < j => \/ q[i].matched
                       \/ ~ q[j].matched /\ q[i].frame_idx < q[j].frame_idx

\* A bundle is never kept from a request that waits for it.
NoBundleWaitsWithARequest ==
    ch.pending_cnt > 0 => ready(ch.superbuf_queue) = 0

\* The flash of a zero-shutter-lag capture is on only while pictures are
\* still to come: every way a request ends stops it (mm_camera_channel.c:206-
\* 217, 244-250).
FlashOnlyWhilePending == ch.startZSlSnapshotCalled => ch.pending_cnt > 0

\* With the buffers the HAL allocates (QCamera2HWI.cpp:1265: queue depth plus
\* unmatched frames plus spare ones) the queue alone never holds all buffers
\* of a stream, so frames keep coming.
NoStreamStarves ==
    \A s \in Stream :
        Cardinality({b \in framesIn(Range(ch.superbuf_queue)) : b[1] = s}) < Buffers
=============================================================================
