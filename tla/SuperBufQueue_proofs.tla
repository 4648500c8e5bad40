------------------------- MODULE SuperBufQueue_proofs -------------------------
(***************************************************************************)
(* Theorems about SuperBufQueue, for any set of streams, any attributes of *)
(* the channel and any number of frames and commands.                      *)
(*                                                                         *)
(* The steps are functions from a channel to a channel, so the invariant   *)
(* is one of a channel (Good) and of the frames that have no place in it   *)
(* yet, and there is a lemma for each function.  The order of the queue    *)
(* carries the rest: as the matched bundles are those before match_cnt,    *)
(* what the loops look for by number and by flag is an interval.           *)
(***************************************************************************)
EXTENDS SuperBufQueue, FiniteSetTheorems, SequenceTheorems, WellFoundedInduction,
        TLAPS

\* No metadata is refused, which would cost its buffer.
NoneRefused == "both" \notin Metadata

\* A stream has more buffers than the queue can keep: its depth and the unmatched frames,
\* which are one more than max_unmatched_frames at most.  In zero-shutter-lag mode the HAL
\* adds five buffers to the depth and max_unmatched_frames (QCamera2HWI.cpp:1263-1286).
EnoughBuffers == WaterMark + MaxUnmatched + 1 < Buffers

\* mm_channel_t.
Channel ==
    [superbuf_queue : Seq(Node), match_cnt : Nat, expected_frame_id : Nat,
     notify_mode : NotifyMode, pending_cnt : 0 .. MaxBurst,
     needLEDFlash : BOOLEAN, startZSlSnapshotCalled : BOOLEAN,
     held : SUBSET (Stream \X Frame), dispatched : SUBSET Node, spinning : BOOLEAN]

\* A node has some frames with its number; it is matched when it has all.
Proper(n) ==
    /\ \A s \in Stream : n.super_buf[s] \in {0, n.frame_idx}
    /\ \E s \in Stream : n.super_buf[s] # 0
    /\ n.matched <=> \A s \in Stream : n.super_buf[s] # 0

\* Matched nodes come first, match_cnt of them, then the unmatched ones, oldest first.
Ordered(c) ==
    LET q == c.superbuf_queue
    IN  /\ c.match_cnt \in 0 .. Len(q)
        /\ \A i \in 1 .. Len(q) : Proper(q[i]) /\ (q[i].matched <=> i <= c.match_cnt)
        /\ \A i, j \in 1 .. Len(q) :
              c.match_cnt < i /\ i < j => q[i].frame_idx < q[j].frame_idx

\* What was handed out was matched.
Whole(c) == \A n \in c.dispatched : Proper(n) /\ n.matched

\* The frames in the queue, and those handed out.
queued(c) == framesIn(Range(c.superbuf_queue))
out(c) == framesIn(c.dispatched)

\* No frame is in two nodes.
Disjoint(q) == \A i, j \in 1 .. Len(q) : i # j => framesOf(q[i]) \cap framesOf(q[j]) = {}
Apart(c) ==
    /\ Disjoint(c.superbuf_queue)
    /\ \A m, n \in c.dispatched : m # n => framesOf(m) \cap framesOf(n) = {}
    /\ queued(c) \cap out(c) = {}

\* A buffer that is out of the kernel is in a node, or is the frame b being handled.
Placed(c, b) ==
    /\ b \subseteq c.held /\ queued(c) \cup out(c) \subseteq c.held \ b
    /\ NoneRefused => c.held = queued(c) \cup out(c) \cup b

\* The unmatched nodes, which end the queue.
unmatchedCnt(c) == Len(c.superbuf_queue) - c.match_cnt

Good(c, b) ==
    /\ c \in Channel /\ ~ c.spinning
    /\ Ordered(c) /\ Whole(c) /\ Apart(c) /\ Placed(c, b)

\* The frames out of the kernel are none after the last of their stream.
Numbered ==
    /\ last \in [Stream -> 0 .. MaxFrame] /\ commands \in 0 .. MaxCommands
    /\ \A s \in Stream, f \in Frame : <<s, f>> \in ch.held => f <= last[s]

\* The loop that dispatches has come to its end.
Settled(c) ==
    /\ c.match_cnt <= WaterMark
    /\ c.pending_cnt > 0 => c.match_cnt = 0
    /\ c.startZSlSnapshotCalled => c.pending_cnt > 0

\* Between two commands: the frame of the last one has its place, what could be handed
\* out has been, and unmatched nodes are one more than max_unmatched_frames at most.
Inv ==
    /\ Good(ch, {}) /\ Settled(ch) /\ Numbered
    /\ unmatchedCnt(ch) <= MaxUnmatched + 1

\* The bounds are numbers, and there are streams.
LEMMA Bounds ==
    /\ Buffers \in Nat \ {0} /\ MaxFrame \in Nat \ {0} /\ MaxBurst \in Nat \ {0}
    /\ FutureOffset \in Nat \ {0} /\ MaxCommands \in Nat
    /\ WaterMark \in Nat /\ LookBack \in Nat /\ PostFrameSkip \in Nat /\ MaxUnmatched \in Nat
    /\ IsFiniteSet(Stream) /\ Stream # {}
    /\ NotifyMode # {} /\ NotifyMode \subseteq {"BURST", "CONTINUOUS"}
BY SuperBufAssumption DEF SuperBufAssumption, AllModes

-----------------------------------------------------------------------------
(* Facts about queues of nodes and the frames in them.                     *)

\* The frames of a node.
LEMMA FramesOf ==
    ASSUME NEW n
    PROVE  /\ \A s, f : <<s, f>> \in framesOf(n)
                           <=> s \in Stream /\ n.super_buf[s] = f /\ f # 0
           /\ n \in Node => framesOf(n) \subseteq Stream \X Frame
<1>1. \A s, f : <<s, f>> \in framesOf(n) <=> s \in Stream /\ n.super_buf[s] = f /\ f # 0
  BY DEF framesOf
<1>2. ASSUME n \in Node PROVE framesOf(n) \subseteq Stream \X Frame
  <2>1. \A s \in Stream : n.super_buf[s] \in 0 .. MaxFrame
    BY <1>2 DEF Node
  <2>2. \A s \in Stream : n.super_buf[s] # 0 => n.super_buf[s] \in Frame
    BY <2>1, Bounds DEF Frame
  <2>3. QED
    BY <2>2 DEF framesOf
<1>3. QED
  BY <1>1, <1>2

\* Those of a queue and of a set of nodes.
LEMMA FramesIn ==
    /\ \A q : \A b : b \in framesIn(Range(q)) <=> \E i \in DOMAIN q : b \in framesOf(q[i])
    /\ \A q, k, m : \A b : b \in framesIn(nodes(q, k, m))
                              <=> \E i \in k .. m : b \in framesOf(q[i])
    /\ \A ns : \A b : b \in framesIn(ns) <=> \E n \in ns : b \in framesOf(n)
    /\ framesIn({}) = {}
BY DEF framesIn, Range, nodes

\* r is q without the nodes from k to p.
IsCut(r, q, k, p) ==
    /\ Len(r) = Len(q) - (p - k + 1)
    /\ \A i \in 1 .. Len(r) : r[i] = IF i < k THEN q[i] ELSE q[i + p - k + 1]

\* SubSeq makes such a cut.
LEMMA CutOut ==
    ASSUME NEW q \in Seq(Node), NEW k \in 1 .. Len(q) + 1, NEW p \in k - 1 .. Len(q)
    PROVE  LET r == SubSeq(q, 1, k - 1) \o SubSeq(q, p + 1, Len(q))
           IN  r \in Seq(Node) /\ IsCut(r, q, k, p)
<1> DEFINE x == SubSeq(q, 1, k - 1)
           y == SubSeq(q, p + 1, Len(q))
<1>1. x \in Seq(Node) /\ Len(x) = k - 1 /\ \A i \in 1 .. k - 1 : x[i] = q[i]
  OBVIOUS
<1>2. /\ y \in Seq(Node) /\ Len(y) = Len(q) - p
      /\ \A i \in 1 .. Len(q) - p : y[i] = q[p + i]
  OBVIOUS
<1> HIDE DEF x, y
<1>3. /\ x \o y \in Seq(Node) /\ Len(x \o y) = Len(x) + Len(y)
      /\ \A i \in 1 .. Len(x) + Len(y) :
            (x \o y)[i] = IF i <= Len(x) THEN x[i] ELSE y[i - Len(x)]
  BY <1>1, <1>2, ConcatProperties
<1>4. x \o y \in Seq(Node) /\ Len(x \o y) = Len(q) - (p - k + 1)
  BY <1>1, <1>2, <1>3
<1>5. ASSUME NEW i \in 1 .. Len(x \o y)
      PROVE  (x \o y)[i] = IF i < k THEN q[i] ELSE q[i + p - k + 1]
  <2>1. CASE i < k
    BY <1>1, <1>2, <1>3, <2>1
  <2>2. CASE i >= k
    <3>1. (x \o y)[i] = y[i - Len(x)] /\ i - Len(x) = i - k + 1
      BY <1>1, <1>2, <1>3, <2>2
    <3>2. i - k + 1 \in 1 .. Len(q) - p
      BY <1>4, <2>2
    <3>3. y[i - k + 1] = q[p + (i - k + 1)] /\ p + (i - k + 1) = i + p - k + 1
      BY <1>2, <3>2
    <3>4. (x \o y)[i] = q[i + p - k + 1]
      BY <3>1, <3>3
    <3>5. ~ (i < k)
      BY <2>2
    <3>6. QED
      BY <3>4, <3>5
  <2>3. QED
    BY <2>1, <2>2
<1>6. QED
  BY <1>4, <1>5 DEF x, y, IsCut

\* r is q with the node n in the place of those from k to p.
IsSplice(r, q, k, p, n) ==
    /\ Len(r) = Len(q) - p + k
    /\ \A i \in 1 .. Len(r) :
          r[i] = IF i < k THEN q[i] ELSE IF i = k THEN n ELSE q[i + p - k]

\* SubSeq makes such a splice.
LEMMA Spliced ==
    ASSUME NEW q \in Seq(Node), NEW n \in Node,
           NEW k \in 1 .. Len(q) + 1, NEW p \in k - 1 .. Len(q)
    PROVE  LET r == SubSeq(q, 1, k - 1) \o <<n>> \o SubSeq(q, p + 1, Len(q))
           IN  r \in Seq(Node) /\ IsSplice(r, q, k, p, n)
<1> DEFINE x == SubSeq(q, 1, k - 1)
           y == SubSeq(q, p + 1, Len(q))
           w == x \o <<n>>
<1>1. x \in Seq(Node) /\ Len(x) = k - 1 /\ \A i \in 1 .. k - 1 : x[i] = q[i]
  OBVIOUS
<1>2. /\ y \in Seq(Node) /\ Len(y) = Len(q) - p
      /\ \A i \in 1 .. Len(q) - p : y[i] = q[p + i]
  OBVIOUS
<1> HIDE DEF x, y
<1>3. w \in Seq(Node) /\ Len(w) = k /\ \A i \in 1 .. k : w[i] = IF i < k THEN q[i] ELSE n
  <2>1. <<n>> \in Seq(Node) /\ Len(<<n>>) = 1 /\ <<n>>[1] = n
    OBVIOUS
  <2>2. /\ w \in Seq(Node) /\ Len(w) = Len(x) + Len(<<n>>)
        /\ \A i \in 1 .. Len(x) + Len(<<n>>) :
              w[i] = IF i <= Len(x) THEN x[i] ELSE <<n>>[i - Len(x)]
    BY <1>1, <2>1, ConcatProperties
  <2>3. ASSUME NEW i \in 1 .. k PROVE w[i] = IF i < k THEN q[i] ELSE n
    <3>1. CASE i < k
      BY <1>1, <2>1, <2>2, <3>1
    <3>2. CASE i = k
      <4>1. i - Len(x) = 1 /\ ~ (i <= Len(x)) /\ i \in 1 .. Len(x) + Len(<<n>>)
        BY <1>1, <2>1, <3>2
      <4>2. QED
        BY <2>1, <2>2, <3>2, <4>1
    <3>3. i < k \/ i = k
      OBVIOUS
    <3>4. QED
      BY <3>1, <3>2, <3>3
  <2>4. QED
    BY <1>1, <2>1, <2>2, <2>3
<1> HIDE DEF w
<1>4. /\ w \o y \in Seq(Node) /\ Len(w \o y) = Len(w) + Len(y)
      /\ \A i \in 1 .. Len(w) + Len(y) :
            (w \o y)[i] = IF i <= Len(w) THEN w[i] ELSE y[i - Len(w)]
  BY <1>2, <1>3, ConcatProperties
<1>5. w \o y \in Seq(Node) /\ Len(w \o y) = Len(q) - p + k
  BY <1>2, <1>3, <1>4
<1>6. ASSUME NEW i \in 1 .. Len(w \o y)
      PROVE  (w \o y)[i] = IF i < k THEN q[i] ELSE IF i = k THEN n ELSE q[i + p - k]
  <2>1. CASE i <= k
    BY <1>2, <1>3, <1>4, <2>1
  <2>2. CASE i > k
    <3>1. (w \o y)[i] = y[i - k]
      BY <1>2, <1>3, <1>4, <2>2
    <3>2. i - k \in 1 .. Len(q) - p
      BY <1>5, <2>2
    <3>3. y[i - k] = q[p + (i - k)] /\ p + (i - k) = i + p - k
      BY <1>2, <3>2
    <3>4. QED
      BY <2>2, <3>1, <3>3
  <2>3. QED
    BY <2>1, <2>2
<1>7. QED
  BY <1>5, <1>6 DEF w, x, y, IsSplice

\* The frames of what is left when nodes are taken out, none of which shares a frame.
LEMMA FramesLeft ==
    ASSUME NEW q \in Seq(Node), NEW r \in Seq(Node), Disjoint(q),
           NEW k \in 1 .. Len(q) + 1, NEW p \in k - 1 .. Len(q),
           IsCut(r, q, k, p)
    PROVE  /\ Disjoint(r)
           /\ framesIn(Range(r)) = framesIn(Range(q)) \ framesIn(nodes(q, k, p))
           /\ framesIn(nodes(q, k, p)) \subseteq framesIn(Range(q))
<1> DEFINE from(i) == IF i < k THEN i ELSE i + p - k + 1
<1>1. \A i \in 1 .. Len(r) : /\ r[i] = q[from(i)] /\ from(i) \in 1 .. Len(q)
                             /\ from(i) \notin k .. p
  BY DEF IsCut
<1>2. \A i, j \in 1 .. Len(r) : i # j => from(i) # from(j)
  OBVIOUS
<1>3. \A j \in 1 .. Len(q) : j \notin k .. p => \E i \in 1 .. Len(r) : j = from(i)
  <2>1. SUFFICES ASSUME NEW j \in 1 .. Len(q), j \notin k .. p
                 PROVE  \E i \in 1 .. Len(r) : j = from(i)
    OBVIOUS
  <2>2. CASE j < k
    <3>1. j \in 1 .. Len(r) /\ from(j) = j
      BY <2>2 DEF IsCut
    <3>2. QED
      BY <2>2, <3>1
  <2>3. CASE j > p
    <3>1. j - p + k - 1 \in 1 .. Len(r) /\ from(j - p + k - 1) = j
      BY <2>3 DEF IsCut
    <3>2. QED
      BY <3>1
  <2>4. QED
    BY <2>1, <2>2, <2>3
<1> HIDE DEF from
<1>4. Disjoint(r)
  BY <1>1, <1>2 DEF Disjoint
<1>5. DOMAIN q = 1 .. Len(q) /\ DOMAIN r = 1 .. Len(r) /\ k .. p \subseteq 1 .. Len(q)
  OBVIOUS
<1>6. framesIn(nodes(q, k, p)) \subseteq framesIn(Range(q))
  BY <1>5, FramesIn
<1>7. framesIn(Range(r)) \subseteq framesIn(Range(q)) \ framesIn(nodes(q, k, p))
  <2>1. SUFFICES ASSUME NEW b \in framesIn(Range(r))
                 PROVE  b \in framesIn(Range(q)) /\ b \notin framesIn(nodes(q, k, p))
    OBVIOUS
  <2>2. PICK i \in 1 .. Len(r) : b \in framesOf(r[i])
    BY <1>5, FramesIn
  <2>3. b \in framesOf(q[from(i)]) /\ from(i) \in 1 .. Len(q) /\ from(i) \notin k .. p
    BY <1>1, <2>2
  <2>4. \A j \in k .. p : b \notin framesOf(q[j])
    BY <1>5, <2>3 DEF Disjoint
  <2>5. QED
    BY <1>5, <2>3, <2>4, FramesIn
<1>8. framesIn(Range(q)) \ framesIn(nodes(q, k, p)) \subseteq framesIn(Range(r))
  <2>1. SUFFICES ASSUME NEW b \in framesIn(Range(q)), b \notin framesIn(nodes(q, k, p))
                 PROVE  b \in framesIn(Range(r))
    OBVIOUS
  <2>2. PICK j \in 1 .. Len(q) : b \in framesOf(q[j])
    BY <1>5, FramesIn
  <2>3. j \notin k .. p
    BY <2>1, <2>2, FramesIn
  <2>4. PICK i \in 1 .. Len(r) : j = from(i)
    BY <1>3, <2>3
  <2>5. b \in framesOf(r[i])
    BY <1>1, <2>2, <2>4
  <2>6. QED
    BY <1>5, <2>5, FramesIn
<1>9. QED
  BY <1>4, <1>6, <1>7, <1>8

\* The same when a node takes their place whose frames are in no other.
LEMMA FramesSpliced ==
    ASSUME NEW q \in Seq(Node), NEW r \in Seq(Node), NEW n \in Node, Disjoint(q),
           NEW k \in 1 .. Len(q) + 1, NEW p \in k - 1 .. Len(q),
           IsSplice(r, q, k, p, n),
           framesOf(n) \cap (framesIn(Range(q)) \ framesIn(nodes(q, k, p))) = {}
    PROVE  /\ Disjoint(r)
           /\ framesIn(Range(r))
                = (framesIn(Range(q)) \ framesIn(nodes(q, k, p))) \cup framesOf(n)
           /\ framesIn(nodes(q, k, p)) \subseteq framesIn(Range(q))
<1> DEFINE from(i) == IF i < k THEN i ELSE i + p - k
<1>1. /\ \A i \in 1 .. Len(r) : i # k => /\ r[i] = q[from(i)] /\ from(i) \in 1 .. Len(q)
                                         /\ from(i) \notin k .. p
      /\ k \in 1 .. Len(r) /\ r[k] = n
  BY DEF IsSplice
<1>2. \A i, j \in 1 .. Len(r) : i # j /\ i # k /\ j # k => from(i) # from(j)
  OBVIOUS
<1>3. \A j \in 1 .. Len(q) : j \notin k .. p => \E i \in 1 .. Len(r) : i # k /\ j = from(i)
  <2>1. SUFFICES ASSUME NEW j \in 1 .. Len(q), j \notin k .. p
                 PROVE  \E i \in 1 .. Len(r) : i # k /\ j = from(i)
    OBVIOUS
  <2>2. CASE j < k
    <3>1. j \in 1 .. Len(r) /\ j # k /\ from(j) = j
      BY <2>2 DEF IsSplice
    <3>2. QED
      BY <2>2, <3>1
  <2>3. CASE j > p
    <3>1. j - p + k \in 1 .. Len(r) /\ j - p + k # k /\ from(j - p + k) = j
      BY <2>3 DEF IsSplice
    <3>2. QED
      BY <3>1
  <2>4. QED
    BY <2>1, <2>2, <2>3
<1> HIDE DEF from
<1>4. DOMAIN q = 1 .. Len(q) /\ DOMAIN r = 1 .. Len(r) /\ k .. p \subseteq 1 .. Len(q)
  OBVIOUS
<1>5. framesIn(nodes(q, k, p)) \subseteq framesIn(Range(q))
  BY <1>4, FramesIn
<1>6. \A i \in 1 .. Len(r) :
         i # k => framesOf(r[i]) \subseteq framesIn(Range(q)) \ framesIn(nodes(q, k, p))
  <2>1. SUFFICES ASSUME NEW i \in 1 .. Len(r), i # k, NEW b \in framesOf(r[i])
                 PROVE  b \in framesIn(Range(q)) /\ b \notin framesIn(nodes(q, k, p))
    OBVIOUS
  <2>2. b \in framesOf(q[from(i)]) /\ from(i) \in 1 .. Len(q) /\ from(i) \notin k .. p
    BY <1>1, <2>1
  <2>3. \A j \in k .. p : b \notin framesOf(q[j])
    BY <1>4, <2>2 DEF Disjoint
  <2>4. QED
    BY <1>4, <2>2, <2>3, FramesIn
<1>7. Disjoint(r)
  <2>1. SUFFICES ASSUME NEW i \in 1 .. Len(r), NEW j \in 1 .. Len(r), i # j
                 PROVE  framesOf(r[i]) \cap framesOf(r[j]) = {}
    BY DEF Disjoint
  <2>2. CASE i # k /\ j # k
    BY <1>1, <1>2, <2>1, <2>2 DEF Disjoint
  <2>3. CASE i = k \/ j = k
    BY <1>1, <1>6, <2>1, <2>3
  <2>4. QED
    BY <2>2, <2>3
<1>8. framesIn(Range(q)) \ framesIn(nodes(q, k, p)) \subseteq framesIn(Range(r))
  <2>1. SUFFICES ASSUME NEW b \in framesIn(Range(q)), b \notin framesIn(nodes(q, k, p))
                 PROVE  b \in framesIn(Range(r))
    OBVIOUS
  <2>2. PICK j \in 1 .. Len(q) : b \in framesOf(q[j])
    BY <1>4, FramesIn
  <2>3. j \notin k .. p
    BY <2>1, <2>2, FramesIn
  <2>4. PICK i \in 1 .. Len(r) : i # k /\ j = from(i)
    BY <1>3, <2>3
  <2>5. b \in framesOf(r[i])
    BY <1>1, <2>2, <2>4
  <2>6. QED
    BY <1>4, <2>5, FramesIn
<1>9. framesOf(n) \subseteq framesIn(Range(r))
  BY <1>1, <1>4, FramesIn
<1>10. framesIn(Range(r)) \subseteq
          (framesIn(Range(q)) \ framesIn(nodes(q, k, p))) \cup framesOf(n)
  <2>1. SUFFICES ASSUME NEW b \in framesIn(Range(r)), b \notin framesOf(n)
                 PROVE  b \in framesIn(Range(q)) \ framesIn(nodes(q, k, p))
    OBVIOUS
  <2>2. PICK i \in 1 .. Len(r) : b \in framesOf(r[i])
    BY <1>4, FramesIn
  <2>3. QED
    BY <1>1, <1>6, <2>1, <2>2
<1>11. QED
  BY <1>5, <1>7, <1>8, <1>9, <1>10

\* The least element of a set.
LEMMA MinOf ==
    ASSUME NEW S \in SUBSET Int, NEW k \in S, \A i \in S : k <= i
    PROVE  Min(S) = k
<1>1. \A x \in S : (\A y \in S : x <= y) => x = k
  OBVIOUS
<1>2. \E x \in S : \A y \in S : x <= y
  OBVIOUS
<1>3. QED
  BY <1>1, <1>2 DEF Min

-----------------------------------------------------------------------------
(* Facts about channels.                                                   *)

\* The unmatched nodes are those after match_cnt, the matched ones are ready.
LEMMA Unmatched ==
    ASSUME NEW c \in Channel, Ordered(c)
    PROVE  LET q == c.superbuf_queue
           IN  /\ {i \in DOMAIN q : ~ q[i].matched} = (c.match_cnt + 1) .. Len(q)
               /\ {i \in DOMAIN q : q[i].matched} = 1 .. c.match_cnt
               /\ Cardinality((c.match_cnt + 1) .. Len(q)) = unmatchedCnt(c)
               /\ unmatchedCnt(c) \in Nat
               /\ ready(q) = c.match_cnt
<1> DEFINE q == c.superbuf_queue
           m == c.match_cnt
<1>1. /\ m \in Nat /\ m <= Len(q) /\ Len(q) \in Nat /\ DOMAIN q = 1 .. Len(q)
      /\ \A i \in 1 .. Len(q) : q[i].matched <=> i <= m
  BY DEF Channel, Ordered
<1> HIDE DEF q, m
<1>2. /\ {i \in DOMAIN q : ~ q[i].matched} = (m + 1) .. Len(q)
      /\ {i \in DOMAIN q : q[i].matched} = 1 .. m
  BY <1>1
<1> DEFINE l == Len(q)
<1>3. m \in Nat /\ l \in Nat /\ m <= l
  BY <1>1
<1> HIDE DEF l
<1>4. Cardinality((m + 1) .. l) = l - m /\ l - m \in Nat
  <2>1. m + 1 \in Int /\ l \in Int /\ m <= l
    BY <1>3
  <2>2. Cardinality((m + 1) .. l) = IF m + 1 > l THEN 0 ELSE l - (m + 1) + 1
    BY <2>1, FS_Interval
  <2>3. CASE m + 1 > l
    <3>1. Cardinality((m + 1) .. l) = 0 /\ l - m = 0
      BY <1>3, <2>2, <2>3
    <3>2. QED
      BY <3>1
  <2>4. CASE ~ (m + 1 > l)
    <3>1. Cardinality((m + 1) .. l) = l - (m + 1) + 1
      BY <2>2, <2>4
    <3>2. QED
      BY <1>3, <3>1
  <2>5. QED
    BY <2>3, <2>4
<1>5. ready(q) = m
  <2> DEFINE unmatched == {i \in DOMAIN q : ~ q[i].matched}
  <2>1. ready(q) = IF unmatched = {} THEN l ELSE Min(unmatched) - 1
    BY DEF ready, l
  <2>2. unmatched = (m + 1) .. l
    BY <1>2 DEF l
  <2> HIDE DEF unmatched
  <2>3. CASE m = l
    <3>1. unmatched = {}
      BY <1>3, <2>3, <2>2
    <3>2. QED
      BY <2>3, <2>1, <3>1
  <2>4. CASE m < l
    <3>1. /\ (m + 1) .. l \in SUBSET Int /\ m + 1 \in (m + 1) .. l
          /\ \A i \in (m + 1) .. l : m + 1 <= i
      BY <1>3, <2>4
    <3>2. Min((m + 1) .. l) = m + 1
      BY <3>1, MinOf
    <3>3. unmatched # {} /\ Min(unmatched) = m + 1
      BY <2>2, <3>1, <3>2, Zenon
    <3>4. ready(q) = Min(unmatched) - 1
      BY <2>1, <3>3
    <3>5. QED
      BY <1>3, <3>3, <3>4
  <2>5. m = l \/ m < l
    BY <1>3
  <2>6. QED
    BY <2>3, <2>4, <2>5
<1>6. QED
  BY <1>2, <1>4, <1>5 DEF l, q, m, unmatchedCnt

\* The order and the frames of a queue are those of its nodes and match_cnt.
LEMMA SameQueue ==
    ASSUME NEW c, NEW d, d.superbuf_queue = c.superbuf_queue, d.match_cnt = c.match_cnt
    PROVE  /\ Ordered(d) <=> Ordered(c)
           /\ queued(d) = queued(c) /\ unmatchedCnt(d) = unmatchedCnt(c)
BY DEF Ordered, queued, unmatchedCnt

\* What moves no buffer keeps a channel good.
LEMMA Unmoved ==
    ASSUME NEW c, NEW b, Good(c, b), NEW d \in Channel,
           d.superbuf_queue = c.superbuf_queue, d.match_cnt = c.match_cnt,
           d.held = c.held, d.dispatched = c.dispatched, d.spinning = c.spinning
    PROVE  Good(d, b) /\ unmatchedCnt(d) = unmatchedCnt(c)
<1>1. /\ Ordered(d) /\ queued(d) = queued(c) /\ unmatchedCnt(d) = unmatchedCnt(c)
      /\ out(d) = out(c) /\ Whole(d)
  BY SameQueue DEF Good, out, Whole
<1>2. Apart(d) /\ Placed(d, b)
  BY <1>1 DEF Good, Apart, Placed
<1>3. QED
  BY <1>1, <1>2 DEF Good

\* The head of the queue is taken off: the frames of those nodes leave it.
LEMMA Beheaded ==
    ASSUME NEW c \in Channel, Ordered(c), Disjoint(c.superbuf_queue),
           NEW k \in 0 .. c.match_cnt
    PROVE  LET d == behead(c, k)
               q == c.superbuf_queue
           IN  /\ d \in Channel
               /\ d.superbuf_queue = SubSeq(q, k + 1, Len(q)) /\ d.match_cnt = c.match_cnt - k
               /\ d.held = c.held /\ d.dispatched = c.dispatched /\ d.spinning = c.spinning
               /\ d.notify_mode = c.notify_mode /\ d.pending_cnt = c.pending_cnt
               /\ d.startZSlSnapshotCalled = c.startZSlSnapshotCalled
               /\ Ordered(d) /\ Disjoint(d.superbuf_queue) /\ unmatchedCnt(d) = unmatchedCnt(c)
               /\ queued(d) = queued(c) \ framesIn(nodes(q, 1, k))
               /\ framesIn(nodes(q, 1, k)) \subseteq queued(c)
               /\ \A n \in nodes(q, 1, k) : n \in Node /\ Proper(n) /\ n.matched
<1> DEFINE d == behead(c, k)
           q == c.superbuf_queue
           r == SubSeq(q, k + 1, Len(q))
           m == c.match_cnt
<1>1. /\ m \in 0 .. Len(q) /\ Len(q) \in Nat /\ q \in Seq(Node)
      /\ k \in Nat /\ m \in Nat /\ k <= m /\ m <= Len(q)
      /\ \A i \in 1 .. Len(q) : Proper(q[i]) /\ (q[i].matched <=> i <= m)
      /\ \A i, j \in 1 .. Len(q) : m < i /\ i < j => q[i].frame_idx < q[j].frame_idx
  BY DEF Channel, Ordered
<1>2. /\ r \in Seq(Node) /\ Len(r) = Len(q) - k
      /\ \A i \in 1 .. Len(r) : r[i] = q[i + k]
  BY <1>1
<1>3. /\ d \in Channel /\ d.superbuf_queue = r /\ d.match_cnt = m - k
      /\ d.held = c.held /\ d.dispatched = c.dispatched /\ d.spinning = c.spinning
      /\ d.notify_mode = c.notify_mode /\ d.pending_cnt = c.pending_cnt
      /\ d.startZSlSnapshotCalled = c.startZSlSnapshotCalled
  <2>1. m - k \in Nat
    BY <1>1
  <2>2. QED
    BY <1>2, <2>1 DEF behead, Channel
<1> HIDE DEF d, q, r, m
<1>4. Ordered(d)
  <2>1. m - k \in 0 .. Len(r)
    BY <1>1, <1>2
  <2>2. ASSUME NEW i \in 1 .. Len(r)
        PROVE  Proper(r[i]) /\ (r[i].matched <=> i <= m - k)
    <3>1. r[i] = q[i + k] /\ i + k \in 1 .. Len(q) /\ (i + k <= m <=> i <= m - k)
      BY <1>1, <1>2
    <3>2. QED
      BY <1>1, <3>1
  <2>3. ASSUME NEW i \in 1 .. Len(r), NEW j \in 1 .. Len(r), m - k < i, i < j
        PROVE  r[i].frame_idx < r[j].frame_idx
    <3>1. r[i] = q[i + k] /\ r[j] = q[j + k]
      BY <1>2
    <3>2. /\ i + k \in 1 .. Len(q) /\ j + k \in 1 .. Len(q)
          /\ m < i + k /\ i + k < j + k
      BY <1>1, <1>2, <2>3
    <3>3. QED
      BY <1>1, <3>1, <3>2
  <2>4. QED
    BY <1>3, <2>1, <2>2, <2>3 DEF Ordered
<1>5. /\ Disjoint(r) /\ framesIn(Range(r)) = framesIn(Range(q)) \ framesIn(nodes(q, 1, k))
      /\ framesIn(nodes(q, 1, k)) \subseteq framesIn(Range(q))
  <2>1. k \in 1 - 1 .. Len(q) /\ 1 \in 1 .. Len(q) + 1 /\ Len(r) = Len(q) - (k - 1 + 1)
    BY <1>1, <1>2
  <2>2. \A i \in 1 .. Len(r) : r[i] = IF i < 1 THEN q[i] ELSE q[i + k - 1 + 1]
    BY <1>1, <1>2
  <2>3. Disjoint(q)
    BY DEF q
  <2>4. QED
    <3>1. IsCut(r, q, 1, k)
      BY <2>1, <2>2 DEF IsCut
    <3>2. QED
      BY <1>1, <1>2, <2>1, <2>3, <3>1, FramesLeft
<1>6. \A n \in nodes(q, 1, k) : n \in Node /\ Proper(n) /\ n.matched
  <2>1. ASSUME NEW i \in 1 .. k
        PROVE  q[i] \in Node /\ Proper(q[i]) /\ q[i].matched
    BY <1>1
  <2>2. QED
    BY <2>1 DEF nodes
<1>7. unmatchedCnt(d) = unmatchedCnt(c)
  BY <1>1, <1>2, <1>3 DEF unmatchedCnt, q, m
<1>8. QED
  BY <1>3, <1>4, <1>5, <1>6, <1>7 DEF d, q, r, m, queued

\* Buffers that are in no node go back to the kernel: the frame being handled, or those
\* of a node that was taken out of the queue.
LEMMA Qbuf ==
    ASSUME NEW c \in Channel, NEW frames
    PROVE  LET d == qbuf(c, frames)
           IN  /\ d \in Channel /\ d.held = c.held \ frames
               /\ d.superbuf_queue = c.superbuf_queue /\ d.match_cnt = c.match_cnt
               /\ d.dispatched = c.dispatched /\ d.spinning = c.spinning
               /\ d.notify_mode = c.notify_mode /\ d.pending_cnt = c.pending_cnt
               /\ d.startZSlSnapshotCalled = c.startZSlSnapshotCalled
BY DEF qbuf, Channel

\* The frame being handled is returned.
LEMMA QbufGood ==
    ASSUME NEW c, NEW b, Good(c, b)
    PROVE  LET d == qbuf(c, b)
           IN  /\ Good(d, {}) /\ d.held \subseteq c.held /\ unmatchedCnt(d) = unmatchedCnt(c)
               /\ d.pending_cnt = c.pending_cnt
               /\ d.startZSlSnapshotCalled = c.startZSlSnapshotCalled
<1> DEFINE d == qbuf(c, b)
<1>1. /\ d \in Channel /\ d.held = c.held \ b
      /\ d.superbuf_queue = c.superbuf_queue /\ d.match_cnt = c.match_cnt
      /\ d.dispatched = c.dispatched /\ d.spinning = c.spinning
      /\ d.pending_cnt = c.pending_cnt
      /\ d.startZSlSnapshotCalled = c.startZSlSnapshotCalled
  BY Qbuf DEF Good
<1> HIDE DEF d
<1>2. /\ Ordered(d) /\ queued(d) = queued(c) /\ unmatchedCnt(d) = unmatchedCnt(c)
      /\ out(d) = out(c)
  BY <1>1, SameQueue DEF Good, out
<1>3. Whole(d) /\ Apart(d)
  BY <1>1, <1>2 DEF Good, Whole, Apart
<1>4. Placed(d, {})
  BY <1>1, <1>2 DEF Good, Placed
<1>5. QED
  BY <1>1, <1>2, <1>3, <1>4 DEF Good, d

\* mm_channel_superbuf_flush leaves an empty queue.
LEMMA FlushGood ==
    ASSUME NEW c, NEW b, Good(c, b)
    PROVE  LET d == flush(c)
           IN  /\ Good(d, b) /\ d.held \subseteq c.held
               /\ d.superbuf_queue = <<>> /\ d.match_cnt = 0
               /\ unmatchedCnt(d) = 0 /\ d.pending_cnt = c.pending_cnt
               /\ d.startZSlSnapshotCalled = c.startZSlSnapshotCalled
<1> DEFINE d == flush(c)
           e == qbuf(c, queued(c))
<1>1. /\ e \in Channel /\ e.held = c.held \ queued(c)
      /\ e.superbuf_queue = c.superbuf_queue /\ e.match_cnt = c.match_cnt
      /\ e.dispatched = c.dispatched /\ e.spinning = c.spinning
      /\ e.pending_cnt = c.pending_cnt
      /\ e.startZSlSnapshotCalled = c.startZSlSnapshotCalled
  BY Qbuf DEF Good
<1>2. Cardinality({i \in DOMAIN c.superbuf_queue : c.superbuf_queue[i].matched}) = c.match_cnt
  <2>1. {i \in DOMAIN c.superbuf_queue : c.superbuf_queue[i].matched} = 1 .. c.match_cnt
    BY Unmatched DEF Good
  <2>2. c.match_cnt \in Nat
    BY DEF Good, Channel
  <2>3. Cardinality(1 .. c.match_cnt) = c.match_cnt
    <3>1. Cardinality(1 .. c.match_cnt)
            = IF 1 > c.match_cnt THEN 0 ELSE c.match_cnt - 1 + 1
      BY <2>2, FS_Interval
    <3>2. CASE c.match_cnt = 0
      BY <3>1, <3>2
    <3>3. CASE c.match_cnt # 0
      BY <2>2, <3>1, <3>3
    <3>4. QED
      BY <3>2, <3>3
  <2>4. QED
    BY <2>1, <2>3, Zenon
<1>3. d = [e EXCEPT !.superbuf_queue = <<>>, !.match_cnt = 0]
  <2>1. d = [e EXCEPT !.superbuf_queue = <<>>,
                      !.match_cnt = e.match_cnt - c.match_cnt]
    BY <1>2 DEF flush, queued
  <2>2. e.match_cnt - c.match_cnt = 0
    BY <1>1 DEF Channel
  <2>3. QED
    BY <2>1, <2>2
<1> HIDE DEF d, e
<1>4. /\ d \in Channel /\ d.held = c.held \ queued(c)
      /\ d.superbuf_queue = <<>> /\ d.match_cnt = 0
      /\ d.dispatched = c.dispatched /\ d.spinning = c.spinning
      /\ d.pending_cnt = c.pending_cnt
      /\ d.startZSlSnapshotCalled = c.startZSlSnapshotCalled
  <2>1. <<>> \in Seq(Node) /\ 0 \in Nat
    OBVIOUS
  <2>2. QED
    BY <1>1, <1>3, <2>1 DEF Channel
<1>5. Ordered(d) /\ Disjoint(d.superbuf_queue) /\ unmatchedCnt(d) = 0
  BY <1>4 DEF Ordered, Disjoint, unmatchedCnt
<1>6. queued(d) = {} /\ out(d) = out(c)
  <2>1. Range(<<>>) = {} /\ framesIn({}) = {}
    BY DEF Range, framesIn
  <2>2. QED
    BY <1>4, <2>1 DEF queued, out
<1>7. Whole(d) /\ Apart(d)
  BY <1>4, <1>5, <1>6 DEF Good, Whole, Apart
<1>8. Placed(d, b)
  BY <1>4, <1>6 DEF Good, Placed, Apart
<1>9. QED
  BY <1>4, <1>5, <1>7, <1>8 DEF Good, d

\* The loops that trim the queue: they end, and above the limit only burst mode is trimmed.
LEMMA DropAboveGood ==
    ASSUME NEW c, Good(c, {}), NEW limit \in Nat
    PROVE  LET d == dropAbove(c, limit)
           IN  /\ Good(d, {}) /\ d.held \subseteq c.held /\ unmatchedCnt(d) = unmatchedCnt(c)
               /\ d.match_cnt <= limit \/ d.notify_mode = "CONTINUOUS"
               /\ d.pending_cnt = c.pending_cnt
               /\ d.startZSlSnapshotCalled = c.startZSlSnapshotCalled
<1> DEFINE d == dropAbove(c, limit)
           q == c.superbuf_queue
           k == c.match_cnt - limit
           gone == framesIn(nodes(q, 1, k))
           e == qbuf(c, gone)
<1>1. c \in Channel /\ c.match_cnt \in Nat /\ ready(q) = c.match_cnt /\ k \in Int
  BY Unmatched DEF Good, Channel
<1>2. CASE c.notify_mode = "CONTINUOUS" \/ k <= 0
  <2>1. d = c
    BY <1>2 DEF dropAbove
  <2>2. d.match_cnt <= limit \/ d.notify_mode = "CONTINUOUS"
    BY <1>1, <1>2, <2>1
  <2>3. QED
    BY <2>1, <2>2
<1>3. CASE ~ (c.notify_mode = "CONTINUOUS" \/ k <= 0)
  <2>1. k \in 0 .. c.match_cnt /\ k <= ready(q)
    BY <1>1, <1>3
  <2>2. d = behead(e, k)
    BY <1>3, <2>1 DEF dropAbove
  <2>3. /\ e \in Channel /\ e.held = c.held \ gone
        /\ e.superbuf_queue = q /\ e.match_cnt = c.match_cnt
        /\ e.dispatched = c.dispatched /\ e.spinning = c.spinning
        /\ e.pending_cnt = c.pending_cnt
        /\ e.startZSlSnapshotCalled = c.startZSlSnapshotCalled
    BY <1>1, Qbuf
  <2>4. c.match_cnt - k = limit
    BY <1>1
  <2> HIDE DEF d, q, k, gone, e
  <2>5. Ordered(e) /\ queued(e) = queued(c) /\ unmatchedCnt(e) = unmatchedCnt(c)
        /\ Disjoint(e.superbuf_queue)
    BY <2>3, SameQueue DEF Good, Apart, q
  <2>6. /\ d \in Channel /\ d.match_cnt = c.match_cnt - k
        /\ d.held = e.held /\ d.dispatched = e.dispatched /\ d.spinning = e.spinning
        /\ d.pending_cnt = e.pending_cnt
        /\ d.startZSlSnapshotCalled = e.startZSlSnapshotCalled
        /\ Ordered(d) /\ Disjoint(d.superbuf_queue) /\ unmatchedCnt(d) = unmatchedCnt(e)
        /\ queued(d) = queued(e) \ gone /\ gone \subseteq queued(e)
    BY <2>1, <2>2, <2>3, <2>5, Beheaded DEF gone
  <2>7. out(d) = out(c) /\ Whole(d)
    BY <2>3, <2>6 DEF Good, out, Whole
  <2>8. Apart(d)
    BY <2>3, <2>5, <2>6, <2>7 DEF Good, Apart
  <2>9. Placed(d, {})
    BY <2>3, <2>5, <2>6, <2>7 DEF Good, Placed, Apart
  <2>10. d.match_cnt <= limit
    BY <2>4, <2>6
  <2>11. QED
    BY <2>3, <2>5, <2>6, <2>7, <2>8, <2>9, <2>10 DEF Good, d
<1>4. QED
  BY <1>2, <1>3

\* The bundles that are ready are handed out, as many as are asked for.
LEMMA DispatchGood ==
    ASSUME NEW c, Good(c, {}), c.startZSlSnapshotCalled => c.pending_cnt > 0
    PROVE  LET d == dispatch(c)
           IN  /\ Good(d, {}) /\ d.held \subseteq c.held /\ unmatchedCnt(d) = unmatchedCnt(c)
               /\ d.match_cnt <= c.match_cnt
               /\ c.notify_mode = "CONTINUOUS" => d.match_cnt = 0
               /\ d.pending_cnt > 0 => d.match_cnt = 0
               /\ d.startZSlSnapshotCalled => d.pending_cnt > 0
<1> DEFINE q == c.superbuf_queue
           burst == c.notify_mode = "BURST"
           k == IF burst /\ c.pending_cnt < c.match_cnt THEN c.pending_cnt ELSE c.match_cnt
           taken == nodes(q, 1, k)
           e == behead(c, k)
           left == IF burst THEN c.pending_cnt - k ELSE c.pending_cnt
           f == [e EXCEPT !.dispatched = e.dispatched \cup taken, !.pending_cnt = left]
           d == dispatch(c)
<1>1. /\ c \in Channel /\ c.match_cnt \in Nat /\ ready(q) = c.match_cnt
      /\ c.pending_cnt \in 0 .. MaxBurst /\ c.pending_cnt \in Nat
      /\ c.notify_mode \in {"BURST", "CONTINUOUS"}
  <2>1. /\ c \in Channel /\ c.match_cnt \in Nat /\ ready(q) = c.match_cnt
        /\ c.pending_cnt \in 0 .. MaxBurst /\ c.notify_mode \in NotifyMode
    BY Unmatched DEF Good, Channel
  <2>2. MaxBurst \in Nat /\ NotifyMode \subseteq {"BURST", "CONTINUOUS"}
    BY Bounds
  <2>3. c.pending_cnt \in Nat
    BY <2>1, <2>2
  <2>4. QED
    BY <2>1, <2>2, <2>3
<1>2. /\ k \in 0 .. c.match_cnt /\ k \in Nat /\ k <= c.match_cnt
      /\ left \in Nat /\ left \in 0 .. MaxBurst
      /\ ~ burst => k = c.match_cnt /\ left = c.pending_cnt
      /\ burst => left = c.pending_cnt - k /\ (left > 0 => k = c.match_cnt)
  BY <1>1, Bounds
<1>3. /\ e \in Channel /\ e.match_cnt = c.match_cnt - k /\ e.pending_cnt = c.pending_cnt
      /\ e.held = c.held /\ e.dispatched = c.dispatched /\ e.spinning = c.spinning
      /\ e.startZSlSnapshotCalled = c.startZSlSnapshotCalled
      /\ Ordered(e) /\ Disjoint(e.superbuf_queue) /\ unmatchedCnt(e) = unmatchedCnt(c)
      /\ queued(e) = queued(c) \ framesIn(taken) /\ framesIn(taken) \subseteq queued(c)
      /\ \A n \in taken : n \in Node /\ Proper(n) /\ n.matched
  BY <1>1, <1>2, Beheaded DEF Good, Apart
<1>4. d = IF burst /\ k > 0 /\ f.pending_cnt = 0
          THEN [f EXCEPT !.startZSlSnapshotCalled = FALSE] ELSE f
  BY <1>1, <1>3 DEF dispatch
<1>5. \A m, n \in taken : m # n => framesOf(m) \cap framesOf(n) = {}
  <2>1. \A i, j \in 1 .. k : i # j => framesOf(q[i]) \cap framesOf(q[j]) = {}
    <3>1. q \in Seq(Node) /\ c.match_cnt <= Len(q) /\ Disjoint(q)
      BY DEF Good, Channel, Apart, Ordered
    <3>2. k <= Len(q) /\ Len(q) \in Nat
      BY <1>1, <1>2, <3>1
    <3>3. \A i \in 1 .. k : i \in 1 .. Len(q)
      BY <1>2, <3>2
    <3>4. QED
      BY <3>1, <3>3 DEF Disjoint
  <2>2. QED
    BY <2>1 DEF nodes
<1> HIDE DEF q, burst, k, taken, e, left
<1>6. /\ f \in Channel /\ f.match_cnt = c.match_cnt - k /\ f.pending_cnt = left
      /\ f.held = c.held /\ f.dispatched = c.dispatched \cup taken /\ f.spinning = c.spinning
      /\ f.startZSlSnapshotCalled = c.startZSlSnapshotCalled
      /\ f.superbuf_queue = e.superbuf_queue
  BY <1>2, <1>3 DEF Channel
<1> HIDE DEF f
<1>7. /\ d \in Channel /\ d.match_cnt = c.match_cnt - k /\ d.pending_cnt = left
      /\ d.held = c.held /\ d.dispatched = c.dispatched \cup taken /\ d.spinning = c.spinning
      /\ d.superbuf_queue = e.superbuf_queue
      /\ d.startZSlSnapshotCalled
           => c.startZSlSnapshotCalled /\ ~ (burst /\ k > 0 /\ left = 0)
  <2>1. CASE burst /\ k > 0 /\ f.pending_cnt = 0
    BY <1>4, <1>6, <2>1 DEF Channel
  <2>2. CASE ~ (burst /\ k > 0 /\ f.pending_cnt = 0)
    BY <1>4, <1>6, <2>2
  <2>3. QED
    BY <2>1, <2>2
<1> HIDE DEF d
<1>8. /\ Ordered(d) /\ queued(d) = queued(c) \ framesIn(taken)
      /\ unmatchedCnt(d) = unmatchedCnt(c) /\ Disjoint(d.superbuf_queue)
  BY <1>3, <1>7, SameQueue
<1>9. out(d) = out(c) \cup framesIn(taken)
  BY <1>7 DEF out, framesIn
<1>10. Whole(d)
  BY <1>3, <1>7 DEF Good, Whole
<1>11. Apart(d)
  <2>1. \A m \in taken, n \in c.dispatched : framesOf(m) \cap framesOf(n) = {}
    <3>1. \A m \in taken : framesOf(m) \subseteq queued(c)
      BY <1>3 DEF framesIn
    <3>2. \A n \in c.dispatched : framesOf(n) \subseteq out(c)
      BY DEF framesIn, out
    <3>3. QED
      BY <3>1, <3>2 DEF Good, Apart
  <2>2. \A m, n \in d.dispatched : m # n => framesOf(m) \cap framesOf(n) = {}
    BY <1>5, <1>7, <2>1 DEF Good, Apart
  <2>3. queued(d) \cap out(d) = {}
    BY <1>8, <1>9 DEF Good, Apart
  <2>4. QED
    BY <1>8, <2>2, <2>3 DEF Apart
<1>12. Placed(d, {})
  BY <1>3, <1>7, <1>8, <1>9 DEF Good, Placed
<1>13. /\ d.match_cnt <= c.match_cnt
       /\ c.notify_mode = "CONTINUOUS" => d.match_cnt = 0
       /\ d.pending_cnt > 0 => d.match_cnt = 0
  BY <1>1, <1>2, <1>7 DEF burst
<1>14. d.startZSlSnapshotCalled => d.pending_cnt > 0
  BY <1>1, <1>2, <1>7
<1>15. QED
  BY <1>7, <1>8, <1>10, <1>11, <1>12, <1>13, <1>14 DEF Good, d

\* So every command but a flush leaves the channel settled.
LEMMA FinishGood ==
    ASSUME NEW c, Good(c, {}), c.startZSlSnapshotCalled => c.pending_cnt > 0
    PROVE  LET d == finish(c)
           IN  /\ Good(d, {}) /\ Settled(d)
               /\ d.held \subseteq c.held /\ unmatchedCnt(d) = unmatchedCnt(c)
<1> DEFINE e == dropAbove(c, WaterMark)
           d == dispatch(e)
<1>1. /\ Good(e, {}) /\ unmatchedCnt(e) = unmatchedCnt(c) /\ e.held \subseteq c.held
      /\ e.match_cnt <= WaterMark \/ e.notify_mode = "CONTINUOUS"
      /\ e.startZSlSnapshotCalled => e.pending_cnt > 0
  BY Bounds, DropAboveGood
<1>2. finish(c) = d
  BY <1>1 DEF finish, Good
<1> HIDE DEF e
<1>3. /\ Good(d, {}) /\ unmatchedCnt(d) = unmatchedCnt(e) /\ d.held \subseteq e.held
      /\ d.match_cnt <= e.match_cnt
      /\ e.notify_mode = "CONTINUOUS" => d.match_cnt = 0
      /\ d.pending_cnt > 0 => d.match_cnt = 0
      /\ d.startZSlSnapshotCalled => d.pending_cnt > 0
  BY <1>1, DispatchGood
<1> HIDE DEF d
<1>4. d.match_cnt <= WaterMark
  <2>1. d.match_cnt \in Nat /\ e.match_cnt \in Nat /\ WaterMark \in Nat
    BY <1>1, <1>3, Bounds DEF Good, Channel
  <2>2. QED
    BY <1>1, <1>3, <2>1
<1>5. QED
  BY <1>1, <1>2, <1>3, <1>4 DEF Settled

\* What the metadata says changes nothing of the queue, or flushes it.
LEMMA MetadataGood ==
    ASSUME NEW c, NEW b, Good(c, b), NEW m, NEW min \in Nat
    PROVE  LET d == handleMetadata(c, m, min)
           IN  /\ Good(d, b) /\ d.held \subseteq c.held
               /\ unmatchedCnt(d) \in {0, unmatchedCnt(c)}
               /\ d.pending_cnt = c.pending_cnt
               /\ d.startZSlSnapshotCalled = c.startZSlSnapshotCalled
<1> DEFINE d == handleMetadata(c, m, min)
           Same(e, g) == /\ e \in Channel /\ e.superbuf_queue = g.superbuf_queue
                         /\ e.match_cnt = g.match_cnt /\ e.held = g.held
                         /\ e.dispatched = g.dispatched /\ e.spinning = g.spinning
                         /\ e.pending_cnt = g.pending_cnt
                         /\ e.startZSlSnapshotCalled = g.startZSlSnapshotCalled
<1>1. ASSUME NEW e, NEW g, Good(g, b), Same(e, g)
      PROVE  Good(e, b) /\ unmatchedCnt(e) = unmatchedCnt(g)
  BY <1>1, Unmoved
<1>2. c \in Channel /\ c.expected_frame_id + FutureOffset \in Nat
  BY Bounds DEF Good, Channel
<1>3. CASE m = "future"
  <2> DEFINE e == [c EXCEPT !.expected_frame_id = c.expected_frame_id + FutureOffset]
             g == flush(e)
  <2>1. Same(e, c)
    BY <1>2 DEF Channel
  <2> HIDE DEF e
  <2>2. Good(e, b)
    BY <1>1, <2>1
  <2>3. /\ Good(g, b) /\ unmatchedCnt(g) = 0 /\ g.pending_cnt = e.pending_cnt
        /\ g.held \subseteq e.held
        /\ g.startZSlSnapshotCalled = e.startZSlSnapshotCalled
    BY <2>2, FlushGood
  <2>4. d = [g EXCEPT !.needLEDFlash = TRUE]
    BY <1>3 DEF handleMetadata, e
  <2> HIDE DEF g, d
  <2>5. Same(d, g)
    BY <2>3, <2>4 DEF Good, Channel
  <2>6. Good(d, b) /\ unmatchedCnt(d) = 0
    BY <1>1, <2>3, <2>5
  <2>7. QED
    BY <2>1, <2>3, <2>5, <2>6 DEF d
<1>4. CASE m = "ready"
  <2>1. d = [c EXCEPT !.needLEDFlash = FALSE]
    BY <1>4 DEF handleMetadata
  <2>2. Same(d, c)
    BY <1>2, <2>1 DEF Channel
  <2>3. QED
    BY <1>1, <2>2
<1>5. CASE m = "range"
  <2>1. d = [c EXCEPT !.expected_frame_id = min]
    BY <1>5 DEF handleMetadata
  <2>2. Same(d, c)
    BY <1>2, <2>1 DEF Channel
  <2>3. QED
    BY <1>1, <2>2
<1>6. CASE m \notin {"future", "ready", "range"}
  BY <1>6 DEF handleMetadata
<1>7. QED
  BY <1>3, <1>4, <1>5, <1>6

-----------------------------------------------------------------------------
(* mm_channel_superbuf_comp_and_enqueue.                                   *)

\* A non-empty set of numbers has a least one.
LEMMA MinExists ==
    ASSUME NEW S \in SUBSET Nat, S # {}
    PROVE  Min(S) \in S /\ \A i \in S : Min(S) <= i
<1> DEFINE below == {0 .. i : i \in S}
           R == StrictSubsetOrdering(Nat)
<1>1. IsWellFoundedOn(R, FiniteSubsetsOf(Nat))
  BY FS_StrictSubsetOrderingWellFounded
<1>2. below # {} /\ below \subseteq FiniteSubsetsOf(Nat)
  <2>1. ASSUME NEW i \in S PROVE 0 .. i \in FiniteSubsetsOf(Nat)
    BY FS_Interval DEF FiniteSubsetsOf
  <2>2. QED
    BY <2>1
<1> HIDE DEF R
<1>3. \E x \in below : \A y \in below : ~ (<<y, x>> \in R)
  BY <1>1, <1>2, WFMin
<1>4. PICK i \in S : \A j \in S : ~ (<<0 .. j, 0 .. i>> \in R)
  BY <1>3
<1>5. ASSUME NEW j \in S PROVE i <= j
  <2>1. SUFFICES ASSUME j < i PROVE FALSE
    BY <1>4
  <2>2. 0 .. j \in SUBSET Nat /\ 0 .. i \in SUBSET Nat /\ 0 .. j \subseteq 0 .. i
    BY <2>1
  <2>3. i \in 0 .. i /\ i \notin 0 .. j
    BY <2>1
  <2>4. QED
    BY <1>4, <2>2, <2>3 DEF R, StrictSubsetOrdering
<1>6. \E x \in S : \A j \in S : x <= j
  BY <1>5
<1>7. QED
  BY <1>6 DEF Min

\* A frame joins the node of its number: it has a place, and if the bundle is complete
\* then it is the next matched one and the older nodes, all unmatched, are released.
LEMMA JoinGood ==
    ASSUME NEW c, NEW s \in Stream, NEW f \in Frame, Good(c, {<<s, f>>}),
           NEW pos \in (c.match_cnt + 1) .. Len(c.superbuf_queue),
           c.superbuf_queue[pos].frame_idx = f,
           NEW older,
           older = {i \in (c.match_cnt + 1) .. Len(c.superbuf_queue) :
                      c.superbuf_queue[i].frame_idx < f}
    PROVE  LET d == join(c, s, f, pos, older)
           IN  /\ Good(d, {}) /\ d.held \subseteq c.held /\ unmatchedCnt(d) <= unmatchedCnt(c)
               /\ d.pending_cnt = c.pending_cnt
               /\ d.startZSlSnapshotCalled = c.startZSlSnapshotCalled
<1> DEFINE q == c.superbuf_queue
           m == c.match_cnt
           l == Len(q)
           old == q[pos]
           sb == [old.super_buf EXCEPT ![s] = f]
           whole == \A t \in Stream : sb[t] # 0
           n == [old EXCEPT !.super_buf = sb, !.matched = whole]
           stale == {i \in older : i < pos}
           from == IF stale = {} THEN pos ELSE Min(stale)
           b == <<s, f>>
           d == join(c, s, f, pos, older)
<1>1. /\ c \in Channel /\ q \in Seq(Node) /\ m \in Nat /\ l \in Nat /\ m <= l
      /\ pos \in Nat /\ m < pos /\ pos <= l
      /\ \A i \in 1 .. l : q[i] \in Node /\ Proper(q[i]) /\ (q[i].matched <=> i <= m)
      /\ \A i, j \in 1 .. l : m < i /\ i < j => q[i].frame_idx < q[j].frame_idx
      /\ Disjoint(q)
  BY DEF Good, Channel, Ordered, Apart
<1>2. /\ old \in Node /\ Proper(old) /\ ~ old.matched /\ old.frame_idx = f
      /\ framesOf(old) \subseteq queued(c)
  <2>1. pos \in 1 .. l /\ ~ (pos <= m)
    BY <1>1
  <2>2. old \in Node /\ Proper(old) /\ ~ old.matched
    BY <1>1, <2>1
  <2>3. framesOf(old) \subseteq queued(c)
    BY <2>1, <1>1, FramesIn DEF queued
  <2>4. QED
    BY <2>2, <2>3
<1>3. b \in c.held /\ b \notin queued(c) /\ b \notin out(c)
  BY DEF Good, Placed
<1>4. old.super_buf[s] = 0 /\ f # 0
  <2>1. b \notin framesOf(old)
    BY <1>2, <1>3
  <2>2. f # 0
    BY Bounds DEF Frame
  <2>3. old.super_buf[s] # f
    BY <2>1, <2>2, FramesOf
  <2>4. QED
    BY <1>2, <2>2, <2>3 DEF Proper
<1>5. /\ n \in Node /\ n.frame_idx = f /\ n.super_buf = sb /\ n.matched = whole
      /\ \A t \in Stream : sb[t] = IF t = s THEN f ELSE old.super_buf[t]
  <2>1. old.super_buf \in [Stream -> 0 .. MaxFrame] /\ f \in 0 .. MaxFrame
    BY <1>2, Bounds DEF Node, Frame
  <2>2. /\ sb \in [Stream -> 0 .. MaxFrame]
        /\ \A t \in Stream : sb[t] = IF t = s THEN f ELSE old.super_buf[t]
    BY <2>1
  <2> HIDE DEF sb
  <2>3. whole \in BOOLEAN
    OBVIOUS
  <2> HIDE DEF whole, old
  <2>4. QED
    BY <1>2, <2>2, <2>3 DEF Node
<1>6. Proper(n) /\ framesOf(n) = framesOf(old) \cup {b}
  <2>1. Proper(n)
    BY <1>2, <1>4, <1>5 DEF Proper
  <2> HIDE DEF n, sb, old, whole
  <2>2. ASSUME NEW t, NEW g
        PROVE  <<t, g>> \in framesOf(n) <=> <<t, g>> \in framesOf(old) \cup {b}
    <3>1. <<t, g>> \in framesOf(n) <=> t \in Stream /\ n.super_buf[t] = g /\ g # 0
      BY FramesOf
    <3>2. <<t, g>> \in framesOf(old) <=> t \in Stream /\ old.super_buf[t] = g /\ g # 0
      BY FramesOf
    <3>3. <<t, g>> = b <=> t = s /\ g = f
      OBVIOUS
    <3>4. QED
      BY <1>4, <1>5, <3>1, <3>2, <3>3
  <2>3. /\ framesOf(n) \subseteq Stream \X Frame
        /\ framesOf(old) \cup {b} \subseteq Stream \X Frame
    <3>1. framesOf(n) \subseteq Stream \X Frame /\ framesOf(old) \subseteq Stream \X Frame
      BY <1>2, <1>5, FramesOf
    <3>2. QED
      BY <3>1
  <2> HIDE DEF b
  <2>4. framesOf(n) = framesOf(old) \cup {b}
    BY <2>2, <2>3
  <2>5. QED
    BY <2>1, <2>4
<1> HIDE DEF old, n, sb, whole
<1>7. from = m + 1
  <2>1. stale = (m + 1) .. (pos - 1)
    <3>1. ASSUME NEW i \in (m + 1) .. (pos - 1) PROVE i \in stale
      <4>1. i \in 1 .. l /\ m < i /\ i < pos /\ pos \in 1 .. l /\ i \in (m + 1) .. l
        BY <1>1
      <4>2. q[i].frame_idx < f
        BY <1>1, <4>1
      <4>3. QED
        BY <4>1, <4>2
    <3>2. ASSUME NEW i \in stale PROVE i \in (m + 1) .. (pos - 1)
      <4>1. i \in (m + 1) .. l /\ i < pos
        OBVIOUS
      <4>2. QED
        BY <1>1, <4>1
    <3>3. QED
      BY <3>1, <3>2
  <2> HIDE DEF stale
  <2>2. CASE pos = m + 1
    <3>1. stale = {}
      BY <1>1, <2>1, <2>2
    <3>2. QED
      BY <2>2, <3>1
  <2>3. CASE pos # m + 1
    <3>1. /\ m + 1 \in stale /\ stale \in SUBSET Int
          /\ \A i \in stale : m + 1 <= i
      BY <1>1, <2>1, <2>3
    <3>2. Min(stale) = m + 1
      BY <3>1, MinOf
    <3>3. QED
      BY <3>1, <3>2
  <2>4. QED
    BY <2>2, <2>3
<1> HIDE DEF from, stale
<1> DEFINE k == m + 1
           gone == framesIn(nodes(q, k, pos - 1))
           r == SubSeq(q, 1, k - 1) \o <<n>> \o SubSeq(q, pos + 1, l)
           e == qbuf(c, gone)
<1>8. k \in 1 .. l + 1 /\ pos \in k - 1 .. l /\ k \in Nat /\ k <= pos
  BY <1>1
<1>9. queued(c) = framesIn(Range(q))
  BY DEF queued
<1> HIDE DEF k
<1>10. CASE whole
  <2>1. d = [e EXCEPT !.expected_frame_id = f + PostFrameSkip,
                      !.match_cnt = e.match_cnt + 1, !.superbuf_queue = r]
    BY <1>5, <1>7, <1>10 DEF join, matchedAt, n, sb, whole, old, from, stale, k
  <2>2. /\ r \in Seq(Node) /\ Len(r) = l - pos + k
        /\ \A i \in 1 .. Len(r) :
              r[i] = IF i < k THEN q[i] ELSE IF i = k THEN n ELSE q[i + pos - k]
    <3>1. q \in Seq(Node) /\ n \in Node /\ k \in 1 .. Len(q) + 1 /\ pos \in k - 1 .. Len(q)
      BY <1>1, <1>5, <1>8
    <3> HIDE DEF q, m
    <3>2. r \in Seq(Node) /\ IsSplice(r, q, k, pos, n)
      BY <3>1, Spliced
    <3>3. QED
      BY <3>2 DEF IsSplice
  <2>3. /\ e \in Channel /\ e.held = c.held \ gone
        /\ e.superbuf_queue = c.superbuf_queue /\ e.match_cnt = c.match_cnt
        /\ e.dispatched = c.dispatched /\ e.spinning = c.spinning
        /\ e.pending_cnt = c.pending_cnt
        /\ e.startZSlSnapshotCalled = c.startZSlSnapshotCalled
    BY <1>1, Qbuf
  <2> HIDE DEF d, e, gone, r
  <2>4. /\ d \in Channel /\ d.held = c.held \ gone
        /\ d.superbuf_queue = r /\ d.match_cnt = m + 1
        /\ d.dispatched = c.dispatched /\ d.spinning = c.spinning
        /\ d.pending_cnt = c.pending_cnt
        /\ d.startZSlSnapshotCalled = c.startZSlSnapshotCalled
    <3>1. f + PostFrameSkip \in Nat /\ m + 1 \in Nat
      BY <1>1, Bounds DEF Frame
    <3>2. QED
      BY <2>1, <2>2, <2>3, <3>1 DEF Channel
  <2>5. /\ framesIn(nodes(q, k, pos)) = gone \cup framesOf(old)
        /\ gone \cap framesOf(old) = {}
    <3>1. \A i : i \in k .. pos <=> i \in k .. (pos - 1) \/ i = pos
      BY <1>8
    <3>2. ASSUME NEW x
          PROVE  x \in framesIn(nodes(q, k, pos)) <=> x \in gone \cup framesOf(old)
      BY <3>1, FramesIn DEF gone, old
    <3>3. \A i \in k .. (pos - 1) : i \in 1 .. l /\ pos \in 1 .. l /\ i # pos
      BY <1>1, <1>8
    <3>4. \A i \in k .. (pos - 1) : framesOf(q[i]) \cap framesOf(old) = {}
      BY <1>1, <3>3 DEF Disjoint, old
    <3>5. gone \cap framesOf(old) = {}
      BY <3>4, FramesIn DEF gone
    <3>6. QED
      BY <3>2, <3>5
  <2>6. /\ Disjoint(r) /\ gone \subseteq queued(c)
        /\ queued(d) = (queued(c) \ gone) \cup {b}
    <3> HIDE DEF q
    <3>1. /\ q \in Seq(Node) /\ r \in Seq(Node) /\ n \in Node /\ Disjoint(q)
          /\ k \in 1 .. Len(q) + 1 /\ pos \in k - 1 .. Len(q)
          /\ IsSplice(r, q, k, pos, n)
      BY <1>1, <1>5, <1>8, <2>2 DEF IsSplice
    <3>2. framesOf(n) \cap (framesIn(Range(q)) \ framesIn(nodes(q, k, pos))) = {}
      BY <1>3, <1>6, <1>9, <2>5
    <3>3. /\ Disjoint(r)
          /\ framesIn(Range(r))
               = (framesIn(Range(q)) \ framesIn(nodes(q, k, pos))) \cup framesOf(n)
          /\ framesIn(nodes(q, k, pos)) \subseteq framesIn(Range(q))
      BY <3>1, <3>2, FramesSpliced
    <3>4. queued(d) = framesIn(Range(r))
      BY <2>4 DEF queued
    <3>5. QED
      BY <1>2, <1>6, <1>9, <2>5, <3>3, <3>4
  <2>7. Ordered(d)
    <3> DEFINE lr == Len(r)
    <3>1. /\ k \in 0 .. lr /\ lr \in Nat /\ k = m + 1 /\ k \in Nat
          /\ lr = l - pos + k
      BY <1>1, <1>8, <2>2 DEF k
    <3>2. ASSUME NEW i \in 1 .. Len(r)
          PROVE  Proper(r[i]) /\ (r[i].matched <=> i <= k)
      <4>1. CASE i <= m
        <5>1. i \in 1 .. l /\ r[i] = q[i]
          BY <1>1, <2>2, <3>1, <4>1
        <5>2. QED
          BY <1>1, <3>1, <4>1, <5>1
      <4>2. CASE i = k
        <5>1. r[i] = n
          BY <2>2, <4>2
        <5>2. QED
          <6>1. n.matched /\ i <= k /\ Proper(n)
            BY <1>5, <1>6, <1>10, <1>8, <4>2
          <6>2. QED
            BY <5>1, <6>1
      <4>3. CASE i > k
        <5>1. r[i] = q[i + pos - k]
          BY <1>8, <2>2, <4>3
        <5>2. i + pos - k \in 1 .. l /\ ~ (i + pos - k <= m)
          <6>1. i \in 1 .. lr /\ m \in Nat /\ l \in Nat /\ pos \in Nat /\ m < pos /\ pos <= l
            BY <1>1
          <6> HIDE DEF lr, l, m
          <6>2. QED
            BY <3>1, <4>3, <6>1
        <5>3. QED
          BY <1>1, <1>8, <4>3, <5>1, <5>2
      <4>4. QED
        BY <1>1, <3>1, <4>1, <4>2, <4>3
    <3>3. ASSUME NEW i \in 1 .. Len(r), NEW j \in 1 .. Len(r), k < i, i < j
          PROVE  r[i].frame_idx < r[j].frame_idx
      <4>1. ~ (i < k) /\ i # k /\ ~ (j < k) /\ j # k
        BY <1>8, <3>3
      <4>2. r[i] = q[i + pos - k] /\ r[j] = q[j + pos - k]
        BY <2>2, <4>1
      <4>3. /\ i + pos - k \in 1 .. l /\ j + pos - k \in 1 .. l
            /\ m < i + pos - k /\ i + pos - k < j + pos - k
        <5>1. m \in Nat /\ l \in Nat /\ pos \in Nat /\ m < pos /\ pos <= l
          BY <1>1
        <5>2. i \in Nat /\ j \in Nat /\ k < i /\ i < j /\ j <= lr
          BY <3>1, <3>3
        <5>3. k \in Nat /\ lr = l - pos + k /\ k = m + 1
          BY <3>1
        <5> HIDE DEF lr, l, m
        <5>4. QED
          BY <5>1, <5>2, <5>3
      <4>4. QED
        BY <1>1, <4>2, <4>3
    <3>4. QED
      BY <2>4, <3>1, <3>2, <3>3 DEF Ordered
  <2>8. Whole(d) /\ out(d) = out(c)
    BY <2>4 DEF Good, Whole, out
  <2>9. Apart(d)
    BY <1>3, <2>4, <2>6, <2>8 DEF Good, Apart
  <2>10. Placed(d, {})
    BY <1>3, <2>4, <2>6, <2>8 DEF Good, Placed, Apart
  <2>11. unmatchedCnt(d) <= unmatchedCnt(c)
    <3>1. unmatchedCnt(d) = (l - pos + k) - (m + 1) /\ unmatchedCnt(c) = l - m
      BY <2>2, <2>4 DEF unmatchedCnt
    <3>2. QED
      BY <1>1, <3>1 DEF k
  <2>12. QED
    BY <2>4, <2>7, <2>8, <2>9, <2>10, <2>11 DEF Good, d
<1>11. CASE ~ whole
  <2> DEFINE z == [q EXCEPT ![pos] = n]
  <2>1. d = [c EXCEPT !.superbuf_queue = z]
    BY <1>5, <1>11 DEF join, n, sb, whole, old
  <2>2. /\ z \in Seq(Node) /\ Len(z) = l
        /\ \A i \in 1 .. l : z[i] = IF i = pos THEN n ELSE q[i]
    BY <1>1, <1>5
  <2> HIDE DEF d, z
  <2>3. /\ d \in Channel /\ d.held = c.held
        /\ d.superbuf_queue = z /\ d.match_cnt = m
        /\ d.dispatched = c.dispatched /\ d.spinning = c.spinning
        /\ d.pending_cnt = c.pending_cnt
        /\ d.startZSlSnapshotCalled = c.startZSlSnapshotCalled
    BY <1>1, <2>1, <2>2 DEF Channel
  <2>4. /\ Disjoint(z) /\ queued(d) = queued(c) \cup {b}
    <3> DEFINE a == pos
    <3>1. framesIn(nodes(q, a, a)) = framesOf(old)
      BY <1>1 DEF framesIn, nodes, old
    <3>2. /\ a \in 1 .. Len(q) + 1 /\ a \in a - 1 .. Len(q) /\ n \in Node
          /\ z \in Seq(Node) /\ q \in Seq(Node) /\ Disjoint(q)
          /\ IsSplice(z, q, a, a, n)
      BY <1>1, <1>5, <2>2 DEF IsSplice
    <3> HIDE DEF a, q
    <3>3. framesOf(n) \cap (framesIn(Range(q)) \ framesIn(nodes(q, a, a))) = {}
      BY <1>3, <1>6, <1>9, <3>1
    <3>4. /\ Disjoint(z)
          /\ framesIn(Range(z))
               = (framesIn(Range(q)) \ framesIn(nodes(q, a, a))) \cup framesOf(n)
      BY <3>2, <3>3, FramesSpliced
    <3>5. queued(d) = framesIn(Range(z))
      BY <2>3 DEF queued
    <3>6. QED
      BY <1>2, <1>6, <1>9, <3>1, <3>4, <3>5
  <2>5. Ordered(d)
    <3>1. ASSUME NEW i \in 1 .. l
          PROVE  /\ Proper(z[i]) /\ (z[i].matched <=> i <= m)
                 /\ z[i].frame_idx = q[i].frame_idx
      BY <1>1, <1>2, <1>5, <1>6, <1>11, <2>2 DEF old
    <3>2. QED
      BY <1>1, <2>2, <2>3, <3>1 DEF Ordered
  <2>6. Whole(d) /\ out(d) = out(c)
    BY <2>3 DEF Good, Whole, out
  <2>7. Apart(d)
    BY <1>3, <2>3, <2>4, <2>6 DEF Good, Apart
  <2>8. Placed(d, {})
    BY <1>3, <2>3, <2>4, <2>6 DEF Good, Placed
  <2>9. unmatchedCnt(d) <= unmatchedCnt(c)
    <3>1. unmatchedCnt(d) = l - m /\ unmatchedCnt(c) = l - m
      BY <2>2, <2>3 DEF unmatchedCnt
    <3>2. QED
      BY <1>1, <3>1
  <2>10. QED
    BY <2>3, <2>5, <2>6, <2>7, <2>8, <2>9 DEF Good, d
<1>12. QED
  BY <1>10, <1>11

\* A frame that has no node gets one, between the older and the newer unmatched ones.
LEMMA InsertGood ==
    ASSUME NEW c, NEW s \in Stream, NEW f \in Frame, Good(c, {<<s, f>>}),
           \A i \in (c.match_cnt + 1) .. Len(c.superbuf_queue) :
              c.superbuf_queue[i].frame_idx # f
    PROVE  LET d == insert(c, s, f)
           IN  /\ Good(d, {}) /\ d.held \subseteq c.held
               /\ unmatchedCnt(d) <= unmatchedCnt(c) + 1
               /\ d.pending_cnt = c.pending_cnt
               /\ d.startZSlSnapshotCalled = c.startZSlSnapshotCalled
<1> DEFINE q == c.superbuf_queue
           m == c.match_cnt
           l == Len(q)
           newer == {i \in DOMAIN q : ~ q[i].matched /\ q[i].frame_idx > f}
           sb == [t \in Stream |-> IF t = s THEN f ELSE 0]
           n == [frame_idx |-> f, matched |-> Cardinality(Stream) = 1, super_buf |-> sb]
           p == IF newer = {} THEN l + 1 ELSE Min(newer)
           b == <<s, f>>
           r == SubSeq(q, 1, p - 1) \o <<n>> \o SubSeq(q, p, l)
           m2 == IF n.matched THEN m + 1 ELSE m
           d == insert(c, s, f)
<1>1. /\ c \in Channel /\ q \in Seq(Node) /\ m \in Nat /\ l \in Nat /\ m <= l
      /\ DOMAIN q = 1 .. l
      /\ \A i \in 1 .. l : q[i] \in Node /\ Proper(q[i]) /\ (q[i].matched <=> i <= m)
      /\ \A i, j \in 1 .. l : m < i /\ i < j => q[i].frame_idx < q[j].frame_idx
      /\ Disjoint(q) /\ f \in Nat /\ f # 0 /\ Frame \subseteq Nat
  BY Bounds DEF Good, Channel, Ordered, Apart, Frame
<1>2. b \in c.held /\ b \notin queued(c) /\ b \notin out(c)
  BY DEF Good, Placed
<1>3. queued(c) = framesIn(Range(q))
  BY DEF queued
<1>4. /\ p \in Nat /\ m < p /\ p <= l + 1
      /\ \A i \in 1 .. l : m < i /\ i < p => q[i].frame_idx < f
      /\ \A i \in 1 .. l : p <= i => f < q[i].frame_idx
  <2>1. \A i \in 1 .. l : q[i].frame_idx \in Nat /\ (m < i => q[i].frame_idx # f)
    <3>1. \A i \in 1 .. l : q[i].frame_idx \in Nat
      BY <1>1 DEF Node
    <3>2. \A i \in 1 .. l : m < i => i \in (m + 1) .. l
      BY <1>1
    <3>3. QED
      BY <3>1, <3>2
  <2>2. newer = {i \in 1 .. l : m < i /\ f < q[i].frame_idx}
    BY <1>1
  <2> HIDE DEF newer, l, m, q
  <2>3. CASE newer = {}
    <3>1. p = l + 1
      BY <2>3
    <3>2. QED
      BY <1>1, <2>1, <2>2, <2>3, <3>1
  <2>4. CASE newer # {}
    <3>1. p = Min(newer) /\ newer \in SUBSET Nat
      BY <1>1, <2>2, <2>4
    <3>2. p \in newer /\ \A i \in newer : p <= i
      BY <2>4, <3>1, MinExists
    <3> HIDE DEF p
    <3>3. p \in Nat /\ m < p /\ p <= l + 1 /\ f < q[p].frame_idx /\ p \in 1 .. l
      BY <1>1, <2>2, <3>2
    <3>4. ASSUME NEW i \in 1 .. l, m < i, i < p PROVE q[i].frame_idx < f
      <4>1. i \notin newer
        BY <3>2, <3>3, <3>4
      <4>2. QED
        BY <1>1, <2>1, <2>2, <3>4, <4>1
    <3>5. ASSUME NEW i \in 1 .. l, p <= i PROVE f < q[i].frame_idx
      <4>1. i = p \/ q[p].frame_idx < q[i].frame_idx
        BY <1>1, <3>3, <3>5
      <4>2. QED
        BY <1>1, <2>1, <3>3, <4>1
    <3>6. QED
      BY <3>3, <3>4, <3>5
  <2>5. QED
    BY <2>3, <2>4
<1> HIDE DEF p, newer
<1>5. n \in Node /\ n.frame_idx = f /\ n.super_buf = sb
  <2>1. sb \in [Stream -> 0 .. MaxFrame]
    BY Bounds DEF Frame
  <2>2. (Cardinality(Stream) = 1) \in BOOLEAN
    OBVIOUS
  <2>3. QED
    BY <2>1, <2>2 DEF Node
<1>6. n.matched <=> Stream = {s}
  <2>1. n.matched <=> Cardinality(Stream) = 1
    OBVIOUS
  <2>2. Cardinality(Stream) = 1 <=> \E x : Stream = {x}
    BY Bounds, FS_Singleton
  <2>3. (\E x : Stream = {x}) <=> Stream = {s}
    OBVIOUS
  <2>4. QED
    BY <2>1, <2>2, <2>3
<1>7. Proper(n) /\ framesOf(n) = {b}
  <2>1. \A t \in Stream : sb[t] = IF t = s THEN f ELSE 0
    OBVIOUS
  <2> HIDE DEF sb, n, b
  <2>2. Proper(n)
    BY <1>1, <1>5, <1>6, <2>1 DEF Proper
  <2>3. ASSUME NEW t, NEW g
        PROVE  <<t, g>> \in framesOf(n) <=> t = s /\ g = f
    BY <1>1, <1>5, <2>1, FramesOf
  <2>4. framesOf(n) \subseteq Stream \X Frame
    BY <1>5, FramesOf
  <2>5. QED
    BY <2>2, <2>3, <2>4 DEF b
<1> HIDE DEF n, sb
<1>8. ASSUME n.matched PROVE p = m + 1 /\ m = l
  <2>1. SUFFICES ASSUME m < l PROVE FALSE
    BY <1>1, <1>4
  <2>2. l \in 1 .. l /\ ~ (l <= m)
    BY <1>1, <2>1
  <2>3. Proper(q[l]) /\ ~ q[l].matched
    BY <1>1, <2>2
  <2>4. QED
    BY <1>6, <1>8, <2>3 DEF Proper
<1>9. /\ m2 \in Nat /\ m2 <= l + 1 /\ m <= m2 /\ m2 <= p /\ m2 <= m + 1
      /\ (n.matched => p = m2 /\ p = m + 1) /\ (~ n.matched => m2 = m)
  <2>1. CASE n.matched
    BY <1>1, <1>4, <1>8, <2>1
  <2>2. CASE ~ n.matched
    BY <1>1, <1>4, <2>2
  <2>3. QED
    BY <2>1, <2>2
<1>10. /\ r \in Seq(Node) /\ IsSplice(r, q, p, p - 1, n) /\ Len(r) = l + 1
       /\ \A i \in 1 .. l + 1 : r[i] = IF i < p THEN q[i] ELSE IF i = p THEN n ELSE q[i - 1]
  <2> DEFINE a == p - 1
  <2>1. /\ q \in Seq(Node) /\ n \in Node /\ p \in 1 .. Len(q) + 1 /\ a \in p - 1 .. Len(q)
        /\ a + 1 = p /\ a = p - 1
    BY <1>1, <1>4, <1>5
  <2> HIDE DEF q, m, a
  <2>2. LET x == SubSeq(q, 1, p - 1) \o <<n>> \o SubSeq(q, a + 1, Len(q))
        IN  x \in Seq(Node) /\ IsSplice(x, q, p, a, n)
    BY <2>1, Spliced
  <2>3. r \in Seq(Node) /\ IsSplice(r, q, p, p - 1, n)
    BY <2>1, <2>2
  <2> HIDE DEF r
  <2>4. Len(r) = l - (p - 1) + p
    BY <2>3 DEF IsSplice
  <2>5. Len(r) = l + 1
    BY <1>1, <1>4, <2>4
  <2>6. ASSUME NEW i \in 1 .. l + 1
        PROVE  r[i] = IF i < p THEN q[i] ELSE IF i = p THEN n ELSE q[i - 1]
    <3>1. r[i] = IF i < p THEN q[i] ELSE IF i = p THEN n ELSE q[i + (p - 1) - p]
      BY <2>3, <2>5 DEF IsSplice
    <3>2. i + (p - 1) - p = i - 1
      BY <1>1, <1>4
    <3>3. QED
      BY <3>1, <3>2
  <2>7. QED
    BY <2>3, <2>5, <2>6
<1>11. /\ d \in Channel /\ d.superbuf_queue = r /\ d.match_cnt = m2 /\ d.held = c.held
       /\ d.dispatched = c.dispatched /\ d.spinning = c.spinning
       /\ d.pending_cnt = c.pending_cnt
       /\ d.startZSlSnapshotCalled = c.startZSlSnapshotCalled
  <2>1. d = IF n.matched
            THEN [c EXCEPT !.superbuf_queue = r, !.expected_frame_id = f + PostFrameSkip,
                           !.match_cnt = m + 1]
            ELSE [c EXCEPT !.superbuf_queue = r]
    BY <1>1 DEF insert, matchedAt, InsertAt, n, sb, p, newer, Channel
  <2>2. f + PostFrameSkip \in Nat /\ m + 1 \in Nat
    BY <1>1, Bounds
  <2> HIDE DEF d, r
  <2>3. CASE n.matched
    BY <1>1, <1>10, <2>1, <2>2, <2>3 DEF Channel
  <2>4. CASE ~ n.matched
    BY <1>1, <1>10, <2>1, <2>4 DEF Channel
  <2>5. QED
    BY <2>3, <2>4
<1> HIDE DEF r, d, m2
<1>12. /\ Disjoint(r) /\ queued(d) = queued(c) \cup {b}
  <2> DEFINE a == p - 1
  <2>1. /\ q \in Seq(Node) /\ r \in Seq(Node) /\ n \in Node /\ Disjoint(q)
        /\ p \in 1 .. Len(q) + 1 /\ a \in p - 1 .. Len(q) /\ IsSplice(r, q, p, a, n)
    BY <1>1, <1>4, <1>5, <1>10
  <2>2. framesIn(nodes(q, p, a)) = {}
    <3>1. p .. a = {}
      BY <1>4
    <3>2. QED
      BY <3>1, FramesIn
  <2> HIDE DEF q, a
  <2>3. framesOf(n) \cap (framesIn(Range(q)) \ framesIn(nodes(q, p, a))) = {}
    BY <1>2, <1>3, <1>7
  <2>4. /\ Disjoint(r)
        /\ framesIn(Range(r))
             = (framesIn(Range(q)) \ framesIn(nodes(q, p, a))) \cup framesOf(n)
    BY <2>1, <2>3, FramesSpliced
  <2>5. queued(d) = framesIn(Range(r))
    BY <1>11 DEF queued
  <2>6. QED
    BY <1>3, <1>7, <2>2, <2>4, <2>5
<1>13. Ordered(d)
  <2>1. ASSUME NEW i \in 1 .. l + 1
        PROVE  Proper(r[i]) /\ (r[i].matched <=> i <= m2)
    <3>1. CASE i < p
      <4>1. r[i] = q[i] /\ i \in 1 .. l /\ (i <= m <=> i <= m2)
        BY <1>1, <1>4, <1>9, <1>10, <3>1
      <4>2. QED
        BY <1>1, <4>1
    <3>2. CASE i = p
      <4>1. r[i] = n /\ (n.matched <=> i <= m2)
        BY <1>1, <1>4, <1>9, <1>10, <3>2
      <4>2. QED
        BY <1>7, <4>1
    <3>3. CASE i > p
      <4>1. r[i] = q[i - 1]
        BY <1>4, <1>10, <3>3
      <4>2. i - 1 \in 1 .. l /\ ~ (i - 1 <= m) /\ ~ (i <= m2)
        <5> HIDE DEF l, m
        <5>1. QED
          BY <1>1, <1>4, <1>9, <3>3
      <4>3. QED
        BY <1>1, <4>1, <4>2
    <3>4. QED
      BY <1>4, <3>1, <3>2, <3>3
  <2>2. ASSUME NEW i \in 1 .. l + 1, NEW j \in 1 .. l + 1, m2 < i, i < j
        PROVE  r[i].frame_idx < r[j].frame_idx
    <3>1. CASE j < p
      <4>1. i < p
        BY <1>4, <2>2, <3>1
      <4>2. r[i] = q[i] /\ r[j] = q[j]
        BY <1>10, <3>1, <4>1
      <4>3. i \in 1 .. l /\ j \in 1 .. l /\ m < i
        <5> HIDE DEF l, m
        <5>1. QED
          BY <1>1, <1>4, <1>9, <2>2, <3>1, <4>1
      <4>4. QED
        BY <1>1, <2>2, <4>2, <4>3
    <3>2. CASE j = p
      <4>1. i < p
        BY <2>2, <3>2
      <4>2. r[i] = q[i] /\ r[j] = n
        BY <1>10, <3>2, <4>1
      <4>3. i \in 1 .. l /\ m < i
        <5> HIDE DEF l, m
        <5>1. QED
          BY <1>1, <1>4, <1>9, <2>2, <4>1
      <4>4. QED
        BY <1>4, <1>5, <4>1, <4>2, <4>3
    <3>3. CASE i < p /\ p < j
      <4>1. r[i] = q[i] /\ r[j] = q[j - 1]
        BY <1>4, <1>10, <3>3
      <4>2. i \in 1 .. l /\ j - 1 \in 1 .. l /\ m < i /\ i < j - 1
        <5> HIDE DEF l, m
        <5>1. QED
          BY <1>1, <1>4, <1>9, <2>2, <3>3
      <4>3. QED
        BY <1>1, <4>1, <4>2
    <3>4. CASE i = p
      <4>1. r[i] = n /\ r[j] = q[j - 1]
        BY <1>4, <1>10, <2>2, <3>4
      <4>2. j - 1 \in 1 .. l /\ p <= j - 1
        <5> HIDE DEF l, m
        <5>1. QED
          BY <1>1, <1>4, <2>2, <3>4
      <4>3. QED
        BY <1>4, <1>5, <4>1, <4>2
    <3>5. CASE p < i
      <4>1. /\ r[i] = q[i - 1] /\ r[j] = q[j - 1] /\ i - 1 \in 1 .. l /\ j - 1 \in 1 .. l
            /\ m < i - 1 /\ i - 1 < j - 1
        BY <1>1, <1>4, <1>9, <1>10, <2>2, <3>5
      <4>2. QED
        BY <1>1, <4>1
    <3>6. QED
      BY <1>4, <2>2, <3>1, <3>2, <3>3, <3>4, <3>5
  <2>3. QED
    BY <1>1, <1>9, <1>10, <1>11, <2>1, <2>2 DEF Ordered
<1>14. Whole(d) /\ out(d) = out(c)
  BY <1>11 DEF Good, Whole, out
<1>15. Apart(d)
  BY <1>2, <1>11, <1>12, <1>14 DEF Good, Apart
<1>16. Placed(d, {})
  BY <1>2, <1>11, <1>12, <1>14 DEF Good, Placed
<1>17. unmatchedCnt(d) <= unmatchedCnt(c) + 1
  <2>1. unmatchedCnt(d) = (l + 1) - m2 /\ unmatchedCnt(c) = l - m
    BY <1>10, <1>11 DEF unmatchedCnt
  <2>2. QED
    BY <1>1, <1>9, <2>1
<1>18. QED
  BY <1>11, <1>13, <1>14, <1>15, <1>16, <1>17 DEF Good, d

\* The buffers of the unmatched node at k go back to the kernel with it.
LEMMA EvictGood ==
    ASSUME NEW c, NEW b, Good(c, b), NEW k \in (c.match_cnt + 1) .. Len(c.superbuf_queue)
    PROVE  LET d == evict(c, k)
           IN  /\ Good(d, b) /\ d.held \subseteq c.held
               /\ unmatchedCnt(d) = unmatchedCnt(c) - 1
               /\ d.pending_cnt = c.pending_cnt
               /\ d.startZSlSnapshotCalled = c.startZSlSnapshotCalled
               /\ \A i \in (d.match_cnt + 1) .. Len(d.superbuf_queue) :
                     \E j \in (c.match_cnt + 1) .. Len(c.superbuf_queue) :
                        d.superbuf_queue[i] = c.superbuf_queue[j]
<1> DEFINE q == c.superbuf_queue
           m == c.match_cnt
           l == Len(q)
           gone == framesOf(q[k])
           r == SubSeq(q, 1, k - 1) \o SubSeq(q, k + 1, l)
           e == qbuf(c, gone)
           d == evict(c, k)
<1>1. /\ c \in Channel /\ q \in Seq(Node) /\ m \in Nat /\ l \in Nat /\ m <= l
      /\ k \in Nat /\ m < k /\ k <= l
      /\ \A i \in 1 .. l : q[i] \in Node /\ Proper(q[i]) /\ (q[i].matched <=> i <= m)
      /\ \A i, j \in 1 .. l : m < i /\ i < j => q[i].frame_idx < q[j].frame_idx
      /\ Disjoint(q)
  BY DEF Good, Channel, Ordered, Apart
<1>2. queued(c) = framesIn(Range(q))
  BY DEF queued
<1>3. /\ r \in Seq(Node) /\ Len(r) = l - 1
      /\ \A i \in 1 .. Len(r) : r[i] = IF i < k THEN q[i] ELSE q[i + 1]
      /\ Disjoint(r) /\ framesIn(Range(r)) = queued(c) \ gone /\ gone \subseteq queued(c)
  <2> DEFINE a == k
  <2>1. q \in Seq(Node) /\ k \in 1 .. Len(q) + 1 /\ a \in k - 1 .. Len(q) /\ Disjoint(q)
    BY <1>1
  <2>2. framesIn(nodes(q, k, a)) = gone
    BY <1>1 DEF framesIn, nodes
  <2> HIDE DEF q, a
  <2>3. LET x == SubSeq(q, 1, k - 1) \o SubSeq(q, a + 1, Len(q))
        IN  x \in Seq(Node) /\ IsCut(x, q, k, a)
    BY <2>1, CutOut
  <2>4. r \in Seq(Node) /\ IsCut(r, q, k, a)
    BY <2>3 DEF a
  <2> HIDE DEF r
  <2>5. /\ Disjoint(r)
        /\ framesIn(Range(r)) = framesIn(Range(q)) \ framesIn(nodes(q, k, a))
        /\ framesIn(nodes(q, k, a)) \subseteq framesIn(Range(q))
    BY <2>1, <2>4, FramesLeft
  <2>6. Len(r) = l - (k - k + 1)
        /\ \A i \in 1 .. Len(r) : r[i] = IF i < k THEN q[i] ELSE q[i + k - k + 1]
    BY <2>4 DEF IsCut, a
  <2>7. Len(r) = l - 1
    BY <1>1, <2>6
  <2>8. ASSUME NEW i \in 1 .. Len(r) PROVE r[i] = IF i < k THEN q[i] ELSE q[i + 1]
    <3>1. i + k - k + 1 = i + 1
      BY <1>1, <2>7
    <3>2. QED
      BY <2>6, <3>1
  <2> HIDE DEF gone, l
  <2>9. QED
    BY <1>2, <2>2, <2>4, <2>5, <2>7, <2>8
<1>4. /\ e \in Channel /\ e.held = c.held \ gone
      /\ e.superbuf_queue = c.superbuf_queue /\ e.match_cnt = c.match_cnt
      /\ e.dispatched = c.dispatched /\ e.spinning = c.spinning
      /\ e.pending_cnt = c.pending_cnt
      /\ e.startZSlSnapshotCalled = c.startZSlSnapshotCalled
  BY <1>1, Qbuf
<1>5. d = [e EXCEPT !.superbuf_queue = r]
  BY <1>4 DEF evict, RemoveAt
<1> HIDE DEF d, e, gone, r
<1>6. /\ d \in Channel /\ d.held = c.held \ gone
      /\ d.superbuf_queue = r /\ d.match_cnt = m
      /\ d.dispatched = c.dispatched /\ d.spinning = c.spinning
      /\ d.pending_cnt = c.pending_cnt
      /\ d.startZSlSnapshotCalled = c.startZSlSnapshotCalled
  BY <1>3, <1>4, <1>5 DEF Channel
<1> DEFINE from(i) == IF i < k THEN i ELSE i + 1
<1>7. /\ \A i \in 1 .. l - 1 : /\ r[i] = q[from(i)] /\ from(i) \in 1 .. l
                              /\ (i <= m <=> from(i) <= m)
      /\ \A i, j \in 1 .. l - 1 : i < j => from(i) < from(j)
  <2>1. \A i \in 1 .. l - 1 : r[i] = q[from(i)]
    BY <1>3
  <2> HIDE DEF l, m, q
  <2>2. QED
    BY <1>1, <2>1
<1>8. \A i \in (m + 1) .. l - 1 : from(i) \in (m + 1) .. l
  <2> HIDE DEF l, m, q
  <2>1. QED
    BY <1>1
<1> HIDE DEF from
<1>9. Ordered(d)
  <2>1. ASSUME NEW i \in 1 .. l - 1
        PROVE  Proper(r[i]) /\ (r[i].matched <=> i <= m)
    BY <1>1, <1>7
  <2>2. ASSUME NEW i \in 1 .. l - 1, NEW j \in 1 .. l - 1, m < i, i < j
        PROVE  r[i].frame_idx < r[j].frame_idx
    <3>1. from(i) \in 1 .. l /\ from(j) \in 1 .. l /\ m < from(i) /\ from(i) < from(j)
      BY <1>1, <1>7, <2>2
    <3>2. QED
      BY <1>1, <1>7, <3>1
  <2>3. m \in 0 .. l - 1
    BY <1>1
  <2>4. QED
    BY <1>3, <1>6, <2>1, <2>2, <2>3 DEF Ordered
<1>10. queued(d) = queued(c) \ gone /\ Whole(d) /\ out(d) = out(c)
  BY <1>3, <1>6 DEF Good, Whole, out, queued
<1>11. Apart(d)
  BY <1>3, <1>6, <1>10 DEF Good, Apart
<1>12. Placed(d, b)
  BY <1>3, <1>6, <1>10 DEF Good, Placed, Apart
<1>13. unmatchedCnt(d) = unmatchedCnt(c) - 1
  <2>1. unmatchedCnt(d) = (l - 1) - m /\ unmatchedCnt(c) = l - m
    BY <1>3, <1>6 DEF unmatchedCnt
  <2>2. QED
    BY <1>1, <2>1
<1>14. ASSUME NEW i \in (d.match_cnt + 1) .. Len(d.superbuf_queue)
       PROVE  \E j \in (m + 1) .. l : d.superbuf_queue[i] = q[j]
  <2>1. i \in (m + 1) .. l - 1 /\ i \in 1 .. l - 1
    BY <1>1, <1>3, <1>6
  <2>2. QED
    BY <1>6, <1>7, <1>8, <2>1
<1>15. QED
  BY <1>6, <1>9, <1>10, <1>11, <1>12, <1>13, <1>14 DEF Good, d

\* A frame is dropped, or joins its node, or opens one, for which the oldest unmatched
\* one makes room: the unmatched nodes stay one more than max_unmatched_frames at most.
LEMMA CompAndEnqueueGood ==
    ASSUME NEW c, NEW s \in Stream, NEW f \in Frame, Good(c, {<<s, f>>}),
           unmatchedCnt(c) <= MaxUnmatched + 1
    PROVE  LET d == compAndEnqueue(c, s, f)
           IN  /\ Good(d, {}) /\ d.held \subseteq c.held /\ unmatchedCnt(d) <= MaxUnmatched + 1
               /\ d.pending_cnt = c.pending_cnt
               /\ d.startZSlSnapshotCalled = c.startZSlSnapshotCalled
<1> DEFINE q == c.superbuf_queue
           m == c.match_cnt
           l == Len(q)
           unmatched == {i \in DOMAIN q : ~ q[i].matched}
           same == {i \in unmatched : q[i].frame_idx = f}
           older == {i \in unmatched : q[i].frame_idx < f}
           full == MaxUnmatched < Cardinality(unmatched)
           d == compAndEnqueue(c, s, f)
           Same(x) == /\ x.pending_cnt = c.pending_cnt
                      /\ x.startZSlSnapshotCalled = c.startZSlSnapshotCalled
                      /\ x.held \subseteq c.held
<1>1. /\ unmatched = (m + 1) .. l /\ Cardinality(unmatched) = unmatchedCnt(c)
      /\ unmatchedCnt(c) \in Nat /\ m \in Nat /\ MaxUnmatched \in Nat
  <2>1. unmatched = (m + 1) .. l /\ Cardinality((m + 1) .. l) = unmatchedCnt(c)
        /\ unmatchedCnt(c) \in Nat
    BY Unmatched DEF Good
  <2>2. m \in Nat /\ MaxUnmatched \in Nat
    BY Bounds DEF Good, Channel
  <2>3. QED
    BY <2>1, <2>2, Zenon
<1>2. /\ same = {i \in (m + 1) .. l : q[i].frame_idx = f}
      /\ older = {i \in (m + 1) .. l : q[i].frame_idx < f}
      /\ full <=> MaxUnmatched < unmatchedCnt(c)
  BY <1>1
<1>3. d = IF f < c.expected_frame_id THEN qbuf(c, {<<s, f>>})
          ELSE IF same # {} THEN join(c, s, f, Min(same), older)
          ELSE IF full /\ older = {} THEN qbuf(c, {<<s, f>>})
          ELSE IF full THEN insert(evict(c, Min(older)), s, f)
          ELSE insert(c, s, f)
  BY DEF compAndEnqueue
<1> HIDE DEF d, same, older, full, unmatched
<1>4. CASE d = qbuf(c, {<<s, f>>})
  <2> DEFINE b == {<<s, f>>}
  <2>1. Good(c, b) /\ d = qbuf(c, b)
    BY <1>4
  <2> HIDE DEF b
  <2>2. Good(d, {}) /\ unmatchedCnt(d) = unmatchedCnt(c) /\ Same(d)
    BY <2>1, QbufGood
  <2>3. QED
    BY <2>2 DEF d
<1>5. CASE same # {} /\ d = join(c, s, f, Min(same), older)
  <2>1. Min(same) \in same
    <3>1. same \in SUBSET Nat
      BY <1>1, <1>2
    <3>2. QED
      BY <1>5, <3>1, MinExists
  <2>2. Min(same) \in (m + 1) .. l /\ q[Min(same)].frame_idx = f
    BY <1>2, <2>1
  <2>3. Good(d, {}) /\ unmatchedCnt(d) <= unmatchedCnt(c) /\ Same(d)
    <3> DEFINE pos == Min(same)
    <3>1. pos \in (c.match_cnt + 1) .. Len(c.superbuf_queue) /\ q[pos].frame_idx = f
          /\ older = {i \in (c.match_cnt + 1) .. Len(c.superbuf_queue) :
                        c.superbuf_queue[i].frame_idx < f}
          /\ d = join(c, s, f, pos, older)
      BY <1>2, <1>5, <2>2
    <3> HIDE DEF pos
    <3>2. QED
      BY <3>1, JoinGood
  <2>4. unmatchedCnt(d) \in Int
    BY <2>3, Unmatched DEF Good
  <2>5. QED
    BY <1>1, <2>3, <2>4 DEF d
<1>6. ASSUME same = {}
      PROVE  \A i \in (m + 1) .. l : q[i].frame_idx # f
  BY <1>2, <1>6
<1>7. CASE same = {} /\ full /\ older # {} /\ d = insert(evict(c, Min(older)), s, f)
  <2> DEFINE e == evict(c, Min(older))
             b == {<<s, f>>}
  <2>1. Min(older) \in older
    <3>1. older \in SUBSET Nat
      BY <1>1, <1>2
    <3>2. QED
      BY <1>7, <3>1, MinExists
  <2>2. Min(older) \in (m + 1) .. l
    BY <1>2, <2>1
  <2>3. /\ Good(e, b) /\ unmatchedCnt(e) = unmatchedCnt(c) - 1 /\ Same(e)
        /\ \A i \in (e.match_cnt + 1) .. Len(e.superbuf_queue) :
              \E j \in (m + 1) .. l : e.superbuf_queue[i] = q[j]
    BY <2>2, EvictGood
  <2> HIDE DEF e
  <2>4. \A i \in (e.match_cnt + 1) .. Len(e.superbuf_queue) : e.superbuf_queue[i].frame_idx # f
    BY <1>6, <1>7, <2>3
  <2>5. d = insert(e, s, f)
    BY <1>7 DEF e
  <2>6. Good(d, {}) /\ unmatchedCnt(d) <= unmatchedCnt(e) + 1 /\ d.pending_cnt = e.pending_cnt
        /\ d.startZSlSnapshotCalled = e.startZSlSnapshotCalled /\ d.held \subseteq e.held
    BY <2>3, <2>4, <2>5, InsertGood
  <2>7. unmatchedCnt(d) \in Int
    BY <2>6, Unmatched DEF Good
  <2>8. unmatchedCnt(d) <= MaxUnmatched + 1
    BY <1>1, <2>3, <2>6, <2>7
  <2>9. QED
    BY <2>3, <2>6, <2>8 DEF d
<1>8. CASE same = {} /\ ~ full /\ d = insert(c, s, f)
  <2>1. /\ Good(d, {}) /\ unmatchedCnt(d) <= unmatchedCnt(c) + 1 /\ Same(d)
    BY <1>6, <1>8, InsertGood
  <2>2. unmatchedCnt(d) \in Int
    BY <2>1, Unmatched DEF Good
  <2>3. unmatchedCnt(d) <= MaxUnmatched + 1
    BY <1>1, <1>2, <1>8, <2>1, <2>2
  <2>4. QED
    BY <2>1, <2>3 DEF d
<1>9. QED
  BY <1>3, <1>4, <1>5, <1>7, <1>8

-----------------------------------------------------------------------------
(* The commands of mm_channel_process_stream_buf.                          *)

\* A frame comes from the kernel: the channel has it, and has not had it before.
LEMMA FrameComes ==
    ASSUME Inv, NEW s \in Stream, NEW f \in Frame, frameComes(s, f)
    PROVE  LET c == [ch EXCEPT !.held = @ \cup {<<s, f>>}]
           IN  /\ Good(c, {<<s, f>>}) /\ unmatchedCnt(c) = unmatchedCnt(ch)
               /\ c.held = ch.held \cup {<<s, f>>} /\ c.pending_cnt = ch.pending_cnt
               /\ c.startZSlSnapshotCalled = ch.startZSlSnapshotCalled
<1> DEFINE b == {<<s, f>>}
           c == [ch EXCEPT !.held = ch.held \cup b]
<1>1. ch \in Channel /\ Good(ch, {}) /\ b \subseteq Stream \X Frame
  BY DEF Inv, Good
<1>2. /\ c \in Channel /\ c.held = ch.held \cup b
      /\ c.superbuf_queue = ch.superbuf_queue /\ c.match_cnt = ch.match_cnt
      /\ c.dispatched = ch.dispatched /\ c.spinning = ch.spinning
      /\ c.pending_cnt = ch.pending_cnt
      /\ c.startZSlSnapshotCalled = ch.startZSlSnapshotCalled
  BY <1>1 DEF Channel
<1>3. <<s, f>> \notin ch.held
  <2>1. f > last[s] /\ last[s] \in Nat /\ f \in Nat
    BY Bounds DEF frameComes, Inv, Numbered, Frame
  <2>2. <<s, f>> \in ch.held => f <= last[s]
    BY DEF Inv, Numbered
  <2>3. QED
    BY <2>1, <2>2
<1> HIDE DEF c
<1>4. /\ Ordered(c) /\ queued(c) = queued(ch) /\ unmatchedCnt(c) = unmatchedCnt(ch)
      /\ out(c) = out(ch) /\ Whole(c)
  BY <1>1, <1>2, SameQueue DEF Good, out, Whole
<1>5. Apart(c) /\ Placed(c, b)
  BY <1>1, <1>2, <1>3, <1>4 DEF Good, Apart, Placed
<1>6. QED
  BY <1>1, <1>2, <1>4, <1>5 DEF Good, c

\* The numbers of the frames that are out, when a frame has come or none has.
LEMMA FrameCame ==
    ASSUME Inv, NEW s \in Stream, NEW f \in Frame, frameComes(s, f),
           ch'.held \subseteq ch.held \cup {<<s, f>>}
    PROVE  Numbered'
<1>1. /\ last \in [Stream -> 0 .. MaxFrame] /\ commands \in 0 .. MaxCommands
      /\ \A t \in Stream, g \in Frame : <<t, g>> \in ch.held => g <= last[t]
      /\ last' = [last EXCEPT ![s] = f] /\ commands' = commands /\ f > last[s]
  BY DEF Inv, Numbered, frameComes
<1>2. f \in 0 .. MaxFrame /\ Frame \subseteq Nat /\ last[s] \in Nat
  BY <1>1, Bounds DEF Frame
<1>3. last' \in [Stream -> 0 .. MaxFrame]
  BY <1>1, <1>2
<1>4. ASSUME NEW t \in Stream, NEW g \in Frame, <<t, g>> \in ch'.held
      PROVE  g <= last'[t]
  <2>1. CASE t = s
    <3>1. last'[t] = f
      BY <1>1, <2>1
    <3>2. <<t, g>> \in ch.held \/ g = f
      BY <1>4
    <3>3. <<t, g>> \in ch.held => g <= last[s]
      BY <1>1, <2>1
    <3>4. f \in Nat /\ g \in Nat /\ last[s] < f
      BY <1>1, <1>2, Bounds
    <3>5. QED
      BY <1>2, <3>1, <3>2, <3>3, <3>4
  <2>2. CASE t # s
    <3>1. last'[t] = last[t] /\ <<t, g>> \in ch.held
      BY <1>1, <1>4, <2>2
    <3>2. QED
      BY <1>1, <3>1
  <2>3. QED
    BY <2>1, <2>2
<1>5. QED
  BY <1>1, <1>3, <1>4 DEF Numbered

\* No frame has come.
LEMMA NoneCame ==
    ASSUME Inv, UNCHANGED last, commands' \in 0 .. MaxCommands, ch'.held \subseteq ch.held
    PROVE  Numbered'
BY DEF Inv, Numbered

\* A command is counted.
LEMMA Commanded ==
    ASSUME Inv, command
    PROVE  UNCHANGED last /\ commands' \in 0 .. MaxCommands
<1>1. commands \in 0 .. MaxCommands /\ commands < MaxCommands /\ commands' = commands + 1
      /\ last' = last
  BY DEF Inv, Numbered, command
<1>2. QED
  BY <1>1, Bounds

\* A frame of a stream without metadata.
LEMMA DataCbInv ==
    ASSUME Inv, NEW s \in Stream, NEW f \in Frame, DataCb(s, f)
    PROVE  Inv'
<1> DEFINE c == [ch EXCEPT !.held = @ \cup {<<s, f>>}]
           d == compAndEnqueue(c, s, f)
           e == finish(d)
<1>1. frameComes(s, f) /\ ch' = e
  BY DEF DataCb
<1>2. /\ unmatchedCnt(ch) <= MaxUnmatched + 1
      /\ ch.startZSlSnapshotCalled => ch.pending_cnt > 0
  BY DEF Inv, Settled
<1>3. /\ Good(c, {<<s, f>>}) /\ unmatchedCnt(c) = unmatchedCnt(ch)
      /\ c.held = ch.held \cup {<<s, f>>} /\ c.pending_cnt = ch.pending_cnt
      /\ c.startZSlSnapshotCalled = ch.startZSlSnapshotCalled
  BY <1>1, FrameComes
<1> HIDE DEF c
<1>4. /\ Good(d, {}) /\ d.held \subseteq c.held /\ unmatchedCnt(d) <= MaxUnmatched + 1
      /\ d.pending_cnt = c.pending_cnt
      /\ d.startZSlSnapshotCalled = c.startZSlSnapshotCalled
  BY <1>2, <1>3, CompAndEnqueueGood
<1> HIDE DEF d
<1>5. Good(e, {}) /\ e.held \subseteq d.held /\ Settled(e) /\ unmatchedCnt(e) = unmatchedCnt(d)
  BY <1>2, <1>3, <1>4, FinishGood
<1> HIDE DEF e
<1>6. Numbered'
  <2>1. ch'.held \subseteq ch.held \cup {<<s, f>>}
    BY <1>1, <1>3, <1>4, <1>5
  <2>2. QED
    BY <1>1, <2>1, FrameCame
<1>7. QED
  BY <1>1, <1>4, <1>5, <1>6 DEF Inv

\* A frame of metadata.
LEMMA MetadataCbInv ==
    ASSUME Inv, NEW f \in Frame, NEW m \in Metadata, NEW min \in Nat, MetadataCb(f, m, min)
    PROVE  Inv'
<1> DEFINE s == MetaStream
           c == [ch EXCEPT !.held = @ \cup {<<s, f>>}]
           g == handleMetadata(c, m, min)
           d == IF m = "both" THEN c ELSE compAndEnqueue(g, s, f)
           e == finish(d)
<1>1. s \in Stream /\ frameComes(s, f) /\ ch' = e
  BY DEF MetadataCb
<1>2. /\ unmatchedCnt(ch) <= MaxUnmatched + 1
      /\ ch.startZSlSnapshotCalled => ch.pending_cnt > 0
  BY DEF Inv, Settled
<1>3. /\ Good(c, {<<s, f>>}) /\ unmatchedCnt(c) = unmatchedCnt(ch)
      /\ c.held = ch.held \cup {<<s, f>>} /\ c.pending_cnt = ch.pending_cnt
      /\ c.startZSlSnapshotCalled = ch.startZSlSnapshotCalled
  BY <1>1, FrameComes
<1> HIDE DEF s, c
<1>4. /\ Good(d, {}) /\ d.held \subseteq c.held /\ unmatchedCnt(d) <= MaxUnmatched + 1
      /\ d.pending_cnt = c.pending_cnt
      /\ d.startZSlSnapshotCalled = c.startZSlSnapshotCalled
  <2>1. CASE m = "both"
    <3>1. ~ NoneRefused
      BY <2>1 DEF NoneRefused
    <3>2. Good(c, {})
      BY <1>3, <3>1 DEF Good, Placed
    <3>3. QED
      BY <1>2, <1>3, <2>1, <3>2
  <2>2. CASE m # "both"
    <3>1. /\ Good(g, {<<s, f>>}) /\ g.held \subseteq c.held
          /\ unmatchedCnt(g) \in {0, unmatchedCnt(c)} /\ g.pending_cnt = c.pending_cnt
          /\ g.startZSlSnapshotCalled = c.startZSlSnapshotCalled
      BY <1>3, MetadataGood
    <3>2. unmatchedCnt(g) <= MaxUnmatched + 1
      BY <1>2, <1>3, <3>1, Bounds
    <3> HIDE DEF g
    <3>3. d = compAndEnqueue(g, s, f)
      BY <2>2
    <3>4. /\ Good(d, {}) /\ d.held \subseteq g.held /\ unmatchedCnt(d) <= MaxUnmatched + 1
          /\ d.pending_cnt = g.pending_cnt
          /\ d.startZSlSnapshotCalled = g.startZSlSnapshotCalled
      BY <1>1, <3>1, <3>2, <3>3, CompAndEnqueueGood
    <3> HIDE DEF d
    <3>5. QED
      BY <3>1, <3>4
  <2>3. QED
    BY <2>1, <2>2
<1> HIDE DEF d
<1>5. Good(e, {}) /\ e.held \subseteq d.held /\ Settled(e) /\ unmatchedCnt(e) = unmatchedCnt(d)
  BY <1>2, <1>3, <1>4, FinishGood
<1> HIDE DEF e
<1>6. Numbered'
  <2>1. ch'.held \subseteq ch.held \cup {<<s, f>>}
    BY <1>1, <1>3, <1>4, <1>5
  <2>2. QED
    BY <1>1, <2>1, FrameCame
<1>7. QED
  BY <1>1, <1>4, <1>5, <1>6 DEF Inv

\* A request for bundles, or its end.
LEMMA ReqDataCbInv ==
    ASSUME Inv, NEW n \in 0 .. MaxBurst, ReqDataCb(n)
    PROVE  Inv'
<1> DEFINE c == [ch EXCEPT !.pending_cnt = n]
           d == dropAbove(c, LookBack)
           start == n > 0 /\ d.needLEDFlash
           on == d.startZSlSnapshotCalled
           e == [d EXCEPT !.startZSlSnapshotCalled = (start \/ (on /\ n > 0)),
                          !.needLEDFlash = IF start \/ (on /\ n = 0) THEN FALSE
                                           ELSE d.needLEDFlash]
           g == finish(e)
<1>1. /\ unmatchedCnt(ch) <= MaxUnmatched + 1 /\ Good(ch, {}) /\ ch \in Channel
      /\ LookBack \in Nat
  BY Bounds DEF Inv, Good
<1>2. ch' = IF d.spinning THEN d ELSE g
  BY DEF ReqDataCb
<1>3. /\ c \in Channel /\ c.superbuf_queue = ch.superbuf_queue /\ c.match_cnt = ch.match_cnt
      /\ c.held = ch.held /\ c.dispatched = ch.dispatched /\ c.spinning = ch.spinning
      /\ c.pending_cnt = n
  BY <1>1 DEF Channel
<1> HIDE DEF c
<1>4. Good(c, {}) /\ unmatchedCnt(c) = unmatchedCnt(ch)
  BY <1>1, <1>3, Unmoved
<1>5. /\ Good(d, {}) /\ d.held \subseteq c.held /\ unmatchedCnt(d) = unmatchedCnt(c)
      /\ d.pending_cnt = n /\ d \in Channel /\ ~ d.spinning
  <2>1. /\ Good(d, {}) /\ d.held \subseteq c.held /\ unmatchedCnt(d) = unmatchedCnt(c)
        /\ d.pending_cnt = c.pending_cnt
    BY <1>1, <1>4, DropAboveGood
  <2>2. QED
    BY <1>3, <2>1 DEF Good
<1> HIDE DEF d
<1>6. d.needLEDFlash \in BOOLEAN /\ d.startZSlSnapshotCalled \in BOOLEAN
  BY <1>5 DEF Channel
<1>7. /\ e \in Channel /\ e.superbuf_queue = d.superbuf_queue /\ e.match_cnt = d.match_cnt
      /\ e.held = d.held /\ e.dispatched = d.dispatched /\ e.spinning = d.spinning
      /\ e.pending_cnt = n /\ (e.startZSlSnapshotCalled => n > 0)
  <2>1. /\ (start \/ (on /\ n > 0)) \in BOOLEAN
        /\ (IF start \/ (on /\ n = 0) THEN FALSE ELSE d.needLEDFlash) \in BOOLEAN
    BY <1>6
  <2>2. start \/ (on /\ n > 0) => n > 0
    OBVIOUS
  <2> HIDE DEF start, on
  <2>3. QED
    BY <1>5, <2>1, <2>2 DEF Channel
<1> HIDE DEF e
<1>8. Good(e, {}) /\ unmatchedCnt(e) = unmatchedCnt(d)
  BY <1>5, <1>7, Unmoved
<1>9. Good(g, {}) /\ g.held \subseteq e.held /\ Settled(g) /\ unmatchedCnt(g) = unmatchedCnt(e)
  BY <1>7, <1>8, FinishGood
<1> HIDE DEF g
<1>10. ch' = g
  BY <1>2, <1>5
<1>11. Numbered'
  <2>1. ch'.held \subseteq ch.held
    BY <1>3, <1>5, <1>7, <1>9, <1>10
  <2>2. UNCHANGED last /\ commands' \in 0 .. MaxCommands
    BY Commanded DEF ReqDataCb
  <2>3. QED
    BY <2>1, <2>2, NoneCame
<1>12. QED
  BY <1>1, <1>4, <1>5, <1>8, <1>9, <1>10, <1>11 DEF Inv

\* The mode is configured.
LEMMA ConfigNotifyInv ==
    ASSUME Inv, NEW mode \in NotifyMode, ConfigNotify(mode)
    PROVE  Inv'
<1> DEFINE c == [ch EXCEPT !.notify_mode = mode]
           d == finish(c)
<1>1. /\ unmatchedCnt(ch) <= MaxUnmatched + 1 /\ Good(ch, {}) /\ ch \in Channel
      /\ ch.startZSlSnapshotCalled => ch.pending_cnt > 0
  BY DEF Inv, Good, Settled
<1>2. ch' = d
  BY DEF ConfigNotify
<1>3. /\ c \in Channel /\ c.superbuf_queue = ch.superbuf_queue /\ c.match_cnt = ch.match_cnt
      /\ c.held = ch.held /\ c.dispatched = ch.dispatched /\ c.spinning = ch.spinning
      /\ c.pending_cnt = ch.pending_cnt
      /\ c.startZSlSnapshotCalled = ch.startZSlSnapshotCalled
  BY <1>1 DEF Channel
<1> HIDE DEF c
<1>4. Good(c, {}) /\ unmatchedCnt(c) = unmatchedCnt(ch)
  BY <1>1, <1>3, Unmoved
<1>5. Good(d, {}) /\ d.held \subseteq c.held /\ Settled(d) /\ unmatchedCnt(d) = unmatchedCnt(c)
  BY <1>1, <1>3, <1>4, FinishGood
<1> HIDE DEF d
<1>6. Numbered'
  <2>1. ch'.held \subseteq ch.held
    BY <1>2, <1>3, <1>5
  <2>2. UNCHANGED last /\ commands' \in 0 .. MaxCommands
    BY Commanded DEF ConfigNotify
  <2>3. QED
    BY <2>1, <2>2, NoneCame
<1>7. QED
  BY <1>1, <1>2, <1>4, <1>5, <1>6 DEF Inv

\* The queue is flushed.
LEMMA FlushQueueInv ==
    ASSUME Inv, NEW f \in 0 .. MaxFrame, FlushQueue(f)
    PROVE  Inv'
<1> DEFINE c == [ch EXCEPT !.expected_frame_id = f]
           d == flush(c)
<1>1. /\ Good(ch, {}) /\ ch \in Channel /\ f \in Nat
      /\ ch.startZSlSnapshotCalled => ch.pending_cnt > 0
  BY Bounds DEF Inv, Good, Settled
<1>2. ch' = d
  BY DEF FlushQueue
<1>3. /\ c \in Channel /\ c.superbuf_queue = ch.superbuf_queue /\ c.match_cnt = ch.match_cnt
      /\ c.held = ch.held /\ c.dispatched = ch.dispatched /\ c.spinning = ch.spinning
      /\ c.pending_cnt = ch.pending_cnt
      /\ c.startZSlSnapshotCalled = ch.startZSlSnapshotCalled
  BY <1>1 DEF Channel
<1> HIDE DEF c
<1>4. Good(c, {})
  BY <1>1, <1>3, Unmoved
<1>5. /\ Good(d, {}) /\ d.held \subseteq c.held /\ d.match_cnt = 0 /\ unmatchedCnt(d) = 0
      /\ d.pending_cnt = c.pending_cnt
      /\ d.startZSlSnapshotCalled = c.startZSlSnapshotCalled
  BY <1>4, FlushGood
<1> HIDE DEF d
<1>6. Numbered'
  <2>1. ch'.held \subseteq ch.held
    BY <1>2, <1>3, <1>5
  <2>2. UNCHANGED last /\ commands' \in 0 .. MaxCommands
    BY Commanded DEF FlushQueue
  <2>3. QED
    BY <2>1, <2>2, NoneCame
<1>7. Settled(d) /\ unmatchedCnt(d) <= MaxUnmatched + 1
  BY <1>1, <1>3, <1>5, Bounds DEF Settled
<1>8. QED
  BY <1>2, <1>5, <1>6, <1>7 DEF Inv

\* The buffers of a bundle come back.
LEMMA BufDoneInv ==
    ASSUME Inv, NEW n \in ch.dispatched, BufDone(n)
    PROVE  Inv'
<1> DEFINE c == qbuf(ch, framesOf(n))
           d == [c EXCEPT !.dispatched = c.dispatched \ {n}]
<1>1. /\ unmatchedCnt(ch) <= MaxUnmatched + 1 /\ Good(ch, {}) /\ ch \in Channel
      /\ Settled(ch)
  BY DEF Inv, Good
<1>2. /\ c \in Channel /\ c.held = ch.held \ framesOf(n)
      /\ c.superbuf_queue = ch.superbuf_queue /\ c.match_cnt = ch.match_cnt
      /\ c.dispatched = ch.dispatched /\ c.spinning = ch.spinning
      /\ c.pending_cnt = ch.pending_cnt
      /\ c.startZSlSnapshotCalled = ch.startZSlSnapshotCalled
  BY <1>1, Qbuf
<1>3. ch' = d /\ UNCHANGED <<last, commands>>
  BY DEF BufDone
<1> HIDE DEF c
<1>4. /\ d \in Channel /\ d.held = ch.held \ framesOf(n)
      /\ d.superbuf_queue = ch.superbuf_queue /\ d.match_cnt = ch.match_cnt
      /\ d.dispatched = ch.dispatched \ {n} /\ d.spinning = ch.spinning
      /\ d.pending_cnt = ch.pending_cnt
      /\ d.startZSlSnapshotCalled = ch.startZSlSnapshotCalled
  BY <1>2 DEF Channel
<1> HIDE DEF d
<1>5. Ordered(d) /\ queued(d) = queued(ch) /\ unmatchedCnt(d) = unmatchedCnt(ch) /\ Whole(d)
  BY <1>1, <1>4, SameQueue DEF Good, Whole
<1>6. out(d) = out(ch) \ framesOf(n) /\ framesOf(n) \subseteq out(ch)
  <2>1. \A k \in ch.dispatched \ {n} : framesOf(k) \cap framesOf(n) = {}
    BY <1>1 DEF Good, Apart
  <2>2. ASSUME NEW x
        PROVE  /\ x \in out(d) <=> x \in out(ch) /\ x \notin framesOf(n)
               /\ x \in framesOf(n) => x \in out(ch)
    BY <1>4, <2>1, FramesIn DEF out
  <2>3. QED
    BY <2>2
<1>7. Apart(d) /\ Placed(d, {})
  BY <1>1, <1>4, <1>5, <1>6 DEF Good, Apart, Placed
<1>8. Good(d, {}) /\ Settled(d)
  BY <1>1, <1>4, <1>5, <1>7 DEF Good, Settled
<1>9. Numbered'
  <2>1. ch'.held \subseteq ch.held
    BY <1>3, <1>4
  <2>2. UNCHANGED last /\ commands' \in 0 .. MaxCommands
    BY <1>3 DEF Inv, Numbered
  <2>3. QED
    BY <2>1, <2>2, NoneCame
<1>10. QED
  BY <1>1, <1>3, <1>5, <1>8, <1>9 DEF Inv

-----------------------------------------------------------------------------
(* The invariant.                                                          *)

\* The channel starts empty.
LEMMA InitInv == Init => Inv
<1> SUFFICES ASSUME Init PROVE Inv
  OBVIOUS
<1>1. PICK mode \in NotifyMode :
         ch = [superbuf_queue |-> <<>>, match_cnt |-> 0, expected_frame_id |-> 0,
               notify_mode |-> mode, pending_cnt |-> 0, needLEDFlash |-> FALSE,
               startZSlSnapshotCalled |-> FALSE,
               held |-> {}, dispatched |-> {}, spinning |-> FALSE]
  BY DEF Init
<1>2. /\ ch.superbuf_queue = <<>> /\ ch.match_cnt = 0 /\ ch.pending_cnt = 0
      /\ ~ ch.startZSlSnapshotCalled /\ ~ ch.spinning
      /\ ch.held = {} /\ ch.dispatched = {} /\ ch \in Channel
  BY <1>1, Bounds DEF Channel
<1>3. queued(ch) = {} /\ out(ch) = {}
  <2>1. Range(<<>>) = {} /\ framesIn({}) = {}
    BY DEF Range, framesIn
  <2>2. QED
    BY <1>2, <2>1 DEF queued, out
<1>4. Ordered(ch) /\ Whole(ch) /\ unmatchedCnt(ch) = 0 /\ Disjoint(ch.superbuf_queue)
  BY <1>2 DEF Ordered, Whole, unmatchedCnt, Disjoint
<1>5. Good(ch, {})
  BY <1>2, <1>3, <1>4 DEF Good, Apart, Placed
<1>6. Numbered /\ Settled(ch) /\ unmatchedCnt(ch) <= MaxUnmatched + 1
  BY <1>2, <1>4, Bounds DEF Numbered, Settled, Init
<1>7. QED
  BY <1>5, <1>6 DEF Inv

\* Every command keeps the invariant.
LEMMA NextInv == Inv /\ [Next]_vars => Inv'
<1> SUFFICES ASSUME Inv, [Next]_vars PROVE Inv'
  OBVIOUS
<1>1. CASE \E s \in Stream, f \in Frame : DataCb(s, f)
  BY <1>1, DataCbInv
<1>2. CASE \E f \in Frame, m \in Metadata \ {"range"} : MetadataCb(f, m, 0)
  BY <1>2, MetadataCbInv
<1>3. CASE "range" \in Metadata /\ \E f, min \in Frame : MetadataCb(f, "range", min)
  <2>1. PICK f \in Frame, min \in Frame : MetadataCb(f, "range", min)
    BY <1>3
  <2>2. min \in Nat
    BY Bounds DEF Frame
  <2>3. QED
    BY <1>3, <2>1, <2>2, MetadataCbInv
<1>4. CASE \E n \in 0 .. MaxBurst : ReqDataCb(n)
  BY <1>4, ReqDataCbInv
<1>5. CASE \E mode \in NotifyMode : ConfigNotify(mode)
  BY <1>5, ConfigNotifyInv
<1>6. CASE \E f \in 0 .. MaxFrame : FlushQueue(f)
  BY <1>6, FlushQueueInv
<1>7. CASE \E n \in ch.dispatched : BufDone(n)
  BY <1>7, BufDoneInv
<1>8. CASE UNCHANGED vars
  BY <1>8 DEF vars, Inv, Numbered
<1>9. QED
  BY <1>1, <1>2, <1>3, <1>4, <1>5, <1>6, <1>7, <1>8 DEF Next

\* Every reachable state satisfies the invariant, whatever the metadata says.
THEOREM InvCorrect == Spec => []Inv
<1>1. Init => Inv
  BY InitInv
<1>2. Inv /\ [Next]_vars => Inv'
  BY NextInv
<1>3. QED
  BY <1>1, <1>2, PTL DEF Spec

-----------------------------------------------------------------------------
(* The properties of the queue.                                            *)

\* The state has its shape.
THEOREM TypeCorrect == Spec => []TypeOK
<1>1. Inv => TypeOK
  <2> SUFFICES ASSUME Inv PROVE TypeOK
    OBVIOUS
  <2>1. ch \in Channel /\ Numbered
    BY DEF Inv, Good
  <2>2. QED
    BY <2>1 DEF Channel, Numbered, TypeOK
<1>2. QED
  BY <1>1, InvCorrect, PTL

\* What is handed out has the frame of every stream.
THEOREM BundlesCorrect == Spec => []BundlesAreWhole
<1>1. Inv => BundlesAreWhole
  BY DEF Inv, Good, Whole, Proper, BundlesAreWhole
<1>2. QED
  BY <1>1, InvCorrect, PTL

\* The queue has the order that the loops over it rely on, and they end.
THEOREM OrderCorrect == Spec => []QueueInOrder
<1>1. ASSUME Inv PROVE QueueInOrder
  <2> DEFINE q == ch.superbuf_queue
             m == ch.match_cnt
  <2>1. ready(q) = m /\ ~ ch.spinning
    BY <1>1, Unmatched DEF Inv, Good
  <2>2. /\ DOMAIN q = 1 .. Len(q) /\ m \in Nat
        /\ \A i \in 1 .. Len(q) : q[i].matched <=> i <= m
        /\ \A i, j \in 1 .. Len(q) : m < i /\ i < j => q[i].frame_idx < q[j].frame_idx
    BY <1>1 DEF Inv, Good, Ordered, Channel
  <2>3. ASSUME NEW i \in DOMAIN q, NEW j \in DOMAIN q, i < j
        PROVE  q[i].matched \/ (~ q[j].matched /\ q[i].frame_idx < q[j].frame_idx)
    <3>1. CASE i <= m
      BY <2>2, <3>1
    <3>2. CASE m < i
      <4>1. ~ (j <= m)
        BY <2>2, <2>3, <3>2
      <4>2. QED
        BY <2>2, <2>3, <3>2, <4>1
    <3>3. QED
      BY <2>2, <3>1, <3>2
  <2>4. QED
    BY <2>1, <2>3 DEF QueueInOrder
<1>2. QED
  BY <1>1, InvCorrect, PTL

\* A request never waits for a bundle that is there.
THEOREM RequestsServed == Spec => []NoBundleWaitsWithARequest
<1>1. ASSUME Inv PROVE NoBundleWaitsWithARequest
  <2>1. ready(ch.superbuf_queue) = ch.match_cnt
    BY <1>1, Unmatched DEF Inv, Good
  <2>2. QED
    BY <1>1, <2>1 DEF Inv, Settled, NoBundleWaitsWithARequest
<1>2. QED
  BY <1>1, InvCorrect, PTL

\* The flash is off when no picture is to come.
THEOREM FlashCorrect == Spec => []FlashOnlyWhilePending
<1>1. Inv => FlashOnlyWhilePending
  BY DEF Inv, Settled, FlashOnlyWhilePending
<1>2. QED
  BY <1>1, InvCorrect, PTL

\* If no metadata is refused then no buffer is lost, and none is in two places.
THEOREM BuffersCorrect ==
    ASSUME NoneRefused
    PROVE  Spec => []EveryBufferInOnePlace
<1>1. ASSUME Inv PROVE EveryBufferInOnePlace
  <2> DEFINE q == ch.superbuf_queue
  <2>1. ch.held = queued(ch) \cup out(ch) /\ Apart(ch) /\ DOMAIN q = 1 .. Len(q)
    BY <1>1 DEF Inv, Good, Placed, Channel
  <2>2. QED
    BY <2>1 DEF Apart, Disjoint, queued, out, EveryBufferInOnePlace
<1>2. QED
  BY <1>1, InvCorrect, PTL

\* If there is a buffer more than the queue can keep then every stream has one to fill.
THEOREM StreamsFlow ==
    ASSUME EnoughBuffers
    PROVE  Spec => []NoStreamStarves
<1>1. ASSUME Inv PROVE NoStreamStarves
  <2> SUFFICES ASSUME NEW s \in Stream
               PROVE  Cardinality({b \in framesIn(Range(ch.superbuf_queue)) : b[1] = s})
                         < Buffers
    BY DEF NoStreamStarves
  <2> DEFINE q == ch.superbuf_queue
             l == Len(q)
             F == {b \in framesIn(Range(q)) : b[1] = s}
             T == {i \in 1 .. l : q[i].super_buf[s] # 0}
             g == [i \in T |-> <<s, q[i].super_buf[s]>>]
  <2>1. l < Buffers /\ l \in Nat /\ Buffers \in Nat /\ DOMAIN q = 1 .. l
    <3>1. /\ l - ch.match_cnt <= MaxUnmatched + 1 /\ ch.match_cnt <= WaterMark
          /\ l \in Nat /\ ch.match_cnt \in Nat /\ DOMAIN q = 1 .. l
      BY <1>1 DEF Inv, Settled, unmatchedCnt, Good, Channel
    <3>2. WaterMark + MaxUnmatched + 1 < Buffers
      BY DEF EnoughBuffers
    <3> HIDE DEF l, q
    <3>3. QED
      BY <3>1, <3>2, Bounds
  <2>2. \A x \in F : \E i \in T : x = <<s, q[i].super_buf[s]>>
    <3>1. SUFFICES ASSUME NEW x \in F PROVE \E i \in T : x = <<s, q[i].super_buf[s]>>
      OBVIOUS
    <3>2. PICK i \in 1 .. l : x \in framesOf(q[i])
      BY <2>1, FramesIn
    <3>3. PICK t \in Stream : x = <<t, q[i].super_buf[t]>> /\ q[i].super_buf[t] # 0
      BY <3>2 DEF framesOf
    <3>4. t = s
      BY <3>3
    <3>5. QED
      BY <3>3, <3>4
  <2>3. \A i \in T : <<s, q[i].super_buf[s]>> \in F
    <3>1. SUFFICES ASSUME NEW i \in T PROVE <<s, q[i].super_buf[s]>> \in F
      OBVIOUS
    <3>2. <<s, q[i].super_buf[s]>> \in framesOf(q[i])
      BY FramesOf
    <3>3. QED
      BY <2>1, <3>2, FramesIn
  <2>4. IsFiniteSet(1 .. l) /\ Cardinality(1 .. l) = l
    <3>1. l \in Int /\ 1 \in Int /\ l >= 0
      BY <2>1
    <3> HIDE DEF l
    <3>2. IsFiniteSet(1 .. l) /\ Cardinality(1 .. l) = IF 1 > l THEN 0 ELSE l - 1 + 1
      BY <3>1, FS_Interval
    <3>3. (IF 1 > l THEN 0 ELSE l - 1 + 1) = l
      BY <3>1
    <3>4. QED
      BY <3>2, <3>3
  <2>5. T \in SUBSET (1 .. l)
    OBVIOUS
  <2> HIDE DEF T, F, l, q
  <2>6. g \in Surjection(T, F)
    BY <2>2, <2>3 DEF Surjection
  <2>7. IsFiniteSet(T) /\ Cardinality(T) <= l
    BY <2>4, <2>5, FS_Subset
  <2>8. IsFiniteSet(F) /\ Cardinality(F) <= Cardinality(T)
    BY <2>6, <2>7, FS_Surjection
  <2>9. Cardinality(F) \in Nat /\ Cardinality(T) \in Nat
    BY <2>7, <2>8, FS_CardinalityType
  <2>10. Cardinality(F) < Buffers
    BY <2>1, <2>7, <2>8, <2>9
  <2>11. QED
    BY <2>10 DEF F, q
<1>2. QED
  BY <1>1, InvCorrect, PTL
=============================================================================
