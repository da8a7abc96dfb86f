--------------------------- MODULE MuxSplitProofs ---------------------------
(***************************************************************************)
(* The archive sink keeps every packet in order through its queues and     *)
(* files, whatever fails; a recording that ends well is wholly in them;    *)
(* and each file can be played by itself: the proofs of SavedInOrder,      *)
(* EndsComplete and PartsPlayable.                                         *)
(*                                                                         *)
(* A packet is in the files, refused by libavformat, kept (queued, held    *)
(* for its duration, handed on or waiting for the header), or lost to a    *)
(* failure.  The argument is about these sets, ordered by decode time      *)
(* within a stream; the queues contribute only the order of their own      *)
(* elements.                                                               *)
(***************************************************************************)
EXTENDS MuxSplit, SequenceTheorems, TLAPS

Packets  == [stream : Streams, dts : Int, pts : Int, key : {"IDR", "CRA", "no"}]
Trailers == [stream : {"trailer"}, complete : BOOLEAN]
Content  == Packets \cup Trailers
Files    == [origin : Int, content : Seq(Content)]
Draining == {"Drain", "Audio", "Video", "Create", "Trailer", "Retire", "Open"}
Rolling  == {"Create", "Trailer", "Retire", "Open"}
Pcs      == {"idle", "Write", "Held", "Resume", "Seal", "crashed"} \cup Draining

QueueTypes ==
  /\ sent \in [Streams -> Seq(Packets)] /\ queue \in [Streams -> Seq(Packets)]
  /\ pending \in Seq(Packets) /\ pendingVideo \in Seq(Packets) /\ ready \in Seq(Packets)
  /\ refused \subseteq Packets

FileTypes ==
  parts \in Seq(Files) /\ part = Len(parts) /\ part > 0 /\ segmentOrigin \in Int

CallTypes ==
  /\ mode \in {"none", "time", "bytes"} /\ pc \in Pcs
  /\ caller \in {"Process", "Held", "Finish"} /\ boundary \in Int

FlagTypes ==
  /\ header \in BOOLEAN /\ storageError \in BOOLEAN /\ shutdown \in BOOLEAN
  /\ finalizing \in BOOLEAN /\ finalized \in BOOLEAN /\ trailerWritten \in BOOLEAN
  /\ segmentHasVideo \in BOOLEAN /\ roll \in BOOLEAN

TypeOK == QueueTypes /\ FileTypes /\ CallTypes /\ FlagTypes

\* Every queue holds packets of its stream, and one picture at most is held for
\* its duration.
Tagged ==
  /\ \A s \in Streams : \A i \in DOMAIN sent[s] : sent[s][i].stream = s
  /\ \A s \in Streams : \A i \in DOMAIN queue[s] : queue[s][i].stream = s
  /\ \A i \in DOMAIN pendingVideo : pendingVideo[i].stream = "video"
  /\ Len(pendingVideo) <= 1

-----------------------------------------------------------------------------
(* Where the packets are *)

Delivered == Range(sent["video"]) \cup Range(sent["audio"])
Filed     == {x \in UNION {Range(parts[k].content) : k \in DOMAIN parts} :
                x.stream \in Streams}
Queued    == Range(queue["video"]) \cup Range(queue["audio"])
HeldBack  == Range(pendingVideo)
Waiting   == Range(ready) \cup Range(pending)
Kept      == Queued \cup HeldBack \cup Waiting
Lost      == Delivered \ (Filed \cup refused \cup Kept)

\* Nothing will be written any more, and nothing will be taken any more.
Dead   == \/ storageError \/ shutdown \/ pc = "crashed"
          \/ trailerWritten /\ pc \notin {"Retire", "Open"}
Closed == failure # "ok" \/ finalizing

Before(A, B) == \A p \in A, q \in B : p.stream = q.stream => p.dts < q.dts

Ordered(q) ==
  \A j \in DOMAIN q : \A i \in 1 .. j - 1 : q[i].stream = q[j].stream => q[i].dts < q[j].dts

\* The order of the packets by where they are: in the files F, queued Q, held for
\* the duration V, waiting W; refused X, among those delivered D.  A packet that
\* was lost comes after everything written and, as long as writing goes on, after
\* everything kept.
InLine(F, Q, V, W, X, D, dead, closed) ==
  /\ F \cup X \cup Q \cup V \cup W \subseteq D
  /\ Before(F, Q \cup V \cup W) /\ Before(Q, V \cup W) /\ Before(V, W)
  /\ X \cap (F \cup Q \cup V \cup W) = {}
  /\ \A p \in D \ (F \cup X \cup Q \cup V \cup W) :
       /\ Before(F, {p})
       /\ dead \/ Before(Q \cup V \cup W, {p})
       /\ dead \/ closed

Line == InLine(Filed, Queued, HeldBack, Waiting, refused, Delivered, Dead, Closed)

-----------------------------------------------------------------------------
(* Sequences and the sets of their elements *)

\* What a record of the type of a packet gives to the provers.
LEMMA PacketFields ==
  ASSUME NEW p \in Packets
  PROVE  p.stream \in Streams /\ p.dts \in Int /\ p.pts \in Int
BY DEF Packets

\* The members of a sequence, by their places.
LEMMA RangeMembers ==
  ASSUME NEW S, NEW q \in Seq(S)
  PROVE  /\ Range(q) \subseteq S
         /\ \A i \in 1 .. Len(q) : q[i] \in Range(q)
         /\ \A x \in Range(q) : \E i \in 1 .. Len(q) : q[i] = x
         /\ DOMAIN q = 1 .. Len(q) /\ Len(q) \in Nat
BY LenProperties DEF Range

\* The empty sequence has no members.
LEMMA RangeEmpty == Range(<<>>) = {}
BY DEF Range

\* What one more element does to a sequence and its members.
LEMMA RangeAppend ==
  ASSUME NEW S, NEW q \in Seq(S), NEW x \in S
  PROVE  /\ Append(q, x) \in Seq(S) /\ Len(Append(q, x)) = Len(q) + 1
         /\ Range(Append(q, x)) = Range(q) \cup {x}
         /\ \A i \in 1 .. Len(q) : Append(q, x)[i] = q[i]
         /\ Append(q, x)[Len(q) + 1] = x
<1> DEFINE a == Append(q, x)
<1>1. a \in Seq(S) /\ Len(a) = Len(q) + 1 /\ Len(q) \in Nat
      /\ (\A i \in 1 .. Len(q) : a[i] = q[i]) /\ a[Len(q) + 1] = x
  BY AppendProperties, LenProperties
<1> HIDE DEF a
<1>2. ASSUME NEW y \in Range(a)
      PROVE  y \in Range(q) \cup {x}
  <2>1. PICK i \in 1 .. Len(a) : a[i] = y
    BY <1>1, RangeMembers
  <2>2. i \in 1 .. Len(q) \/ i = Len(q) + 1
    BY <1>1
  <2> QED BY <2>1, <2>2, <1>1, RangeMembers
<1>3. ASSUME NEW y \in Range(q) \cup {x}
      PROVE  y \in Range(a)
  <2>1. CASE y = x
    <3>1. Len(q) + 1 \in 1 .. Len(a)
      BY <1>1
    <3> QED BY <3>1, <2>1, <1>1, RangeMembers
  <2>2. CASE y \in Range(q)
    <3>1. PICK i \in 1 .. Len(q) : q[i] = y
      BY <2>2, RangeMembers
    <3>2. i \in 1 .. Len(a) /\ a[i] = y
      BY <3>1, <1>1
    <3> QED BY <3>2, <1>1, RangeMembers
  <2> QED BY <2>1, <2>2
<1>4. Range(a) = Range(q) \cup {x}
  BY <1>2, <1>3
<1> QED BY <1>1, <1>4 DEF a

\* What the first element and the rest are to a sequence and its members.
LEMMA RangeTail ==
  ASSUME NEW S, NEW q \in Seq(S), q # <<>>
  PROVE  /\ Head(q) \in S /\ Tail(q) \in Seq(S) /\ Head(q) = q[1]
         /\ Len(q) > 0 /\ Len(Tail(q)) = Len(q) - 1
         /\ \A i \in 1 .. Len(Tail(q)) : Tail(q)[i] = q[i + 1]
         /\ Range(q) = {Head(q)} \cup Range(Tail(q))
<1> DEFINE t == Tail(q)
<1>1. /\ Head(q) \in S /\ t \in Seq(S) /\ Head(q) = q[1] /\ Len(q) \in Nat
      /\ Len(q) > 0 /\ Len(t) = Len(q) - 1 /\ \A i \in 1 .. Len(t) : t[i] = q[i + 1]
  BY HeadTailProperties, EmptySeq
<1> HIDE DEF t
<1>2. ASSUME NEW y \in Range(q)
      PROVE  y \in {Head(q)} \cup Range(t)
  <2>1. PICK i \in 1 .. Len(q) : q[i] = y
    BY RangeMembers
  <2>2. CASE i = 1
    BY <2>1, <2>2, <1>1
  <2>3. CASE i # 1
    <3>1. i - 1 \in 1 .. Len(t) /\ t[i - 1] = y
      BY <2>1, <2>3, <1>1
    <3> QED BY <3>1, <1>1, RangeMembers
  <2> QED BY <2>2, <2>3
<1>3. ASSUME NEW y \in {Head(q)} \cup Range(t)
      PROVE  y \in Range(q)
  <2>1. CASE y = Head(q)
    <3>1. 1 \in 1 .. Len(q)
      BY <1>1
    <3> QED BY <3>1, <2>1, <1>1, RangeMembers
  <2>2. CASE y \in Range(t)
    <3>1. PICK i \in 1 .. Len(t) : t[i] = y
      BY <2>2, <1>1, RangeMembers
    <3>2. i + 1 \in 1 .. Len(q) /\ q[i + 1] = y
      BY <3>1, <1>1
    <3> QED BY <3>2, RangeMembers
  <2> QED BY <2>1, <2>2
<1>4. Range(q) = {Head(q)} \cup Range(t)
  BY <1>2, <1>3
<1> QED BY <1>1, <1>4 DEF t

\* One more element after all the others of its stream keeps a queue in order.
LEMMA OrderedAppend ==
  ASSUME NEW q \in Seq(Packets), NEW x \in Packets, Ordered(q), Before(Range(q), {x})
  PROVE  Ordered(Append(q, x))
<1> DEFINE a == Append(q, x)
<1>1. /\ a \in Seq(Packets) /\ Len(a) = Len(q) + 1 /\ Len(q) \in Nat
      /\ (\A i \in 1 .. Len(q) : a[i] = q[i]) /\ a[Len(q) + 1] = x
      /\ DOMAIN a = 1 .. Len(a) /\ DOMAIN q = 1 .. Len(q)
      /\ \A i \in 1 .. Len(q) : q[i] \in Range(q)
  BY RangeAppend, LenProperties, RangeMembers
<1> HIDE DEF a
<1>2. ASSUME NEW j \in DOMAIN a, NEW i \in 1 .. j - 1, a[i].stream = a[j].stream
      PROVE  a[i].dts < a[j].dts
  <2>1. i \in 1 .. Len(q) /\ a[i] = q[i]
    BY <1>1
  <2>2. CASE j = Len(q) + 1
    BY <2>1, <2>2, <1>1, <1>2 DEF Before
  <2>3. CASE j # Len(q) + 1
    <3>1. j \in 1 .. Len(q) /\ a[j] = q[j]
      BY <2>3, <1>1
    <3> QED BY <3>1, <2>1, <1>1, <1>2 DEF Ordered
  <2> QED BY <2>2, <2>3
<1> QED BY <1>2 DEF Ordered, a

\* The head of a queue in order is before the rest, which is in order.
LEMMA OrderedTail ==
  ASSUME NEW q \in Seq(Packets), q # <<>>, Ordered(q)
  PROVE  Ordered(Tail(q)) /\ Before({Head(q)}, Range(Tail(q)))
<1> DEFINE t == Tail(q)
<1>1. /\ t \in Seq(Packets) /\ Head(q) = q[1]
      /\ Len(q) > 0 /\ Len(t) = Len(q) - 1 /\ (\A i \in 1 .. Len(t) : t[i] = q[i + 1])
  BY RangeTail
<1>a. /\ DOMAIN t = 1 .. Len(t) /\ DOMAIN q = 1 .. Len(q) /\ Len(q) \in Nat
      /\ \A x \in Range(t) : \E i \in 1 .. Len(t) : t[i] = x
  BY <1>1, RangeMembers
<1> HIDE DEF t
<1>2. ASSUME NEW j \in DOMAIN t, NEW i \in 1 .. j - 1, t[i].stream = t[j].stream
      PROVE  t[i].dts < t[j].dts
  <2>1. i + 1 \in 1 .. (j + 1) - 1 /\ j + 1 \in DOMAIN q /\ t[i] = q[i + 1] /\ t[j] = q[j + 1]
    BY <1>1, <1>a
  <2> QED BY <2>1, <1>a, <1>2 DEF Ordered
<1>3. ASSUME NEW x \in Range(t), q[1].stream = x.stream
      PROVE  q[1].dts < x.dts
  <2>1. PICK i \in 1 .. Len(t) : t[i] = x
    BY <1>1, <1>a
  <2>2. 1 \in 1 .. (i + 1) - 1 /\ i + 1 \in DOMAIN q /\ x = q[i + 1]
    BY <2>1, <1>1, <1>a
  <2> QED BY <2>2, <1>3, <1>a DEF Ordered
<1> QED BY <1>1, <1>a, <1>2, <1>3 DEF Ordered, Before, t

-----------------------------------------------------------------------------
(* How the packets move *)

\* A packet is delivered: it is later than all others of its stream, and waits.
LEMMA MoveDeliver ==
  ASSUME NEW F, NEW Q, NEW V, NEW W, NEW X, NEW D, NEW dead, NEW closed, NEW now,
         D \subseteq Packets, InLine(F, Q, V, W, X, D, dead, closed), ~closed,
         NEW p \in Packets, Before(D, {p})
  PROVE  InLine(F, Q, V, W \cup {p}, X, D \cup {p}, dead, now)
<1>1. p \notin D /\ p.dts \in Int
  BY PacketFields DEF Before
<1>2. \A x \in D \ (F \cup X \cup Q \cup V \cup W) : dead /\ Before(F, {x})
  BY DEF InLine
<1> QED BY <1>1, <1>2 DEF InLine, Before

\* The picture that was held joins the queue.
LEMMA MoveHeld ==
  ASSUME NEW F, NEW Q, NEW V, NEW W, NEW X, NEW D, NEW dead, NEW closed,
         InLine(F, Q, V, W, X, D, dead, closed)
  PROVE  InLine(F, Q \cup V, {}, W, X, D, dead, closed)
<1>1. /\ (Q \cup V) \cup {} \cup W = Q \cup V \cup W
      /\ F \cup X \cup (Q \cup V) \cup {} \cup W = F \cup X \cup Q \cup V \cup W
      /\ {} \cup W = W
      /\ F \cup (Q \cup V) \cup {} \cup W = F \cup Q \cup V \cup W
  OBVIOUS
<1>2. Before(Q \cup V, W) /\ Before({}, W)
  BY DEF InLine, Before
<1> QED BY <1>1, <1>2 DEF InLine

\* The first packet that waits joins the queue, ahead of a picture that is held.
LEMMA MoveQueue ==
  ASSUME NEW F, NEW Q, NEW V, NEW X, NEW D, NEW dead, NEW closed, NEW U, NEW p,
         InLine(F, Q, V, {p} \cup U, X, D, dead, closed),
         Before({p}, U), \A x \in V : x.stream # p.stream
  PROVE  InLine(F, Q \cup {p}, V, U, X, D, dead, closed)
<1> DEFINE W == {p} \cup U
<1>1. /\ (Q \cup {p}) \cup V \cup U = Q \cup V \cup W
      /\ F \cup X \cup (Q \cup {p}) \cup V \cup U = F \cup X \cup Q \cup V \cup W
      /\ F \cup (Q \cup {p}) \cup V \cup U = F \cup Q \cup V \cup W
  OBVIOUS
<1>2. Before(Q \cup {p}, V \cup U) /\ Before(V, U)
  BY DEF InLine, Before
<1> QED BY <1>1, <1>2 DEF InLine

\* The first packet that waits is held.
LEMMA MoveHold ==
  ASSUME NEW F, NEW Q, NEW X, NEW D, NEW dead, NEW closed, NEW U, NEW p,
         InLine(F, Q, {}, {p} \cup U, X, D, dead, closed), Before({p}, U)
  PROVE  InLine(F, Q, {p}, U, X, D, dead, closed)
<1> DEFINE W == {p} \cup U
<1>1. /\ Q \cup {p} \cup U = Q \cup {} \cup W
      /\ F \cup X \cup Q \cup {p} \cup U = F \cup X \cup Q \cup {} \cup W
      /\ {p} \cup U = {} \cup W
      /\ F \cup Q \cup {p} \cup U = F \cup Q \cup {} \cup W
  OBVIOUS
<1> QED BY <1>1 DEF InLine

\* A queued packet that nothing kept is before is written.
LEMMA MoveWrite ==
  ASSUME NEW F, NEW V, NEW W, NEW X, NEW D, NEW dead, NEW closed, NEW G, NEW p,
         InLine(F, {p} \cup G, V, W, X, D, dead, closed), ~dead, Before({p}, G)
  PROVE  InLine(F \cup {p}, G, V, W, X, D, dead, closed)
<1> DEFINE Q == {p} \cup G
<1>1. Before({p}, G \cup V \cup W) /\ Before(F, {p}) /\ p \in D /\ p \notin X
  BY DEF InLine, Before
<1>2. Before(F \cup {p}, G \cup V \cup W) /\ Before(G, V \cup W)
  BY <1>1 DEF InLine, Before
<1>3. /\ (F \cup {p}) \cup X \cup G \cup V \cup W = F \cup X \cup Q \cup V \cup W
      /\ (F \cup {p}) \cup G \cup V \cup W = F \cup Q \cup V \cup W
  OBVIOUS
<1>4. X \cap ((F \cup {p}) \cup G \cup V \cup W) = {}
  BY <1>3 DEF InLine
<1>5. ASSUME NEW x \in D \ ((F \cup {p}) \cup X \cup G \cup V \cup W)
      PROVE  /\ Before(F \cup {p}, {x})
             /\ dead \/ Before(G \cup V \cup W, {x})
             /\ dead \/ closed
  <2>1. Before(F, {x}) /\ Before(Q \cup V \cup W, {x}) /\ (dead \/ closed)
    BY <1>3, <1>5 DEF InLine
  <2> QED BY <2>1 DEF Before
<1> QED BY <1>1, <1>2, <1>3, <1>4, <1>5 DEF InLine

\* A queued packet that nothing kept is before is refused.
LEMMA MoveRefuse ==
  ASSUME NEW F, NEW V, NEW W, NEW X, NEW D, NEW dead, NEW closed, NEW G, NEW p,
         D \subseteq Packets,
         InLine(F, {p} \cup G, V, W, X, D, dead, closed), Before({p}, G)
  PROVE  InLine(F, G, V, W, X \cup {p}, D, dead, closed)
<1> DEFINE Q == {p} \cup G
<1>1. Before({p}, G \cup V \cup W) /\ Before(F, {p}) /\ p \in D /\ p.dts \in Int
  BY PacketFields DEF InLine, Before
<1>2. Before(F, G \cup V \cup W) /\ Before(G, V \cup W) /\ Before(V, W)
  BY DEF InLine, Before
<1>3. p \notin F \cup G \cup V \cup W
  BY <1>1 DEF Before
<1>4. F \cup (X \cup {p}) \cup G \cup V \cup W = F \cup X \cup Q \cup V \cup W
  OBVIOUS
<1>5. (X \cup {p}) \cap (F \cup G \cup V \cup W) = {}
  BY <1>3 DEF InLine
<1>6. ASSUME NEW x \in D \ (F \cup (X \cup {p}) \cup G \cup V \cup W)
      PROVE  /\ Before(F, {x})
             /\ dead \/ Before(G \cup V \cup W, {x})
             /\ dead \/ closed
  <2>1. Before(F, {x}) /\ (dead \/ Before(Q \cup V \cup W, {x})) /\ (dead \/ closed)
    BY <1>4, <1>6 DEF InLine
  <2> QED BY <2>1 DEF Before
<1> QED BY <1>2, <1>4, <1>5, <1>6 DEF InLine

\* Packets are lost, the last of those kept or while nothing is written any more.
Losing(Q, V, W, G, H, U, dead, closed, dead2, closed2) ==
  /\ G \subseteq Q /\ H \subseteq V /\ U \subseteq W
  /\ dead => dead2
  /\ closed => closed2
  /\ dead2 \/ closed2
  /\ dead2 \/ Before(G \cup H \cup U, (Q \cup V \cup W) \ (G \cup H \cup U))

LEMMA MoveLose ==
  ASSUME NEW F, NEW Q, NEW V, NEW W, NEW X, NEW D, NEW dead, NEW closed,
         NEW dead2, NEW closed2, NEW G, NEW H, NEW U,
         InLine(F, Q, V, W, X, D, dead, closed),
         Losing(Q, V, W, G, H, U, dead, closed, dead2, closed2)
  PROVE  InLine(F, G, H, U, X, D, dead2, closed2)
<1>1. /\ F \cup X \cup G \cup H \cup U \subseteq D
      /\ Before(F, G \cup H \cup U) /\ Before(G, H \cup U) /\ Before(H, U)
      /\ X \cap (F \cup G \cup H \cup U) = {}
  BY DEF InLine, Before, Losing
<1>2. ASSUME NEW x \in D \ (F \cup X \cup G \cup H \cup U)
      PROVE  /\ Before(F, {x})
             /\ dead2 \/ Before(G \cup H \cup U, {x})
             /\ dead2 \/ closed2
  <2>1. CASE x \in Q \cup V \cup W
    <3>1. Before(F, {x})
      BY <2>1 DEF InLine, Before
    <3>2. x \in (Q \cup V \cup W) \ (G \cup H \cup U)
      BY <2>1
    <3> QED BY <3>1, <3>2 DEF Before, Losing
  <2>2. CASE x \notin Q \cup V \cup W
    <3>1. x \in D \ (F \cup X \cup Q \cup V \cup W)
      BY <2>2
    <3>2. Before(F, {x}) /\ (dead \/ Before(Q \cup V \cup W, {x}))
      BY <3>1 DEF InLine
    <3>3. G \cup H \cup U \subseteq Q \cup V \cup W
      BY DEF Losing
    <3>4. dead2 \/ Before(G \cup H \cup U, {x})
      BY <3>2, <3>3 DEF Before, Losing
    <3> QED BY <3>2, <3>4 DEF Losing
  <2> QED BY <2>1, <2>2
<1> QED BY <1>1, <1>2 DEF InLine

-----------------------------------------------------------------------------
(* What the position of the call says about the queues *)

Control ==
  /\ mode = "none" => pc \notin Draining /\ queue["video"] = <<>> /\ queue["audio"] = <<>>
  /\ pc \in Draining \ {"Drain"} => queue["video"] # <<>>
  /\ pc \in Rolling \/ (pc = "Audio" /\ roll) => failure = "ok"
  /\ pc \in {"Retire", "Open"} => trailerWritten
  /\ ready # <<>> => pc \in {"Write", "crashed"} \cup Draining /\ caller = "Process"
  /\ pending # <<>> => ~header /\ pc = "idle"
  /\ trailerWritten =>
       \/ pc \in {"Retire", "Open"}
       \/ /\ pc \in {"idle", "Write", "Resume", "Seal", "crashed"} /\ ready = <<>>
          /\ failure # "ok" \/ finalizing

\* Who called.
Calls ==
  /\ caller # "Process" => finalizing
  /\ pc = "Write" => caller = "Process"
  /\ pc \in {"Held", "Resume"} => caller = "Held"
  /\ pc = "Seal" => caller = "Finish"
  /\ pc = "idle" => caller = "Process" \/ finalized
  /\ shutdown => pc = "idle"
  /\ finalized => pc = "idle" /\ finalizing

Base == TypeOK /\ Tagged /\ Control /\ Calls

\* An empty sink is well formed.
LEMMA InitBase == Init => Base
<1> SUFFICES ASSUME Init PROVE Base
  OBVIOUS
<1>1. /\ sent \in [Streams -> Seq(Packets)] /\ queue \in [Streams -> Seq(Packets)]
      /\ pending \in Seq(Packets) /\ pendingVideo \in Seq(Packets) /\ ready \in Seq(Packets)
      /\ \A s \in Streams : sent[s] = <<>> /\ queue[s] = <<>>
      /\ Len(pendingVideo) = 0
  BY DEF Init
<1>2. parts \in Seq(Files) /\ Len(parts) = 1
  <2>1. [origin |-> 0, content |-> <<>>] \in Files
    <3>1. <<>> \in Seq(Content)
      OBVIOUS
    <3> QED BY <3>1 DEF Files
  <2> QED BY <2>1 DEF Init
<1>3. mode \in {"none", "time", "bytes"}
  BY ConstantsAssumption DEF Init
<1>4. TypeOK
  <2>1. QueueTypes
    BY <1>1 DEF QueueTypes, Init
  <2>2. FileTypes
    BY <1>2 DEF FileTypes, Init
  <2>3. CallTypes
    BY <1>3 DEF CallTypes, Init, Pcs
  <2>4. FlagTypes
    BY DEF FlagTypes, Init
  <2> QED BY <2>1, <2>2, <2>3, <2>4 DEF TypeOK
<1>5. Tagged
  BY <1>1 DEF Tagged, Init
<1>6. Control /\ Calls
  BY <1>1 DEF Init, Control, Calls, Draining, Rolling, Streams
<1> QED BY <1>4, <1>5, <1>6 DEF Base

\* What the queues hold, in the words of the type.
LEMMA Elements ==
  ASSUME TypeOK, Tagged
  PROVE  /\ \A s \in Streams : /\ sent[s] \in Seq(Packets) /\ queue[s] \in Seq(Packets)
                               /\ Range(sent[s]) \subseteq Packets
                               /\ Range(queue[s]) \subseteq Packets
                               /\ \A x \in Range(sent[s]) : x.stream = s
                               /\ \A x \in Range(queue[s]) : x.stream = s
         /\ Range(pendingVideo) \subseteq Packets
         /\ \A x \in Range(pendingVideo) : x.stream = "video"
         /\ Range(ready) \subseteq Packets /\ Range(pending) \subseteq Packets
         /\ Delivered \subseteq Packets
<1>1. \A s \in Streams : sent[s] \in Seq(Packets) /\ queue[s] \in Seq(Packets)
  BY DEF TypeOK, QueueTypes
<1>2. ASSUME NEW s \in Streams
      PROVE  /\ Range(sent[s]) \subseteq Packets /\ Range(queue[s]) \subseteq Packets
             /\ \A x \in Range(sent[s]) : x.stream = s
             /\ \A x \in Range(queue[s]) : x.stream = s
  <2>1. Range(sent[s]) \subseteq Packets /\ Range(queue[s]) \subseteq Packets
    BY <1>1, RangeMembers
  <2>2. (\A x \in Range(sent[s]) : x.stream = s) /\ \A x \in Range(queue[s]) : x.stream = s
    BY DEF Tagged, Range
  <2> QED BY <2>1, <2>2
<1>3. /\ Range(pendingVideo) \subseteq Packets /\ Range(ready) \subseteq Packets
      /\ Range(pending) \subseteq Packets
  BY RangeMembers DEF TypeOK, QueueTypes
<1>4. \A x \in Range(pendingVideo) : x.stream = "video"
  BY DEF Tagged, Range
<1>5. Delivered \subseteq Packets
  BY <1>2 DEF Delivered, Streams
<1> QED BY <1>1, <1>2, <1>3, <1>4, <1>5

\* The picture that is held.
LEMMA Held1 ==
  ASSUME TypeOK, Tagged, pendingVideo # <<>>
  PROVE  /\ Head(pendingVideo) \in Packets /\ Head(pendingVideo).stream = "video"
         /\ Range(pendingVideo) = {Head(pendingVideo)}
<1>1. pendingVideo \in Seq(Packets)
  BY DEF TypeOK, QueueTypes
<1>2. /\ Head(pendingVideo) \in Packets /\ Head(pendingVideo) = pendingVideo[1]
      /\ Len(pendingVideo) > 0 /\ Len(pendingVideo) \in Nat
      /\ DOMAIN pendingVideo = 1 .. Len(pendingVideo)
  BY <1>1, RangeTail, RangeMembers
<1>3. Len(pendingVideo) = 1
  BY <1>2 DEF Tagged
<1>4. Range(pendingVideo) = {pendingVideo[1]}
  BY <1>2, <1>3 DEF Range
<1> QED BY <1>2, <1>3, <1>4 DEF Tagged

\* What an encoder may deliver next is later than all it has delivered.
LEMMA Next1 ==
  ASSUME TypeOK, NEW s \in Streams, NEW p \in NextPackets(s)
  PROVE  /\ p \in Packets /\ p.stream = s
         /\ sent[s] # <<>> => Last(sent[s]).dts < p.dts
<1>1. sent[s] \in Seq(Packets)
  BY DEF TypeOK, QueueTypes
<1>2. sent[s] # <<>> => Last(sent[s]) \in Packets
  BY <1>1, LenProperties, ElementOfSeq DEF Last
<1> DEFINE first == sent[s] = <<>>
           dts == IF first THEN 0 ELSE Last(sent[s]).dts
<1>3. dts \in Int
  BY <1>2, PacketFields
<1>4. CASE s = "audio"
  <2>1. PICK gap \in IF first THEN {0} ELSE Gaps : p = Packet(s, dts + gap, dts + gap, "no")
    BY <1>4 DEF NextPackets
  <2>2. gap \in Nat /\ (~first => gap > 0)
    BY ConstantsAssumption
  <2> QED BY <2>1, <2>2, <1>3 DEF Packet, Packets
<1>5. CASE s # "audio"
  <2>1. PICK step \in (IF first THEN {0} ELSE Steps), later \in (IF first THEN {0} ELSE Reorder),
             key \in {"IDR", "CRA", "no"} : p = Packet(s, dts + step, dts + step + later, key)
    BY <1>5 DEF NextPackets
  <2>2. step \in Nat /\ later \in Nat /\ (~first => step > 0)
    BY ConstantsAssumption
  <2> QED BY <2>1, <2>2, <1>3 DEF Packet, Packets
<1> QED BY <1>4, <1>5

\* One more element of the current file.
LEMMA FileAppended ==
  ASSUME TypeOK, NEW x \in Content, parts' = Appended(x)
  PROVE  /\ parts' \in Seq(Files) /\ Len(parts') = Len(parts)
         /\ \A k \in 1 .. Len(parts) : k # part => parts'[k] = parts[k]
         /\ parts'[part].content = Append(parts[part].content, x)
         /\ parts'[part].origin = parts[part].origin
<1>1. part \in 1 .. Len(parts) /\ parts \in Seq(Files)
  BY LenProperties DEF TypeOK, FileTypes
<1>2. parts[part] \in Files
  BY <1>1, ElementOfSeq
<1>3. parts[part].content \in Seq(Content) /\ parts[part].origin \in Int
  BY <1>2 DEF Files
<1>4. Append(parts[part].content, x) \in Seq(Content)
  BY <1>3, RangeAppend
<1> DEFINE f == [parts[part] EXCEPT !.content = Append(@, x)]
<1>5. f \in Files /\ f.content = Append(parts[part].content, x) /\ f.origin = parts[part].origin
  BY <1>2, <1>3, <1>4 DEF Files
<1>6. parts' = [parts EXCEPT ![part] = f]
  BY DEF Appended
<1> HIDE DEF f
<1>7. /\ parts' \in Seq(Files) /\ Len(parts') = Len(parts)
      /\ \A k \in 1 .. Len(parts) : parts'[k] = IF k = part THEN f ELSE parts[k]
  BY <1>1, <1>5, <1>6, ExceptSeq
<1> QED BY <1>1, <1>5, <1>7

\* The next file.
LEMMA FileOpened ==
  ASSUME TypeOK, NEW o \in Int, parts' = Append(parts, [origin |-> o, content |-> <<>>])
  PROVE  /\ parts' \in Seq(Files) /\ Len(parts') = Len(parts) + 1
         /\ \A k \in 1 .. Len(parts) : parts'[k] = parts[k]
         /\ parts'[Len(parts) + 1] = [origin |-> o, content |-> <<>>]
<1>1. <<>> \in Seq(Content)
  OBVIOUS
<1>2. [origin |-> o, content |-> <<>>] \in Files
  BY <1>1 DEF Files
<1> QED BY <1>2, RangeAppend DEF TypeOK, FileTypes

-----------------------------------------------------------------------------
(* What a write, a return and an append to the queue may do *)

\* Process keeps an error in failure and drops what it was given; Finalize keeps it in hr.
LEMMA Returns ==
  ASSUME NEW e, NEW rest, Return(e, rest), caller \in {"Process", "Held", "Finish"}
  PROVE  /\ roll' = FALSE /\ boundary' = 0
         /\ \/ /\ caller = "Process" /\ pc' = "Write" /\ hr' = hr
               /\ failure' = (IF e = "ok" THEN failure ELSE e)
               /\ ready' = (IF e = "ok" THEN rest ELSE <<>>)
            \/ /\ caller = "Held" /\ pc' = "Resume" /\ ready' = ready /\ failure' = failure
               /\ hr' = (IF e = "ok" THEN hr ELSE e)
            \/ /\ caller = "Finish" /\ pc' = "Seal" /\ ready' = ready /\ failure' = failure
               /\ hr' = (IF e = "ok" THEN hr ELSE e)
<1>1. CASE caller = "Process"
  BY <1>1 DEF Return
<1>2. CASE caller = "Held"
  BY <1>2 DEF Return
<1>3. CASE caller = "Finish"
  BY <1>3 DEF Return
<1> QED BY <1>1, <1>2, <1>3

\* What Return does with an error, for each caller.
LEMMA Fails ==
  ASSUME NEW e, NEW rest, Return(e, rest), caller \in {"Process", "Held", "Finish"}, e # "ok"
  PROVE  \/ caller = "Process" /\ pc' = "Write" /\ failure' = e /\ ready' = <<>> /\ hr' = hr
         \/ caller = "Held" /\ pc' = "Resume" /\ ready' = ready /\ failure' = failure /\ hr' = e
         \/ caller = "Finish" /\ pc' = "Seal" /\ ready' = ready /\ failure' = failure /\ hr' = e
<1>1. CASE caller = "Process"
  BY <1>1 DEF Return
<1>2. CASE caller = "Held"
  BY <1>2 DEF Return
<1>3. CASE caller = "Finish"
  BY <1>3 DEF Return
<1> QED BY <1>1, <1>2, <1>3

\* What Return does without one, for each caller.
LEMMA Succeeds ==
  ASSUME NEW rest, Return("ok", rest), caller \in {"Process", "Held", "Finish"}
  PROVE  /\ UNCHANGED <<failure, hr>>
         /\ \/ caller = "Process" /\ pc' = "Write" /\ ready' = rest
            \/ caller = "Held" /\ pc' = "Resume" /\ ready' = ready
            \/ caller = "Finish" /\ pc' = "Seal" /\ ready' = ready
<1>1. CASE caller = "Process"
  BY <1>1 DEF Return
<1>2. CASE caller = "Held"
  BY <1>2 DEF Return
<1>3. CASE caller = "Finish"
  BY <1>3 DEF Return
<1> QED BY <1>1, <1>2, <1>3

\* A write crashes, succeeds, finds the storage failed, or is refused.
Crashes == Goto("crashed") /\ UNCHANGED <<storageError, parts, refused>>
Writes(x, next, rest) ==
  /\ parts' = Appended(x) /\ refused' = refused /\ storageError' = storageError /\ ~storageError
  /\ IF next = "return" THEN Return("ok", rest) ELSE Goto(next)
Breaks(rest) ==
  parts' = parts /\ refused' = refused /\ storageError' = TRUE /\ Return("storage", rest)
Refuses(x, rest) ==
  /\ parts' = parts /\ refused' = refused \cup {x} /\ storageError' = storageError
  /\ Return("refused", rest)

LEMMA MuxRawCases ==
  ASSUME NEW x, NEW next, NEW rest, MuxRaw(x, next, rest), ~trailerWritten,
         storageError \in BOOLEAN
  PROVE  Crashes \/ Writes(x, next, rest) \/ Breaks(rest) \/ Refuses(x, rest)
<1>1. CASE ~header /\ Goto("crashed") /\ UNCHANGED <<storageError, parts, refused>>
  BY <1>1 DEF Crashes
<1>2. ASSUME NEW e \in Outcomes \cup {"refused"},
             parts' = IF e = "ok" THEN Appended(x) ELSE parts,
             storageError' = (storageError \/ e = "storage"),
             refused' = IF e = "refused" THEN refused \cup {x} ELSE refused,
             IF e = "ok" /\ next # "return" THEN Goto(next) ELSE Return(e, rest)
      PROVE  Writes(x, next, rest) \/ Breaks(rest) \/ Refuses(x, rest)
  <2>1. CASE e = "ok"
    <3>1. ~storageError
      BY <2>1 DEF Outcomes
    <3> QED BY <2>1, <3>1, <1>2 DEF Writes
  <2>2. CASE e = "storage"
    BY <2>2, <1>2 DEF Breaks
  <2>3. CASE e = "refused"
    BY <2>3, <1>2 DEF Refuses
  <2>4. e \in {"ok", "storage", "refused"}
    BY DEF Outcomes
  <2> QED BY <2>1, <2>2, <2>3, <2>4
<1> QED BY <1>1, <1>2 DEF MuxRaw

\* The types of what a write changes.
LEMMA MuxRawTypes ==
  ASSUME TypeOK, NEW x \in Packets, NEW rest \in Seq(Packets), NEW next,
         next \in Pcs \cup {"return"},
         Crashes \/ Writes(x, next, rest) \/ Breaks(rest) \/ Refuses(x, rest)
  PROVE  /\ parts' \in Seq(Files) /\ Len(parts') = Len(parts)
         /\ refused' \subseteq Packets /\ storageError' \in BOOLEAN
         /\ ready' \in Seq(Packets) /\ boundary' \in Int /\ roll' \in BOOLEAN /\ pc' \in Pcs
<1> DEFINE Moves == /\ ready' \in Seq(Packets) /\ boundary' \in Int /\ roll' \in BOOLEAN
                    /\ pc' \in Pcs
<1>1. ready \in Seq(Packets) /\ <<>> \in Seq(Packets) /\ refused \subseteq Packets
  BY DEF TypeOK, QueueTypes
<1>2. parts \in Seq(Files)
  BY DEF TypeOK, FileTypes
<1>3. roll \in BOOLEAN /\ storageError \in BOOLEAN /\ boundary \in Int
      /\ caller \in {"Process", "Held", "Finish"}
  BY DEF TypeOK, FlagTypes, CallTypes
<1>4. ASSUME NEW e, Return(e, rest) PROVE Moves
  <2>1. roll' = FALSE /\ boundary' = 0 /\ ready' \in {ready, rest, <<>>}
        /\ pc' \in {"Write", "Resume", "Seal"}
    BY <1>3, <1>4, Returns
  <2>2. ready' \in Seq(Packets)
    BY <2>1, <1>1
  <2>3. roll' \in BOOLEAN
    BY <2>1
  <2>5. boundary' \in Int
    BY <2>1
  <2>4. pc' \in Pcs
    BY <2>1 DEF Pcs
  <2> QED BY <2>2, <2>3, <2>4, <2>5
<1>5. ASSUME NEW label \in Pcs, Goto(label) PROVE Moves
  BY <1>1, <1>3, <1>5 DEF Goto
<1>6. CASE Crashes
  <2>1. Goto("crashed") /\ parts' = parts /\ refused' = refused /\ storageError' = storageError
    BY <1>6 DEF Crashes
  <2>2. Moves
    BY <2>1, <1>5 DEF Pcs
  <2> QED BY <2>1, <2>2, <1>1, <1>2, <1>3
<1>7. CASE Writes(x, next, rest)
  <2>1. parts' = Appended(x) /\ refused' = refused /\ storageError' = storageError
        /\ (Return("ok", rest) \/ (next \in Pcs /\ Goto(next)))
    BY <1>7 DEF Writes
  <2>2. Moves
    BY <2>1, <1>4, <1>5
  <2>3. x \in Content
    BY DEF Content
  <2>4. parts' \in Seq(Files) /\ Len(parts') = Len(parts)
    BY <2>1, <2>3, FileAppended
  <2> QED BY <2>1, <2>2, <2>4, <1>1, <1>3
<1>8. CASE Breaks(rest)
  <2>1. Return("storage", rest) /\ parts' = parts /\ refused' = refused /\ storageError' = TRUE
    BY <1>8 DEF Breaks
  <2>2. Moves
    BY <2>1, <1>4
  <2> QED BY <2>1, <2>2, <1>1, <1>2
<1>9. CASE Refuses(x, rest)
  <2>1. Return("refused", rest) /\ parts' = parts /\ refused' = refused \cup {x}
        /\ storageError' = storageError
    BY <1>9 DEF Refuses
  <2>2. Moves
    BY <2>1, <1>4
  <2> QED BY <2>1, <2>2, <1>1, <1>2, <1>3
<1> QED BY <1>6, <1>7, <1>8, <1>9

\* A packet joins its queue.
LEMMA QueueAppend ==
  ASSUME TypeOK, Tagged, NEW s \in Streams, NEW x \in Packets, x.stream = s,
         queue' = [queue EXCEPT ![s] = Append(@, x)]
  PROVE  /\ queue' \in [Streams -> Seq(Packets)]
         /\ \A t \in Streams : \A i \in DOMAIN queue'[t] : queue'[t][i].stream = t
         /\ \A t \in Streams : t # s => queue'[t] = queue[t]
         /\ queue'[s] = Append(queue[s], x)
         /\ Range(queue'[s]) = Range(queue[s]) \cup {x}
<1>1. queue \in [Streams -> Seq(Packets)] /\ queue[s] \in Seq(Packets)
  BY DEF TypeOK, QueueTypes
<1>2. \A t \in Streams : \A i \in DOMAIN queue[t] : queue[t][i].stream = t
  BY DEF Tagged
<1>3. DOMAIN queue[s] = 1 .. Len(queue[s]) /\ Len(queue[s]) \in Nat
  BY <1>1, LenProperties
<1> DEFINE a == Append(queue[s], x)
<1>4. /\ a \in Seq(Packets) /\ Len(a) = Len(queue[s]) + 1 /\ a[Len(queue[s]) + 1] = x
      /\ \A i \in 1 .. Len(queue[s]) : a[i] = queue[s][i]
      /\ Range(a) = Range(queue[s]) \cup {x}
  BY <1>1, RangeAppend
<1>5. queue' = [queue EXCEPT ![s] = a]
  OBVIOUS
<1>6. DOMAIN a = 1 .. Len(a)
  BY <1>4, LenProperties
<1> HIDE DEF a
<1>7. queue' \in [Streams -> Seq(Packets)] /\ queue'[s] = a
      /\ \A t \in Streams : t # s => queue'[t] = queue[t]
  BY <1>4, <1>5, <1>1
<1>8. \A i \in DOMAIN a : a[i].stream = s
  BY <1>4, <1>6, <1>2, <1>3
<1>9. \A t \in Streams : \A i \in DOMAIN queue'[t] : queue'[t][i].stream = t
  BY <1>7, <1>8, <1>2
<1> QED BY <1>4, <1>7, <1>9 DEF a

\* A packet leaves its queue.
LEMMA QueuePop ==
  ASSUME TypeOK, Tagged, NEW s \in Streams, queue[s] # <<>>, Pop(s)
  PROVE  /\ queue' \in [Streams -> Seq(Packets)]
         /\ \A t \in Streams : \A i \in DOMAIN queue'[t] : queue'[t][i].stream = t
         /\ \A t \in Streams : t # s => queue'[t] = queue[t]
         /\ queue'[s] = Tail(queue[s])
         /\ Head(queue[s]) \in Packets /\ Head(queue[s]).stream = s
         /\ Range(queue[s]) = {Head(queue[s])} \cup Range(queue'[s])
<1>1. queue \in [Streams -> Seq(Packets)] /\ queue[s] \in Seq(Packets)
  BY DEF TypeOK, QueueTypes
<1>2. \A t \in Streams : \A i \in DOMAIN queue[t] : queue[t][i].stream = t
  BY DEF Tagged
<1>3. DOMAIN queue[s] = 1 .. Len(queue[s]) /\ Len(queue[s]) \in Nat
  BY <1>1, LenProperties
<1> DEFINE a == Tail(queue[s])
<1>4. /\ a \in Seq(Packets) /\ Len(a) = Len(queue[s]) - 1 /\ Head(queue[s]) \in Packets
      /\ \A i \in 1 .. Len(a) : a[i] = queue[s][i + 1]
      /\ Range(queue[s]) = {Head(queue[s])} \cup Range(a)
      /\ Head(queue[s]) = queue[s][1] /\ Len(queue[s]) > 0
  BY <1>1, RangeTail
<1>5. queue' = [queue EXCEPT ![s] = a]
  BY DEF Pop
<1>6. DOMAIN a = 1 .. Len(a)
  BY <1>4, LenProperties
<1> HIDE DEF a
<1>7. queue' \in [Streams -> Seq(Packets)] /\ queue'[s] = a
      /\ \A t \in Streams : t # s => queue'[t] = queue[t]
  BY <1>4, <1>5, <1>1
<1>8. \A i \in DOMAIN a : a[i].stream = s
  <2>1. ASSUME NEW i \in DOMAIN a PROVE a[i].stream = s
    <3>1. i + 1 \in DOMAIN queue[s] /\ a[i] = queue[s][i + 1]
      BY <1>4, <1>6, <1>3
    <3> QED BY <3>1, <1>2
  <2> QED BY <2>1
<1>9. \A t \in Streams : \A i \in DOMAIN queue'[t] : queue'[t][i].stream = t
  BY <1>7, <1>8, <1>2
<1>10. Head(queue[s]).stream = s
  <2>1. 1 \in DOMAIN queue[s]
    BY <1>4, <1>3
  <2> QED BY <2>1, <1>4, <1>2
<1> QED BY <1>4, <1>7, <1>9, <1>10 DEF a

\* A failure, or a drain with nothing left to do, returns to the caller.
LEMMA ReturnBase ==
  ASSUME Base, NEW e, Return(e, ready), pc \in Draining,
         trailerWritten => e # "ok",
         UNCHANGED <<mode, sent, pending, pendingVideo, queue, header, part, parts,
                     segmentOrigin, segmentHasVideo, trailerWritten, storageError, refused,
                     caller, shutdown, finalizing, finalized, result>>
  PROVE  Base'
<1>1. caller \in {"Process", "Held", "Finish"}
  BY DEF Base, TypeOK, CallTypes
<1>2. /\ roll' = FALSE /\ boundary' = 0
      /\ \/ /\ caller = "Process" /\ pc' = "Write" /\ hr' = hr
            /\ failure' = (IF e = "ok" THEN failure ELSE e)
            /\ ready' = (IF e = "ok" THEN ready ELSE <<>>)
         \/ /\ caller = "Held" /\ pc' = "Resume" /\ ready' = ready /\ failure' = failure
            /\ hr' = (IF e = "ok" THEN hr ELSE e)
         \/ /\ caller = "Finish" /\ pc' = "Seal" /\ ready' = ready /\ failure' = failure
            /\ hr' = (IF e = "ok" THEN hr ELSE e)
  BY <1>1, Returns
<1> USE DEF Base
<1>3. ready' \in {ready, <<>>} /\ pc' \in {"Write", "Resume", "Seal"}
  BY <1>2
<1>4. QueueTypes'
  <2>2. ready \in Seq(Packets) /\ <<>> \in Seq(Packets)
    BY DEF TypeOK, QueueTypes
  <2>1. ready' \in Seq(Packets)
    BY <1>3, <2>2
  <2> QED BY <2>1 DEF TypeOK, QueueTypes
<1>5. FileTypes'
  BY DEF TypeOK, FileTypes
<1>6. CallTypes'
  BY <1>2, <1>3 DEF TypeOK, CallTypes, Pcs
<1>7. FlagTypes'
  BY <1>2 DEF TypeOK, FlagTypes
<1>8. Tagged'
  BY DEF Tagged
<1>9. Control'
  BY <1>1, <1>2 DEF Control, Calls, Draining, Rolling
<1>10. Calls'
  BY <1>1, <1>2 DEF Control, Calls, Draining, Rolling
<1> QED BY <1>4, <1>5, <1>6, <1>7, <1>8, <1>9, <1>10 DEF TypeOK

LEMMA ProcessFailsBase == ASSUME Base, ProcessFails PROVE Base'
<1> USE DEF Base
<1>1. QueueTypes'
  BY DEF TypeOK, QueueTypes, ProcessFails, Accepting, input, held, segment, call, ends
<1>2. FileTypes'
  BY DEF TypeOK, FileTypes, ProcessFails, Accepting, input, held, segment, call, ends
<1>3. CallTypes'
  BY DEF TypeOK, CallTypes, Pcs, Draining, ProcessFails, Accepting, input, held, segment, call, ends
<1>4. FlagTypes'
  BY DEF TypeOK, FlagTypes, ProcessFails, Accepting, input, held, segment, call, ends
<1>5. Tagged'
  BY DEF Tagged, ProcessFails, Accepting, input, held, segment, call, ends
<1>6. Control'
  BY DEF Control, Calls, Draining, Rolling, ProcessFails, Accepting, input, held, segment, call, ends
<1>7. Calls'
  BY DEF Calls, Control, Draining, Rolling, ProcessFails, Accepting, input, held, segment, call, ends
<1> QED BY <1>1, <1>2, <1>3, <1>4, <1>5, <1>6, <1>7 DEF TypeOK

LEMMA ProcessReturnsBase == ASSUME Base, ProcessReturns PROVE Base'
<1> USE DEF Base
<1>1. QueueTypes'
  BY DEF TypeOK, QueueTypes, ProcessReturns, input, held, segment, call, ends
<1>2. FileTypes'
  BY DEF TypeOK, FileTypes, ProcessReturns, input, held, segment, call, ends
<1>3. CallTypes'
  BY DEF TypeOK, CallTypes, Pcs, Draining, ProcessReturns, input, held, segment, call, ends
<1>4. FlagTypes'
  BY DEF TypeOK, FlagTypes, ProcessReturns, input, held, segment, call, ends
<1>5. Tagged'
  BY DEF Tagged, ProcessReturns, input, held, segment, call, ends
<1>6. Control'
  BY DEF Control, Calls, Draining, Rolling, ProcessReturns, input, held, segment, call, ends
<1>7. Calls'
  BY DEF Calls, Control, Draining, Rolling, ProcessReturns, input, held, segment, call, ends
<1> QED BY <1>1, <1>2, <1>3, <1>4, <1>5, <1>6, <1>7 DEF TypeOK

LEMMA AudioWrittenBase == ASSUME Base, AudioWritten PROVE Base'
<1> USE DEF Base
<1>1. QueueTypes'
  BY DEF TypeOK, QueueTypes, AudioWritten, Goto, DrainFrame, Unwritten, input, held, segment, call, ends
<1>2. FileTypes'
  BY DEF TypeOK, FileTypes, AudioWritten, Goto, DrainFrame, Unwritten, input, held, segment, call, ends
<1>3. CallTypes'
  BY DEF TypeOK, CallTypes, Pcs, Draining, AudioWritten, Goto, DrainFrame, Unwritten, input, held, segment, call, ends
<1>4. FlagTypes'
  BY DEF TypeOK, FlagTypes, AudioWritten, Goto, DrainFrame, Unwritten, input, held, segment, call, ends
<1>5. Tagged'
  BY DEF Tagged, AudioWritten, Goto, DrainFrame, Unwritten, input, held, segment, call, ends
<1>6. Control'
  BY DEF Control, Calls, Draining, Rolling, AudioWritten, Goto, DrainFrame, Unwritten, input, held, segment, call, ends
<1>7. Calls'
  BY DEF Calls, Control, Draining, Rolling, AudioWritten, Goto, DrainFrame, Unwritten, input, held, segment, call, ends
<1> QED BY <1>1, <1>2, <1>3, <1>4, <1>5, <1>6, <1>7 DEF TypeOK

LEMMA BeginFinalizeBase == ASSUME Base, BeginFinalize PROVE Base'
<1> USE DEF Base
<1>1. QueueTypes'
  BY DEF TypeOK, QueueTypes, BeginFinalize, input, held, segment, call, ends
<1>2. FileTypes'
  BY DEF TypeOK, FileTypes, BeginFinalize, input, held, segment, call, ends
<1>3. CallTypes'
  BY DEF TypeOK, CallTypes, Pcs, Draining, BeginFinalize, input, held, segment, call, ends
<1>4. FlagTypes'
  BY DEF TypeOK, FlagTypes, BeginFinalize, input, held, segment, call, ends
<1>5. Tagged'
  BY DEF Tagged, BeginFinalize, input, held, segment, call, ends
<1>6. Control'
  BY DEF Control, Calls, Draining, Rolling, BeginFinalize, input, held, segment, call, ends
<1>7. Calls'
  BY DEF Calls, Control, Draining, Rolling, BeginFinalize, input, held, segment, call, ends
<1> QED BY <1>1, <1>2, <1>3, <1>4, <1>5, <1>6, <1>7 DEF TypeOK

LEMMA FinalizeBase == ASSUME Base, Finalize PROVE Base'
<1> USE DEF Base
<1>1. QueueTypes'
  BY DEF TypeOK, QueueTypes, Finalize, FinalizeFrame, End, Goto, input, held, segment, call, ends
<1>2. FileTypes'
  BY DEF TypeOK, FileTypes, Finalize, FinalizeFrame, End, Goto, input, held, segment, call, ends
<1>3. CallTypes'
  BY DEF TypeOK, CallTypes, Pcs, Draining, Finalize, FinalizeFrame, End, Goto, input, held, segment, call, ends
<1>4. FlagTypes'
  BY DEF TypeOK, FlagTypes, Finalize, FinalizeFrame, End, Goto, input, held, segment, call, ends
<1>5. Tagged'
  BY DEF Tagged, Finalize, FinalizeFrame, End, Goto, input, held, segment, call, ends
<1>6. Control'
  BY DEF Control, Calls, Draining, Rolling, Finalize, FinalizeFrame, End, Goto, input, held, segment, call, ends
<1>7. Calls'
  BY DEF Calls, Control, Draining, Rolling, Finalize, FinalizeFrame, End, Goto, input, held, segment, call, ends
<1> QED BY <1>1, <1>2, <1>3, <1>4, <1>5, <1>6, <1>7 DEF TypeOK

LEMMA ResumeBase == ASSUME Base, Resume PROVE Base'
<1> USE DEF Base
<1>1. QueueTypes'
  BY DEF TypeOK, QueueTypes, Resume, FinalizeFrame, Goto, input, held, segment, call, ends
<1>2. FileTypes'
  BY DEF TypeOK, FileTypes, Resume, FinalizeFrame, Goto, input, held, segment, call, ends
<1>3. CallTypes'
  BY DEF TypeOK, CallTypes, Pcs, Draining, Resume, FinalizeFrame, Goto, input, held, segment, call, ends
<1>4. FlagTypes'
  BY DEF TypeOK, FlagTypes, Resume, FinalizeFrame, Goto, input, held, segment, call, ends
<1>5. Tagged'
  BY DEF Tagged, Resume, FinalizeFrame, Goto, input, held, segment, call, ends
<1>6. Control'
  BY DEF Control, Calls, Draining, Rolling, Resume, FinalizeFrame, Goto, input, held, segment, call, ends
<1>7. Calls'
  BY DEF Calls, Control, Draining, Rolling, Resume, FinalizeFrame, Goto, input, held, segment, call, ends
<1> QED BY <1>1, <1>2, <1>3, <1>4, <1>5, <1>6, <1>7 DEF TypeOK

LEMMA SealedBeforeBase == ASSUME Base, SealedBefore PROVE Base'
<1> USE DEF Base
<1>1. QueueTypes'
  BY DEF TypeOK, QueueTypes, SealedBefore, FinalizeFrame, End, input, held, segment, call, ends
<1>2. FileTypes'
  BY DEF TypeOK, FileTypes, SealedBefore, FinalizeFrame, End, input, held, segment, call, ends
<1>3. CallTypes'
  BY DEF TypeOK, CallTypes, Pcs, Draining, SealedBefore, FinalizeFrame, End, input, held, segment, call, ends
<1>4. FlagTypes'
  BY DEF TypeOK, FlagTypes, SealedBefore, FinalizeFrame, End, input, held, segment, call, ends
<1>5. Tagged'
  BY DEF Tagged, SealedBefore, FinalizeFrame, End, input, held, segment, call, ends
<1>6. Control'
  BY DEF Control, Calls, Draining, Rolling, SealedBefore, FinalizeFrame, End, input, held, segment, call, ends
<1>7. Calls'
  BY DEF Calls, Control, Draining, Rolling, SealedBefore, FinalizeFrame, End, input, held, segment, call, ends
<1> QED BY <1>1, <1>2, <1>3, <1>4, <1>5, <1>6, <1>7 DEF TypeOK

LEMMA CreateNextBase == ASSUME Base, CreateNext PROVE Base'
<1> USE DEF Base
<1>1. /\ pc = "Create" /\ (Goto("Trailer") \/ Return("create", ready))
      /\ RollFrame /\ UNCHANGED <<segment, storageError, parts>>
  BY DEF CreateNext
<1>2. CASE Goto("Trailer")
  <2>1. QueueTypes'
    BY <1>1, <1>2 DEF TypeOK, QueueTypes, Goto, RollFrame, input, held, segment, call, ends
  <2>2. FileTypes'
    BY <1>1, <1>2 DEF TypeOK, FileTypes, Goto, RollFrame, input, held, segment, call, ends
  <2>3. CallTypes'
    BY <1>1, <1>2 DEF TypeOK, CallTypes, Pcs, Draining, Goto, RollFrame, input, held, segment, call, ends
  <2>4. FlagTypes'
    BY <1>1, <1>2 DEF TypeOK, FlagTypes, Goto, RollFrame, input, held, segment, call, ends
  <2>5. Tagged'
    BY <1>1, <1>2 DEF Tagged, Goto, RollFrame, input, held, segment, call, ends
  <2>6. Control' /\ Calls'
    BY <1>1, <1>2 DEF Control, Calls, Draining, Rolling, Goto, RollFrame, input, held, segment, call, ends
  <2> QED BY <2>1, <2>2, <2>3, <2>4, <2>5, <2>6 DEF TypeOK
<1>3. CASE Return("create", ready)
  <2>1. UNCHANGED <<mode, sent, pending, pendingVideo, queue, header, part, parts,
                    segmentOrigin, segmentHasVideo, trailerWritten, storageError, refused,
                    caller, shutdown, finalizing, finalized, result>>
    BY <1>1 DEF RollFrame, input, held, segment, call, ends
  <2> QED BY <1>1, <1>3, <2>1, ReturnBase DEF Draining
<1> QED BY <1>1, <1>2, <1>3

LEMMA RetireCurrentBase == ASSUME Base, RetireCurrent PROVE Base'
<1> USE DEF Base
<1>1. /\ pc = "Retire" /\ (Goto("Open") \/ Return("retire", ready))
      /\ RollFrame /\ UNCHANGED <<segment, storageError, parts>>
  BY DEF RetireCurrent
<1>2. CASE Goto("Open")
  <2>1. QueueTypes'
    BY <1>1, <1>2 DEF TypeOK, QueueTypes, Goto, RollFrame, input, held, segment, call, ends
  <2>2. FileTypes'
    BY <1>1, <1>2 DEF TypeOK, FileTypes, Goto, RollFrame, input, held, segment, call, ends
  <2>3. CallTypes'
    BY <1>1, <1>2 DEF TypeOK, CallTypes, Pcs, Draining, Goto, RollFrame, input, held, segment, call, ends
  <2>4. FlagTypes'
    BY <1>1, <1>2 DEF TypeOK, FlagTypes, Goto, RollFrame, input, held, segment, call, ends
  <2>5. Tagged'
    BY <1>1, <1>2 DEF Tagged, Goto, RollFrame, input, held, segment, call, ends
  <2>6. Control' /\ Calls'
    BY <1>1, <1>2 DEF Control, Calls, Draining, Rolling, Goto, RollFrame, input, held, segment, call, ends
  <2> QED BY <2>1, <2>2, <2>3, <2>4, <2>5, <2>6 DEF TypeOK
<1>3. CASE Return("retire", ready)
  <2>1. UNCHANGED <<mode, sent, pending, pendingVideo, queue, header, part, parts,
                    segmentOrigin, segmentHasVideo, trailerWritten, storageError, refused,
                    caller, shutdown, finalizing, finalized, result>>
    BY <1>1 DEF RollFrame, input, held, segment, call, ends
  <2> QED BY <1>1, <1>3, <2>1, ReturnBase DEF Draining
<1> QED BY <1>1, <1>2, <1>3

\* The queues at the head of the drain.
LEMMA VideoHead ==
  ASSUME TypeOK, Tagged, queue["video"] # <<>>
  PROVE  video \in Packets /\ video.stream = "video"
<1>1. queue["video"] \in Seq(Packets) /\ "video" \in Streams
  BY DEF TypeOK, QueueTypes, Streams
<1>2. /\ Head(queue["video"]) \in Packets /\ Head(queue["video"]) = queue["video"][1]
      /\ Len(queue["video"]) > 0 /\ Len(queue["video"]) \in Nat
      /\ DOMAIN queue["video"] = 1 .. Len(queue["video"])
  BY <1>1, RangeTail, RangeMembers
<1>3. 1 \in DOMAIN queue["video"]
  BY <1>2
<1> QED BY <1>1, <1>2, <1>3 DEF Tagged, video

\* A decision is to return, or to go on to the sound before a boundary; a split is
\* only decided while nothing has failed and there is sound up to the boundary.
LEMMA Decides ==
  ASSUME TypeOK, Tagged, Decide
  PROVE  /\ pc = "Drain" /\ queue["video"] # <<>> /\ DrainFrame /\ Unwritten
         /\ \/ Return("ok", ready)
            \/ /\ pc' = "Audio" /\ UNCHANGED <<ready, hr, failure>>
               /\ boundary' \in Int /\ roll' \in BOOLEAN
               /\ boundary' = video.dts \/ boundary' = video.pts
               /\ roll' => MayRoll /\ Covered(boundary') /\ boundary' = video.pts
               /\ finish \/ Covered(boundary')
<1> DEFINE reordered(due) == due /\ video.pts > video.dts
           cut(due) == due /\ ~(reordered(due) /\ HasLeading)
           end(due) == IF cut(due) THEN video.pts ELSE video.dts
<1>1. PICK due \in Due :
        IF ~finish /\ (\/ reordered(due) /\ Last(queue["video"]).dts < video.pts
                       \/ ~Covered(end(due)))
          THEN Return("ok", ready)
          ELSE /\ roll' = (cut(due) /\ Covered(end(due))) /\ boundary' = end(due)
               /\ pc' = "Audio" /\ UNCHANGED <<ready, hr, failure>>
  BY DEF Decide
<1>2. pc = "Drain" /\ queue["video"] # <<>> /\ DrainFrame /\ Unwritten
  BY DEF Decide
<1>3. video.dts \in Int /\ video.pts \in Int
  BY <1>2, VideoHead, PacketFields
<1>4. cut(due) => MayRoll
  BY DEF Due
<1> HIDE DEF reordered
<1>5. CASE ~finish /\ (\/ reordered(due) /\ Last(queue["video"]).dts < video.pts
                       \/ ~Covered(end(due)))
  BY <1>1, <1>2, <1>5
<1>6. CASE ~(~finish /\ (\/ reordered(due) /\ Last(queue["video"]).dts < video.pts
                         \/ ~Covered(end(due))))
  <2>1. /\ roll' = (cut(due) /\ Covered(end(due))) /\ boundary' = end(due)
        /\ pc' = "Audio" /\ UNCHANGED <<ready, hr, failure>>
        /\ finish \/ Covered(end(due))
    BY <1>1, <1>6
  <2>2. end(due) = video.dts \/ end(due) = video.pts
    OBVIOUS
  <2>3. boundary' \in Int
    BY <2>1, <2>2, <1>3
  <2>4. roll' => MayRoll /\ Covered(boundary') /\ boundary' = video.pts
    BY <2>1, <1>4
  <2>5. roll' \in BOOLEAN
    BY <2>1
  <2> QED BY <2>1, <2>2, <2>3, <2>4, <2>5, <1>2
<1> QED BY <1>5, <1>6

\* Deciding about the next picture leaves the sink well formed.
LEMMA DecideBase == ASSUME Base, Decide PROVE Base'
<1>1. TypeOK /\ Tagged /\ Control /\ Calls
  BY DEF Base
<1>2. /\ pc = "Drain" /\ queue["video"] # <<>> /\ DrainFrame /\ Unwritten
      /\ \/ Return("ok", ready)
         \/ /\ pc' = "Audio" /\ UNCHANGED <<ready, hr, failure>>
            /\ boundary' \in Int /\ roll' \in BOOLEAN /\ (roll' => MayRoll)
  BY <1>1, Decides
<1>3. UNCHANGED <<mode, sent, pending, pendingVideo, queue, header, part, parts,
                  segmentOrigin, segmentHasVideo, trailerWritten, storageError, refused,
                  caller, shutdown, finalizing, finalized, result>>
  BY <1>2 DEF DrainFrame, Unwritten, input, segment
<1>4. ~trailerWritten
  BY <1>1, <1>2 DEF Control
<1>5. CASE Return("ok", ready)
  BY <1>2, <1>3, <1>4, <1>5, ReturnBase DEF Draining
<1>6. CASE /\ pc' = "Audio" /\ UNCHANGED <<ready, hr, failure>>
           /\ boundary' \in Int /\ roll' \in BOOLEAN /\ (roll' => MayRoll)
  <2>1. QueueTypes' /\ FileTypes'
    BY <1>1, <1>3, <1>6 DEF TypeOK, QueueTypes, FileTypes
  <2>2. CallTypes'
    BY <1>1, <1>3, <1>6 DEF TypeOK, CallTypes, Pcs, Draining
  <2>3. FlagTypes'
    BY <1>1, <1>3, <1>6 DEF TypeOK, FlagTypes
  <2>4. Tagged'
    BY <1>1, <1>3 DEF Tagged
  <2>5. Control'
    <3>1. (roll' => failure = "ok") /\ failure' = failure
      BY <1>6 DEF MayRoll
    <3> QED BY <1>1, <1>2, <1>3, <1>4, <1>6, <3>1 DEF Control, Draining, Rolling
  <2>6. Calls'
    BY <1>1, <1>2, <1>3, <1>6 DEF Calls
  <2> QED BY <2>1, <2>2, <2>3, <2>4, <2>5, <2>6 DEF Base, TypeOK
<1> QED BY <1>2, <1>5, <1>6

\* So does a file whose length cannot be read.
LEMMA LengthFailsBase == ASSUME Base, LengthFails PROVE Base'
<1>1. /\ pc = "Drain" /\ Return("length", ready)
      /\ UNCHANGED <<mode, sent, pending, pendingVideo, queue, header, part, parts,
                     segmentOrigin, segmentHasVideo, trailerWritten, storageError, refused,
                     caller, shutdown, finalizing, finalized, result>>
  BY DEF LengthFails, DrainFrame, Unwritten, input, segment
<1> QED BY <1>1, ReturnBase DEF Draining

\* A queued packet is written, or the write fails.
DrainWrite(s, next) ==
  /\ queue[s] # <<>> /\ MuxRaw(Head(queue[s]), next, ready) /\ Pop(s)
  /\ UNCHANGED <<mode, sent, pending, pendingVideo, header, part, segmentOrigin,
                 trailerWritten, caller, shutdown, finalizing, finalized, result>>
  /\ segmentHasVideo' \in BOOLEAN

LEMMA DrainWrites ==
  ASSUME Base
  PROVE  /\ WriteAudio => DrainWrite("audio", "Audio") /\ pc = "Audio"
         /\ WriteVideo => DrainWrite("video", "Drain") /\ pc = "Video"
         /\ Drained /\ finish /\ queue["audio"] # <<>> =>
              DrainWrite("audio", "Drain") /\ pc = "Drain" /\ queue["video"] = <<>>
         /\ Drained /\ ~(finish /\ queue["audio"] # <<>>) =>
              Return("ok", ready) /\ Unwritten /\ DrainFrame /\ pc = "Drain"
<1>1. segmentHasVideo \in BOOLEAN
  BY DEF Base, TypeOK, FlagTypes
<1>2. ASSUME WriteAudio PROVE DrainWrite("audio", "Audio") /\ pc = "Audio"
  BY <1>1, <1>2 DEF WriteAudio, DrainWrite, SoundBefore, DrainFrame, input, segment
<1>3. ASSUME WriteVideo PROVE DrainWrite("video", "Drain") /\ pc = "Video"
  <2>1. pc = "Video" /\ queue["video"] # <<>>
    BY <1>3 DEF WriteVideo, Base, Control, Draining
  <2>2. segmentHasVideo' \in BOOLEAN
    BY <1>1, <1>3 DEF WriteVideo
  <2> QED BY <2>1, <2>2, <1>3 DEF WriteVideo, DrainWrite, input, video
<1>4. ASSUME Drained, finish /\ queue["audio"] # <<>>
      PROVE  DrainWrite("audio", "Drain") /\ pc = "Drain" /\ queue["video"] = <<>>
  BY <1>1, <1>4 DEF Drained, DrainWrite, DrainFrame, input, segment
<1>5. ASSUME Drained, ~(finish /\ queue["audio"] # <<>>)
      PROVE  Return("ok", ready) /\ Unwritten /\ DrainFrame /\ pc = "Drain"
  BY <1>5 DEF Drained
<1> QED BY <1>2, <1>3, <1>4, <1>5

LEMMA DrainWriteBase ==
  ASSUME Base, NEW s \in Streams, NEW next \in {"Audio", "Drain"}, DrainWrite(s, next),
         pc \in {"Drain", "Audio", "Video"},
         next = "Audio" => s = "audio" /\ pc = "Audio"
  PROVE  Base'
<1>1. TypeOK /\ Tagged /\ Control /\ Calls
  BY DEF Base
<1>2. ready \in Seq(Packets) /\ next \in Pcs \cup {"return"} /\ next # "return"
      /\ caller \in {"Process", "Held", "Finish"} /\ storageError \in BOOLEAN
  BY <1>1 DEF TypeOK, QueueTypes, Pcs, Draining, CallTypes, FlagTypes
<1>3. ~trailerWritten /\ mode # "none" /\ pc \in Draining
  BY <1>1 DEF Control, Draining
<1> DEFINE x == Head(queue[s])
<1>4. /\ queue' \in [Streams -> Seq(Packets)] /\ x \in Packets
      /\ \A t \in Streams : \A i \in DOMAIN queue'[t] : queue'[t][i].stream = t
      /\ \A t \in Streams : t # s => queue'[t] = queue[t]
  BY <1>1, QueuePop DEF DrainWrite
<1>5. Crashes \/ Writes(x, next, ready) \/ Breaks(ready) \/ Refuses(x, ready)
  BY <1>2, <1>3, MuxRawCases DEF DrainWrite
<1> HIDE DEF x
<1>6. /\ parts' \in Seq(Files) /\ Len(parts') = Len(parts)
      /\ refused' \subseteq Packets /\ storageError' \in BOOLEAN
      /\ ready' \in Seq(Packets) /\ boundary' \in Int /\ roll' \in BOOLEAN /\ pc' \in Pcs
  BY <1>1, <1>2, <1>4, <1>5, MuxRawTypes
<1>7. UNCHANGED <<mode, sent, pending, pendingVideo, header, part, segmentOrigin,
                  trailerWritten, caller, shutdown, finalizing, finalized, result>>
      /\ segmentHasVideo' \in BOOLEAN
  BY DEF DrainWrite
<1>8. QueueTypes'
  BY <1>1, <1>4, <1>6, <1>7 DEF TypeOK, QueueTypes
<1>9. FileTypes'
  BY <1>1, <1>6, <1>7 DEF TypeOK, FileTypes
<1>10. CallTypes'
  BY <1>1, <1>6, <1>7 DEF TypeOK, CallTypes
<1>11. FlagTypes'
  BY <1>1, <1>6, <1>7 DEF TypeOK, FlagTypes
<1>12. Tagged'
  BY <1>1, <1>4, <1>7 DEF Tagged
\* Where the call is afterwards.
<1>13. \/ /\ pc' \in {"crashed", next} /\ UNCHANGED <<ready, roll, failure>>
       \/ /\ caller = "Process" /\ pc' = "Write" /\ ready' = <<>>
       \/ /\ caller = "Held" /\ pc' = "Resume" /\ ready' = ready
       \/ /\ caller = "Finish" /\ pc' = "Seal" /\ ready' = ready
  <2>1. ASSUME NEW e, e # "ok", Return(e, ready)
        PROVE  \/ /\ caller = "Process" /\ pc' = "Write" /\ ready' = <<>>
               \/ /\ caller = "Held" /\ pc' = "Resume" /\ ready' = ready
               \/ /\ caller = "Finish" /\ pc' = "Seal" /\ ready' = ready
    BY <1>2, <2>1, Returns
  <2>2. CASE Crashes
    BY <2>2 DEF Crashes, Goto
  <2>3. CASE Writes(x, next, ready)
    BY <2>3, <1>2 DEF Writes, Goto
  <2>4. CASE Breaks(ready)
    BY <2>4, <2>1 DEF Breaks
  <2>5. CASE Refuses(x, ready)
    BY <2>5, <2>1 DEF Refuses
  <2> QED BY <1>5, <2>2, <2>3, <2>4, <2>5
<1>14. next = "Audio" => queue'["video"] # <<>>
  BY <1>1, <1>4 DEF Control, Draining, Streams
<1>15. Control'
  BY <1>1, <1>3, <1>7, <1>13, <1>14 DEF Control, Calls, Draining, Rolling
<1>16. Calls'
  BY <1>1, <1>3, <1>7, <1>13 DEF Control, Calls, Draining
<1> QED BY <1>8, <1>9, <1>10, <1>11, <1>12, <1>15, <1>16 DEF Base, TypeOK

\* A packet is handed to the muxer: at once, or through its queue, unless that is
\* full.
Queues(x, rest) ==
  /\ mode # "none" /\ queue' = [queue EXCEPT ![x.stream] = Append(@, x)]
  /\ pc' = "Drain" /\ ready' = rest
  /\ UNCHANGED <<roll, boundary, hr, failure, storageError, parts, refused>>
Overflows(rest) ==
  mode # "none" /\ Return("full", rest) /\ UNCHANGED <<queue, storageError, parts, refused>>
Direct(x, rest) == mode = "none" /\ MuxRaw(x, "return", rest) /\ UNCHANGED queue

LEMMA MuxPacketCases ==
  ASSUME NEW x, NEW rest, MuxPacket(x, rest)
  PROVE  Direct(x, rest) \/ Overflows(rest) \/ Queues(x, rest)
BY DEF MuxPacket, Direct, Overflows, Queues

\* The frame of the two places that hand a packet over.
Hands(x, rest) ==
  /\ MuxPacket(x, rest) /\ x \in Packets /\ rest \in Seq(Packets)
  /\ UNCHANGED <<mode, sent, pending, part, segmentOrigin, segmentHasVideo, header,
                 trailerWritten, caller, shutdown, finalizing, finalized, result>>
  /\ pendingVideo' \in {pendingVideo, <<>>}

LEMMA HandsBase ==
  ASSUME Base, NEW x, NEW rest, Hands(x, rest), pc \in {"Write", "Held"}, ~trailerWritten,
         caller # "Process" => rest = <<>>
  PROVE  Base'
<1>1. TypeOK /\ Tagged /\ Control /\ Calls
  BY DEF Base
<1>2. /\ ready \in Seq(Packets) /\ <<>> \in Seq(Packets)
      /\ caller \in {"Process", "Held", "Finish"} /\ storageError \in BOOLEAN
      /\ refused \subseteq Packets /\ queue \in [Streams -> Seq(Packets)]
      /\ parts \in Seq(Files) /\ boundary \in Int /\ roll \in BOOLEAN
  BY <1>1 DEF TypeOK, QueueTypes, FileTypes, CallTypes, FlagTypes
<1>3. x \in Packets /\ rest \in Seq(Packets) /\ MuxPacket(x, rest)
      /\ x.stream \in Streams
  BY PacketFields DEF Hands
<1>4. UNCHANGED <<mode, sent, pending, part, segmentOrigin, segmentHasVideo, header,
                  trailerWritten, caller, shutdown, finalizing, finalized, result>>
      /\ pendingVideo' \in {pendingVideo, <<>>}
  BY DEF Hands
\* Every way ends with sound types, and with the call in one of these places.
<1> DEFINE Sound ==
             /\ parts' \in Seq(Files) /\ Len(parts') = Len(parts) /\ refused' \subseteq Packets
             /\ storageError' \in BOOLEAN /\ ready' \in Seq(Packets) /\ boundary' \in Int
             /\ roll' \in BOOLEAN /\ pc' \in Pcs
           Sorted ==
             /\ queue' \in [Streams -> Seq(Packets)]
             /\ \A t \in Streams : \A i \in DOMAIN queue'[t] : queue'[t][i].stream = t
           Place ==
             \/ pc' = "crashed" /\ ready' = ready /\ failure' = failure /\ queue' = queue
             \/ /\ caller = "Process" /\ pc' = "Write" /\ ready' \in {rest, <<>>}
                /\ queue' = queue
             \/ caller = "Held" /\ pc' = "Resume" /\ ready' = ready /\ queue' = queue
             \/ caller = "Finish" /\ pc' = "Seal" /\ ready' = ready /\ queue' = queue
             \/ mode # "none" /\ pc' = "Drain" /\ ready' = rest /\ failure' = failure
<1>5. ASSUME NEW e, Return(e, rest)
      PROVE  /\ roll' = FALSE /\ boundary' = 0
             /\ \/ caller = "Process" /\ pc' = "Write" /\ ready' \in {rest, <<>>}
                \/ caller = "Held" /\ pc' = "Resume" /\ ready' = ready
                \/ caller = "Finish" /\ pc' = "Seal" /\ ready' = ready
  BY <1>2, <1>5, Returns
<1>6. ASSUME Direct(x, rest) PROVE Sound /\ Sorted /\ Place
  <2>1. Crashes \/ Writes(x, "return", rest) \/ Breaks(rest) \/ Refuses(x, rest)
    BY <1>2, <1>6, MuxRawCases DEF Direct
  <2>2. Sound
    BY <1>1, <1>3, <2>1, MuxRawTypes
  <2>3. queue' = queue
    BY <1>6 DEF Direct
  <2>4. Sorted
    BY <2>3, <1>1, <1>2 DEF Tagged
  <2>5. Place
    <3>1. CASE Crashes
      BY <3>1, <2>3 DEF Crashes, Goto
    <3>2. CASE Writes(x, "return", rest)
      BY <3>2, <2>3, <1>5 DEF Writes
    <3>3. CASE Breaks(rest)
      BY <3>3, <2>3, <1>5 DEF Breaks
    <3>4. CASE Refuses(x, rest)
      BY <3>4, <2>3, <1>5 DEF Refuses
    <3> QED BY <2>1, <3>1, <3>2, <3>3, <3>4
  <2> QED BY <2>2, <2>4, <2>5
<1>7. ASSUME Overflows(rest) PROVE Sound /\ Sorted /\ Place
  <2>1. Return("full", rest) /\ UNCHANGED <<queue, storageError, parts, refused>>
    BY <1>7 DEF Overflows
  <2>2. /\ roll' = FALSE /\ boundary' = 0
        /\ \/ caller = "Process" /\ pc' = "Write" /\ ready' \in {rest, <<>>}
           \/ caller = "Held" /\ pc' = "Resume" /\ ready' = ready
           \/ caller = "Finish" /\ pc' = "Seal" /\ ready' = ready
    BY <2>1, <1>5
  <2>3. Place
    BY <2>1, <2>2
  <2>4. ready' \in Seq(Packets)
    BY <2>2, <1>2, <1>3
  <2>5. pc' \in Pcs
    BY <2>2 DEF Pcs
  <2>6. boundary' \in Int
    BY <2>2
  <2>7. roll' \in BOOLEAN
    BY <2>2
  <2>8. Sound
    BY <2>1, <2>4, <2>5, <2>6, <2>7, <1>2
  <2>9. Sorted
    BY <2>1, <1>1, <1>2 DEF Tagged
  <2> QED BY <2>3, <2>8, <2>9
<1>8. ASSUME Queues(x, rest) PROVE Sound /\ Sorted /\ Place
  <2>1. Sorted
    BY <1>1, <1>3, <1>8, QueueAppend DEF Queues
  <2>2. Sound
    BY <1>2, <1>3, <1>8 DEF Queues, Pcs, Draining
  <2>3. Place
    BY <1>8 DEF Queues
  <2> QED BY <2>1, <2>2, <2>3
<1>9. Sound /\ Sorted /\ Place
  BY <1>3, <1>6, <1>7, <1>8, MuxPacketCases
<1>10. pendingVideo' \in Seq(Packets) /\ Len(pendingVideo') <= 1
       /\ \A i \in DOMAIN pendingVideo' : pendingVideo'[i].stream = "video"
  <2>1. CASE pendingVideo' = pendingVideo
    BY <2>1, <1>1 DEF TypeOK, QueueTypes, Tagged
  <2>2. CASE pendingVideo' = <<>>
    BY <2>2
  <2> QED BY <1>4, <2>1, <2>2
<1>11. QueueTypes'
  BY <1>1, <1>4, <1>9, <1>10 DEF TypeOK, QueueTypes
<1>12. FileTypes'
  BY <1>1, <1>4, <1>9 DEF TypeOK, FileTypes
<1>13. CallTypes'
  BY <1>1, <1>4, <1>9 DEF TypeOK, CallTypes
<1>14. FlagTypes'
  BY <1>1, <1>4, <1>9 DEF TypeOK, FlagTypes
<1>15. Tagged'
  BY <1>1, <1>4, <1>9, <1>10 DEF Tagged
<1>16. Place
  BY <1>9
<1>17. Control'
  BY <1>1, <1>2, <1>4, <1>16 DEF Control, Calls, Draining, Rolling
<1>18. Calls'
  BY <1>1, <1>2, <1>4, <1>16 DEF Control, Calls, Draining
<1> QED BY <1>11, <1>12, <1>13, <1>14, <1>15, <1>17, <1>18 DEF Base, TypeOK

\* The three ways of handling the next packet.
LEMMA WritePackets ==
  ASSUME Base, WritePacket
  PROVE  /\ pc = "Write" /\ ready # <<>> /\ ~trailerWritten /\ pending = <<>>
         /\ caller = "Process" /\ Head(ready) \in Packets /\ Tail(ready) \in Seq(Packets)
         /\ UNCHANGED <<mode, sent, pending, part, segmentOrigin, segmentHasVideo, header,
                        trailerWritten, caller, shutdown, finalizing, finalized, result>>
         /\ \/ /\ Head(ready).stream = "audio" /\ pendingVideo' = pendingVideo
               /\ Hands(Head(ready), Tail(ready))
            \/ /\ Head(ready).stream = "video" /\ pendingVideo # <<>> /\ pendingVideo' = <<>>
               /\ Hands(Head(pendingVideo), ready)
            \/ /\ Head(ready).stream = "video" /\ pendingVideo = <<>>
               /\ pendingVideo' = <<Head(ready)>> /\ ready' = Tail(ready)
               /\ UNCHANGED <<pc, roll, boundary, hr, failure, queue, storageError, parts,
                              refused>>
<1>1. TypeOK /\ Tagged /\ Control /\ Calls
  BY DEF Base
<1>2. pc = "Write" /\ ready # <<>>
  BY DEF WritePacket
<1>3. ~trailerWritten /\ pending = <<>> /\ caller = "Process"
  BY <1>1, <1>2 DEF Control, Calls
<1>4. ready \in Seq(Packets)
  BY <1>1 DEF TypeOK, QueueTypes
<1>5. Head(ready) \in Packets /\ Tail(ready) \in Seq(Packets)
  BY <1>2, <1>4, RangeTail
<1>6. UNCHANGED <<mode, sent, pending, part, segmentOrigin, segmentHasVideo, header,
                  trailerWritten, caller, shutdown, finalizing, finalized, result>>
  BY DEF WritePacket, input, segment
<1>7. \/ /\ Head(ready).stream = "audio"
         /\ MuxPacket(Head(ready), Tail(ready)) /\ UNCHANGED pendingVideo
      \/ /\ Head(ready).stream = "video" /\ pendingVideo # <<>>
         /\ MuxPacket(Head(pendingVideo), ready) /\ pendingVideo' = <<>>
      \/ /\ Head(ready).stream = "video" /\ pendingVideo = <<>>
         /\ pendingVideo' = <<Head(ready)>> /\ ready' = Tail(ready)
         /\ UNCHANGED <<pc, roll, boundary, hr, failure, queue, storageError, parts, refused>>
  BY DEF WritePacket
<1>8. pendingVideo # <<>> => Head(pendingVideo) \in Packets
  BY <1>1, Held1
<1> QED BY <1>2, <1>3, <1>4, <1>5, <1>6, <1>7, <1>8 DEF Hands

\* Each way of handling the next packet leaves the sink well formed.
LEMMA WritePacketBase == ASSUME Base, WritePacket PROVE Base'
<1>1. CASE \E x, rest : Hands(x, rest)
  <2>1. pc = "Write" /\ ~trailerWritten /\ caller = "Process"
    BY WritePackets
  <2> QED BY <1>1, <2>1, HandsBase
<1>2. CASE /\ Head(ready).stream = "video" /\ pendingVideo = <<>>
           /\ pendingVideo' = <<Head(ready)>> /\ ready' = Tail(ready)
           /\ UNCHANGED <<pc, roll, boundary, hr, failure, queue, storageError, parts, refused>>
  <2>1. /\ pc = "Write" /\ ready # <<>> /\ ~trailerWritten /\ pending = <<>>
        /\ caller = "Process" /\ Head(ready) \in Packets /\ Tail(ready) \in Seq(Packets)
        /\ UNCHANGED <<mode, sent, pending, part, segmentOrigin, segmentHasVideo, header,
                       trailerWritten, caller, shutdown, finalizing, finalized, result>>
    BY WritePackets
  <2> DEFINE x == Head(ready)
  <2>2. x \in Packets /\ x.stream = "video" /\ pendingVideo' = <<x>>
    BY <1>2, <2>1
  <2> HIDE DEF x
  <2>3. pendingVideo' \in Seq(Packets) /\ Len(pendingVideo') = 1 /\ DOMAIN pendingVideo' = 1 .. 1
        /\ pendingVideo'[1] = x
    BY <2>2
  <2>4. QueueTypes'
    BY <1>2, <2>1, <2>3 DEF Base, TypeOK, QueueTypes
  <2>5. FileTypes'
    BY <1>2, <2>1 DEF Base, TypeOK, FileTypes
  <2>6. CallTypes'
    BY <1>2, <2>1 DEF Base, TypeOK, CallTypes
  <2>7. FlagTypes'
    BY <1>2, <2>1 DEF Base, TypeOK, FlagTypes
  <2>8. Tagged'
    <3>1. \A i \in DOMAIN pendingVideo' : pendingVideo'[i].stream = "video"
      BY <2>2, <2>3
    <3> QED BY <1>2, <2>1, <2>3, <3>1 DEF Base, Tagged
  <2>9. Control'
    BY <1>2, <2>1 DEF Base, Control, Draining, Rolling
  <2>10. Calls'
    BY <1>2, <2>1 DEF Base, Calls
  <2> QED BY <2>4, <2>5, <2>6, <2>7, <2>8, <2>9, <2>10 DEF Base, TypeOK
<1> QED BY <1>1, <1>2, WritePackets

\* Finalize hands over the picture that is held, if there is one.
LEMMA WriteHelds ==
  ASSUME Base, WriteHeld
  PROVE  /\ pc = "Held" /\ ~trailerWritten /\ caller = "Held" /\ ready = <<>> /\ pending = <<>>
         /\ pendingVideo' = <<>>
         /\ UNCHANGED <<mode, sent, pending, part, segmentOrigin, segmentHasVideo, header,
                        trailerWritten, caller, shutdown, finalizing, finalized, result>>
         /\ \/ pendingVideo = <<>> /\ Return("ok", ready) /\ Unwritten
            \/ pendingVideo # <<>> /\ Hands(Head(pendingVideo), ready)
<1>1. TypeOK /\ Tagged /\ Control /\ Calls
  BY DEF Base
<1>2. pc = "Held" /\ pendingVideo' = <<>>
  BY DEF WriteHeld
<1>3. ~trailerWritten /\ pending = <<>> /\ caller = "Held" /\ ready = <<>>
  BY <1>1, <1>2 DEF Control, Calls, Draining
<1>4. ready \in Seq(Packets)
  BY <1>1 DEF TypeOK, QueueTypes
<1>5. UNCHANGED <<mode, sent, pending, part, segmentOrigin, segmentHasVideo, header,
                  trailerWritten, caller, shutdown, finalizing, finalized, result>>
  BY DEF WriteHeld, input, segment
<1>6. \/ pendingVideo = <<>> /\ Return("ok", ready) /\ Unwritten
      \/ pendingVideo # <<>> /\ MuxPacket(Head(pendingVideo), ready)
  BY DEF WriteHeld
<1>7. pendingVideo # <<>> => Head(pendingVideo) \in Packets
  BY <1>1, Held1
<1> QED BY <1>2, <1>3, <1>4, <1>5, <1>6, <1>7 DEF Hands

LEMMA WriteHeldBase == ASSUME Base, WriteHeld PROVE Base'
<1>1. /\ pc = "Held" /\ ~trailerWritten /\ caller = "Held" /\ ready = <<>> /\ pending = <<>>
      /\ pendingVideo' = <<>>
      /\ UNCHANGED <<mode, sent, pending, part, segmentOrigin, segmentHasVideo, header,
                     trailerWritten, caller, shutdown, finalizing, finalized, result>>
      /\ \/ pendingVideo = <<>> /\ Return("ok", ready) /\ Unwritten
         \/ pendingVideo # <<>> /\ Hands(Head(pendingVideo), ready)
  BY WriteHelds
<1>2. CASE pendingVideo # <<>> /\ Hands(Head(pendingVideo), ready)
  BY <1>1, <1>2, HandsBase
<1>3. CASE pendingVideo = <<>> /\ Return("ok", ready) /\ Unwritten
  <2>1. /\ roll' = FALSE /\ boundary' = 0 /\ pc' = "Resume" /\ ready' = ready
        /\ failure' = failure /\ hr' = hr
    BY <1>1, <1>3 DEF Return
  <2>2. UNCHANGED <<queue, storageError, parts, refused, pendingVideo>>
    BY <1>1, <1>3 DEF Unwritten
  <2>3. QueueTypes'
    BY <1>1, <2>1, <2>2 DEF Base, TypeOK, QueueTypes
  <2>4. FileTypes'
    BY <1>1, <2>1, <2>2 DEF Base, TypeOK, FileTypes
  <2>5. CallTypes'
    BY <1>1, <2>1, <2>2 DEF Base, TypeOK, CallTypes, Pcs
  <2>6. FlagTypes'
    BY <1>1, <2>1, <2>2 DEF Base, TypeOK, FlagTypes
  <2>7. Tagged'
    BY <1>1, <2>1, <2>2 DEF Base, Tagged
  <2>8. Control' /\ Calls'
    BY <1>1, <2>1, <2>2 DEF Base, Control, Calls, Draining, Rolling
  <2> QED BY <2>3, <2>4, <2>5, <2>6, <2>7, <2>8 DEF Base, TypeOK
<1> QED BY <1>1, <1>2, <1>3

\* An encoder's packet is handed on, or waits for the header.
LEMMA Processes ==
  ASSUME Base, NEW s \in Streams, Process(s)
  PROVE  \E p \in Packets :
           /\ p \in NextPackets(s) /\ p.stream = s
           /\ sent' = [sent EXCEPT ![s] = Append(@, p)]
           /\ pc = "idle" /\ ready = <<>> /\ caller = "Process"
           /\ ~shutdown /\ ~finalizing /\ ~finalized /\ failure = "ok" /\ ~trailerWritten
           /\ UNCHANGED <<mode, pendingVideo, queue, part, segmentOrigin, segmentHasVideo,
                          trailerWritten, caller, roll, boundary, hr, storageError, shutdown,
                          finalizing, finalized, result, parts, refused>>
           /\ \/ /\ pending = <<>> /\ pending' = pending /\ header' = header /\ failure' = failure
                 /\ ready' = <<p>> /\ pc' = "Write" /\ header
              \/ /\ pending' = Append(pending, p) /\ header' = header
                 /\ UNCHANGED <<pc, ready>> /\ ~header
              \/ /\ pending' = <<>> /\ header' = TRUE /\ failure' = failure
                 /\ ready' = Append(pending, p) /\ pc' = "Write" /\ ~header
                 /\ \A t \in Streams : sent'[t] # <<>>
<1>1. TypeOK /\ Tagged /\ Control /\ Calls
  BY DEF Base
<1>2. PICK p \in NextPackets(s) :
        /\ sent' = [sent EXCEPT ![s] = Append(@, p)]
        /\ \/ /\ header /\ ready' = <<p>> /\ pc' = "Write"
              /\ UNCHANGED <<pending, header, failure>>
           \/ /\ ~header /\ \E t \in Streams : sent'[t] = <<>>
              /\ pending' = Append(pending, p) /\ UNCHANGED <<pc, ready, header, failure>>
           \/ /\ ~header /\ \A t \in Streams : sent'[t] # <<>>
              /\ \/ /\ header' = TRUE /\ pending' = <<>>
                    /\ ready' = Append(pending, p) /\ pc' = "Write" /\ UNCHANGED failure
                 \/ /\ failure' = "header" /\ pending' = Append(pending, p)
                    /\ UNCHANGED <<pc, ready, header>>
  BY DEF Process
<1>3. p \in Packets /\ p.stream = s
  BY <1>1, Next1
<1>4. /\ pc = "idle" /\ ~shutdown /\ ~finalizing /\ ~finalized /\ failure = "ok"
      /\ UNCHANGED <<mode, pendingVideo, queue, part, segmentOrigin, segmentHasVideo,
                     trailerWritten, caller, roll, boundary, hr, storageError, shutdown,
                     finalizing, finalized, result, parts, refused>>
  BY DEF Process, Accepting
<1>5. ready = <<>> /\ caller = "Process" /\ ~trailerWritten /\ (header => pending = <<>>)
  BY <1>1, <1>4 DEF Control, Calls, Draining
<1>6. \/ /\ pending = <<>> /\ pending' = pending /\ header' = header /\ failure' = failure
         /\ ready' = <<p>> /\ pc' = "Write" /\ header
      \/ /\ pending' = Append(pending, p) /\ header' = header
         /\ UNCHANGED <<pc, ready>> /\ ~header
      \/ /\ pending' = <<>> /\ header' = TRUE /\ failure' = failure
         /\ ready' = Append(pending, p) /\ pc' = "Write" /\ ~header
         /\ \A t \in Streams : sent'[t] # <<>>
  BY <1>2, <1>5
<1>7. p \in NextPackets(s) /\ sent' = [sent EXCEPT ![s] = Append(@, p)]
  BY <1>2
<1> USE <1>3
<1> WITNESS p \in Packets
<1> QED BY <1>3, <1>4, <1>5, <1>6, <1>7

\* Taking a sample leaves the sink well formed.
LEMMA ProcessBase == ASSUME Base, NEW s \in Streams, Process(s) PROVE Base'
<1>1. TypeOK /\ Tagged /\ Control /\ Calls
  BY DEF Base
<1>2. PICK p \in Packets :
           /\ p \in NextPackets(s) /\ p.stream = s
           /\ sent' = [sent EXCEPT ![s] = Append(@, p)]
           /\ pc = "idle" /\ ready = <<>> /\ caller = "Process"
           /\ ~shutdown /\ ~finalizing /\ ~finalized /\ failure = "ok" /\ ~trailerWritten
           /\ UNCHANGED <<mode, pendingVideo, queue, part, segmentOrigin, segmentHasVideo,
                          trailerWritten, caller, roll, boundary, hr, storageError, shutdown,
                          finalizing, finalized, result, parts, refused>>
           /\ \/ /\ pending = <<>> /\ pending' = pending /\ header' = header /\ failure' = failure
                 /\ ready' = <<p>> /\ pc' = "Write" /\ header
              \/ /\ pending' = Append(pending, p) /\ header' = header
                 /\ UNCHANGED <<pc, ready>> /\ ~header
              \/ /\ pending' = <<>> /\ header' = TRUE /\ failure' = failure
                 /\ ready' = Append(pending, p) /\ pc' = "Write"
  BY Processes
<1>3. /\ sent \in [Streams -> Seq(Packets)] /\ sent[s] \in Seq(Packets)
      /\ pending \in Seq(Packets) /\ <<p>> \in Seq(Packets) /\ <<>> \in Seq(Packets)
  BY <1>1 DEF TypeOK, QueueTypes
<1>4. Append(pending, p) \in Seq(Packets)
  BY <1>3, RangeAppend
<1> DEFINE a == Append(sent[s], p)
<1>5. /\ a \in Seq(Packets) /\ Len(a) = Len(sent[s]) + 1 /\ a[Len(sent[s]) + 1] = p
      /\ \A i \in 1 .. Len(sent[s]) : a[i] = sent[s][i]
  BY <1>3, RangeAppend
<1>6. DOMAIN a = 1 .. Len(a) /\ DOMAIN sent[s] = 1 .. Len(sent[s]) /\ Len(sent[s]) \in Nat
  BY <1>3, <1>5, LenProperties
<1>7. sent' = [sent EXCEPT ![s] = a]
  BY <1>2
<1> HIDE DEF a
<1>8. /\ sent' \in [Streams -> Seq(Packets)] /\ sent'[s] = a
      /\ \A t \in Streams : t # s => sent'[t] = sent[t]
  BY <1>3, <1>5, <1>7
<1>9. \A i \in DOMAIN a : a[i].stream = s
  BY <1>1, <1>2, <1>5, <1>6 DEF Tagged
<1>10. pending' \in Seq(Packets) /\ ready' \in Seq(Packets)
  BY <1>2, <1>3, <1>4
<1>11. QueueTypes'
  BY <1>1, <1>2, <1>8, <1>10 DEF TypeOK, QueueTypes
<1>12. FileTypes'
  BY <1>1, <1>2 DEF TypeOK, FileTypes
<1>13. CallTypes'
  BY <1>1, <1>2 DEF TypeOK, CallTypes, Pcs
<1>14. FlagTypes'
  <2>1. header' \in BOOLEAN
    BY <1>1, <1>2 DEF TypeOK, FlagTypes
  <2> QED BY <1>1, <1>2, <2>1 DEF TypeOK, FlagTypes
<1>15. Tagged'
  BY <1>1, <1>2, <1>8, <1>9 DEF Tagged
<1>16. Control'
  BY <1>1, <1>2 DEF Control, Draining, Rolling
<1>17. Calls'
  BY <1>1, <1>2 DEF Calls
<1> QED BY <1>11, <1>12, <1>13, <1>14, <1>15, <1>16, <1>17 DEF Base, TypeOK

\* A trailer is no packet.
LEMMA TrailerTypes == \A e : Trailer(e) \in Content /\ Trailer(e).stream = "trailer"
                              /\ Trailer(e) \notin Packets
<1>1. ASSUME NEW e PROVE Trailer(e) \in Trailers /\ Trailer(e).stream = "trailer"
  BY DEF Trailer, Trailers
<1>2. ASSUME NEW e PROVE Trailer(e) \notin Packets
  BY <1>1, PacketFields DEF Streams
<1> QED BY <1>1, <1>2 DEF Content

\* The trailer of a split leaves the sink well formed.
LEMMA SealCurrentBase == ASSUME Base, SealCurrent PROVE Base'
<1>1. TypeOK /\ Tagged /\ Control /\ Calls
  BY DEF Base
<1>2. PICK e \in Outcomes :
        /\ parts' = Appended(Trailer(e)) /\ storageError' = (storageError \/ e = "storage")
        /\ IF e = "ok" THEN Goto("Retire") ELSE Return(e, ready)
  BY DEF SealCurrent
<1>3. /\ pc = "Trailer" /\ trailerWritten' = TRUE
      /\ UNCHANGED <<mode, sent, pending, pendingVideo, queue, header, part,
                     segmentOrigin, segmentHasVideo, refused,
                     caller, shutdown, finalizing, finalized, result>>
  BY DEF SealCurrent, RollFrame, input, held
<1>4. parts' \in Seq(Files) /\ Len(parts') = Len(parts)
  BY <1>1, <1>2, TrailerTypes, FileAppended
<1>5. caller \in {"Process", "Held", "Finish"} /\ ready \in Seq(Packets) /\ <<>> \in Seq(Packets)
      /\ boundary \in Int
  BY <1>1 DEF TypeOK, CallTypes, QueueTypes
<1>6. \/ pc' = "Retire" /\ UNCHANGED <<ready, roll, boundary, hr, failure>>
      \/ /\ roll' = FALSE /\ boundary' = 0
         /\ \/ caller = "Process" /\ pc' = "Write" /\ ready' = <<>> /\ failure' # "ok"
            \/ caller = "Held" /\ pc' = "Resume" /\ ready' = ready
            \/ caller = "Finish" /\ pc' = "Seal" /\ ready' = ready
  <2>1. CASE e = "ok"
    BY <1>2, <2>1 DEF Goto
  <2>2. CASE e # "ok"
    BY <1>2, <1>5, <2>2, Returns
  <2> QED BY <2>1, <2>2
<1>7. ready' \in Seq(Packets)
  BY <1>5, <1>6
<1>8. pc' \in Pcs
  BY <1>6 DEF Pcs, Draining
<1>9. boundary' \in Int
  BY <1>5, <1>6
<1>10. roll' \in BOOLEAN
  BY <1>1, <1>6 DEF TypeOK, FlagTypes
<1>11. storageError' \in BOOLEAN
  BY <1>2
<1>12. QueueTypes'
  BY <1>1, <1>3, <1>7 DEF TypeOK, QueueTypes
<1>13. FileTypes'
  BY <1>1, <1>3, <1>4 DEF TypeOK, FileTypes
<1>14. CallTypes'
  BY <1>1, <1>3, <1>8, <1>9 DEF TypeOK, CallTypes
<1>15. FlagTypes'
  BY <1>1, <1>3, <1>10, <1>11 DEF TypeOK, FlagTypes
<1>16. Tagged'
  BY <1>1, <1>3 DEF Tagged
<1>17. Control'
  BY <1>1, <1>3, <1>5, <1>6 DEF Control, Calls, Draining, Rolling
<1>18. Calls'
  BY <1>1, <1>3, <1>5, <1>6 DEF Calls
<1> QED BY <1>12, <1>13, <1>14, <1>15, <1>16, <1>17, <1>18 DEF Base, TypeOK

\* The end of a recording: a crash, or a trailer and the result.
LEMMA Seals ==
  ASSUME Seal
  PROVE  /\ pc = "Seal" /\ ~trailerWritten /\ trailerWritten' = TRUE
         /\ UNCHANGED <<mode, sent, pending, pendingVideo, queue, header, part, segmentOrigin,
                        segmentHasVideo, refused, caller, ready, roll, boundary, hr, failure,
                        shutdown, finalizing>>
         /\ \/ /\ ~header /\ pc' = "crashed"
               /\ UNCHANGED <<parts, storageError, finalized, result>>
            \/ \E e \in Outcomes :
                 /\ header /\ pc' = "idle" /\ finalized' = TRUE
                 /\ parts' = Appended(Trailer(e))
                 /\ storageError' = (storageError \/ e = "storage")
                 /\ result' = (IF (IF e = "ok" THEN hr ELSE e) = "ok" THEN failure
                               ELSE IF e = "ok" THEN hr ELSE e)
BY DEF Seal, Goto, End, FinalizeFrame, input

LEMMA SealBase == ASSUME Base, Seal PROVE Base'
<1>1. TypeOK /\ Tagged /\ Control /\ Calls
  BY DEF Base
<1>2. /\ pc = "Seal" /\ ~trailerWritten /\ trailerWritten' = TRUE
      /\ UNCHANGED <<mode, sent, pending, pendingVideo, queue, header, part, segmentOrigin,
                     segmentHasVideo, refused, caller, ready, roll, boundary, hr, failure,
                     shutdown, finalizing>>
      /\ \/ /\ ~header /\ pc' = "crashed"
            /\ UNCHANGED <<parts, storageError, finalized, result>>
         \/ \E e \in Outcomes :
              /\ header /\ pc' = "idle" /\ finalized' = TRUE
              /\ parts' = Appended(Trailer(e))
              /\ storageError' = (storageError \/ e = "storage")
  BY Seals
<1>3. pc' \in {"crashed", "idle"} /\ (pc' = "idle" => finalized') /\ finalized' \in BOOLEAN
      /\ (pc' = "crashed" => finalized' = finalized)
  BY <1>1, <1>2 DEF TypeOK, FlagTypes
<1>4. storageError' \in BOOLEAN
  BY <1>1, <1>2 DEF TypeOK, FlagTypes
<1>5. parts' \in Seq(Files) /\ Len(parts') = Len(parts)
  <2>1. CASE parts' = parts
    BY <1>1, <2>1 DEF TypeOK, FileTypes
  <2>2. CASE \E e \in Outcomes : parts' = Appended(Trailer(e))
    BY <1>1, <2>2, TrailerTypes, FileAppended
  <2> QED BY <1>2, <2>1, <2>2
<1>6. QueueTypes'
  BY <1>1, <1>2 DEF TypeOK, QueueTypes
<1>7. FileTypes'
  BY <1>1, <1>2, <1>5 DEF TypeOK, FileTypes
<1>8. CallTypes'
  BY <1>1, <1>2, <1>3 DEF TypeOK, CallTypes, Pcs
<1>9. FlagTypes'
  BY <1>1, <1>2, <1>3, <1>4 DEF TypeOK, FlagTypes
<1>10. Tagged'
  BY <1>1, <1>2 DEF Tagged
<1>11. ready = <<>> /\ finalizing /\ ~shutdown /\ pending = <<>> /\ ~finalized
  BY <1>1, <1>2 DEF Control, Calls, Draining
<1>12. Control'
  BY <1>1, <1>2, <1>3, <1>11 DEF Control, Draining, Rolling
<1>13. Calls'
  BY <1>1, <1>2, <1>3, <1>11 DEF Calls
<1> QED BY <1>6, <1>7, <1>8, <1>9, <1>10, <1>12, <1>13 DEF Base, TypeOK

\* The next file is opened, with its header or without.
LEMMA OpenNexts ==
  ASSUME Base, OpenNext
  PROVE  /\ pc = "Open" /\ part' = part + 1 /\ segmentOrigin' = video.pts
         /\ segmentHasVideo' = FALSE /\ trailerWritten' = FALSE
         /\ parts' = Append(parts, [origin |-> video.pts, content |-> <<>>])
         /\ UNCHANGED <<mode, sent, pending, pendingVideo, queue, storageError, refused,
                        caller, shutdown, finalizing, finalized, result>>
         /\ \/ header' = TRUE /\ pc' = "Video" /\ UNCHANGED <<ready, roll, boundary, hr, failure>>
            \/ /\ header' = FALSE /\ Return("open", ready)
               /\ \/ caller = "Process" /\ pc' = "Write" /\ ready' = <<>>
                  \/ caller = "Held" /\ pc' = "Resume" /\ ready' = ready
                  \/ caller = "Finish" /\ pc' = "Seal" /\ ready' = ready
<1>1. caller \in {"Process", "Held", "Finish"}
  BY DEF Base, TypeOK, CallTypes
<1>2. ASSUME Return("open", ready)
      PROVE  \/ caller = "Process" /\ pc' = "Write" /\ ready' = <<>>
             \/ caller = "Held" /\ pc' = "Resume" /\ ready' = ready
             \/ caller = "Finish" /\ pc' = "Seal" /\ ready' = ready
  BY <1>1, <1>2 DEF Return
<1> QED BY <1>2 DEF OpenNext, RollFrame, input, held, Goto

LEMMA OpenNextBase == ASSUME Base, OpenNext PROVE Base'
<1>1. TypeOK /\ Tagged /\ Control /\ Calls
  BY DEF Base
<1>2. /\ pc = "Open" /\ part' = part + 1 /\ segmentOrigin' = video.pts
      /\ segmentHasVideo' = FALSE /\ trailerWritten' = FALSE
      /\ parts' = Append(parts, [origin |-> video.pts, content |-> <<>>])
      /\ UNCHANGED <<mode, sent, pending, pendingVideo, queue, storageError, refused,
                     caller, shutdown, finalizing, finalized, result>>
  BY OpenNexts
<1>3. \/ header' = TRUE /\ pc' = "Video" /\ UNCHANGED <<ready, roll, boundary, hr, failure>>
      \/ /\ header' = FALSE /\ Return("open", ready)
         /\ \/ caller = "Process" /\ pc' = "Write" /\ ready' = <<>>
            \/ caller = "Held" /\ pc' = "Resume" /\ ready' = ready
            \/ caller = "Finish" /\ pc' = "Seal" /\ ready' = ready
  BY OpenNexts
<1>4. queue["video"] # <<>> /\ mode # "none" /\ pending = <<>>
  BY <1>1, <1>2 DEF Control, Draining
<1>5. video.pts \in Int
  BY <1>1, <1>4, VideoHead, PacketFields
<1>6. parts' \in Seq(Files) /\ Len(parts') = Len(parts) + 1
  BY <1>1, <1>2, <1>5, FileOpened
<1>7. /\ ready \in Seq(Packets) /\ <<>> \in Seq(Packets)
      /\ caller \in {"Process", "Held", "Finish"} /\ boundary \in Int
      /\ part = Len(parts) /\ part > 0 /\ part \in Nat
  BY <1>1, LenProperties DEF TypeOK, QueueTypes, CallTypes, FileTypes
<1>8. ready' \in Seq(Packets)
  BY <1>3, <1>7
<1>9. pc' \in Pcs
  BY <1>3 DEF Pcs, Draining
<1>10. (roll' = FALSE /\ boundary' = 0) \/ (roll' = roll /\ boundary' = boundary)
  BY <1>3, <1>7, Returns
<1>11. QueueTypes'
  BY <1>1, <1>2, <1>8 DEF TypeOK, QueueTypes
<1>12. FileTypes'
  BY <1>2, <1>5, <1>6, <1>7 DEF FileTypes
<1>13. CallTypes'
  BY <1>1, <1>2, <1>7, <1>9, <1>10 DEF TypeOK, CallTypes
<1>14. FlagTypes'
  BY <1>1, <1>2, <1>3, <1>10 DEF TypeOK, FlagTypes
<1>15. Tagged'
  BY <1>1, <1>2 DEF Tagged
<1>16. Control'
  BY <1>1, <1>2, <1>3, <1>4 DEF Control, Calls, Draining, Rolling
<1>17. Calls'
  BY <1>1, <1>2, <1>3, <1>4 DEF Calls
<1> QED BY <1>11, <1>12, <1>13, <1>14, <1>15, <1>16, <1>17 DEF Base, TypeOK

\* Shutdown empties the queues.
LEMMA ShutdownBase == ASSUME Base, Shutdown PROVE Base'
<1>1. TypeOK /\ Tagged /\ Control /\ Calls
  BY DEF Base
<1>2. /\ pc = "idle" /\ ~shutdown /\ shutdown' = TRUE
      /\ pending' = <<>> /\ pendingVideo' = <<>> /\ queue' = [s \in Streams |-> <<>>]
      /\ UNCHANGED <<mode, sent, part, segmentOrigin, segmentHasVideo, header, trailerWritten,
                     pc, caller, ready, roll, boundary, hr, failure, storageError, finalizing,
                     finalized, result, parts, refused>>
  BY DEF Shutdown, input, segment, call
<1>3. <<>> \in Seq(Packets) /\ Len(<<>>) = 0
  OBVIOUS
<1>4. queue' \in [Streams -> Seq(Packets)] /\ \A s \in Streams : queue'[s] = <<>>
  BY <1>2, <1>3
<1>5. QueueTypes'
  BY <1>1, <1>2, <1>3, <1>4 DEF TypeOK, QueueTypes
<1>6. FileTypes'
  BY <1>1, <1>2 DEF TypeOK, FileTypes
<1>7. CallTypes'
  BY <1>1, <1>2 DEF TypeOK, CallTypes
<1>8. FlagTypes'
  BY <1>1, <1>2 DEF TypeOK, FlagTypes
<1>9. Tagged'
  BY <1>1, <1>2, <1>3, <1>4 DEF Tagged
<1>10. Control' /\ Calls'
  BY <1>1, <1>2, <1>4 DEF Control, Calls, Draining, Rolling, Streams
<1> QED BY <1>5, <1>6, <1>7, <1>8, <1>9, <1>10 DEF Base, TypeOK

\* Every step of DrainSegments leaves the sink well formed.
LEMMA DrainBase == ASSUME Base, Drain PROVE Base'
<1>1. CASE Decide
  BY <1>1, DecideBase
<1>2. CASE LengthFails
  BY <1>2, LengthFailsBase
<1>3. CASE WriteAudio
  <2>1. DrainWrite("audio", "Audio") /\ pc = "Audio" /\ "audio" \in Streams
    BY <1>3, DrainWrites DEF Streams
  <2> QED BY <2>1, DrainWriteBase
<1>4. CASE AudioWritten
  BY <1>4, AudioWrittenBase
<1>5. CASE WriteVideo
  <2>1. DrainWrite("video", "Drain") /\ pc = "Video" /\ "video" \in Streams
    BY <1>5, DrainWrites DEF Streams
  <2> QED BY <2>1, DrainWriteBase
<1>6. CASE Drained
  <2>1. CASE finish /\ queue["audio"] # <<>>
    <3>1. DrainWrite("audio", "Drain") /\ pc = "Drain" /\ "audio" \in Streams
      BY <1>6, <2>1, DrainWrites DEF Streams
    <3> QED BY <3>1, DrainWriteBase
  <2>2. CASE ~(finish /\ queue["audio"] # <<>>)
    <3>1. Return("ok", ready) /\ Unwritten /\ DrainFrame /\ pc = "Drain"
      BY <1>6, <2>2, DrainWrites
    <3>2. ~trailerWritten
      BY <3>1 DEF Base, Control
    <3>3. UNCHANGED <<mode, sent, pending, pendingVideo, queue, header, part, parts,
                      segmentOrigin, segmentHasVideo, trailerWritten, storageError, refused,
                      caller, shutdown, finalizing, finalized, result>>
      BY <3>1 DEF Unwritten, DrainFrame, input, segment
    <3> QED BY <3>1, <3>2, <3>3, ReturnBase DEF Draining
  <2> QED BY <2>1, <2>2
<1> QED BY <1>1, <1>2, <1>3, <1>4, <1>5, <1>6 DEF Drain

\* Nothing changes.
LEMMA StutterBase == ASSUME Base, UNCHANGED vars PROVE Base'
<1>1. QueueTypes' /\ FileTypes' /\ CallTypes' /\ FlagTypes'
  BY DEF Base, TypeOK, QueueTypes, FileTypes, CallTypes, FlagTypes, vars, input, held, segment,
         call, ends
<1>2. Tagged' /\ Control' /\ Calls'
  BY DEF Base, Tagged, Control, Calls, vars, input, held, segment, call, ends
<1> QED BY <1>1, <1>2 DEF Base, TypeOK

\* Every step leaves the sink well formed.
LEMMA StepBase == ASSUME Base, [Next]_vars PROVE Base'
<1>1. ASSUME NEW s \in Streams, Process(s) PROVE Base'
  BY <1>1, ProcessBase
<1>2. CASE Drain
  BY <1>2, DrainBase
<1>3. CASE Roll
  BY <1>3, CreateNextBase, SealCurrentBase, RetireCurrentBase, OpenNextBase DEF Roll
<1>4. CASE ProcessFails \/ WritePacket \/ ProcessReturns
  BY <1>4, ProcessFailsBase, WritePacketBase, ProcessReturnsBase
<1>5. CASE BeginFinalize \/ Finalize \/ WriteHeld \/ Resume \/ SealedBefore \/ Seal \/ Shutdown
  BY <1>5, BeginFinalizeBase, FinalizeBase, WriteHeldBase, ResumeBase, SealedBeforeBase,
     SealBase, ShutdownBase
<1>6. CASE UNCHANGED vars
  BY <1>6, StutterBase
<1> QED BY <1>1, <1>2, <1>3, <1>4, <1>5, <1>6 DEF Next

-----------------------------------------------------------------------------
(* The packets stay in line *)

Order ==
  /\ InOrder
  /\ \A s \in Streams : Ordered(sent[s]) /\ Ordered(queue[s])
  /\ Ordered(ready) /\ Ordered(pending)
  /\ Line

\* An empty queue is in order.
LEMMA OrderedEmpty == Ordered(<<>>)
BY DEF Ordered

\* Whether writing or taking is given up is true or false.
LEMMA Flags == Dead \in BOOLEAN /\ Closed \in BOOLEAN /\ Dead' \in BOOLEAN /\ Closed' \in BOOLEAN
BY DEF Dead, Closed

\* Only writing or taking packets is given up.
LEMMA MoveNone ==
  ASSUME NEW F, NEW Q, NEW V, NEW W, NEW X, NEW D, NEW dead, NEW closed, NEW dead2, NEW closed2,
         InLine(F, Q, V, W, X, D, dead, closed), dead => dead2, closed => closed2
  PROVE  InLine(F, Q, V, W, X, D, dead2, closed2)
BY DEF InLine

\* What the files hold, place by place.
LEMMA FiledIs ==
  ASSUME TypeOK
  PROVE  /\ \A k \in 1 .. Len(parts) :
              /\ parts[k].content \in Seq(Content)
              /\ DOMAIN parts[k].content = 1 .. Len(parts[k].content)
              /\ Len(parts[k].content) \in Nat
         /\ DOMAIN parts = 1 .. Len(parts) /\ Len(parts) \in Nat /\ part \in 1 .. Len(parts)
         /\ \A x : x \in Filed <=> /\ x.stream \in Streams
                                   /\ \E k \in 1 .. Len(parts) : x \in Range(parts[k].content)
<1>1. parts \in Seq(Files) /\ part = Len(parts) /\ part > 0
  BY DEF TypeOK, FileTypes
<1>2. DOMAIN parts = 1 .. Len(parts) /\ Len(parts) \in Nat /\ part \in 1 .. Len(parts)
  BY <1>1, LenProperties
<1>3. ASSUME NEW k \in 1 .. Len(parts)
      PROVE  /\ parts[k].content \in Seq(Content)
             /\ DOMAIN parts[k].content = 1 .. Len(parts[k].content)
             /\ Len(parts[k].content) \in Nat
  <2>1. parts[k] \in Files
    BY <1>1, ElementOfSeq
  <2>2. parts[k].content \in Seq(Content)
    BY <2>1 DEF Files
  <2> QED BY <2>2, LenProperties
<1> QED BY <1>2, <1>3 DEF Filed

LEMMA FiledIsAfter ==
  ASSUME parts' \in Seq(Files)
  PROVE  /\ DOMAIN parts' = 1 .. Len(parts') /\ Len(parts') \in Nat
         /\ \A k \in 1 .. Len(parts') :
              /\ DOMAIN parts'[k].content = 1 .. Len(parts'[k].content)
              /\ Len(parts'[k].content) \in Nat
         /\ \A x : x \in Filed' <=> /\ x.stream \in Streams
                                    /\ \E k \in 1 .. Len(parts') : x \in Range(parts'[k].content)
<1>1. DOMAIN parts' = 1 .. Len(parts') /\ Len(parts') \in Nat
  BY LenProperties
<1>2. ASSUME NEW k \in 1 .. Len(parts')
      PROVE  /\ DOMAIN parts'[k].content = 1 .. Len(parts'[k].content)
             /\ Len(parts'[k].content) \in Nat
  <2>1. parts'[k] \in Files
    BY ElementOfSeq
  <2>2. parts'[k].content \in Seq(Content)
    BY <2>1 DEF Files
  <2> QED BY <2>2, LenProperties
<1> QED BY <1>1, <1>2 DEF Filed

\* One more element of the current file: the packets it holds, and their order.
LEMMA FiledAppended ==
  ASSUME TypeOK, NEW x \in Content, parts' = Appended(x), InOrder,
         x.stream \in Streams => Before(Filed, {x})
  PROVE  /\ Filed' = (IF x.stream \in Streams THEN Filed \cup {x} ELSE Filed)
         /\ InOrder'
<1>1. /\ parts' \in Seq(Files) /\ Len(parts') = Len(parts)
      /\ \A k \in 1 .. Len(parts) : k # part => parts'[k] = parts[k]
      /\ parts'[part].content = Append(parts[part].content, x)
  BY FileAppended
<1>2. /\ \A k \in 1 .. Len(parts) :
           /\ parts[k].content \in Seq(Content)
           /\ DOMAIN parts[k].content = 1 .. Len(parts[k].content)
           /\ Len(parts[k].content) \in Nat
      /\ DOMAIN parts = 1 .. Len(parts) /\ Len(parts) \in Nat /\ part \in 1 .. Len(parts)
      /\ \A y : y \in Filed <=> /\ y.stream \in Streams
                                /\ \E k \in 1 .. Len(parts) : y \in Range(parts[k].content)
  BY FiledIs
<1>3. /\ DOMAIN parts' = 1 .. Len(parts) /\ part = Len(parts)
      /\ \A k \in 1 .. Len(parts) : DOMAIN parts'[k].content = 1 .. Len(parts'[k].content)
      /\ \A y : y \in Filed' <=> /\ y.stream \in Streams
                                 /\ \E k \in 1 .. Len(parts) : y \in Range(parts'[k].content)
  BY <1>1, FiledIsAfter DEF TypeOK, FileTypes
<1> DEFINE c == parts[part].content
           n == Len(c)
<1>4. /\ c \in Seq(Content) /\ n \in Nat
      /\ Len(Append(c, x)) = n + 1 /\ Range(Append(c, x)) = Range(c) \cup {x}
      /\ \A i \in 1 .. n : Append(c, x)[i] = c[i]
      /\ Append(c, x)[n + 1] = x
  BY <1>2, RangeAppend
<1>5. /\ Len(parts'[part].content) = n + 1 /\ Range(parts'[part].content) = Range(c) \cup {x}
      /\ \A i \in 1 .. n : parts'[part].content[i] = c[i]
      /\ parts'[part].content[n + 1] = x
  BY <1>1, <1>4
<1>6. Filed' = (IF x.stream \in Streams THEN Filed \cup {x} ELSE Filed)
  <2>1. ASSUME NEW y
        PROVE  y \in Filed' <=> y \in Filed \/ (y = x /\ x.stream \in Streams)
    <3>1. (\E k \in 1 .. Len(parts) : y \in Range(parts'[k].content)) <=>
            \/ \E k \in 1 .. Len(parts) : y \in Range(parts[k].content)
            \/ y = x
      BY <1>1, <1>2, <1>5
    <3> QED BY <3>1, <1>2, <1>3
  <2> QED BY <2>1
<1>7. InOrder'
  <2>1. ASSUME NEW l \in DOMAIN parts', NEW k \in 1 .. l, NEW j \in DOMAIN parts'[l].content,
               NEW i \in IF k < l THEN DOMAIN parts'[k].content ELSE 1 .. j - 1,
               parts'[k].content[i].stream \in Streams,
               parts'[k].content[i].stream = parts'[l].content[j].stream
        PROVE  parts'[k].content[i].dts < parts'[l].content[j].dts
    <3>1. k \in 1 .. Len(parts) /\ l \in 1 .. Len(parts) /\ k <= l
      BY <1>2, <1>3
    <3>2. CASE l < part
      <4>1. parts'[l] = parts[l] /\ parts'[k] = parts[k]
        BY <1>1, <1>2, <3>1, <3>2
      <4> QED BY <4>1, <2>1, <1>2, <3>1 DEF InOrder
    <3>3. CASE l = part
      \* The earlier element was there before.
      <4>1. /\ i \in DOMAIN parts[k].content /\ parts'[k].content[i] = parts[k].content[i]
            /\ k < l \/ i \in 1 .. j - 1
        <5>1. CASE k < l
          BY <5>1, <3>1, <3>3, <1>1, <1>2, <1>3, <2>1
        <5>2. CASE k = l
          <6>1. i \in 1 .. j - 1 /\ j \in 1 .. n + 1
            BY <5>2, <3>3, <1>3, <1>5, <2>1
          <6>2. i \in 1 .. n
            BY <6>1, <1>4
          <6> QED BY <6>1, <6>2, <5>2, <3>3, <1>2, <1>5
        <5> QED BY <5>1, <5>2, <3>1
      <4>2. j \in 1 .. n \/ j = n + 1
        BY <3>3, <1>3, <1>5, <1>4
      <4>3. CASE j \in 1 .. n
        <5>1. parts'[l].content[j] = parts[l].content[j] /\ j \in DOMAIN parts[l].content
          BY <4>3, <3>3, <1>2, <1>5
        <5>2. i \in IF k < l THEN DOMAIN parts[k].content ELSE 1 .. j - 1
          BY <4>1
        <5>3. l \in DOMAIN parts
          BY <3>1, <1>2
        <5> QED BY <5>1, <5>2, <5>3, <4>1, <2>1 DEF InOrder
      <4>4. CASE j = n + 1
        <5>1. parts'[l].content[j] = x
          BY <4>4, <3>3, <1>5
        <5>2. parts[k].content[i] \in Range(parts[k].content)
          BY <4>1 DEF Range
        <5>3. parts[k].content[i] \in Filed
          BY <5>2, <4>1, <2>1, <3>1, <1>2
        <5> QED BY <5>1, <5>3, <4>1, <2>1 DEF Before
      <4> QED BY <4>2, <4>3, <4>4
    <3> QED BY <3>1, <3>2, <3>3, <1>2, <1>3
  <2> QED BY <2>1 DEF InOrder
<1> QED BY <1>6, <1>7

\* A new file holds nothing yet.
LEMMA FiledOpened ==
  ASSUME TypeOK, NEW o \in Int, parts' = Append(parts, [origin |-> o, content |-> <<>>]), InOrder
  PROVE  Filed' = Filed /\ InOrder'
<1>1. /\ parts' \in Seq(Files) /\ Len(parts') = Len(parts) + 1
      /\ \A k \in 1 .. Len(parts) : parts'[k] = parts[k]
      /\ parts'[Len(parts) + 1].content = <<>>
  BY FileOpened
<1>2. /\ DOMAIN parts = 1 .. Len(parts) /\ Len(parts) \in Nat
      /\ \A y : y \in Filed <=> /\ y.stream \in Streams
                                /\ \E k \in 1 .. Len(parts) : y \in Range(parts[k].content)
  BY FiledIs
<1>3. /\ DOMAIN parts' = 1 .. Len(parts) + 1
      /\ \A y : y \in Filed' <=> /\ y.stream \in Streams
                                 /\ \E k \in 1 .. Len(parts) + 1 : y \in Range(parts'[k].content)
  BY <1>1, FiledIsAfter
<1>4. Range(parts'[Len(parts) + 1].content) = {} /\ DOMAIN parts'[Len(parts) + 1].content = {}
  BY <1>1, RangeEmpty
<1>5. Filed' = Filed
  <2>1. ASSUME NEW y PROVE y \in Filed' <=> y \in Filed
    <3>1. (\E k \in 1 .. Len(parts) + 1 : y \in Range(parts'[k].content)) <=>
            \E k \in 1 .. Len(parts) : y \in Range(parts[k].content)
      BY <1>1, <1>2, <1>4
    <3> QED BY <3>1, <1>2, <1>3
  <2> QED BY <2>1
<1>6. InOrder'
  <2>1. ASSUME NEW l \in DOMAIN parts', NEW k \in 1 .. l, NEW j \in DOMAIN parts'[l].content,
               NEW i \in IF k < l THEN DOMAIN parts'[k].content ELSE 1 .. j - 1,
               parts'[k].content[i].stream \in Streams,
               parts'[k].content[i].stream = parts'[l].content[j].stream
        PROVE  parts'[k].content[i].dts < parts'[l].content[j].dts
    <3>1. l \in 1 .. Len(parts)
      BY <2>1, <1>2, <1>3, <1>4
    <3>2. parts'[l] = parts[l] /\ parts'[k] = parts[k] /\ l \in DOMAIN parts
      BY <3>1, <1>1, <1>2
    <3> QED BY <3>2, <2>1 DEF InOrder
  <2> QED BY <2>1 DEF InOrder
<1> QED BY <1>5, <1>6

\* The state is in order again when its queues are and its packets are in line.
LEMMA OrderFrame ==
  ASSUME Order, UNCHANGED <<sent, queue, pending>>, Ordered(ready'), InOrder', Line'
  PROVE  Order'
BY DEF Order

\* A packet at the front of the queue is written, lost with the storage, or refused.
LEMMA RawLine ==
  ASSUME Base, Base', InOrder, NEW y \in Packets, NEW G, NEW next, NEW rest \in Seq(Packets),
         InLine(Filed, {y} \cup G, Range(pendingVideo'), Range(rest), refused, Delivered,
                Dead, Closed),
         Before({y}, G), Queued' = G, Ordered(rest),
         Writes(y, next, rest) \/ Breaks(rest) \/ Refuses(y, rest),
         sent' = sent, pending' = pending, pending = <<>>, caller' = caller,
         trailerWritten' = trailerWritten, ~trailerWritten, shutdown' = shutdown, ~shutdown,
         pc # "crashed", finalizing' = finalizing,
         next # "return" => rest = ready,
         caller # "Process" => rest = ready
  PROVE  InOrder' /\ Ordered(ready') /\ Line'
<1>1. /\ caller \in {"Process", "Held", "Finish"} /\ storageError \in BOOLEAN
      /\ (caller # "Process" => finalizing) /\ Delivered \subseteq Packets
  BY Elements DEF Base, TypeOK, CallTypes, FlagTypes, Calls
<1> DEFINE W2 == Range(rest)
           V2 == Range(pendingVideo')
           U == Range(ready')
<1>2. Range(pending') = {} /\ Waiting' = U /\ HeldBack' = V2 /\ Delivered' = Delivered
  BY RangeEmpty DEF Waiting, HeldBack, Delivered
<1>a. InLine(Filed, {y} \cup G, V2, W2, refused, Delivered, Dead, Closed)
  OBVIOUS
<1>b. (ready' = rest => U = W2) /\ (ready' = <<>> => U = {})
  BY RangeEmpty
<1> HIDE DEF W2, V2, U
<1>3. ASSUME NEW e, Return(e, rest)
      PROVE  /\ ready' = rest \/ (ready' = <<>> /\ e # "ok")
             /\ e = "ok" => UNCHANGED <<failure, hr>>
             /\ e # "ok" => Closed'
             /\ Closed => Closed'
  <2>1. \/ /\ caller = "Process"
           /\ failure' = (IF e = "ok" THEN failure ELSE e)
           /\ ready' = (IF e = "ok" THEN rest ELSE <<>>) /\ hr' = hr
        \/ /\ caller # "Process" /\ ready' = ready /\ failure' = failure
           /\ hr' = (IF e = "ok" THEN hr ELSE e)
    BY <1>1, <1>3, Returns
  <2> QED BY <2>1, <1>1 DEF Closed
<1>4. CASE Writes(y, next, rest)
  <2>1. /\ parts' = Appended(y) /\ refused' = refused /\ storageError' = storageError
        /\ ~storageError /\ (Return("ok", rest) \/ (next # "return" /\ Goto(next)))
    BY <1>4 DEF Writes
  <2>2. ready' = rest /\ (Closed => Closed')
    BY <2>1, <1>3 DEF Goto, Closed
  <2>3. ~Dead
    BY <2>1 DEF Dead
  <2>4. InLine(Filed \cup {y}, G, V2, W2, refused, Delivered, Dead, Closed)
    BY <1>a, <2>3, MoveWrite
  <2>5. Before(Filed, {y})
    BY <1>a DEF InLine, Before
  <2>6. y \in Content /\ y.stream \in Streams
    BY PacketFields DEF Content
  <2>7. Filed' = Filed \cup {y} /\ InOrder'
    BY <2>1, <2>5, <2>6, FiledAppended DEF Base
  <2>8. InLine(Filed \cup {y}, G, V2, W2, refused, Delivered, Dead', Closed')
    BY <2>2, <2>3, <2>4, MoveNone
  <2>9. Line'
    BY <2>1, <2>2, <2>7, <2>8, <1>2, <1>b DEF Line
  <2> QED BY <2>2, <2>7, <2>9
<1>5. CASE Breaks(rest)
  <2>1. parts' = parts /\ refused' = refused /\ storageError' = TRUE /\ Return("storage", rest)
    BY <1>5 DEF Breaks
  <2>2. (ready' = rest \/ ready' = <<>>) /\ (Closed => Closed') /\ Closed' /\ Dead'
    BY <2>1, <1>3 DEF Dead
  <2>3. Filed' = Filed /\ InOrder'
    BY <2>1, <1>2 DEF Filed, InOrder, Base
  <2>4. U \subseteq W2 /\ Ordered(ready')
    BY <2>2, <1>b, OrderedEmpty
  <2>5. InLine(Filed, G, V2, U, refused, Delivered, Dead', Closed')
    <3>1. Losing({y} \cup G, V2, W2, G, V2, U, Dead, Closed, Dead', Closed')
      BY <2>2, <2>4 DEF Losing
    <3> QED BY <1>a, <3>1, MoveLose
  <2> QED BY <2>1, <2>3, <2>4, <2>5, <1>2 DEF Line
<1>6. CASE Refuses(y, rest)
  <2>1. parts' = parts /\ refused' = refused \cup {y} /\ storageError' = storageError
        /\ Return("refused", rest)
    BY <1>6 DEF Refuses
  <2>2. (ready' = rest \/ ready' = <<>>) /\ (Closed => Closed') /\ Closed'
    BY <2>1, <1>3
  <2>3. Filed' = Filed /\ InOrder'
    BY <2>1 DEF Filed, InOrder
  <2>4. U \subseteq W2 /\ Ordered(ready') /\ (U = W2 \/ U = {})
    BY <2>2, <1>b, OrderedEmpty
  <2>5. InLine(Filed, G, V2, W2, refused \cup {y}, Delivered, Dead, Closed)
    BY <1>1, <1>a, MoveRefuse
  <2>6. Dead => Dead'
    BY <2>1 DEF Dead
  <2>7. Before(G \cup V2 \cup U, (G \cup V2 \cup W2) \ (G \cup V2 \cup U))
    <3>1. CASE U = W2
      BY <3>1 DEF Before
    <3>2. CASE U = {}
      BY <3>2, <2>5 DEF InLine, Before
    <3> QED BY <2>4, <3>1, <3>2
  <2>8. InLine(Filed, G, V2, U, refused \cup {y}, Delivered, Dead', Closed')
    <3>1. Losing(G, V2, W2, G, V2, U, Dead, Closed, Dead', Closed')
      BY <2>2, <2>4, <2>6, <2>7 DEF Losing
    <3> QED BY <2>5, <3>1, MoveLose
  <2> QED BY <2>1, <2>3, <2>4, <2>8, <1>2 DEF Line
<1> QED BY <1>4, <1>5, <1>6

\* After a crash nothing is written.
LEMMA CrashLine ==
  ASSUME Base, Order, pc' = "crashed", Queued' \subseteq Queued, HeldBack' \subseteq HeldBack,
         UNCHANGED <<ready, pending, parts, refused, sent, failure, finalizing>>
  PROVE  InOrder' /\ Ordered(ready') /\ Line'
<1>1. Dead' /\ (Closed => Closed')
  BY DEF Dead, Closed
<1>2. Filed' = Filed /\ Waiting' = Waiting /\ Delivered' = Delivered /\ InOrder'
      /\ Ordered(ready')
  BY DEF Filed, Waiting, Delivered, InOrder, Order
<1> DEFINE G == Queued'
           H == HeldBack'
           W2 == Waiting
<1>3. InLine(Filed, Queued, HeldBack, W2, refused, Delivered, Dead, Closed)
  BY DEF Order, Line
<1>4. Losing(Queued, HeldBack, W2, G, H, W2, Dead, Closed, Dead', Closed')
  BY <1>1 DEF Losing
<1>5. Line' <=> InLine(Filed, G, H, W2, refused, Delivered, Dead', Closed')
  BY <1>2 DEF Line
<1> HIDE DEF G, H, W2
<1>6. InLine(Filed, G, H, W2, refused, Delivered, Dead', Closed')
  BY <1>3, <1>4, MoveLose
<1> QED BY <1>2, <1>5, <1>6

\* The queues as sets, and the front of one of them.
LEMMA QueueFront ==
  ASSUME Base, Order, NEW s \in Streams, queue[s] # <<>>, Pop(s)
  PROVE  /\ Queued = {Head(queue[s])} \cup Queued' /\ Before({Head(queue[s])}, Queued')
         /\ Head(queue[s]) \in Packets
         /\ \A t \in Streams : Ordered(queue'[t])
<1>1. /\ queue'[s] = Tail(queue[s]) /\ Head(queue[s]) \in Packets /\ Head(queue[s]).stream = s
      /\ \A t \in Streams : t # s => queue'[t] = queue[t]
      /\ Range(queue[s]) = {Head(queue[s])} \cup Range(queue'[s])
  BY QueuePop DEF Base
<1>2. \A t \in Streams : /\ queue[t] \in Seq(Packets)
                         /\ \A x \in Range(queue[t]) : x.stream = t
  BY Elements DEF Base
<1>3. Ordered(Tail(queue[s])) /\ Before({Head(queue[s])}, Range(Tail(queue[s])))
  BY <1>2, OrderedTail DEF Order
<1>4. Queued = {Head(queue[s])} \cup Queued'
  BY <1>1 DEF Queued, Streams
<1>5. Before({Head(queue[s])}, Queued')
  <2>1. ASSUME NEW q \in Queued', q.stream = s PROVE q \in Range(queue'[s])
    BY <2>1, <1>1, <1>2 DEF Queued, Streams
  <2> QED BY <2>1, <1>1, <1>3 DEF Before
<1>6. \A t \in Streams : Ordered(queue'[t])
  BY <1>1, <1>3 DEF Order
<1> QED BY <1>1, <1>4, <1>5, <1>6

LEMMA DrainWriteOrder ==
  ASSUME Base, Base', Order, NEW s \in Streams, NEW next \in {"Audio", "Drain"},
         DrainWrite(s, next), pc \in {"Drain", "Audio", "Video"}
  PROVE  Order'
<1> DEFINE y == Head(queue[s])
<1>1. /\ queue[s] # <<>> /\ MuxRaw(y, next, ready) /\ Pop(s)
      /\ UNCHANGED <<mode, sent, pending, pendingVideo, header, part, segmentOrigin,
                     trailerWritten, caller, shutdown, finalizing, finalized, result>>
  BY DEF DrainWrite
<1>2. ~trailerWritten /\ ~shutdown /\ pc # "crashed" /\ next # "return" /\ pending = <<>>
      /\ storageError \in BOOLEAN /\ ready \in Seq(Packets)
  BY DEF Base, Control, Calls, TypeOK, FlagTypes, QueueTypes
<1>3. Crashes \/ Writes(y, next, ready) \/ Breaks(ready) \/ Refuses(y, ready)
  BY <1>1, <1>2, MuxRawCases
<1>4. /\ Queued = {y} \cup Queued' /\ Before({y}, Queued') /\ y \in Packets
      /\ \A t \in Streams : Ordered(queue'[t])
  BY <1>1, QueueFront
<1> HIDE DEF y
<1>5. Waiting = Range(ready) /\ HeldBack = Range(pendingVideo')
  BY <1>1, <1>2, RangeEmpty DEF Waiting, HeldBack
<1>6. InLine(Filed, {y} \cup Queued', Range(pendingVideo'), Range(ready), refused, Delivered,
             Dead, Closed)
  BY <1>4, <1>5 DEF Order, Line
<1>7. InOrder' /\ Ordered(ready') /\ Line'
  <2>1. CASE Crashes
    <3>1. UNCHANGED <<ready, parts, refused, failure>> /\ pc' = "crashed"
      BY <2>1 DEF Crashes, Goto
    <3>2. Queued' \subseteq Queued /\ HeldBack' \subseteq HeldBack
      BY <1>1, <1>4 DEF HeldBack
    <3> QED BY <3>1, <3>2, <1>1, CrashLine
  <2>2. CASE Writes(y, next, ready) \/ Breaks(ready) \/ Refuses(y, ready)
    <3>1. InOrder /\ Ordered(ready)
      BY DEF Order
    <3> QED BY <2>2, <3>1, <1>1, <1>2, <1>4, <1>6, RawLine
  <2> QED BY <1>3, <2>1, <2>2
<1> QED BY <1>1, <1>4, <1>7 DEF Order


\* A packet that is handed on comes after all that is queued, and keeps its place
\* whether it is written, queued or lost.
LEMMA HandedOn ==
  ASSUME Base, Base', Order, NEW x, NEW rest, Hands(x, rest), pc \in {"Write", "Held"},
         ~trailerWritten, ~shutdown, pending = <<>>, Ordered(rest),
         caller # "Process" => rest = <<>> /\ ready = <<>>,
         InLine(Filed, {x} \cup Queued, Range(pendingVideo'), Range(rest), refused, Delivered,
                Dead, Closed),
         Before(Queued, {x}), Before(Range(pendingVideo'), {x})
  PROVE  Order'
<1>1. /\ x \in Packets /\ rest \in Seq(Packets) /\ MuxPacket(x, rest) /\ x.stream \in Streams
      /\ UNCHANGED <<mode, sent, pending, part, segmentOrigin, segmentHasVideo, header,
                     trailerWritten, caller, shutdown, finalizing, finalized, result>>
      /\ pendingVideo' \in {pendingVideo, <<>>}
  BY PacketFields DEF Hands
<1>2. TypeOK /\ Tagged /\ Control /\ storageError \in BOOLEAN
      /\ caller \in {"Process", "Held", "Finish"} /\ (caller # "Process" => finalizing)
  BY DEF Base, TypeOK, FlagTypes, CallTypes, Calls
<1>3. Direct(x, rest) \/ Overflows(rest) \/ Queues(x, rest)
  BY <1>1, MuxPacketCases
<1>4. /\ \A s \in Streams : Ordered(sent[s]) /\ Ordered(queue[s])
      /\ Ordered(ready) /\ Ordered(pending) /\ InOrder
  BY DEF Order
<1> DEFINE V2 == Range(pendingVideo')
           W2 == Range(rest)
           U == Range(ready')
<1>5. Range(pending') = {} /\ Waiting' = U /\ HeldBack' = V2 /\ Delivered' = Delivered
  BY <1>1, RangeEmpty DEF Waiting, HeldBack, Delivered
<1>6. InLine(Filed, {x} \cup Queued, V2, W2, refused, Delivered, Dead, Closed)
      /\ Before(V2, {x})
  OBVIOUS
<1>7. (ready' = rest => U = W2) /\ (ready' = <<>> => U = {})
  BY RangeEmpty
<1>8. V2 \subseteq HeldBack
  BY <1>1, RangeEmpty DEF HeldBack
<1> HIDE DEF V2, W2, U
<1>9. CASE Direct(x, rest)
  <2>1. mode = "none" /\ MuxRaw(x, "return", rest) /\ queue' = queue
    BY <1>9 DEF Direct
  <2>2. Queued = {} /\ Queued' = {}
    BY <1>2, <2>1, RangeEmpty DEF Control, Queued
  <2>3. CASE Crashes
    <3>1. pc' = "crashed" /\ UNCHANGED <<ready, parts, refused, failure>>
      BY <2>3 DEF Crashes, Goto
    <3>2. Queued' \subseteq Queued /\ HeldBack' \subseteq HeldBack
      BY <2>2, <1>5, <1>8
    <3>3. InOrder' /\ Ordered(ready') /\ Line'
      BY <3>1, <3>2, <1>1, CrashLine
    <3> QED BY <3>3, <2>1, <1>1, <1>4 DEF Order
  <2>4. CASE Writes(x, "return", rest) \/ Breaks(rest) \/ Refuses(x, rest)
    <3>1. InLine(Filed, {x} \cup {}, Range(pendingVideo'), Range(rest), refused, Delivered,
                 Dead, Closed)
      BY <2>2
    <3>2. Before({x}, {}) /\ (caller # "Process" => rest = ready) /\ pc # "crashed"
      BY DEF Before
    <3>3. InOrder' /\ Ordered(ready') /\ Line'
      BY <2>4, <3>1, <3>2, <2>2, <1>1, <1>4, RawLine
    <3> QED BY <3>3, <2>1, <1>1, <1>4 DEF Order
  <2> QED BY <2>1, <2>3, <2>4, <1>2, MuxRawCases
<1>10. CASE Overflows(rest)
  <2>1. Return("full", rest) /\ UNCHANGED <<queue, storageError, parts, refused>>
    BY <1>10 DEF Overflows
  <2>2. ready' = <<>> /\ Closed'
    <3>1. \/ caller = "Process" /\ failure' = "full" /\ ready' = <<>>
          \/ caller # "Process" /\ ready' = ready
      <4>1. "full" # "ok"
        OBVIOUS
      <4> QED BY <4>1, <2>1, <1>2, Fails
    <3>2. ready' = <<>>
      BY <3>1
    <3>3. failure' # "ok" \/ finalizing'
      BY <3>1, <1>1, <1>2
    <3> QED BY <3>2, <3>3 DEF Closed
  <2>3. Filed' = Filed /\ InOrder' /\ Queued' = Queued /\ U = {} /\ Ordered(ready')
    BY <2>1, <2>2, <1>4, <1>7, OrderedEmpty DEF Filed, InOrder, Queued
  <2>4. Dead => Dead'
    BY <2>1, <1>1 DEF Dead
  <2>5. Before(Queued \cup V2 \cup {}, (({x} \cup Queued) \cup V2 \cup W2) \ (Queued \cup V2 \cup {}))
    <3>1. Before(Queued, W2) /\ Before(V2, W2)
      BY <1>6 DEF InLine, Before
    <3> QED BY <3>1, <1>6 DEF Before
  <2>6. Losing({x} \cup Queued, V2, W2, Queued, V2, {}, Dead, Closed, Dead', Closed')
    BY <2>2, <2>4, <2>5 DEF Losing
  <2>7. InLine(Filed, Queued, V2, {}, refused, Delivered, Dead', Closed')
    BY <1>6, <2>6, MoveLose
  <2>8. Line'
    BY <2>1, <2>3, <2>7, <1>5 DEF Line
  <2> QED BY <2>1, <2>3, <2>8, <1>1, <1>4 DEF Order
<1>11. CASE Queues(x, rest)
  <2>1. /\ queue' = [queue EXCEPT ![x.stream] = Append(@, x)] /\ pc' = "Drain" /\ ready' = rest
        /\ UNCHANGED <<failure, storageError, parts, refused>>
    BY <1>11 DEF Queues
  <2> DEFINE s == x.stream
  <2>2. s \in Streams /\ s = x.stream /\ queue' = [queue EXCEPT ![s] = Append(@, x)]
    BY <2>1, <1>1
  <2> HIDE DEF s
  <2>3. /\ \A t \in Streams : t # s => queue'[t] = queue[t]
        /\ queue'[s] = Append(queue[s], x) /\ Range(queue'[s]) = Range(queue[s]) \cup {x}
    BY <2>2, <1>1, <1>2, QueueAppend
  <2>4. Queued' = {x} \cup Queued
    BY <2>2, <2>3 DEF Queued, Streams
  <2>5. queue[s] \in Seq(Packets) /\ Before(Range(queue[s]), {x})
    <3>1. Range(queue[s]) \subseteq Queued
      BY <2>2 DEF Queued, Streams
    <3> QED BY <3>1, <2>2, <1>2, Elements DEF Before
  <2>6. Ordered(queue'[s])
    BY <2>2, <2>3, <2>5, <1>1, <1>4, OrderedAppend
  <2>7. \A t \in Streams : Ordered(queue'[t])
    BY <2>3, <2>6, <1>4
  <2>8. (Dead => Dead') /\ (Closed => Closed')
    BY <2>1, <1>1 DEF Dead, Closed
  <2>9. InLine(Filed, {x} \cup Queued, V2, W2, refused, Delivered, Dead', Closed')
    BY <2>8, <1>6, MoveNone
  <2>10. Filed' = Filed /\ InOrder' /\ Ordered(ready')
    BY <2>1, <1>4 DEF Filed, InOrder
  <2>11. Line'
    BY <2>1, <2>4, <2>9, <2>10, <1>5, <1>7 DEF Line
  <2> QED BY <2>7, <2>10, <2>11, <1>1, <1>4 DEF Order
<1> QED BY <1>3, <1>9, <1>10, <1>11

\* The next packet of the call: sound goes ahead of the picture that is held, which
\* the next picture makes way for.
LEMMA WritePacketOrder == ASSUME Base, Base', Order, WritePacket PROVE Order'
<1> DEFINE x == Head(ready)
           rest == Tail(ready)
           h == Head(pendingVideo)
<1>1. /\ pc = "Write" /\ ready # <<>> /\ ~trailerWritten /\ pending = <<>>
      /\ caller = "Process" /\ x \in Packets /\ rest \in Seq(Packets)
      /\ UNCHANGED <<mode, sent, pending, part, segmentOrigin, segmentHasVideo, header,
                     trailerWritten, caller, shutdown, finalizing, finalized, result>>
      /\ \/ x.stream = "audio" /\ pendingVideo' = pendingVideo /\ Hands(x, rest)
         \/ /\ x.stream = "video" /\ pendingVideo # <<>> /\ pendingVideo' = <<>>
            /\ Hands(h, ready)
         \/ /\ x.stream = "video" /\ pendingVideo = <<>>
            /\ pendingVideo' = <<x>> /\ ready' = rest
            /\ UNCHANGED <<pc, roll, boundary, hr, failure, queue, storageError, parts, refused>>
  BY WritePackets
<1>2. TypeOK /\ Tagged /\ ready \in Seq(Packets) /\ ~shutdown
  BY <1>1 DEF Base, TypeOK, QueueTypes, Calls
<1>3. Range(ready) = {x} \cup Range(rest)
  BY <1>1, <1>2, RangeTail
<1>4. Ordered(rest) /\ Before({x}, Range(rest)) /\ Ordered(ready)
  BY <1>1, <1>2, OrderedTail DEF Order
<1>5. Waiting = Range(ready)
  BY <1>1, RangeEmpty DEF Waiting
<1>6. /\ \A t \in Streams : Ordered(sent[t]) /\ Ordered(queue[t])
      /\ InOrder /\ Ordered(pending)
      /\ InLine(Filed, Queued, HeldBack, Waiting, refused, Delivered, Dead, Closed)
  BY DEF Order, Line
<1>7. pendingVideo # <<>> => h.stream = "video" /\ HeldBack = {h}
  BY <1>2, Held1 DEF HeldBack
<1>8. \A y \in HeldBack : y.stream = "video"
  BY <1>2, Elements DEF HeldBack
<1> HIDE DEF x, rest, h
<1>9. CASE x.stream = "audio" /\ pendingVideo' = pendingVideo /\ Hands(x, rest)
  <2>1. InLine(Filed, Queued, HeldBack, {x} \cup Range(rest), refused, Delivered, Dead, Closed)
    BY <1>3, <1>5, <1>6
  <2>2. \A y \in HeldBack : y.stream # x.stream
    BY <1>8, <1>9
  <2>3. InLine(Filed, Queued \cup {x}, HeldBack, Range(rest), refused, Delivered, Dead, Closed)
    BY <2>1, <2>2, <1>4, MoveQueue
  <2>4. Queued \cup {x} = {x} \cup Queued
    OBVIOUS
  <2>5. InLine(Filed, {x} \cup Queued, Range(pendingVideo'), Range(rest), refused, Delivered,
               Dead, Closed)
    BY <2>3, <2>4, <1>9 DEF HeldBack
  <2>6. Before(Queued, {x}) /\ Before(Range(pendingVideo'), {x})
    BY <2>1, <2>2, <1>9 DEF InLine, Before, HeldBack
  <2> QED BY <1>1, <1>2, <1>4, <1>9, <2>5, <2>6, HandedOn
<1>10. CASE /\ x.stream = "video" /\ pendingVideo # <<>> /\ pendingVideo' = <<>>
            /\ Hands(h, ready)
  <2>1. InLine(Filed, Queued \cup HeldBack, {}, Waiting, refused, Delivered, Dead, Closed)
    BY <1>6, MoveHeld
  <2>2. Queued \cup HeldBack = {h} \cup Queued /\ Range(pendingVideo') = {}
    BY <1>7, <1>10, RangeEmpty
  <2>3. InLine(Filed, {h} \cup Queued, Range(pendingVideo'), Range(ready), refused, Delivered,
               Dead, Closed)
    BY <2>1, <2>2, <1>5
  <2>4. Before(Queued, {h}) /\ Before(Range(pendingVideo'), {h})
    BY <2>2, <1>6, <1>7, <1>10 DEF InLine, Before
  <2> QED BY <1>1, <1>2, <1>4, <1>10, <2>3, <2>4, HandedOn
<1>11. CASE /\ x.stream = "video" /\ pendingVideo = <<>> /\ pendingVideo' = <<x>> /\ ready' = rest
            /\ UNCHANGED <<pc, roll, boundary, hr, failure, queue, storageError, parts, refused>>
  <2>1. HeldBack = {} /\ HeldBack' = {x} /\ Waiting' = Range(rest)
    <3>1. Range(<<x>>) = {x}
      BY <1>1, RangeEmpty, RangeAppend DEF Range
    <3> QED BY <3>1, <1>1, <1>11, RangeEmpty DEF HeldBack, Waiting
  <2>2. InLine(Filed, Queued, {}, {x} \cup Range(rest), refused, Delivered, Dead, Closed)
    BY <2>1, <1>3, <1>5, <1>6
  <2>3. InLine(Filed, Queued, {x}, Range(rest), refused, Delivered, Dead, Closed)
    BY <2>2, <1>4, MoveHold
  <2>4. (Dead => Dead') /\ (Closed => Closed')
    BY <1>1, <1>11 DEF Dead, Closed
  <2>5. InLine(Filed, Queued, {x}, Range(rest), refused, Delivered, Dead', Closed')
    BY <2>3, <2>4, MoveNone
  <2>6. Filed' = Filed /\ Queued' = Queued /\ Delivered' = Delivered /\ InOrder'
    BY <1>1, <1>6, <1>11 DEF Filed, Queued, Delivered, InOrder
  <2>7. Line'
    BY <2>1, <2>5, <2>6, <1>11 DEF Line
  <2> QED BY <2>6, <2>7, <1>1, <1>4, <1>6, <1>11 DEF Order
<1> QED BY <1>1, <1>9, <1>10, <1>11

\* Every packet stays where it is.
LEMMA StayOrder ==
  ASSUME Base, Order, UNCHANGED <<sent, queue, pendingVideo, pending, ready, refused>>,
         Filed' = Filed, InOrder', Dead => Dead', Closed => Closed'
  PROVE  Order'
<1>1. /\ \A s \in Streams : Ordered(sent[s]) /\ Ordered(queue[s])
      /\ Ordered(ready) /\ Ordered(pending)
      /\ InLine(Filed, Queued, HeldBack, Waiting, refused, Delivered, Dead, Closed)
  BY DEF Order, Line
<1>2. InLine(Filed, Queued, HeldBack, Waiting, refused, Delivered, Dead', Closed')
  BY <1>1, MoveNone
<1>3. Queued' = Queued /\ HeldBack' = HeldBack /\ Waiting' = Waiting /\ Delivered' = Delivered
  BY DEF Queued, HeldBack, Waiting, Delivered
<1>4. Line'
  BY <1>2, <1>3 DEF Line
<1> QED BY <1>1, <1>4 DEF Order

\* A drain returns: what its caller had left to hand on is dropped with a failure.
LEMMA ReturnOrder ==
  ASSUME Base, Order, NEW e, Return(e, ready), pending = <<>>,
         UNCHANGED <<sent, queue, pendingVideo, pending, refused, finalizing>>,
         Filed' = Filed, InOrder', Dead => Dead'
  PROVE  Order'
<1>1. caller \in {"Process", "Held", "Finish"} /\ (caller # "Process" => finalizing)
  BY DEF Base, TypeOK, CallTypes, Calls
<1>2. CASE e = "ok"
  <2>1. Return("ok", ready)
    BY <1>2
  <2>2. ready' = ready /\ failure' = failure
    BY <2>1, <1>1, Succeeds
  <2>3. Closed => Closed'
    BY <2>2 DEF Closed
  <2> QED BY <2>2, <2>3, StayOrder
<1>3. CASE e # "ok" /\ ready' = ready
  <2>1. failure' = failure \/ failure' = e
    BY <1>1, <1>3, Fails
  <2>2. Closed => Closed'
    BY <2>1, <1>3 DEF Closed
  <2> QED BY <2>2, <1>3, StayOrder
<1>4. CASE e # "ok" /\ ready' = <<>>
  <2>1. failure' = e \/ finalizing
    BY <1>1, <1>4, Fails
  <2>2. Closed'
    BY <2>1, <1>4 DEF Closed
  <2>3. /\ \A s \in Streams : Ordered(sent[s]) /\ Ordered(queue[s])
        /\ Ordered(ready) /\ Ordered(pending)
        /\ InLine(Filed, Queued, HeldBack, Waiting, refused, Delivered, Dead, Closed)
    BY DEF Order, Line
  <2> DEFINE Q == Queued
             V == HeldBack
             W == Waiting
  <2>4. Queued' = Q /\ HeldBack' = V /\ Waiting' = {} /\ Delivered' = Delivered
    BY <1>4, RangeEmpty DEF Queued, HeldBack, Waiting, Delivered
  <2>5. InLine(Filed, Q, V, W, refused, Delivered, Dead, Closed)
    BY <2>3
  <2> HIDE DEF Q, V, W
  <2>6. Before(Q \cup V \cup {}, (Q \cup V \cup W) \ (Q \cup V \cup {}))
    BY <2>5 DEF InLine, Before
  <2>7. Losing(Q, V, W, Q, V, {}, Dead, Closed, Dead', Closed')
    BY <2>2, <2>6 DEF Losing
  <2>8. InLine(Filed, Q, V, {}, refused, Delivered, Dead', Closed')
    BY <2>5, <2>7, MoveLose
  <2>9. Line'
    BY <2>4, <2>8 DEF Line
  <2>10. Ordered(ready')
    BY <1>4, OrderedEmpty
  <2> QED BY <2>3, <2>9, <2>10 DEF Order
<1>5. e # "ok" => ready' = ready \/ ready' = <<>>
  BY <1>1, Fails
<1> QED BY <1>2, <1>3, <1>4, <1>5

\* The files that do not change.
LEMMA SameFiles == ASSUME Order, parts' = parts PROVE Filed' = Filed /\ InOrder'
BY DEF Order, Filed, InOrder

\* A trailer adds no packet.
LEMMA TrailerAppended ==
  ASSUME TypeOK, Order, NEW e, parts' = Appended(Trailer(e))
  PROVE  Filed' = Filed /\ InOrder'
<1> DEFINE x == Trailer(e)
<1>1. x \in Content /\ x.stream \notin Streams /\ parts' = Appended(x)
  BY TrailerTypes DEF Streams
<1>2. InOrder
  BY DEF Order
<1> HIDE DEF x
<1> QED BY <1>1, <1>2, FiledAppended

LEMMA DrainOrder == ASSUME Base, Base', Order, Drain PROVE Order'
<1>1. TypeOK /\ Tagged /\ Control /\ Calls
  BY DEF Base
<1>2. ASSUME NEW e, Return(e, ready), Unwritten, DrainFrame, pc = "Drain"
      PROVE  Order'
  <2>1. UNCHANGED <<sent, queue, pendingVideo, pending, refused, finalizing, parts,
                    storageError, shutdown, trailerWritten>>
    BY <1>2 DEF Unwritten, DrainFrame, input, segment
  <2>2. pending = <<>>
    BY <1>1, <1>2 DEF Control
  <2>3. ~trailerWritten
    BY <1>1, <1>2 DEF Control
  <2>4. Dead => Dead'
    BY <1>2, <2>1, <2>3 DEF Dead
  <2> QED BY <1>2, <2>1, <2>2, <2>4, SameFiles, ReturnOrder
<1>3. CASE Decide
  <2>1. /\ pc = "Drain" /\ DrainFrame /\ Unwritten
        /\ Return("ok", ready) \/ (pc' = "Audio" /\ UNCHANGED <<ready, hr, failure>>)
    BY <1>1, <1>3, Decides
  <2>2. CASE pc' = "Audio" /\ UNCHANGED <<ready, hr, failure>>
    <3>1. UNCHANGED <<sent, queue, pendingVideo, pending, refused, finalizing, parts,
                      storageError, shutdown, trailerWritten>>
      BY <2>1 DEF Unwritten, DrainFrame, input, segment
    <3>2. (Dead => Dead') /\ (Closed => Closed')
      BY <2>1, <2>2, <3>1 DEF Dead, Closed
    <3> QED BY <2>2, <3>1, <3>2, SameFiles, StayOrder
  <2> QED BY <2>1, <2>2, <1>2
<1>4. CASE LengthFails
  BY <1>2, <1>4 DEF LengthFails
<1>5. CASE WriteAudio
  <2>1. DrainWrite("audio", "Audio") /\ pc = "Audio" /\ "audio" \in Streams
    BY <1>5, DrainWrites DEF Streams
  <2> QED BY <2>1, DrainWriteOrder
<1>6. CASE AudioWritten
  <2>1. pc = "Audio" /\ pc' \in {"Create", "Video"}
        /\ UNCHANGED <<sent, queue, pendingVideo, pending, refused, finalizing, parts, ready,
                       failure, storageError, shutdown, trailerWritten>>
    BY <1>6 DEF AudioWritten, Goto, Unwritten, DrainFrame, input, segment
  <2>2. (Dead => Dead') /\ (Closed => Closed')
    BY <2>1 DEF Dead, Closed
  <2> QED BY <2>1, <2>2, SameFiles, StayOrder
<1>7. CASE WriteVideo
  <2>1. DrainWrite("video", "Drain") /\ pc = "Video" /\ "video" \in Streams
    BY <1>7, DrainWrites DEF Streams
  <2> QED BY <2>1, DrainWriteOrder
<1>8. CASE Drained
  <2>1. CASE finish /\ queue["audio"] # <<>>
    <3>1. DrainWrite("audio", "Drain") /\ pc = "Drain" /\ "audio" \in Streams
      BY <1>8, <2>1, DrainWrites DEF Streams
    <3> QED BY <3>1, DrainWriteOrder
  <2>2. CASE ~(finish /\ queue["audio"] # <<>>)
    <3>1. Return("ok", ready) /\ Unwritten /\ DrainFrame /\ pc = "Drain"
      BY <1>8, <2>2, DrainWrites
    <3> QED BY <3>1, <1>2
  <2> QED BY <2>1, <2>2
<1> QED BY <1>3, <1>4, <1>5, <1>6, <1>7, <1>8, Zenon DEF Drain

LEMMA RollOrder == ASSUME Base, Base', Order, Roll PROVE Order'
<1>1. TypeOK /\ Tagged /\ Control /\ Calls
  BY DEF Base
<1>2. pending = <<>> /\ (pc \in {"Create", "Trailer"} => ~trailerWritten) /\ ~shutdown
  BY <1>1 DEF Roll, CreateNext, SealCurrent, RetireCurrent, OpenNext, Control, Calls
<1>3. ASSUME NEW l, l \in {"Trailer", "Open"}, Goto(l) \/ \E e : Return(e, ready),
             pc \in {"Create", "Retire"}, RollFrame, UNCHANGED <<segment, storageError, parts>>,
             pc = "Create" => l = "Trailer"
      PROVE  Order'
  <2>1. UNCHANGED <<sent, queue, pendingVideo, pending, refused, finalizing, parts,
                    storageError, shutdown, trailerWritten>>
    BY <1>3 DEF RollFrame, input, held, segment
  <2>2. Dead => Dead'
    BY <1>2, <1>3, <2>1 DEF Dead
  <2>3. CASE Goto(l)
    <3>1. UNCHANGED <<ready, failure>>
      BY <2>3 DEF Goto
    <3>2. Closed => Closed'
      BY <2>1, <3>1 DEF Closed
    <3> QED BY <2>1, <2>2, <3>1, <3>2, SameFiles, StayOrder
  <2>4. CASE \E e : Return(e, ready)
    BY <1>2, <2>1, <2>2, <2>4, SameFiles, ReturnOrder
  <2> QED BY <1>3, <2>3, <2>4
<1>4. CASE CreateNext
  <2>1. /\ pc = "Create" /\ RollFrame /\ UNCHANGED <<segment, storageError, parts>>
        /\ Goto("Trailer") \/ \E e : Return(e, ready)
    BY <1>4 DEF CreateNext
  <2> QED BY <2>1, <1>3
<1>5. CASE RetireCurrent
  <2>1. /\ pc = "Retire" /\ RollFrame /\ UNCHANGED <<segment, storageError, parts>>
        /\ Goto("Open") \/ \E e : Return(e, ready)
    BY <1>5 DEF RetireCurrent
  <2> QED BY <2>1, <1>3
<1>6. CASE SealCurrent
  <2>1. PICK e \in Outcomes :
          /\ parts' = Appended(Trailer(e)) /\ storageError' = (storageError \/ e = "storage")
          /\ IF e = "ok" THEN Goto("Retire") ELSE Return(e, ready)
    BY <1>6 DEF SealCurrent
  <2>2. /\ pc = "Trailer" /\ trailerWritten' = TRUE /\ ~trailerWritten
        /\ UNCHANGED <<sent, pending, pendingVideo, queue, refused, shutdown, finalizing>>
    BY <1>2, <1>6 DEF SealCurrent, RollFrame, input, held
  <2>3. Filed' = Filed /\ InOrder'
    BY <1>1, <2>1, TrailerAppended
  <2>4. CASE e = "ok"
    <3>1. UNCHANGED <<ready, failure>> /\ pc' = "Retire"
      BY <2>1, <2>4 DEF Goto
    <3>2. (Dead => Dead') /\ (Closed => Closed')
      BY <2>1, <2>2, <3>1 DEF Dead, Closed
    <3> QED BY <2>2, <2>3, <3>1, <3>2, StayOrder
  <2>5. CASE e # "ok"
    <3>1. Return(e, ready) /\ pc' \in {"Write", "Resume", "Seal"}
      BY <2>1, <2>5, <1>1, Fails DEF TypeOK, CallTypes
    <3>2. Dead'
      BY <2>2, <3>1 DEF Dead
    <3> QED BY <1>2, <2>2, <2>3, <3>1, <3>2, ReturnOrder
  <2> QED BY <2>4, <2>5
<1>7. CASE OpenNext
  <2>1. /\ pc = "Open" /\ trailerWritten' = FALSE
        /\ parts' = Append(parts, [origin |-> video.pts, content |-> <<>>])
        /\ UNCHANGED <<sent, pending, pendingVideo, queue, storageError, refused,
                       shutdown, finalizing>>
        /\ (UNCHANGED <<ready, failure>>) \/ Return("open", ready)
    BY <1>7, OpenNexts
  <2>2. queue["video"] # <<>> /\ InOrder
    BY <1>1, <2>1 DEF Control, Draining, Order
  <2>3. video.pts \in Int
    BY <1>1, <2>2, VideoHead, PacketFields
  <2>4. Filed' = Filed /\ InOrder'
    BY <1>1, <2>1, <2>2, <2>3, FiledOpened
  <2>5. Dead => Dead'
    BY <2>1 DEF Dead
  <2>6. CASE UNCHANGED <<ready, failure>>
    <3>1. Closed => Closed'
      BY <2>1, <2>6 DEF Closed
    <3> QED BY <2>1, <2>4, <2>5, <2>6, <3>1, StayOrder
  <2>7. CASE Return("open", ready)
    BY <1>2, <2>1, <2>4, <2>5, <2>7, ReturnOrder
  <2> QED BY <2>1, <2>6, <2>7
<1> QED BY <1>4, <1>5, <1>6, <1>7 DEF Roll

\* A packet that is delivered is later than all that were.
LEMMA DeliverOrder ==
  ASSUME Base, Order, NEW s \in Streams, NEW p \in NextPackets(s),
         sent' = [sent EXCEPT ![s] = Append(@, p)]
  PROVE  /\ \A t \in Streams : Ordered(sent'[t])
         /\ Delivered' = Delivered \cup {p} /\ Before(Delivered, {p})
<1>1. p \in Packets /\ p.stream = s /\ (sent[s] # <<>> => Last(sent[s]).dts < p.dts)
  BY Next1 DEF Base
<1>2. sent \in [Streams -> Seq(Packets)] /\ sent[s] \in Seq(Packets)
  BY DEF Base, TypeOK, QueueTypes
<1>3. \A t \in Streams : Ordered(sent[t])
  BY DEF Order
<1> DEFINE q == sent[s]
           a == Append(q, p)
<1>4. q \in Seq(Packets) /\ Ordered(q) /\ (q # <<>> => Last(q).dts < p.dts)
      /\ \A i \in DOMAIN q : q[i].stream = s
  BY <1>1, <1>2, <1>3 DEF Base, Tagged
<1>5. sent' = [sent EXCEPT ![s] = a]
  OBVIOUS
<1>6. a \in Seq(Packets) /\ Range(a) = Range(q) \cup {p}
  BY <1>1, <1>4, RangeAppend
<1>7. sent'[s] = a /\ \A t \in Streams : t # s => sent'[t] = sent[t]
  BY <1>2, <1>5
<1>8. \A t \in Streams : t # s => Before(Range(sent[t]), {p})
  BY <1>1, Elements DEF Base, Before
<1>9. Delivered = Range(q) \cup UNION {Range(sent[t]) : t \in Streams \ {s}}
  BY DEF Delivered, Streams
<1>10. Delivered' = Range(sent'[s]) \cup UNION {Range(sent'[t]) : t \in Streams \ {s}}
  BY DEF Delivered, Streams
<1> HIDE DEF q, a
<1>11. Before(Range(q), {p})
  <2>1. ASSUME NEW x \in Range(q) PROVE x.dts < p.dts
    <3>1. Len(q) \in Nat /\ DOMAIN q = 1 .. Len(q) /\ x.dts \in Int /\ p.dts \in Int
      BY <1>1, <1>4, RangeMembers, PacketFields
    <3>2. PICK i \in 1 .. Len(q) : q[i] = x
      BY <1>4, RangeMembers
    <3>3. q # <<>> /\ Last(q) = q[Len(q)] /\ Len(q) \in DOMAIN q
      BY <3>1, <3>2 DEF Last
    <3>4. CASE i = Len(q)
      BY <3>2, <3>3, <3>4, <1>4
    <3>5. CASE i # Len(q)
      <4>5. i \in 1 .. Len(q) - 1
        <5>1. Len(q) \in Nat
          BY <3>1
        <5>2. \A m \in Nat : \A k \in 1 .. m : k # m => k \in 1 .. m - 1
          OBVIOUS
        <5> QED BY <5>1, <5>2, <3>2, <3>5
      <4>6. i \in DOMAIN q
        BY <3>1, <3>2
      <4>1. q[i].stream = q[Len(q)].stream
        BY <4>6, <3>3, <1>4
      <4>2. q[i].dts < q[Len(q)].dts
        BY <4>5, <4>1, <3>3, <1>4 DEF Ordered
      <4>3. q[Len(q)] \in Packets
        BY <3>1, <3>3, <1>4, ElementOfSeq
      <4>4. q[Len(q)].dts \in Int
        BY <4>3, PacketFields
      <4> QED BY <4>2, <4>4, <3>1, <3>2, <3>3, <1>4
    <3> QED BY <3>4, <3>5
  <2> QED BY <2>1 DEF Before
<1>12. Ordered(a)
  BY <1>1, <1>4, <1>11, OrderedAppend DEF a
<1>13. \A t \in Streams : Ordered(sent'[t])
  BY <1>3, <1>7, <1>12
<1>14. Delivered' = Delivered \cup {p}
  BY <1>6, <1>7, <1>9, <1>10
<1>15. Before(Delivered, {p})
  BY <1>8, <1>9, <1>11 DEF Before
<1> QED BY <1>13, <1>14, <1>15

\* A sample is taken, alone or with those that waited for the header.
LEMMA ProcessOrder == ASSUME Base, Order, NEW s \in Streams, Process(s) PROVE Order'
<1>1. PICK p \in Packets :
           /\ p \in NextPackets(s)
           /\ sent' = [sent EXCEPT ![s] = Append(@, p)]
           /\ pc = "idle" /\ ready = <<>>
           /\ ~shutdown /\ ~finalizing /\ failure = "ok" /\ ~trailerWritten
           /\ UNCHANGED <<pendingVideo, queue, trailerWritten, storageError, shutdown, parts,
                          refused>>
           /\ \/ pending = <<>> /\ pending' = pending /\ ready' = <<p>>
              \/ pending' = Append(pending, p) /\ ready' = ready
              \/ pending' = <<>> /\ ready' = Append(pending, p)
  BY Processes
<1>2. /\ \A t \in Streams : Ordered(sent'[t])
      /\ Delivered' = Delivered \cup {p} /\ Before(Delivered, {p})
  BY <1>1, DeliverOrder
<1>3. TypeOK /\ Tagged /\ pending \in Seq(Packets) /\ Delivered \subseteq Packets
  BY Elements DEF Base, TypeOK, QueueTypes
<1>4. /\ \A t \in Streams : Ordered(queue[t])
      /\ Ordered(pending) /\ InOrder
      /\ InLine(Filed, Queued, HeldBack, Waiting, refused, Delivered, Dead, Closed)
  BY DEF Order, Line
<1>5. Waiting = Range(pending) /\ Range(pending) \subseteq Delivered
  <2>1. Waiting = Range(pending)
    BY <1>1, RangeEmpty DEF Waiting
  <2>2. Waiting \subseteq Delivered
    BY <1>4 DEF InLine
  <2> QED BY <2>1, <2>2
<1>6. /\ Range(Append(pending, p)) = Range(pending) \cup {p} /\ Ordered(Append(pending, p))
  <2>1. Before(Range(pending), {p})
    BY <1>2, <1>5 DEF Before
  <2> QED BY <2>1, <1>3, <1>4, RangeAppend, OrderedAppend
<1>7. Range(<<p>>) = {p} /\ Ordered(<<p>>)
  <2>1. Range(<<p>>) = {p}
    BY DEF Range
  <2>2. Ordered(<<p>>)
    <3>1. \A j \in DOMAIN <<p>> : 1 .. j - 1 = {}
      OBVIOUS
    <3> QED BY <3>1 DEF Ordered
  <2> QED BY <2>1, <2>2
<1>8. Waiting' = Waiting \cup {p} /\ Ordered(ready') /\ Ordered(pending')
  <2>1. Waiting' = Range(ready') \cup Range(pending')
    BY DEF Waiting
  <2>2. CASE pending = <<>> /\ pending' = pending /\ ready' = <<p>>
    BY <2>1, <2>2, <1>4, <1>5, <1>7, RangeEmpty
  <2>3. CASE pending' = Append(pending, p) /\ ready' = ready
    BY <2>1, <2>3, <1>1, <1>5, <1>6, RangeEmpty, OrderedEmpty
  <2>4. CASE pending' = <<>> /\ ready' = Append(pending, p)
    BY <2>1, <2>4, <1>5, <1>6, RangeEmpty, OrderedEmpty
  <2> QED BY <1>1, <2>2, <2>3, <2>4
<1>9. Filed' = Filed /\ InOrder' /\ Queued' = Queued /\ HeldBack' = HeldBack
  BY <1>1, SameFiles DEF Queued, HeldBack
<1>10. ~Closed /\ (Dead => Dead')
  BY <1>1 DEF Dead, Closed
<1>11. InLine(Filed, Queued, HeldBack, Waiting \cup {p}, refused, Delivered \cup {p}, Dead, Closed)
  BY <1>2, <1>3, <1>4, <1>10, MoveDeliver
<1>12. InLine(Filed, Queued, HeldBack, Waiting \cup {p}, refused, Delivered \cup {p}, Dead', Closed')
  BY <1>10, <1>11, MoveNone
<1>13. Line'
  BY <1>1, <1>2, <1>8, <1>9, <1>12 DEF Line
<1> QED BY <1>1, <1>2, <1>4, <1>8, <1>9, <1>13 DEF Order

\* Shutdown drops what is kept.
LEMMA ShutdownOrder == ASSUME Base, Order, Shutdown PROVE Order'
<1>1. /\ pc = "idle" /\ shutdown' = TRUE
      /\ pending' = <<>> /\ pendingVideo' = <<>> /\ queue' = [s \in Streams |-> <<>>]
      /\ UNCHANGED <<sent, ready, failure, finalizing, parts, refused>>
  BY DEF Shutdown, input, call
<1>2. ready = <<>>
  BY <1>1 DEF Base, Control, Draining
<1>3. Queued' = {} /\ HeldBack' = {} /\ Waiting' = {} /\ Delivered' = Delivered
      /\ \A s \in Streams : queue'[s] = <<>>
  BY <1>1, <1>2, RangeEmpty DEF Queued, HeldBack, Waiting, Delivered, Streams
<1>4. Filed' = Filed /\ InOrder'
  BY <1>1, SameFiles
<1>5. Dead' /\ (Closed => Closed')
  BY <1>1 DEF Dead, Closed
<1>6. InLine(Filed, Queued, HeldBack, Waiting, refused, Delivered, Dead, Closed)
  BY DEF Order, Line
<1>7. Losing(Queued, HeldBack, Waiting, {}, {}, {}, Dead, Closed, Dead', Closed')
  BY <1>5 DEF Losing
<1>8. InLine(Filed, {}, {}, {}, refused, Delivered, Dead', Closed')
  BY <1>6, <1>7, MoveLose
<1>9. Line'
  BY <1>1, <1>3, <1>4, <1>8 DEF Line
<1>10. /\ \A s \in Streams : Ordered(sent'[s]) /\ Ordered(queue'[s])
       /\ Ordered(ready') /\ Ordered(pending')
  BY <1>1, <1>2, <1>3, OrderedEmpty DEF Order
<1> QED BY <1>4, <1>9, <1>10 DEF Order

\* The calls around the packets.
LEMMA CallOrder ==
  ASSUME Base, Order,
         ProcessFails \/ ProcessReturns \/ BeginFinalize \/ Finalize \/ Resume \/ SealedBefore
  PROVE  Order'
<1>1. UNCHANGED <<sent, queue, pendingVideo, pending, ready, refused, parts>>
  BY DEF ProcessFails, ProcessReturns, BeginFinalize, Finalize, Resume, SealedBefore,
         FinalizeFrame, End, Goto, input, held, segment, call, ends
<1>2. Closed => Closed'
  BY DEF ProcessFails, ProcessReturns, BeginFinalize, Finalize, Resume, SealedBefore,
         FinalizeFrame, End, Goto, input, held, segment, call, ends, Closed
<1>3. /\ UNCHANGED <<storageError, shutdown, trailerWritten>>
      /\ pc # "crashed" /\ pc \notin {"Retire", "Open"} /\ pc' \notin {"Retire", "Open"}
  BY DEF ProcessFails, ProcessReturns, BeginFinalize, Finalize, Resume, SealedBefore,
         FinalizeFrame, End, Goto, input, held, segment, call, ends, Accepting
<1>4. Dead => Dead'
  BY <1>3 DEF Dead
<1> QED BY <1>1, <1>2, <1>4, SameFiles, StayOrder

LEMMA SealOrder == ASSUME Base, Order, Seal PROVE Order'
<1>1. /\ trailerWritten' = TRUE /\ pc = "Seal" /\ pc' \in {"crashed", "idle"}
      /\ UNCHANGED <<sent, pending, pendingVideo, queue, refused, ready, failure, finalizing>>
      /\ parts' = parts \/ \E e : parts' = Appended(Trailer(e))
  BY Seals
<1>2. Filed' = Filed /\ InOrder'
  BY <1>1, SameFiles, TrailerAppended DEF Base
<1>3. Dead' /\ (Closed => Closed')
  BY <1>1 DEF Dead, Closed
<1> QED BY <1>1, <1>2, <1>3, StayOrder

LEMMA WriteHeldOrder == ASSUME Base, Base', Order, WriteHeld PROVE Order'
<1> DEFINE h == Head(pendingVideo)
<1>1. /\ pc = "Held" /\ ~trailerWritten /\ caller = "Held" /\ ready = <<>> /\ pending = <<>>
      /\ pendingVideo' = <<>>
      /\ UNCHANGED <<sent, pending, trailerWritten, shutdown, finalizing>>
      /\ \/ pendingVideo = <<>> /\ Return("ok", ready) /\ Unwritten
         \/ pendingVideo # <<>> /\ Hands(h, ready)
  BY WriteHelds
<1>2. TypeOK /\ Tagged /\ ~shutdown
  BY <1>1 DEF Base, Calls
<1>3. CASE pendingVideo = <<>> /\ Return("ok", ready) /\ Unwritten
  <2>1. UNCHANGED <<sent, queue, pendingVideo, pending, refused, finalizing, parts, storageError>>
    BY <1>1, <1>3 DEF Unwritten
  <2>2. Dead => Dead'
    BY <1>1, <2>1 DEF Dead
  <2> QED BY <1>1, <1>3, <2>1, <2>2, SameFiles, ReturnOrder
<1>4. CASE pendingVideo # <<>> /\ Hands(h, ready)
  <2>1. HeldBack = {h} /\ Range(pendingVideo') = {} /\ Waiting = {} /\ Range(ready) = {}
    BY <1>1, <1>2, <1>4, Held1, RangeEmpty DEF HeldBack, Waiting
  <2>2. InLine(Filed, Queued, HeldBack, Waiting, refused, Delivered, Dead, Closed) /\ Ordered(ready)
    BY DEF Order, Line
  <2>3. InLine(Filed, Queued \cup HeldBack, {}, Waiting, refused, Delivered, Dead, Closed)
    BY <2>2, MoveHeld
  <2> HIDE DEF h
  <2>4. Queued \cup HeldBack = {h} \cup Queued
    BY <2>1
  <2>5. InLine(Filed, {h} \cup Queued, Range(pendingVideo'), Range(ready), refused, Delivered,
               Dead, Closed)
    BY <2>1, <2>3, <2>4
  <2>6. Before(Queued, {h}) /\ Before(Range(pendingVideo'), {h})
    BY <2>1, <2>2 DEF InLine, Before
  <2> QED BY <1>1, <1>2, <1>4, <2>2, <2>5, <2>6, HandedOn
<1> QED BY <1>1, <1>3, <1>4

\* Every step keeps the packets in line.
LEMMA StepOrder == ASSUME Base, Base', Order, [Next]_vars PROVE Order'
<1>1. ASSUME NEW s \in Streams, Process(s) PROVE Order'
  BY <1>1, ProcessOrder
<1>2. CASE Drain
  BY <1>2, DrainOrder
<1>3. CASE Roll
  BY <1>3, RollOrder
<1>4. CASE WritePacket \/ WriteHeld
  BY <1>4, WritePacketOrder, WriteHeldOrder
<1>5. CASE ProcessFails \/ ProcessReturns \/ BeginFinalize \/ Finalize \/ Resume \/ SealedBefore
  BY <1>5, CallOrder
<1>6. CASE Seal \/ Shutdown
  BY <1>6, SealOrder, ShutdownOrder
<1>7. CASE UNCHANGED vars
  <2>1. UNCHANGED <<sent, queue, pendingVideo, pending, ready, refused, parts>>
    BY <1>7 DEF vars, input, held, call
  <2>2. (Dead => Dead') /\ (Closed => Closed')
    BY <1>7 DEF Dead, Closed, vars, segment, call, ends
  <2> QED BY <2>1, <2>2, SameFiles, StayOrder
<1> QED BY <1>1, <1>2, <1>3, <1>4, <1>5, <1>6, <1>7 DEF Next

\* They are in line to begin with.
LEMMA InitOrder == ASSUME Init PROVE Order
<1>1. \A s \in Streams : sent[s] = <<>> /\ queue[s] = <<>>
  BY DEF Init
<1>2. pending = <<>> /\ pendingVideo = <<>> /\ ready = <<>> /\ refused = {}
  BY DEF Init
<1>3. /\ \A s \in Streams : Ordered(sent[s]) /\ Ordered(queue[s])
      /\ Ordered(ready) /\ Ordered(pending)
  BY <1>1, <1>2, OrderedEmpty
<1>4. Queued = {} /\ HeldBack = {} /\ Waiting = {} /\ Delivered = {}
  BY <1>1, <1>2, RangeEmpty DEF Queued, HeldBack, Waiting, Delivered, Streams
<1>5. DOMAIN parts = {1} /\ parts[1].content = <<>>
  BY DEF Init
<1>6. Filed = {} /\ InOrder
  <2>1. Range(parts[1].content) = {} /\ DOMAIN parts[1].content = {}
    BY <1>5, RangeEmpty
  <2> QED BY <2>1, <1>5 DEF Filed, InOrder
<1>7. InLine({}, {}, {}, {}, {}, {}, Dead, Closed)
  BY DEF InLine, Before
<1>8. Line
  BY <1>2, <1>4, <1>6, <1>7 DEF Line
<1> QED BY <1>3, <1>6, <1>8 DEF Order

\* However the recording fails, splits or ends, the queues are well formed and every
\* packet is in line: written before kept, kept before lost, refused apart
\* (FragmentedMp4Sink.cpp, Process to Shutdown).
THEOREM MuxInvariance == Spec => [](Base /\ Order)
<1>1. Init => Base /\ Order
  BY InitBase, InitOrder
<1>2. Base /\ Order /\ [Next]_vars => (Base /\ Order)'
  BY StepBase, StepOrder
<1> QED BY <1>1, <1>2, PTL DEF Spec

\* Packets in line are saved in order: what is lost or kept comes after what is saved.
LEMMA OrderImplies == ASSUME Base, Order PROVE SavedInOrder
<1>1. TypeOK /\ Tagged
  BY DEF Base
<1>2. /\ InOrder /\ \A s \in Streams : Ordered(sent[s])
      /\ InLine(Filed, Queued, HeldBack, Waiting, refused, Delivered, Dead, Closed)
  BY DEF Order, Line
<1>3. ASSUME NEW s \in Streams, NEW x \in Delivered, x.stream = s
      PROVE  x \in Range(sent[s])
  BY <1>1, <1>3, Elements DEF Delivered, Streams
<1>4. ASSUME NEW s \in Streams
      PROVE  /\ Saved(s) \subseteq Range(sent[s]) \ refused
             /\ \A j \in DOMAIN sent[s] : sent[s][j] \in Saved(s) =>
                  \A i \in 1 .. j - 1 : sent[s][i] \in Saved(s) \cup refused
  <2>1. \A x : x \in Saved(s) <=> x \in Filed /\ x.stream = s
    BY DEF Saved, Filed
  <2>2. Saved(s) \subseteq Range(sent[s]) \ refused
    BY <2>1, <1>2, <1>3 DEF InLine
  <2>3. ASSUME NEW j \in DOMAIN sent[s], sent[s][j] \in Saved(s), NEW i \in 1 .. j - 1
        PROVE  sent[s][i] \in Saved(s) \cup refused
    <3> DEFINE y == sent[s][j]
               z == sent[s][i]
    <3>1. sent[s] \in Seq(Packets) /\ DOMAIN sent[s] = 1 .. Len(sent[s]) /\ Len(sent[s]) \in Nat
      BY <1>1, LenProperties DEF TypeOK, QueueTypes
    <3>2. i \in DOMAIN sent[s]
      BY <3>1, <2>3
    <3>3. y.stream = s /\ z.stream = s
      BY <3>2, <1>1 DEF Tagged
    <3>4. z.dts < y.dts
      BY <3>3, <1>2, <2>3 DEF Ordered
    <3>5. z \in Packets /\ y \in Packets
      BY <3>1, <3>2, <2>3, ElementOfSeq
    <3>6. z \in Delivered
      BY <3>2 DEF Delivered, Range, Streams
    <3>7. y \in Filed
      BY <2>1, <2>3
    <3> HIDE DEF y, z
    <3>8. ~(y.dts < z.dts)
      BY <3>4, <3>5, PacketFields
    <3>9. z \in Filed \/ z \in refused
      <4>1. CASE z \in Queued \cup HeldBack \cup Waiting
        BY <4>1, <3>3, <3>7, <3>8, <1>2 DEF InLine, Before
      <4>2. CASE z \notin Filed \cup refused \cup Queued \cup HeldBack \cup Waiting
        <5>1. Before(Filed, {z})
          BY <4>2, <3>6, <1>2 DEF InLine
        <5> QED BY <5>1, <3>3, <3>7, <3>8 DEF Before
      <4> QED BY <4>1, <4>2
    <3> QED BY <3>3, <3>9, <2>1 DEF z
  <2> QED BY <2>2, <2>3
<1> QED BY <1>2, <1>4 DEF SavedInOrder

\* At every moment, and after any error, the files together hold each stream from
\* its beginning, in order, without a hole or a repetition, save for packets that
\* libavformat itself refused (FragmentedMp4Sink.cpp, Process to Finalize).
THEOREM SavedInOrderHolds == Spec => []SavedInOrder
<1>1. Base /\ Order => SavedInOrder
  BY OrderImplies
<1> QED BY <1>1, MuxInvariance, PTL
-----------------------------------------------------------------------------
(* What the steps of a call do to its control *)

\* A drain, a write or a roll returns to its caller.
Returning(e, rest) ==
  /\ Return(e, rest) /\ pc \in Draining \cup {"Write", "Held"} /\ (pc = "Write" => ready # <<>>)
  /\ UNCHANGED <<mode, sent, caller, finalizing, finalized, shutdown, result, pending>>
  /\ pendingVideo' \in {pendingVideo, <<>>} /\ (pc = "Held" => pendingVideo' = <<>>)
  /\ e = "create" => pc = "Create"
  /\ header' = header \/ (e = "open" /\ pc = "Open")
  /\ trailerWritten' = trailerWritten \/ (e # "ok" /\ pc \in {"Trailer", "Open"})
  /\ pc \in Draining => rest = ready
  /\ caller = "Finish" /\ e = "ok" => \A s \in Streams : queue'[s] = <<>>

\* The call goes on with its next step, or crashes in it.
Proceeding(rest) ==
  /\ pc \in Draining \cup {"Write", "Held"} /\ pc' \in Draining \cup {"crashed"}
  /\ ready' = rest /\ (pc = "Write" => ready # <<>>)
  /\ UNCHANGED <<mode, sent, caller, finalizing, finalized, shutdown, result, pending, hr, failure>>
  /\ pendingVideo' \in {pendingVideo, <<>>} /\ (pc = "Held" => pendingVideo' = <<>>)
  /\ header' = header \/ header' = TRUE
  /\ trailerWritten' = trailerWritten \/ pc \in {"Trailer", "Open"}
  /\ pc \in Draining \cup {"Held"} => rest = ready

\* The next picture is held for its duration.
Holding ==
  /\ pc = "Write" /\ pc' = "Write" /\ caller = "Process" /\ ready # <<>>
  /\ Head(ready).stream = "video" /\ ready' = Tail(ready)
  /\ pendingVideo = <<>> /\ pendingVideo' = <<Head(ready)>>
  /\ UNCHANGED <<mode, sent, caller, finalizing, finalized, shutdown, result, pending, hr,
                 failure, queue, header, trailerWritten, storageError, parts, refused>>

Underway == (\E e, rest : Returning(e, rest)) \/ (\E rest : Proceeding(rest)) \/ Holding

\* A packet into the current file.
LEMMA RawUnderway ==
  ASSUME Base, NEW x, NEW next, NEW rest,
         Crashes \/ Writes(x, next, rest) \/ Breaks(rest) \/ Refuses(x, rest),
         pc \in Draining \cup {"Write", "Held"}, pc = "Write" => ready # <<>>,
         next \in Draining \cup {"return"},
         next = "return" => pc \notin Draining,
         pc \in Draining \cup {"Held"} => rest = ready, next # "return" => rest = ready,
         UNCHANGED <<mode, sent, header, trailerWritten, caller, shutdown, finalizing, finalized,
                     result, pending>>,
         pendingVideo' \in {pendingVideo, <<>>}, pc = "Held" => pendingVideo' = <<>>
  PROVE  Underway
<1>1. ASSUME NEW e, Return(e, rest), e # "create", e = "ok" => pc \notin Draining
      PROVE  Underway
  <2>1. caller = "Finish" => pc \in Draining
    BY DEF Base, Calls, Draining
  <2>2. Returning(e, rest)
    BY <1>1, <2>1 DEF Returning
  <2> QED BY <2>2 DEF Underway
<1>2. CASE Crashes
  <2>1. Proceeding(ready)
    BY <1>2 DEF Crashes, Goto, Proceeding
  <2> QED BY <2>1 DEF Underway
<1>3. CASE Writes(x, next, rest)
  <2>1. CASE next = "return"
    <3>1. Return("ok", rest)
      BY <1>3, <2>1 DEF Writes
    <3> QED BY <3>1, <2>1, <1>1
  <2>2. CASE next # "return"
    <3>1. Goto(next)
      BY <1>3, <2>2 DEF Writes
    <3>2. Proceeding(ready)
      BY <3>1, <2>2 DEF Goto, Proceeding
    <3> QED BY <3>2 DEF Underway
  <2> QED BY <2>1, <2>2
<1>4. CASE Breaks(rest)
  <2>1. Return("storage", rest)
    BY <1>4 DEF Breaks
  <2> QED BY <2>1, <1>1
<1>5. CASE Refuses(x, rest)
  <2>1. Return("refused", rest)
    BY <1>5 DEF Refuses
  <2> QED BY <2>1, <1>1
<1> QED BY <1>2, <1>3, <1>4, <1>5

\* A packet is handed to the muxer.
LEMMA HandsUnderway ==
  ASSUME Base, NEW x, NEW rest, Hands(x, rest), ~trailerWritten,
         \/ pc = "Write" /\ ready # <<>>
         \/ pc = "Held" /\ rest = ready /\ pendingVideo' = <<>>
  PROVE  Underway
<1>1. /\ UNCHANGED <<mode, sent, pending, part, segmentOrigin, segmentHasVideo, header,
                     trailerWritten, caller, shutdown, finalizing, finalized, result>>
      /\ pendingVideo' \in {pendingVideo, <<>>} /\ MuxPacket(x, rest)
  BY DEF Hands
<1>2. pc \notin Draining /\ storageError \in BOOLEAN
  BY DEF Draining, Base, TypeOK, FlagTypes
<1>3. CASE Direct(x, rest)
  <2>1. Crashes \/ Writes(x, "return", rest) \/ Breaks(rest) \/ Refuses(x, rest)
    BY <1>2, <1>3, MuxRawCases DEF Direct
  <2> QED BY <2>1, <1>1, <1>2, RawUnderway
<1>4. CASE Overflows(rest)
  <2>1. Returning("full", rest)
    BY <1>1, <1>2, <1>4 DEF Overflows, Returning
  <2> QED BY <2>1 DEF Underway
<1>5. CASE Queues(x, rest)
  <2>1. "Drain" \in Draining
    BY DEF Draining
  <2>2. Proceeding(rest)
    BY <1>1, <1>2, <1>5, <2>1 DEF Queues, Proceeding
  <2> QED BY <2>2 DEF Underway
<1> QED BY <1>1, <1>3, <1>4, <1>5, MuxPacketCases

\* Every step of DrainSegments and RollSegment, and every packet handed on, is of one
\* of the three kinds.
LEMMA DrainUnderway == ASSUME Base, Drain PROVE Underway
<1>1. storageError \in BOOLEAN /\ TypeOK /\ Tagged
  BY DEF Base, TypeOK, FlagTypes
<1>2. ASSUME NEW s \in Streams, NEW next \in {"Audio", "Drain"}, DrainWrite(s, next),
             pc \in {"Drain", "Audio", "Video"}
      PROVE  Underway
  <2>1. MuxRaw(Head(queue[s]), next, ready) /\ ~trailerWritten
    BY <1>2 DEF DrainWrite, Base, Control
  <2>2. \/ Crashes \/ Writes(Head(queue[s]), next, ready) \/ Breaks(ready)
        \/ Refuses(Head(queue[s]), ready)
    BY <1>1, <2>1, MuxRawCases
  <2>3. pc \in Draining /\ next \in Draining /\ next # "return" /\ pc \notin {"Held", "Write"}
    BY <1>2 DEF Draining
  <2>4. UNCHANGED <<mode, sent, header, trailerWritten, caller, shutdown, finalizing, finalized,
                    result, pending, pendingVideo>>
    BY <1>2 DEF DrainWrite
  <2> QED BY <2>2, <2>3, <2>4, RawUnderway
<1>3. ASSUME NEW e, Return(e, ready), DrainFrame, Unwritten, pc = "Drain", e # "create",
             caller = "Finish" /\ e = "ok" => \A s \in Streams : queue[s] = <<>>
      PROVE  Underway
  <2>1. Returning(e, ready)
    BY <1>3 DEF Returning, DrainFrame, Unwritten, segment, input, Draining
  <2> QED BY <2>1 DEF Underway
<1>4. CASE Decide
  <2>1. CASE Return("ok", ready)
    <3>1. pc = "Drain" /\ DrainFrame /\ Unwritten
      BY <1>4 DEF Decide
    <3>2. pc' # "Audio"
      <4>1. caller \in {"Process", "Held", "Finish"}
        BY <1>1 DEF TypeOK, CallTypes
      <4> QED BY <4>1, <2>1, Returns
    <3>3. ~finish
      BY <1>4, <3>2 DEF Decide
    <3> QED BY <3>1, <3>3, <2>1, <1>3 DEF finish
  <2>2. CASE ~Return("ok", ready)
    <3>1. pc = "Drain" /\ pc' = "Audio" /\ UNCHANGED <<ready, hr, failure>> /\ DrainFrame
      BY <1>1, <1>4, <2>2, Decides
    <3>2. Proceeding(ready)
      BY <3>1 DEF Proceeding, DrainFrame, segment, input, Draining
    <3> QED BY <3>2 DEF Underway
  <2> QED BY <2>1, <2>2
<1>5. CASE LengthFails
  BY <1>3, <1>5 DEF LengthFails
<1>6. CASE AudioWritten
  <2>1. Proceeding(ready)
    BY <1>6 DEF AudioWritten, Goto, Proceeding, DrainFrame, segment, input, Draining
  <2> QED BY <2>1 DEF Underway
<1>7. CASE WriteAudio \/ WriteVideo
  BY <1>2, <1>7, DrainWrites DEF Streams
<1>8. CASE Drained
  <2>1. CASE finish /\ queue["audio"] # <<>>
    BY <2>1, <1>2, <1>8, DrainWrites DEF Streams
  <2>2. CASE ~(finish /\ queue["audio"] # <<>>)
    <3>1. Return("ok", ready) /\ Unwritten /\ DrainFrame /\ pc = "Drain"
      BY <2>2, <1>8, DrainWrites
    <3>2. queue["video"] = <<>>
      BY <1>8 DEF Drained
    <3> QED BY <3>1, <3>2, <2>2, <1>3 DEF finish, Streams
  <2> QED BY <2>1, <2>2
<1> QED BY <1>4, <1>5, <1>6, <1>7, <1>8 DEF Drain

\* A step of RollSegment is of one of the three kinds.
LEMMA RollUnderway == ASSUME Base, Roll PROVE Underway
<1>3. CASE CreateNext
  <2>1. pc = "Create" /\ RollFrame /\ UNCHANGED <<segment, storageError, parts>>
        /\ (Goto("Trailer") \/ Return("create", ready))
    BY <1>3 DEF CreateNext
  <2>2. Proceeding(ready) \/ Returning("create", ready)
    BY <2>1 DEF Goto, Proceeding, Returning, RollFrame, segment, input, held, Draining
  <2> QED BY <2>2 DEF Underway
<1>4. CASE SealCurrent
  <2>1. PICK e \in Outcomes : IF e = "ok" THEN Goto("Retire") ELSE Return(e, ready)
    BY <1>4 DEF SealCurrent
  <2>2. pc = "Trailer" /\ RollFrame /\ UNCHANGED header /\ e # "create"
    BY <1>4 DEF SealCurrent, Outcomes
  <2>3. CASE e = "ok"
    <3>1. Proceeding(ready)
      BY <2>1, <2>2, <2>3 DEF Goto, Proceeding, RollFrame, input, held, Draining
    <3> QED BY <3>1 DEF Underway
  <2>4. CASE e # "ok"
    <3>1. Returning(e, ready)
      BY <2>1, <2>2, <2>4 DEF Returning, RollFrame, input, held, Draining
    <3> QED BY <3>1 DEF Underway
  <2> QED BY <2>3, <2>4
<1>5. CASE RetireCurrent
  <2>1. pc = "Retire" /\ RollFrame /\ UNCHANGED <<segment, storageError, parts>>
        /\ (Goto("Open") \/ Return("retire", ready))
    BY <1>5 DEF RetireCurrent
  <2>2. Proceeding(ready) \/ Returning("retire", ready)
    BY <2>1 DEF Goto, Proceeding, Returning, RollFrame, segment, input, held, Draining
  <2> QED BY <2>2 DEF Underway
<1>6. CASE OpenNext
  <2>1. pc = "Open" /\ RollFrame /\ trailerWritten' = FALSE
        /\ ((header' = TRUE /\ Goto("Video")) \/ (header' = FALSE /\ Return("open", ready)))
    BY <1>6 DEF OpenNext
  <2>2. header \in BOOLEAN
    BY DEF Base, TypeOK, FlagTypes
  <2>3. Proceeding(ready) \/ Returning("open", ready)
    BY <2>1, <2>2 DEF Goto, Proceeding, Returning, RollFrame, input, held, Draining
  <2> QED BY <2>3 DEF Underway
<1> QED BY <1>3, <1>4, <1>5, <1>6 DEF Roll

\* So is a packet that Process or Finalize hands on, or holds.
LEMMA WriteUnderway == ASSUME Base, WritePacket \/ WriteHeld PROVE Underway
<1>1. CASE WritePacket
  <2>1. CASE Hands(Head(ready), Tail(ready)) \/ Hands(Head(pendingVideo), ready)
    <3>1. pc = "Write" /\ ready # <<>> /\ ~trailerWritten
      BY <1>1, WritePackets
    <3> QED BY <2>1, <3>1, HandsUnderway
  <2>2. CASE ~(Hands(Head(ready), Tail(ready)) \/ Hands(Head(pendingVideo), ready))
    <3>1. Holding
      BY <1>1, <2>2, WritePackets DEF Holding
    <3> QED BY <3>1 DEF Underway
  <2> QED BY <2>1, <2>2
<1>2. CASE WriteHeld
  <2>1. pc = "Held" /\ ~trailerWritten /\ caller = "Held" /\ pendingVideo' = <<>>
    BY <1>2, WriteHelds
  <2>2. CASE Hands(Head(pendingVideo), ready)
    BY <2>1, <2>2, HandsUnderway
  <2>3. CASE ~Hands(Head(pendingVideo), ready)
    <3>1. Return("ok", ready)
          /\ UNCHANGED <<mode, sent, pending, header, trailerWritten, caller, shutdown,
                         finalizing, finalized, result>>
      BY <1>2, <2>3, WriteHelds
    <3>2. Returning("ok", ready)
      BY <3>1, <2>1 DEF Returning, Draining
    <3> QED BY <3>2 DEF Underway
  <2> QED BY <2>2, <2>3
<1> QED BY <1>1, <1>2
-----------------------------------------------------------------------------
(* Errors, and what they leave undone *)

\* What an error says of the sink: a part that cannot be made leaves the current one
\* open; Finalize's own error is not one of an encoder; and a muxer without a header
\* is only given packets at the end.
Causes ==
  /\ failure = "create" /\ ~finalized => header /\ ~trailerWritten
  /\ hr = "create" => failure = "ok"
  /\ hr # "ok" => caller # "Process"
  /\ caller = "Process" /\ (pc \in Draining \/ (pc = "Write" /\ ready # <<>>)) => header
  /\ ~header /\ failure = "ok" /\ ~finalizing => \E s \in Streams : sent[s] = <<>>
  /\ ~finalized => result = "none"

\* What is written when the last trailer is, unless there was an error.
Emptied ==
  /\ pc = "Seal" /\ hr = "ok" => \A s \in Streams : queue[s] = <<>>
  /\ caller = "Finish" \/ (caller = "Held" /\ pc # "Held") => pendingVideo = <<>>

\* Each kind keeps what the errors say.  First, a call that returns.
LEMMA ReturningCauses ==
  ASSUME Base, Base', Causes, Emptied, NEW e, NEW rest, Returning(e, rest)
  PROVE  Causes' /\ Emptied'
<1>1. /\ UNCHANGED <<mode, sent, caller, finalizing, finalized, shutdown, result, pending>>
      /\ pendingVideo' \in {pendingVideo, <<>>} /\ (pc = "Held" => pendingVideo' = <<>>)
      /\ e = "create" => pc = "Create"
      /\ header' = header \/ (e = "open" /\ pc = "Open")
      /\ trailerWritten' = trailerWritten \/ (e # "ok" /\ pc \in {"Trailer", "Open"})
      /\ pc \in Draining => rest = ready
      /\ caller = "Finish" /\ e = "ok" => \A s \in Streams : queue'[s] = <<>>
      /\ pc \in Draining \cup {"Write", "Held"} /\ Return(e, rest)
      /\ (pc = "Write" => ready # <<>>)
  BY DEF Returning
<1>2. \/ /\ caller = "Process" /\ pc' = "Write" /\ hr' = hr
         /\ failure' = (IF e = "ok" THEN failure ELSE e)
         /\ ready' = (IF e = "ok" THEN rest ELSE <<>>)
      \/ /\ caller = "Held" /\ pc' = "Resume" /\ ready' = ready /\ failure' = failure
         /\ hr' = (IF e = "ok" THEN hr ELSE e)
      \/ /\ caller = "Finish" /\ pc' = "Seal" /\ ready' = ready /\ failure' = failure
         /\ hr' = (IF e = "ok" THEN hr ELSE e)
  <2>1. caller \in {"Process", "Held", "Finish"}
    BY DEF Base, TypeOK, CallTypes
  <2> QED BY <1>1, <2>1, Returns
<1>3. pc \in {"Create", "Trailer", "Retire", "Open"} => failure = "ok" /\ pc \in Draining
  BY DEF Base, Control, Rolling, Draining
<1>4. caller = "Process" => header /\ ~finalized
  <2>1. ASSUME caller = "Process" PROVE pc \in Draining \/ (pc = "Write" /\ ready # <<>>)
    <3>1. pc # "Held"
      BY <2>1 DEF Base, Calls
    <3> QED BY <3>1, <1>1
  <2>2. ~finalized
    BY <1>1 DEF Base, Calls, Draining
  <2> QED BY <2>1, <2>2 DEF Causes
<1>5. failure' = "create" /\ ~finalized' => header' /\ ~trailerWritten'
  <2>1. CASE failure = "create"
    <3>1. header' = header /\ trailerWritten' = trailerWritten
      BY <2>1, <1>1, <1>3
    <3>2. finalized' = finalized
      BY <1>1
    <3> QED BY <3>1, <3>2, <2>1 DEF Causes
  <2>2. CASE failure # "create" /\ failure' = "create"
    <3>1. caller = "Process" /\ e = "create"
      BY <2>2, <1>2
    <3>2. pc = "Create" /\ header' = header /\ trailerWritten' = trailerWritten
      BY <1>1, <3>1
    <3>3. ~trailerWritten
      BY <3>2 DEF Base, Control
    <3> QED BY <3>1, <3>2, <3>3, <1>4
  <2> QED BY <2>1, <2>2
<1>6. hr' = "create" => failure' = "ok"
  <2>1. CASE hr = "create"
    BY <2>1, <1>2 DEF Causes
  <2>2. CASE hr # "create"
    BY <2>2, <1>1, <1>2, <1>3
  <2> QED BY <2>1, <2>2
<1>7. hr' # "ok" => caller' # "Process"
  BY <1>1, <1>2 DEF Causes
<1>8. caller' = "Process" /\ (pc' \in Draining \/ (pc' = "Write" /\ ready' # <<>>)) => header'
  <2>1. ASSUME caller' = "Process", pc' \in Draining \/ (pc' = "Write" /\ ready' # <<>>)
        PROVE  header'
    <3>1. caller = "Process"
      BY <2>1, <1>1
    <3>2. pc' = "Write" /\ (e # "ok" => ready' = <<>>)
      BY <3>1, <1>2
    <3>3. e = "ok"
      BY <2>1, <3>2 DEF Draining
    <3>4. header' = header
      BY <3>3, <1>1
    <3> QED BY <3>1, <3>4, <1>4
  <2> QED BY <2>1
<1>9. ~header' /\ failure' = "ok" /\ ~finalizing' => \E s \in Streams : sent'[s] = <<>>
  <2>1. CASE header
    <3>1. ~header' => e = "open"
      BY <2>1, <1>1
    <3>2. ~finalizing => caller = "Process"
      BY DEF Base, Calls
    <3>3. caller = "Process" /\ e = "open" => failure' = "open"
      BY <1>2
    <3> QED BY <1>1, <3>1, <3>2, <3>3
  <2>2. CASE ~header
    <3>1. failure' = "ok" => failure = "ok"
      BY <1>2
    <3> QED BY <2>2, <3>1, <1>1, <1>4 DEF Base, Calls
  <2> QED BY <2>1, <2>2
<1>10. ~finalized' => result' = "none"
  BY <1>1 DEF Causes
<1>11. pc' = "Seal" /\ hr' = "ok" => \A s \in Streams : queue'[s] = <<>>
  BY <1>1, <1>2
<1>12. caller' = "Finish" \/ (caller' = "Held" /\ pc' # "Held") => pendingVideo' = <<>>
  BY <1>1 DEF Emptied
<1> QED BY <1>5, <1>6, <1>7, <1>8, <1>9, <1>10, <1>11, <1>12 DEF Causes, Emptied

\* A call that goes on.
LEMMA ProceedingCauses ==
  ASSUME Base, Base', Causes, Emptied, NEW rest, Proceeding(rest)
  PROVE  Causes' /\ Emptied'
<1>1. /\ pc \in Draining \cup {"Write", "Held"} /\ pc' \in Draining \cup {"crashed"}
      /\ UNCHANGED <<mode, sent, caller, finalizing, finalized, shutdown, result, pending, hr,
                     failure>>
      /\ pendingVideo' \in {pendingVideo, <<>>} /\ (pc = "Held" => pendingVideo' = <<>>)
      /\ header' = header \/ header' = TRUE
      /\ trailerWritten' = trailerWritten \/ pc \in {"Trailer", "Open"}
      /\ (pc = "Write" => ready # <<>>)
  BY DEF Proceeding
<1>2. pc' # "Seal" /\ pc' # "Write" /\ pc # "idle"
  BY <1>1 DEF Draining
<1>3. header => header'
  BY <1>1
<1>4. caller = "Process" => header
  <2>1. ASSUME caller = "Process" PROVE pc \in Draining \/ (pc = "Write" /\ ready # <<>>)
    <3>1. pc # "Held"
      BY <2>1 DEF Base, Calls
    <3> QED BY <3>1, <1>1
  <2> QED BY <2>1 DEF Causes
<1>5. failure' = "create" /\ ~finalized' => header' /\ ~trailerWritten'
  <2>1. pc \in {"Trailer", "Open"} => failure = "ok"
    BY DEF Base, Control, Rolling
  <2>2. failure' = "create" => trailerWritten' = trailerWritten
    BY <1>1, <2>1
  <2>3. failure' = failure /\ finalized' = finalized
    BY <1>1
  <2> QED BY <1>3, <2>2, <2>3 DEF Causes
<1>6. (hr' = "create" => failure' = "ok") /\ (hr' # "ok" => caller' # "Process")
  BY <1>1 DEF Causes
<1>7. caller' = "Process" => header'
  BY <1>1, <1>3, <1>4
<1>8. ~header' /\ failure' = "ok" /\ ~finalizing' => \E s \in Streams : sent'[s] = <<>>
  BY <1>1, <1>3 DEF Causes
<1>9. ~finalized' => result' = "none"
  BY <1>1 DEF Causes
<1>10. caller' = "Finish" \/ (caller' = "Held" /\ pc' # "Held") => pendingVideo' = <<>>
  BY <1>1 DEF Emptied
<1> QED BY <1>2, <1>5, <1>6, <1>7, <1>8, <1>9, <1>10 DEF Causes, Emptied

\* A picture that is held.
LEMMA HoldingCauses ==
  ASSUME Base, Base', Causes, Emptied, Holding
  PROVE  Causes' /\ Emptied'
<1>1. /\ pc = "Write" /\ pc' = "Write" /\ caller = "Process" /\ ready # <<>>
      /\ UNCHANGED <<mode, sent, caller, finalizing, finalized, shutdown, result, pending, hr,
                     failure, queue, header, trailerWritten>>
  BY DEF Holding
<1>2. header
  BY <1>1 DEF Causes
<1>3. Causes'
  BY <1>1, <1>2 DEF Causes, Draining
<1>4. Emptied'
  BY <1>1 DEF Emptied
<1> QED BY <1>3, <1>4

\* Taking a sample.
LEMMA ProcessCauses ==
  ASSUME Base, Base', Causes, Emptied, NEW s \in Streams, Process(s)
  PROVE  Causes' /\ Emptied'
<1>1. PICK p \in Packets :
           /\ sent' = [sent EXCEPT ![s] = Append(@, p)]
           /\ pc = "idle" /\ ready = <<>> /\ caller = "Process"
           /\ ~shutdown /\ ~finalizing /\ ~finalized /\ failure = "ok" /\ ~trailerWritten
           /\ UNCHANGED <<mode, pendingVideo, queue, part, segmentOrigin, segmentHasVideo,
                          trailerWritten, caller, roll, boundary, hr, storageError, shutdown,
                          finalizing, finalized, result, parts, refused>>
           /\ \/ /\ pending = <<>> /\ pending' = pending /\ header' = header /\ failure' = failure
                 /\ ready' = <<p>> /\ pc' = "Write" /\ header
              \/ /\ pending' = Append(pending, p) /\ header' = header
                 /\ UNCHANGED <<pc, ready>> /\ ~header
              \/ /\ pending' = <<>> /\ header' = TRUE /\ failure' = failure
                 /\ ready' = Append(pending, p) /\ pc' = "Write" /\ ~header
                 /\ \A t \in Streams : sent'[t] # <<>>
  BY Processes
<1>2. hr = "ok"
  BY <1>1 DEF Causes
<1>3. failure' # "create"
  BY <1>1 DEF Process
<1>4. ~header' /\ failure' = "ok" => \E t \in Streams : sent'[t] = <<>>
  BY <1>1 DEF Process
<1>5. pc' \in {"Write", "idle"} /\ (pc' = "Write" => header')
  BY <1>1
<1>6. ~finalized' => result' = "none"
  BY <1>1 DEF Causes
<1>7. Causes'
  BY <1>1, <1>2, <1>3, <1>4, <1>5, <1>6 DEF Causes, Draining
<1>8. Emptied'
  BY <1>1, <1>5 DEF Emptied
<1> QED BY <1>7, <1>8

\* The calls around the packets.
LEMMA CallCauses ==
  ASSUME Base, Base', Causes, Emptied,
         ProcessFails \/ ProcessReturns \/ BeginFinalize \/ Finalize \/ Resume \/ SealedBefore
  PROVE  Causes' /\ Emptied'
<1>1. UNCHANGED <<sent, queue, pendingVideo, ready, header, trailerWritten, hr>>
  BY DEF ProcessFails, ProcessReturns, BeginFinalize, Finalize, Resume, SealedBefore,
         FinalizeFrame, End, Goto, input, held, segment, call, ends
<1>2. CASE ProcessFails
  <2>1. failure' = "input" /\ UNCHANGED <<pc, caller, hr, result, finalized, finalizing>>
    BY <1>2 DEF ProcessFails, call
  <2>2. pc = "idle" /\ failure = "ok" /\ ~finalizing
    BY <1>2 DEF ProcessFails, Accepting
  <2>3. hr = "ok"
    BY <2>2 DEF Base, Calls, Causes
  <2> QED BY <1>1, <2>1, <2>2, <2>3 DEF Causes, Emptied, Draining
<1>3. CASE ProcessReturns
  <2>1. pc = "Write" /\ pc' = "idle" /\ UNCHANGED <<caller, failure, result, finalized, finalizing>>
    BY <1>3 DEF ProcessReturns, ends
  <2>2. caller = "Process"
    BY <2>1 DEF Base, Calls
  <2> QED BY <1>1, <2>1, <2>2 DEF Causes, Emptied, Draining
<1>4. CASE BeginFinalize
  <2>1. pc = "idle" /\ finalizing' = TRUE /\ UNCHANGED <<pc, caller, failure, result, finalized>>
    BY <1>4 DEF BeginFinalize, call
  <2> QED BY <1>1, <2>1 DEF Causes, Emptied, Draining
<1>5. CASE Finalize
  <2>1. pc = "idle" /\ ~finalized /\ finalizing /\ UNCHANGED <<failure, finalizing>>
    BY <1>5 DEF Finalize, End, Goto, FinalizeFrame
  <2>2. caller = "Process"
    BY <2>1 DEF Base, Calls
  <2>3. \/ pc' = "idle" /\ finalized' /\ caller' = caller
        \/ pc' = "Held" /\ caller' = "Held" /\ UNCHANGED <<finalized, result>>
    BY <1>5 DEF Finalize, End, Goto
  <2> QED BY <1>1, <2>1, <2>2, <2>3 DEF Causes, Emptied, Draining
<1>6. CASE Resume
  <2>1. pc = "Resume" /\ caller' = "Finish" /\ UNCHANGED <<failure, finalizing, finalized, result>>
        /\ pc' = (IF mode = "none" THEN "Seal" ELSE "Drain")
    BY <1>6 DEF Resume, Goto, FinalizeFrame
  <2>2. caller = "Held" /\ finalizing
    BY <2>1 DEF Base, Calls
  <2>3. pendingVideo = <<>>
    BY <2>1, <2>2 DEF Emptied
  <2>4. mode = "none" => \A s \in Streams : queue[s] = <<>>
    BY DEF Base, Control, Streams
  <2>5. Causes'
    BY <1>1, <2>1, <2>2 DEF Causes
  <2>6. Emptied'
    BY <1>1, <2>1, <2>3, <2>4 DEF Emptied
  <2> QED BY <2>5, <2>6
<1>7. CASE SealedBefore
  <2>1. pc \in {"Resume", "Seal"} /\ pc' = "idle" /\ finalized'
        /\ UNCHANGED <<caller, failure, finalizing>>
    BY <1>7 DEF SealedBefore, End, FinalizeFrame
  <2>2. caller # "Process" /\ finalizing
    BY <2>1 DEF Base, Calls
  <2>3. pendingVideo = <<>>
    BY <2>1 DEF Emptied, Base, Calls
  <2>4. Causes'
    BY <1>1, <2>1, <2>2 DEF Causes
  <2>5. Emptied'
    BY <1>1, <2>1, <2>3 DEF Emptied
  <2> QED BY <2>4, <2>5
<1> QED BY <1>2, <1>3, <1>4, <1>5, <1>6, <1>7

\* The end of a recording, and Shutdown.
LEMMA EndCauses ==
  ASSUME Base, Base', Causes, Emptied, Seal \/ Shutdown \/ UNCHANGED vars
  PROVE  Causes' /\ Emptied'
<1>1. CASE Seal
  <2>1. /\ pc = "Seal" /\ ~trailerWritten
        /\ UNCHANGED <<sent, pendingVideo, queue, header, caller, ready, hr, failure, finalizing>>
        /\ \/ ~header /\ pc' = "crashed" /\ UNCHANGED <<finalized, result>>
           \/ pc' = "idle" /\ finalized' = TRUE
    BY <1>1, Seals
  <2>2. caller = "Finish" /\ ~finalized
    BY <2>1 DEF Base, Calls
  <2>3. pendingVideo = <<>>
    BY <2>2 DEF Emptied
  <2>4. ~header => failure # "create"
    BY <2>2 DEF Causes
  <2>5. Causes'
    BY <2>1, <2>2, <2>4 DEF Causes
  <2>6. Emptied'
    BY <2>1, <2>3 DEF Emptied
  <2> QED BY <2>5, <2>6
<1>2. CASE Shutdown
  <2>1. /\ pc = "idle" /\ pendingVideo' = <<>>
        /\ UNCHANGED <<sent, header, trailerWritten, pc, caller, ready, hr, failure, finalizing,
                       finalized, result>>
    BY <1>2 DEF Shutdown, input, segment, call
  <2> QED BY <2>1 DEF Causes, Emptied, Draining
<1>3. CASE UNCHANGED vars
  <2>1. UNCHANGED <<sent, pendingVideo, queue, header, trailerWritten, pc, caller, ready, hr,
                    failure, finalizing, finalized, result>>
    BY <1>3 DEF vars, input, held, segment, call, ends
  <2> QED BY <2>1 DEF Causes, Emptied
<1> QED BY <1>1, <1>2, <1>3

\* Every step is of one of these kinds.
LEMMA StepCauses ==
  ASSUME Base, Base', Causes, Emptied, [Next]_vars
  PROVE  Causes' /\ Emptied'
<1>1. CASE Drain \/ Roll \/ WritePacket \/ WriteHeld
  <2>1. Underway
    BY <1>1, DrainUnderway, RollUnderway, WriteUnderway
  <2> QED BY <2>1, ReturningCauses, ProceedingCauses, HoldingCauses DEF Underway
<1>2. ASSUME NEW s \in Streams, Process(s) PROVE Causes' /\ Emptied'
  BY <1>2, ProcessCauses
<1>3. CASE ProcessFails \/ ProcessReturns \/ BeginFinalize \/ Finalize \/ Resume \/ SealedBefore
  BY <1>3, CallCauses
<1>4. CASE Seal \/ Shutdown \/ UNCHANGED vars
  BY <1>4, EndCauses
<1> QED BY <1>1, <1>2, <1>3, <1>4 DEF Next

\* There is no error to begin with.
LEMMA InitCauses == ASSUME Init PROVE Causes /\ Emptied
<1>1. \A s \in Streams : sent[s] = <<>>
  BY DEF Init
<1> QED BY <1>1 DEF Init, Causes, Emptied, Draining, Streams
-----------------------------------------------------------------------------
(* What waits while a part is made *)

Newest(q) == Range(q) \subseteq {Last(sent["video"])}

SoundsFirst(q) ==
  \A i \in DOMAIN q : q[i].stream = "video" => i = Len(q) /\ q[i] = Last(sent["video"])

PicturesFirst(q) == \A i \in DOMAIN q : q[i].stream = "audio" => i = Len(q)

\* While Process rolls into a new part, at most the picture it was called with waits.
\* It may have been called with sound, which is all it has then; or with the sample
\* that completed the header, after sound that met no picture, or after pictures,
\* and without sound no part is split.
Brief ==
  caller = "Process" /\ pc \in Draining \cup {"Write"} =>
    \/ Newest(ready)
    \/ pc = "Write" /\ Tail(ready) = <<>> /\ Head(ready).stream = "audio"
    \/ /\ pc \in {"Write", "Drain"} /\ queue["video"] = <<>> /\ pendingVideo = <<>>
       /\ SoundsFirst(ready)
    \/ pc \in {"Write", "Drain"} /\ queue["audio"] = <<>> /\ PicturesFirst(ready)

\* The rest of a queue is as the queue is.
LEMMA BriefTail ==
  ASSUME NEW q \in Seq(Packets), q # <<>>
  PROVE  /\ Newest(q) => Newest(Tail(q))
         /\ SoundsFirst(q) => SoundsFirst(Tail(q))
         /\ PicturesFirst(q) => PicturesFirst(Tail(q))
         /\ SoundsFirst(q) /\ Head(q).stream = "video" => Tail(q) = <<>>
         /\ PicturesFirst(q) /\ Head(q).stream = "audio" => Tail(q) = <<>>
<1> DEFINE t == Tail(q)
<1>1. /\ t \in Seq(Packets) /\ Head(q) = q[1] /\ Len(q) > 0 /\ Len(t) = Len(q) - 1
      /\ \A i \in 1 .. Len(t) : t[i] = q[i + 1]
      /\ Range(q) = {Head(q)} \cup Range(t)
  BY RangeTail
<1>2. DOMAIN q = 1 .. Len(q) /\ Len(q) \in Nat /\ DOMAIN t = 1 .. Len(t) /\ Len(t) \in Nat
  BY <1>1, LenProperties
<1> HIDE DEF t
<1>3. Len(q) = 1 => t = <<>>
  <2>1. Len(q) = 1 => Len(t) = 0
    BY <1>1
  <2>2. Len(t) = 0 => t = <<>>
    BY <1>1, EmptySeq
  <2> QED BY <2>1, <2>2
<1>4. \A i \in 1 .. Len(t) : i + 1 \in 1 .. Len(q) /\ (i + 1 = Len(q) => i = Len(t))
  BY <1>1, <1>2
<1>5. 1 \in DOMAIN q
  BY <1>1, <1>2
<1>6. Newest(q) => Newest(t)
  BY <1>1 DEF Newest
<1>7. SoundsFirst(q) => SoundsFirst(t)
  BY <1>1, <1>2, <1>4 DEF SoundsFirst
<1>8. PicturesFirst(q) => PicturesFirst(t)
  BY <1>1, <1>2, <1>4 DEF PicturesFirst
<1>9. SoundsFirst(q) /\ Head(q).stream = "video" => t = <<>>
  BY <1>1, <1>3, <1>5 DEF SoundsFirst
<1>10. PicturesFirst(q) /\ Head(q).stream = "audio" => t = <<>>
  BY <1>1, <1>3, <1>5 DEF PicturesFirst
<1> QED BY <1>6, <1>7, <1>8, <1>9, <1>10 DEF t

\* An empty queue has no other picture.
LEMMA NewestEmpty == Newest(<<>>) /\ (sent' = sent /\ ready' = <<>> => Newest(ready)')
BY RangeEmpty DEF Newest

\* A step of a drain or a roll with the newest picture at most waiting.
LEMMA NewestBrief ==
  ASSUME Base, Underway, pc \in Draining, caller = "Process", Newest(ready)
  PROVE  Brief'
<1>1. ASSUME NEW e, NEW rest, Returning(e, rest) PROVE Brief'
  <2>1. rest = ready /\ sent' = sent /\ Return(e, rest)
    BY <1>1 DEF Returning
  <2>2. ready' = ready \/ ready' = <<>>
    BY <2>1, Returns DEF Base, TypeOK, CallTypes
  <2>3. Newest(ready)'
    BY <2>1, <2>2, NewestEmpty DEF Newest
  <2> QED BY <2>3 DEF Brief
<1>2. ASSUME NEW rest, Proceeding(rest) PROVE Brief'
  <2>1. ready' = ready /\ sent' = sent
    BY <1>2 DEF Proceeding
  <2>2. Newest(ready)'
    BY <2>1 DEF Newest
  <2> QED BY <2>2 DEF Brief
<1>3. ~Holding
  BY DEF Holding, Draining
<1> QED BY <1>1, <1>2, <1>3 DEF Underway

\* Sound that met no picture decides nothing, and pictures without sound neither.
LEMMA DrainBrief == ASSUME Base, Brief, Drain \/ Roll PROVE Brief'
<1>1. Underway /\ TypeOK /\ Tagged /\ caller \in {"Process", "Held", "Finish"}
  BY DrainUnderway, RollUnderway DEF Base, TypeOK, CallTypes
<1>2. caller' = caller /\ sent' = sent
  BY <1>1 DEF Underway, Returning, Proceeding, Holding
<1>3. CASE caller # "Process"
  BY <1>2, <1>3 DEF Brief
<1>4. CASE caller = "Process" /\ pc \in Draining \ {"Drain"}
  <2>1. Newest(ready)
    BY <1>4 DEF Brief, Draining
  <2> QED BY <1>1, <1>4, <2>1, NewestBrief
<1>5. CASE caller = "Process" /\ pc = "Drain"
  <2>1. pc \in Draining
    BY <1>5 DEF Draining
  <2>2. CASE Newest(ready)
    BY <1>1, <1>5, <2>1, <2>2, NewestBrief
  <2>3. CASE ~Newest(ready)
    <3>1. \/ queue["video"] = <<>> /\ pendingVideo = <<>> /\ SoundsFirst(ready)
          \/ queue["audio"] = <<>> /\ PicturesFirst(ready)
      BY <2>1, <2>3, <1>5 DEF Brief
    <3>2. ASSUME Return("ok", ready), DrainFrame, Unwritten PROVE Brief'
      <4>1. pc' = "Write" /\ ready' = ready
        BY <3>2, <1>5, Succeeds
      <4>2. UNCHANGED <<queue, pendingVideo>>
        BY <3>2 DEF DrainFrame, Unwritten
      <4> QED BY <4>1, <4>2, <1>2, <3>1 DEF Brief, SoundsFirst, PicturesFirst
    <3>3. CASE Decide
      <4>1. CASE Return("ok", ready)
        BY <4>1, <3>2, <3>3 DEF Decide
      <4>2. CASE ~Return("ok", ready)
        <5>1. (finish \/ Covered(boundary')) /\ queue["video"] # <<>>
          BY <1>1, <4>2, <3>3, Decides
        <5> QED BY <5>1, <3>1, <1>5 DEF finish, Covered
      <4> QED BY <4>1, <4>2
    <3>4. CASE LengthFails
      <4>1. Return("length", ready)
        BY <3>4 DEF LengthFails
      <4>2. ready' = <<>>
        BY <4>1, <1>5, Fails
      <4> QED BY <4>2, <1>2, NewestEmpty DEF Brief
    <3>5. CASE Drained
      BY <3>2, <3>5, <1>5, DrainWrites DEF finish
    <3>6. Decide \/ LengthFails \/ Drained
      BY <1>5 DEF Drain, Roll, WriteAudio, AudioWritten, WriteVideo, CreateNext, SealCurrent,
             RetireCurrent, OpenNext
    <3> QED BY <3>3, <3>4, <3>5, <3>6
  <2> QED BY <2>2, <2>3
<1>6. pc \in Draining
  BY DEF Drain, Roll, Decide, LengthFails, Drained, WriteAudio, AudioWritten, WriteVideo,
         CreateNext, SealCurrent, RetireCurrent, OpenNext, Draining
<1> QED BY <1>3, <1>4, <1>5, <1>6

\* Where a packet that is handed on leaves the call.
LEMMA HandsWhere ==
  ASSUME Base, NEW x, NEW rest, Hands(x, rest), ~trailerWritten, caller = "Process"
  PROVE  /\ pc' = "crashed" \/ (pc' \in {"Write", "Drain"} /\ ready' \in {rest, <<>>})
         /\ \A t \in Streams : t # x.stream => queue'[t] = queue[t]
<1>1. MuxPacket(x, rest) /\ x \in Packets /\ x.stream \in Streams
  BY PacketFields DEF Hands
<1>2. storageError \in BOOLEAN /\ queue \in [Streams -> Seq(Packets)]
  BY DEF Base, TypeOK, FlagTypes, QueueTypes
<1>3. ASSUME NEW e, Return(e, rest) PROVE pc' = "Write" /\ ready' \in {rest, <<>>}
  BY <1>3, Returns
<1>4. CASE Direct(x, rest)
  <2>1. Crashes \/ Writes(x, "return", rest) \/ Breaks(rest) \/ Refuses(x, rest)
    BY <1>2, <1>4, MuxRawCases DEF Direct
  <2>2. pc' = "crashed" \/ \E e : Return(e, rest)
    BY <2>1 DEF Crashes, Writes, Breaks, Refuses, Goto
  <2>3. queue' = queue
    BY <1>4 DEF Direct
  <2> QED BY <2>2, <2>3, <1>3
<1>5. CASE Overflows(rest)
  BY <1>3, <1>5 DEF Overflows
<1>6. CASE Queues(x, rest)
  BY <1>1, <1>2, <1>6 DEF Queues
<1> QED BY <1>1, <1>4, <1>5, <1>6, MuxPacketCases

\* Handling the next packet leaves the picture of this call at most.
LEMMA WritePacketBrief == ASSUME Base, Brief, WritePacket PROVE Brief'
<1> DEFINE x == Head(ready)
           rest == Tail(ready)
<1>1. /\ pc = "Write" /\ ready # <<>> /\ ~trailerWritten /\ pending = <<>>
      /\ caller = "Process" /\ x \in Packets /\ rest \in Seq(Packets)
      /\ UNCHANGED <<mode, sent, pending, part, segmentOrigin, segmentHasVideo, header,
                     trailerWritten, caller, shutdown, finalizing, finalized, result>>
      /\ \/ x.stream = "audio" /\ pendingVideo' = pendingVideo /\ Hands(x, rest)
         \/ /\ x.stream = "video" /\ pendingVideo # <<>> /\ pendingVideo' = <<>>
            /\ Hands(Head(pendingVideo), ready)
         \/ /\ x.stream = "video" /\ pendingVideo = <<>>
            /\ pendingVideo' = <<x>> /\ ready' = rest
            /\ UNCHANGED <<pc, roll, boundary, hr, failure, queue, storageError, parts, refused>>
  BY WritePackets
<1>2. TypeOK /\ Tagged /\ ready \in Seq(Packets)
  BY DEF Base, TypeOK, QueueTypes
<1>3. /\ Newest(ready) => Newest(rest)
      /\ SoundsFirst(ready) => SoundsFirst(rest)
      /\ PicturesFirst(ready) => PicturesFirst(rest)
      /\ SoundsFirst(ready) /\ x.stream = "video" => rest = <<>>
      /\ PicturesFirst(ready) /\ x.stream = "audio" => rest = <<>>
  BY <1>1, <1>2, BriefTail
<1>4. \/ Newest(ready)
      \/ rest = <<>> /\ x.stream = "audio"
      \/ queue["video"] = <<>> /\ pendingVideo = <<>> /\ SoundsFirst(ready)
      \/ queue["audio"] = <<>> /\ PicturesFirst(ready)
  BY <1>1 DEF Brief
<1>5. pendingVideo # <<>> => Head(pendingVideo).stream = "video"
  BY <1>2, Held1
<1> HIDE DEF x, rest
<1>6. ASSUME NEW q, ready' = q
      PROVE  /\ Newest(q) => Newest(ready)'
             /\ SoundsFirst(q) => SoundsFirst(ready)'
             /\ PicturesFirst(q) => PicturesFirst(ready)'
  <2>1. sent' = sent
    BY <1>1
  <2>2. Newest(q) => Newest(ready)'
    BY <2>1, <1>6 DEF Newest
  <2>3. SoundsFirst(q) => SoundsFirst(ready)'
    BY <2>1, <1>6 DEF SoundsFirst
  <2>4. PicturesFirst(q) => PicturesFirst(ready)'
    BY <2>1, <1>6 DEF PicturesFirst
  <2> QED BY <2>2, <2>3, <2>4
<1>7. ready' = <<>> => Brief'
  BY <1>1, NewestEmpty DEF Brief
<1>8. CASE x.stream = "audio" /\ pendingVideo' = pendingVideo /\ Hands(x, rest)
  <2>1. /\ pc' = "crashed" \/ (pc' \in {"Write", "Drain"} /\ ready' \in {rest, <<>>})
        /\ queue'["video"] = queue["video"]
    BY <1>1, <1>8, HandsWhere DEF Streams
  <2>2. CASE pc' = "crashed"
    BY <2>2 DEF Brief, Draining
  <2>3. CASE pc' \in {"Write", "Drain"} /\ ready' = rest /\ ready' # <<>>
    <3>1. Newest(ready)' \/ (queue'["video"] = <<>> /\ pendingVideo' = <<>> /\ SoundsFirst(ready)')
      BY <2>1, <2>3, <1>3, <1>4, <1>6, <1>8
    <3> QED BY <3>1, <2>3 DEF Brief
  <2> QED BY <2>1, <2>2, <2>3, <1>7
<1>9. CASE /\ x.stream = "video" /\ pendingVideo # <<>> /\ pendingVideo' = <<>>
           /\ Hands(Head(pendingVideo), ready)
  <2>1. /\ pc' = "crashed" \/ (pc' \in {"Write", "Drain"} /\ ready' \in {ready, <<>>})
        /\ queue'["audio"] = queue["audio"]
    BY <1>1, <1>5, <1>9, HandsWhere DEF Streams
  <2>2. CASE pc' = "crashed"
    BY <2>2 DEF Brief, Draining
  <2>3. CASE pc' \in {"Write", "Drain"} /\ ready' = ready /\ ready' # <<>>
    <3>1. Newest(ready)' \/ (queue'["audio"] = <<>> /\ PicturesFirst(ready)')
      BY <2>1, <2>3, <1>4, <1>6, <1>9
    <3> QED BY <3>1, <2>3 DEF Brief
  <2> QED BY <2>1, <2>2, <2>3, <1>7
<1>10. CASE /\ x.stream = "video" /\ pendingVideo = <<>> /\ pendingVideo' = <<x>> /\ ready' = rest
            /\ UNCHANGED <<pc, roll, boundary, hr, failure, queue, storageError, parts, refused>>
  <2>1. CASE ready' # <<>>
    <3>1. Newest(ready)' \/ (queue'["audio"] = <<>> /\ PicturesFirst(ready)')
      BY <2>1, <1>3, <1>4, <1>6, <1>10
    <3> QED BY <3>1, <1>1, <1>10 DEF Brief
  <2> QED BY <2>1, <1>7
<1> QED BY <1>1, <1>8, <1>9, <1>10

\* Process is called with a sample alone, or after those of the other stream.
LEMMA ProcessBrief ==
  ASSUME Base, Order, Causes, NEW s \in Streams, Process(s)
  PROVE  Brief'
<1>1. PICK p \in Packets :
           /\ p \in NextPackets(s) /\ p.stream = s
           /\ sent' = [sent EXCEPT ![s] = Append(@, p)]
           /\ pc = "idle" /\ ready = <<>> /\ caller = "Process"
           /\ ~shutdown /\ ~finalizing /\ ~finalized /\ failure = "ok" /\ ~trailerWritten
           /\ UNCHANGED <<mode, pendingVideo, queue, part, segmentOrigin, segmentHasVideo,
                          trailerWritten, caller, roll, boundary, hr, storageError, shutdown,
                          finalizing, finalized, result, parts, refused>>
           /\ \/ /\ pending = <<>> /\ pending' = pending /\ header' = header /\ failure' = failure
                 /\ ready' = <<p>> /\ pc' = "Write" /\ header
              \/ /\ pending' = Append(pending, p) /\ header' = header
                 /\ UNCHANGED <<pc, ready>> /\ ~header
              \/ /\ pending' = <<>> /\ header' = TRUE /\ failure' = failure
                 /\ ready' = Append(pending, p) /\ pc' = "Write" /\ ~header
                 /\ \A t \in Streams : sent'[t] # <<>>
  BY Processes
<1>2. TypeOK /\ Tagged /\ pending \in Seq(Packets) /\ sent \in [Streams -> Seq(Packets)]
      /\ queue \in [Streams -> Seq(Packets)] /\ pendingVideo \in Seq(Packets)
  BY DEF Base, TypeOK, QueueTypes
<1>3. Last(sent'[s]) = p
  <2>1. sent'[s] = Append(sent[s], p) /\ sent[s] \in Seq(Packets)
    BY <1>1, <1>2
  <2>2. /\ Len(Append(sent[s], p)) = Len(sent[s]) + 1
        /\ Append(sent[s], p)[Len(sent[s]) + 1] = p
    BY <2>1, RangeAppend
  <2> QED BY <2>1, <2>2 DEF Last
<1>4. CASE ready' = <<p>> /\ pc' = "Write"
  <2>1. CASE s = "video"
    <3>1. Newest(ready)'
      BY <2>1, <1>3, <1>4 DEF Newest, Range
    <3> QED BY <3>1 DEF Brief
  <2>2. CASE s = "audio"
    <3>1. Tail(<<p>>) = <<>> /\ Head(<<p>>) = p
      OBVIOUS
    <3> QED BY <3>1, <2>2, <1>1, <1>4 DEF Brief
  <2> QED BY <2>1, <2>2 DEF Streams
<1>5. CASE pc' = "idle"
  BY <1>5 DEF Brief, Draining
<1>6. CASE /\ ready' = Append(pending, p) /\ pc' = "Write" /\ ~header
           /\ \A t \in Streams : sent'[t] # <<>>
  <2>1. PICK u \in Streams : sent[u] = <<>>
    BY <1>1, <1>6 DEF Causes
  <2>2. u = s
    BY <2>1, <1>1, <1>2, <1>6
  <2>3. sent[s] = <<>> /\ Range(sent[s]) = {}
    BY <2>1, <2>2, RangeEmpty
  <2>4. \A x \in Delivered : x.stream # s
    BY <2>3, <1>2, Elements DEF Delivered, Streams
  <2>5. Queued \cup HeldBack \cup Waiting \subseteq Delivered
    BY DEF Order, Line, InLine
  <2>6. \A x \in Range(pending) : x.stream # s
    BY <2>4, <2>5 DEF Waiting
  <2> DEFINE a == Append(pending, p)
  <2>7. /\ a \in Seq(Packets) /\ Len(a) = Len(pending) + 1
        /\ \A i \in 1 .. Len(pending) : a[i] = pending[i]
        /\ a[Len(pending) + 1] = p
    BY <1>2, RangeAppend
  <2>8. /\ DOMAIN a = 1 .. Len(a) /\ Len(pending) \in Nat
        /\ \A i \in 1 .. Len(pending) : pending[i] \in Range(pending)
    BY <1>2, <2>7, LenProperties, RangeMembers
  <2> HIDE DEF a
  <2>9. \A i \in DOMAIN a : a[i].stream = s => i = Len(a) /\ a[i] = p
    <3>1. ASSUME NEW i \in DOMAIN a, a[i].stream = s PROVE i = Len(a)
      <4>1. i \in 1 .. Len(pending) => a[i].stream # s
        BY <2>6, <2>7, <2>8
      <4> QED BY <4>1, <3>1, <2>7, <2>8
    <3> QED BY <3>1, <2>7
  <2>10. \A t \in Streams : t = s => queue[t] = <<>>
    <3>1. ASSUME queue[s] # <<>> PROVE FALSE
      <4>1. queue[s] \in Seq(Packets)
        BY <1>2
      <4>2. Head(queue[s]) \in Range(queue[s])
        BY <3>1, <4>1, RangeTail
      <4>3. Head(queue[s]) \in Delivered
        BY <4>2, <2>5 DEF Queued, Streams
      <4>4. Head(queue[s]).stream = s
        BY <4>2, <1>2, Elements
      <4> QED BY <4>3, <4>4, <2>4
    <3> QED BY <3>1
  <2>11. CASE s = "video"
    <3>1. pendingVideo = <<>>
      <4>1. ASSUME pendingVideo # <<>> PROVE FALSE
        <5>1. Head(pendingVideo) \in HeldBack /\ Head(pendingVideo).stream = s
          BY <4>1, <2>11, <1>2, Held1 DEF HeldBack
        <5> QED BY <5>1, <2>4, <2>5
      <4> QED BY <4>1
    <3>2. SoundsFirst(ready)'
      BY <2>9, <2>11, <1>3, <1>6 DEF SoundsFirst, a
    <3> QED BY <3>1, <3>2, <2>10, <2>11, <1>1, <1>6 DEF Brief
  <2>12. CASE s = "audio"
    <3>1. PicturesFirst(ready)'
      BY <2>9, <2>12, <1>6 DEF PicturesFirst, a
    <3> QED BY <3>1, <2>10, <2>12, <1>1, <1>6 DEF Brief
  <2> QED BY <2>11, <2>12 DEF Streams
<1> QED BY <1>1, <1>4, <1>5, <1>6

\* Every step keeps what waits brief.
LEMMA StepBrief == ASSUME Base, Order, Causes, Brief, [Next]_vars PROVE Brief'
<1>1. CASE Drain \/ Roll
  BY <1>1, DrainBrief
<1>2. CASE WritePacket
  BY <1>2, WritePacketBrief
<1>3. ASSUME NEW s \in Streams, Process(s) PROVE Brief'
  BY <1>3, ProcessBrief
<1>4. CASE WriteHeld
  <2>1. caller' = "Held"
    BY <1>4, WriteHelds
  <2> QED BY <2>1 DEF Brief
<1>5. CASE Finalize \/ Resume
  <2>1. caller' # "Process" \/ pc' = "idle"
    BY <1>5 DEF Finalize, End, Goto, Resume
  <2> QED BY <2>1 DEF Brief, Draining
<1>6. CASE ProcessFails \/ ProcessReturns \/ BeginFinalize \/ SealedBefore \/ Seal \/ Shutdown
  <2>1. pc' = "idle" \/ pc' = "crashed"
    BY <1>6, Seals DEF ProcessFails, ProcessReturns, BeginFinalize, SealedBefore, End, Shutdown,
         Accepting, call
  <2> QED BY <2>1 DEF Brief, Draining
<1>7. CASE UNCHANGED vars
  BY <1>7 DEF Brief, Newest, SoundsFirst, PicturesFirst, vars, input, held, call
<1> QED BY <1>1, <1>2, <1>3, <1>4, <1>5, <1>6, <1>7 DEF Next

\* Nothing waits to begin with.
LEMMA InitBrief == ASSUME Init PROVE Brief
BY DEF Init, Brief, Draining
-----------------------------------------------------------------------------
(* The trailers of the files *)

Trailing ==
  \A k \in 1 .. Len(parts) : \A i \in 1 .. Len(parts[k].content) :
    parts[k].content[i].stream = "trailer" =>
      i = Len(parts[k].content) /\ (k < Len(parts) \/ trailerWritten)

Completed ==
  /\ \A k \in 1 .. Len(parts) - 1 : Complete(k)
  /\ pc \in {"Retire", "Open"} => Complete(Len(parts))

\* What a step may do to the files.
Untouched ==
  /\ parts' = parts /\ trailerWritten' = trailerWritten
  /\ pc' \in {"Retire", "Open"} => pc \in {"Retire", "Open"}
Filling ==
  /\ \E x \in Packets : parts' = Appended(x)
  /\ ~trailerWritten /\ trailerWritten' = trailerWritten /\ pc' \notin {"Retire", "Open"}
Sealing ==
  \E e : /\ parts' = Appended(Trailer(e)) /\ ~trailerWritten /\ trailerWritten'
         /\ pc' \in {"Retire", "Open"} => e = "ok"
Opening ==
  /\ \E o \in Int : parts' = Append(parts, [origin |-> o, content |-> <<>>])
  /\ pc = "Open" /\ pc' \notin {"Retire", "Open"}
Crashing == parts' = parts /\ trailerWritten' /\ pc' = "crashed"

\* A packet into the current file.
LEMMA RawFiles ==
  ASSUME Base, NEW x \in Packets, NEW next, NEW rest,
         Crashes \/ Writes(x, next, rest) \/ Breaks(rest) \/ Refuses(x, rest),
         next \notin {"Retire", "Open"}, ~trailerWritten, trailerWritten' = trailerWritten
  PROVE  Untouched \/ Filling
<1>1. ASSUME NEW e, Return(e, rest) PROVE pc' \notin {"Retire", "Open"}
  BY <1>1, Returns DEF Base, TypeOK, CallTypes
<1>2. CASE Crashes
  BY <1>2 DEF Crashes, Goto, Untouched
<1>3. CASE Writes(x, next, rest)
  <2>1. parts' = Appended(x) /\ (Return("ok", rest) \/ Goto(next))
    BY <1>3 DEF Writes
  <2>2. pc' \notin {"Retire", "Open"}
    BY <2>1, <1>1 DEF Goto
  <2> QED BY <2>1, <2>2 DEF Filling
<1>4. CASE Breaks(rest)
  BY <1>1, <1>4 DEF Breaks, Untouched
<1>5. CASE Refuses(x, rest)
  BY <1>1, <1>5 DEF Refuses, Untouched
<1> QED BY <1>2, <1>3, <1>4, <1>5

\* A packet handed to the muxer goes to the current file or to none.
LEMMA HandsFiles ==
  ASSUME Base, NEW x, NEW rest, Hands(x, rest), ~trailerWritten
  PROVE  Untouched \/ Filling
<1>1. MuxPacket(x, rest) /\ x \in Packets /\ trailerWritten' = trailerWritten
  BY DEF Hands
<1>2. storageError \in BOOLEAN
  BY DEF Base, TypeOK, FlagTypes
<1>3. CASE Direct(x, rest)
  <2>1. Crashes \/ Writes(x, "return", rest) \/ Breaks(rest) \/ Refuses(x, rest)
    BY <1>2, <1>3, MuxRawCases DEF Direct
  <2> QED BY <2>1, <1>1, RawFiles
<1>4. CASE Overflows(rest)
  <2>1. pc' \notin {"Retire", "Open"}
    BY <1>4, Returns DEF Overflows, Base, TypeOK, CallTypes
  <2> QED BY <2>1, <1>1, <1>4 DEF Overflows, Untouched
<1>5. CASE Queues(x, rest)
  BY <1>1, <1>5 DEF Queues, Untouched
<1> QED BY <1>1, <1>3, <1>4, <1>5, MuxPacketCases

\* So does each packet that DrainSegments writes.
LEMMA DrainFiles == ASSUME Base, Drain PROVE Untouched \/ Filling
<1>1. storageError \in BOOLEAN /\ TypeOK /\ Tagged /\ caller \in {"Process", "Held", "Finish"}
  BY DEF Base, TypeOK, FlagTypes, CallTypes
<1>2. ASSUME NEW s \in Streams, NEW next \in {"Audio", "Drain"}, DrainWrite(s, next),
             pc \in {"Drain", "Audio", "Video"}
      PROVE  Untouched \/ Filling
  <2>1. /\ MuxRaw(Head(queue[s]), next, ready) /\ ~trailerWritten
        /\ trailerWritten' = trailerWritten /\ Pop(s) /\ queue[s] # <<>>
    BY <1>2 DEF DrainWrite, Base, Control
  <2>2. \/ Crashes \/ Writes(Head(queue[s]), next, ready) \/ Breaks(ready)
        \/ Refuses(Head(queue[s]), ready)
    BY <1>1, <2>1, MuxRawCases
  <2>3. Head(queue[s]) \in Packets
    BY <1>1, <2>1, QueuePop
  <2> QED BY <2>1, <2>2, <2>3, RawFiles
<1>3. ASSUME NEW e, Return(e, ready), DrainFrame, Unwritten PROVE Untouched
  <2>1. pc' \notin {"Retire", "Open"}
    BY <1>1, <1>3, Returns
  <2> QED BY <2>1, <1>3 DEF DrainFrame, Unwritten, Untouched, segment
<1>4. CASE Decide
  <2>1. CASE Return("ok", ready)
    BY <2>1, <1>3, <1>4 DEF Decide
  <2>2. CASE ~Return("ok", ready)
    <3>1. pc' = "Audio" /\ DrainFrame /\ Unwritten
      BY <1>1, <1>4, <2>2, Decides
    <3> QED BY <3>1 DEF DrainFrame, Unwritten, Untouched, segment
  <2> QED BY <2>1, <2>2
<1>5. CASE LengthFails
  BY <1>3, <1>5 DEF LengthFails
<1>6. CASE AudioWritten
  BY <1>6 DEF AudioWritten, Goto, Untouched, DrainFrame, Unwritten, segment
<1>7. CASE WriteAudio \/ WriteVideo
  BY <1>2, <1>7, DrainWrites DEF Streams
<1>8. CASE Drained
  <2>1. CASE finish /\ queue["audio"] # <<>>
    BY <2>1, <1>2, <1>8, DrainWrites DEF Streams
  <2>2. CASE ~(finish /\ queue["audio"] # <<>>)
    BY <2>2, <1>3, <1>8, DrainWrites
  <2> QED BY <2>1, <2>2
<1> QED BY <1>4, <1>5, <1>6, <1>7, <1>8 DEF Drain

\* RollSegment also ends a file and begins the next.
LEMMA RollFiles == ASSUME Base, Roll PROVE Untouched \/ Sealing \/ Opening
<1>1. caller \in {"Process", "Held", "Finish"} /\ TypeOK /\ Tagged /\ Control
  BY DEF Base, TypeOK, CallTypes
<1>2. ASSUME NEW e, Return(e, ready) PROVE pc' \notin {"Retire", "Open"}
  BY <1>1, <1>2, Returns
<1>3. CASE CreateNext
  BY <1>2, <1>3 DEF CreateNext, Goto, Untouched, segment
<1>4. CASE RetireCurrent
  BY <1>2, <1>4 DEF RetireCurrent, Goto, Untouched, segment
<1>5. CASE SealCurrent
  <2>1. PICK e \in Outcomes : /\ parts' = Appended(Trailer(e))
                              /\ IF e = "ok" THEN Goto("Retire") ELSE Return(e, ready)
    BY <1>5 DEF SealCurrent
  <2>2. pc = "Trailer" /\ trailerWritten' = TRUE
    BY <1>5 DEF SealCurrent
  <2>3. ~trailerWritten
    BY <2>2, <1>1 DEF Control
  <2>4. e # "ok" => pc' \notin {"Retire", "Open"}
    BY <1>2, <2>1
  <2> QED BY <2>1, <2>2, <2>3, <2>4 DEF Sealing
<1>6. CASE OpenNext
  <2>1. /\ pc = "Open" /\ parts' = Append(parts, [origin |-> video.pts, content |-> <<>>])
        /\ pc' = "Video" \/ Return("open", ready)
    BY <1>6 DEF OpenNext, Goto
  <2>2. video.pts \in Int
    BY <2>1, <1>1, VideoHead, PacketFields DEF Control, Draining
  <2> QED BY <2>1, <2>2, <1>2 DEF Opening
<1> QED BY <1>3, <1>4, <1>5, <1>6 DEF Roll

\* No step does anything else to the files.
LEMMA StepFiles ==
  ASSUME Base, [Next]_vars
  PROVE  Untouched \/ Filling \/ Sealing \/ Opening \/ Crashing
<1>1. CASE Drain \/ Roll
  BY <1>1, DrainFiles, RollFiles
<1>2. CASE WritePacket
  <2>1. CASE Hands(Head(ready), Tail(ready)) \/ Hands(Head(pendingVideo), ready)
    <3>1. ~trailerWritten
      BY <1>2, WritePackets
    <3> QED BY <2>1, <3>1, HandsFiles
  <2>2. CASE ~(Hands(Head(ready), Tail(ready)) \/ Hands(Head(pendingVideo), ready))
    BY <1>2, <2>2, WritePackets DEF Untouched
  <2> QED BY <2>1, <2>2
<1>3. CASE WriteHeld
  <2>1. ~trailerWritten /\ caller = "Held" /\ trailerWritten' = trailerWritten
    BY <1>3, WriteHelds
  <2>2. CASE Hands(Head(pendingVideo), ready)
    BY <2>1, <2>2, HandsFiles
  <2>3. CASE ~Hands(Head(pendingVideo), ready)
    <3>1. Return("ok", ready) /\ Unwritten
      BY <1>3, <2>3, WriteHelds
    <3>2. pc' = "Resume"
      BY <3>1, <2>1, Succeeds
    <3> QED BY <2>1, <3>1, <3>2 DEF Unwritten, Untouched
  <2> QED BY <2>2, <2>3
<1>4. ASSUME NEW s \in Streams, Process(s) PROVE Untouched
  <2>1. UNCHANGED <<parts, trailerWritten>> /\ (pc' = "Write" \/ pc' = pc)
    BY <1>4 DEF Process
  <2> QED BY <2>1 DEF Untouched
<1>5. CASE ProcessFails \/ ProcessReturns \/ BeginFinalize \/ Finalize \/ Resume \/ SealedBefore
  <2>1. UNCHANGED <<parts, trailerWritten>>
    BY <1>5 DEF ProcessFails, ProcessReturns, BeginFinalize, Finalize, Resume, SealedBefore,
         FinalizeFrame, End, Goto, segment
  <2>2. pc' \notin {"Retire", "Open"}
    BY <1>5 DEF ProcessFails, ProcessReturns, BeginFinalize, Finalize, Resume, SealedBefore,
         End, Goto, call, Accepting
  <2> QED BY <2>1, <2>2 DEF Untouched
<1>6. CASE Seal
  <2>1. /\ ~trailerWritten /\ trailerWritten' = TRUE
        /\ \/ pc' = "crashed" /\ parts' = parts
           \/ pc' = "idle" /\ \E e : parts' = Appended(Trailer(e))
    BY <1>6, Seals
  <2> QED BY <2>1 DEF Crashing, Sealing
<1>7. CASE Shutdown
  BY <1>7 DEF Shutdown, Untouched, segment, call
<1>8. CASE UNCHANGED vars
  BY <1>8 DEF vars, Untouched, segment, call
<1> QED BY <1>1, <1>2, <1>3, <1>4, <1>5, <1>6, <1>7, <1>8 DEF Next

\* One more element at the end of the current file.
LEMMA AppendedLast ==
  ASSUME TypeOK, NEW x \in Content, parts' = Appended(x)
  PROVE  /\ Len(parts') = Len(parts) /\ part = Len(parts) /\ part \in 1 .. Len(parts)
         /\ \A k \in 1 .. Len(parts) : k # part => parts'[k] = parts[k]
         /\ Len(parts[part].content) \in Nat
         /\ Len(parts'[part].content) = Len(parts[part].content) + 1
         /\ \A i \in 1 .. Len(parts[part].content) :
              parts'[part].content[i] = parts[part].content[i]
         /\ parts'[part].content[Len(parts[part].content) + 1] = x
         /\ parts'[part].content # <<>> /\ Last(parts'[part].content) = x
<1>1. /\ Len(parts') = Len(parts)
      /\ \A k \in 1 .. Len(parts) : k # part => parts'[k] = parts[k]
      /\ parts'[part].content = Append(parts[part].content, x)
  BY FileAppended
<1>2. part = Len(parts) /\ part \in 1 .. Len(parts) /\ parts[part].content \in Seq(Content)
  BY FiledIs DEF TypeOK, FileTypes
<1> DEFINE c == parts[part].content
           a == Append(c, x)
<1>3. /\ a \in Seq(Content) /\ Len(a) = Len(c) + 1 /\ Len(c) \in Nat
      /\ \A i \in 1 .. Len(c) : a[i] = c[i]
      /\ a[Len(c) + 1] = x
  BY <1>2, RangeAppend, LenProperties
<1>4. parts'[part].content = a
  BY <1>1
<1> HIDE DEF c, a
<1>5. a # <<>>
  <2>1. Len(a) # 0
    BY <1>3
  <2> QED BY <2>1, <1>3, EmptySeq
<1>6. Last(a) = x
  BY <1>3 DEF Last
<1> QED BY <1>1, <1>2, <1>3, <1>4, <1>5, <1>6 DEF c

\* A file that a trailer without an error ends is complete.
LEMMA TrailerComplete ==
  ASSUME TypeOK, NEW e, parts' = Appended(Trailer(e)), e = "ok"
  PROVE  Complete(Len(parts))'
<1>1. Trailer(e) \in Content
  BY TrailerTypes
<1>2. /\ Len(parts') = part
      /\ parts'[part].content # <<>> /\ Last(parts'[part].content) = Trailer(e)
  BY <1>1, AppendedLast
<1>3. Trailer(e).stream = "trailer" /\ Trailer(e).complete
  BY DEF Trailer
<1> QED BY <1>2, <1>3 DEF Complete

\* A trailer ends its file, and a file is replaced with its trailer complete.
LEMMA StepTrailing ==
  ASSUME Base, Trailing, Completed, [Next]_vars
  PROVE  Trailing' /\ Completed'
<1>1. TypeOK /\ part = Len(parts) /\ Len(parts) \in Nat /\ part \in 1 .. Len(parts)
  BY FiledIs DEF Base, TypeOK, FileTypes
<1>2. Untouched \/ Filling \/ Sealing \/ Opening \/ Crashing
  BY StepFiles
<1>3. CASE Untouched
  BY <1>3 DEF Untouched, Trailing, Completed, Complete
<1>4. CASE Crashing
  BY <1>4 DEF Crashing, Trailing, Completed, Complete
<1>5. ASSUME NEW x \in Content, parts' = Appended(x), ~trailerWritten,
             x.stream = "trailer" => trailerWritten'
      PROVE  Trailing' /\ \A k \in 1 .. Len(parts') - 1 : Complete(k)'
  <2> DEFINE c == parts[part].content
             d == parts'[part].content
             n == Len(c)
  <2>1. /\ Len(parts') = Len(parts)
        /\ \A k \in 1 .. Len(parts) : k # part => parts'[k] = parts[k]
        /\ n \in Nat /\ Len(d) = n + 1
        /\ \A i \in 1 .. n : d[i] = c[i]
        /\ d[n + 1] = x
    BY <1>1, <1>5, AppendedLast
  <2>2. ASSUME NEW i \in 1 .. n PROVE c[i].stream # "trailer"
    BY <1>1, <1>5, <2>2 DEF Trailing
  <2>3. ASSUME NEW k \in 1 .. Len(parts'), NEW i \in 1 .. Len(parts'[k].content),
               parts'[k].content[i].stream = "trailer"
        PROVE  i = Len(parts'[k].content) /\ (k < Len(parts') \/ trailerWritten')
    <3>1. CASE k = part
      <4>1. i \in 1 .. n \/ i = n + 1
        BY <2>1, <2>3, <3>1
      <4>2. i \notin 1 .. n
        BY <2>1, <2>2, <2>3, <3>1
      <4> QED BY <4>1, <4>2, <2>1, <2>3, <3>1, <1>5
    <3>2. CASE k # part
      <4>1. k \in 1 .. Len(parts) /\ k < Len(parts) /\ parts'[k] = parts[k]
        BY <2>1, <3>2, <1>1
      <4> QED BY <4>1, <2>1, <2>3 DEF Trailing
    <3> QED BY <3>1, <3>2
  <2>4. ASSUME NEW k \in 1 .. Len(parts') - 1 PROVE Complete(k)'
    <3>1. k \in 1 .. Len(parts) /\ k # part /\ k \in 1 .. Len(parts) - 1
      BY <2>1, <1>1
    <3>2. parts'[k] = parts[k]
      BY <3>1, <2>1
    <3> QED BY <3>1, <3>2 DEF Completed, Complete
  <2> QED BY <2>3, <2>4 DEF Trailing
<1>6. CASE Filling
  <2>1. PICK x \in Packets : parts' = Appended(x)
    BY <1>6 DEF Filling
  <2>2. ~trailerWritten /\ pc' \notin {"Retire", "Open"}
    BY <1>6 DEF Filling
  <2>3. x \in Content /\ x.stream # "trailer"
    BY PacketFields DEF Content, Streams
  <2> QED BY <2>1, <2>2, <2>3, <1>5 DEF Completed
<1>7. CASE Sealing
  <2>1. PICK e : /\ parts' = Appended(Trailer(e)) /\ ~trailerWritten /\ trailerWritten'
                 /\ pc' \in {"Retire", "Open"} => e = "ok"
    BY <1>7 DEF Sealing
  <2>2. Trailing' /\ \A k \in 1 .. Len(parts') - 1 : Complete(k)'
    BY <2>1, <1>5, TrailerTypes
  <2>3. pc' \in {"Retire", "Open"} => Complete(Len(parts))'
    BY <2>1, <1>1, TrailerComplete
  <2> QED BY <2>2, <2>3 DEF Completed
<1>8. CASE Opening
  <2>1. PICK o \in Int : parts' = Append(parts, [origin |-> o, content |-> <<>>])
    BY <1>8 DEF Opening
  <2>2. pc = "Open" /\ pc' \notin {"Retire", "Open"}
    BY <1>8 DEF Opening
  <2>3. /\ Len(parts') = Len(parts) + 1
        /\ \A k \in 1 .. Len(parts) : parts'[k] = parts[k]
        /\ parts'[Len(parts) + 1] = [origin |-> o, content |-> <<>>]
    BY <2>1, <1>1, FileOpened
  <2>4. parts'[Len(parts) + 1].content = <<>>
    BY <2>3
  <2>5. ASSUME NEW k \in 1 .. Len(parts'), NEW i \in 1 .. Len(parts'[k].content),
               parts'[k].content[i].stream = "trailer"
        PROVE  i = Len(parts'[k].content) /\ (k < Len(parts') \/ trailerWritten')
    <3>1. CASE k = Len(parts) + 1
      <4>1. Len(parts'[k].content) = 0
        BY <2>4, <3>1
      <4> QED BY <4>1, <2>5
    <3>2. CASE k # Len(parts) + 1
      <4>1. k \in 1 .. Len(parts) /\ k < Len(parts') /\ parts'[k] = parts[k]
        BY <2>3, <3>2, <1>1
      <4> QED BY <4>1, <2>5 DEF Trailing
    <3> QED BY <3>1, <3>2
  <2>6. ASSUME NEW k \in 1 .. Len(parts') - 1 PROVE Complete(k)'
    <3>1. k \in 1 .. Len(parts) /\ (k = Len(parts) \/ k \in 1 .. Len(parts) - 1)
      BY <2>3, <1>1
    <3>2. parts'[k] = parts[k]
      BY <3>1, <2>3
    <3>3. Complete(k)
      BY <3>1, <2>2 DEF Completed
    <3> QED BY <3>2, <3>3 DEF Complete
  <2> QED BY <2>2, <2>5, <2>6 DEF Trailing, Completed
<1> QED BY <1>2, <1>3, <1>4, <1>6, <1>7, <1>8

\* The first file has no trailer to begin with.
LEMMA InitTrailing == ASSUME Init PROVE Trailing /\ Completed
<1>1. Len(parts) = 1 /\ parts[1].content = <<>> /\ Len(parts[1].content) = 0 /\ pc = "idle"
  BY DEF Init
<1> QED BY <1>1 DEF Trailing, Completed
-----------------------------------------------------------------------------
(* What is lost *)

Good == hr = "ok" /\ ~shutdown /\ pc # "crashed"

\* Nothing is lost or refused without an error; and by a part that could not be made
\* only the picture that Process was called with.
NoneLost ==
  /\ failure = "ok" /\ hr = "ok" => refused = {}
  /\ Good /\ failure = "ok" => Lost = {}
  /\ Good /\ failure = "create" /\ refused = {} =>
       sent["video"] # <<>> /\ Lost \subseteq {Last(sent["video"])}

\* A step loses nothing; or leaves an error; or nothing goes on after it.
Saves  == /\ UNCHANGED <<sent, refused, failure, hr, shutdown>> /\ pc # "crashed"
          /\ Lost' \subseteq Lost
Spoils == failure' \notin {"ok", "create"} \/ hr' # "ok"
Stops  == (shutdown' \/ pc' = "crashed") /\ UNCHANGED <<refused, failure, hr>>

\* Each of the three keeps NoneLost.
LEMMA KeepsNoneLost ==
  ASSUME NoneLost, Saves \/ Spoils \/ Stops
  PROVE  NoneLost'
<1>1. CASE Saves
  <2>1. Good' => Good
    BY <1>1 DEF Saves, Good
  <2>2. UNCHANGED <<sent, refused, failure, hr>> /\ Lost' \subseteq Lost
    BY <1>1 DEF Saves
  <2>3. failure' = "ok" /\ hr' = "ok" => refused' = {}
    BY <2>2 DEF NoneLost
  <2>4. Good' /\ failure' = "ok" => Lost' = {}
    BY <2>1, <2>2 DEF NoneLost
  <2>5. Good' /\ failure' = "create" /\ refused' = {} =>
          sent'["video"] # <<>> /\ Lost' \subseteq {Last(sent'["video"])}
    BY <2>1, <2>2 DEF NoneLost
  <2> QED BY <2>3, <2>4, <2>5 DEF NoneLost
<1>2. CASE Spoils
  BY <1>2 DEF Spoils, NoneLost, Good
<1>3. CASE Stops
  <2>1. ~Good'
    BY <1>3 DEF Stops, Good
  <2>2. UNCHANGED <<refused, failure, hr>>
    BY <1>3 DEF Stops
  <2> QED BY <2>1, <2>2 DEF NoneLost
<1> QED BY <1>1, <1>2, <1>3

\* Each error but one spoils the recording; that one does so in Finalize.
LEMMA ReturnSpoils ==
  ASSUME Base, NEW e, NEW rest, Return(e, rest), e # "ok",
         e # "create" \/ caller # "Process"
  PROVE  Spoils
<1>1. \/ caller = "Process" /\ failure' = e
      \/ hr' = e
  BY Fails DEF Base, TypeOK, CallTypes
<1> QED BY <1>1 DEF Spoils

\* What is still somewhere is not lost.
LEMMA StillThere ==
  ASSUME Delivered' = Delivered,
         Filed \cup refused \cup Queued \cup HeldBack \cup Waiting
           \subseteq Filed' \cup refused' \cup Queued' \cup HeldBack' \cup Waiting'
  PROVE  Lost' \subseteq Lost
BY DEF Lost, Kept

\* A packet into the current file: none is lost unless there is an error.
LEMMA RawSaves ==
  ASSUME Base, Order, NEW x \in Packets, NEW next, NEW rest,
         Crashes \/ Writes(x, next, rest) \/ Breaks(rest) \/ Refuses(x, rest),
         x \in Queued \cup HeldBack \cup Waiting, pc # "crashed",
         pending = <<>>, UNCHANGED <<sent, pending, shutdown>>,
         caller # "Process" \/ next # "return" => rest = ready,
         Queued \cup HeldBack \cup Range(ready)
           \subseteq {x} \cup Queued' \cup HeldBack' \cup Range(rest)
  PROVE  Saves \/ Spoils \/ Stops
<1>1. InOrder /\ Before(Filed, Queued \cup HeldBack \cup Waiting) /\ TypeOK
      /\ caller \in {"Process", "Held", "Finish"}
  BY DEF Order, Line, InLine, Base, TypeOK, CallTypes
<1>2. CASE Crashes
  BY <1>2 DEF Crashes, Goto, Stops
<1>3. CASE Breaks(rest)
  BY <1>3, ReturnSpoils DEF Breaks
<1>4. CASE Refuses(x, rest)
  BY <1>4, ReturnSpoils DEF Refuses
<1>5. CASE Writes(x, next, rest)
  <2>1. /\ parts' = Appended(x) /\ refused' = refused
        /\ Return("ok", rest) \/ (next # "return" /\ Goto(next))
    BY <1>5 DEF Writes
  <2>2. ready' = rest /\ failure' = failure /\ hr' = hr
    <3>1. CASE Return("ok", rest)
      BY <3>1, <1>1, Succeeds
    <3>2. CASE next # "return" /\ Goto(next)
      BY <3>2 DEF Goto
    <3> QED BY <2>1, <3>1, <3>2
  <2>3. Before(Filed, {x}) /\ x \in Content /\ x.stream \in Streams
    BY <1>1, PacketFields DEF Before, Content
  <2>4. Filed' = Filed \cup {x}
    BY <1>1, <2>1, <2>3, FiledAppended
  <2>5. Waiting = Range(ready) /\ Waiting' = Range(rest)
    BY <2>2, RangeEmpty DEF Waiting
  <2>6. Lost' \subseteq Lost
    <3>1. Delivered' = Delivered
      BY DEF Delivered
    <3>2. Filed \cup refused \cup Queued \cup HeldBack \cup Waiting
            \subseteq Filed' \cup refused' \cup Queued' \cup HeldBack' \cup Waiting'
      BY <2>1, <2>4, <2>5
    <3> QED BY <3>1, <3>2, StillThere
  <2> QED BY <2>1, <2>2, <2>6 DEF Saves
<1> QED BY <1>2, <1>3, <1>4, <1>5

\* Every packet stays where it is.
LEMMA StaySaves ==
  ASSUME Order, UNCHANGED <<sent, queue, pendingVideo, pending, ready, refused, failure, hr,
                            shutdown>>, pc # "crashed", Filed' = Filed
  PROVE  Saves
<1>1. /\ Queued' = Queued /\ HeldBack' = HeldBack /\ Waiting' = Waiting /\ Delivered' = Delivered
  BY DEF Queued, HeldBack, Waiting, Delivered
<1>2. Lost' \subseteq Lost
  BY <1>1, StillThere
<1> QED BY <1>2 DEF Saves

\* A packet is handed to the muxer.
LEMMA HandsSaves ==
  ASSUME Base, Order, NEW x, NEW rest, Hands(x, rest), ~trailerWritten, pc # "crashed",
         pending = <<>>, x \in HeldBack \cup Waiting,
         caller # "Process" => rest = ready,
         HeldBack \cup Range(ready) \subseteq {x} \cup HeldBack' \cup Range(rest)
  PROVE  Saves \/ Spoils \/ Stops
<1>1. /\ x \in Packets /\ x.stream \in Streams /\ MuxPacket(x, rest)
      /\ UNCHANGED <<mode, sent, pending, caller, shutdown>>
  BY PacketFields DEF Hands
<1>2. storageError \in BOOLEAN /\ TypeOK /\ Tagged
  BY DEF Base, TypeOK, FlagTypes
<1>3. CASE Direct(x, rest)
  <2>1. Crashes \/ Writes(x, "return", rest) \/ Breaks(rest) \/ Refuses(x, rest)
    BY <1>2, <1>3, MuxRawCases DEF Direct
  <2>2. Queued' = Queued
    BY <1>3 DEF Direct, Queued
  <2> QED BY <2>1, <2>2, <1>1, RawSaves
<1>4. CASE Overflows(rest)
  BY <1>4, ReturnSpoils DEF Overflows
<1>5. CASE Queues(x, rest)
  <2>1. /\ queue' = [queue EXCEPT ![x.stream] = Append(@, x)] /\ ready' = rest
        /\ UNCHANGED <<hr, failure, parts, refused>>
    BY <1>5 DEF Queues
  <2> DEFINE s == x.stream
  <2>2. s \in Streams /\ s = x.stream /\ queue' = [queue EXCEPT ![s] = Append(@, x)]
    BY <2>1, <1>1
  <2> HIDE DEF s
  <2>3. /\ \A t \in Streams : t # s => queue'[t] = queue[t]
        /\ Range(queue'[s]) = Range(queue[s]) \cup {x}
    BY <2>2, <1>1, <1>2, QueueAppend
  <2>4. Queued' = {x} \cup Queued
    BY <2>2, <2>3 DEF Queued, Streams
  <2>5. Waiting = Range(ready) /\ Waiting' = Range(rest)
    BY <2>1, <1>1, RangeEmpty DEF Waiting
  <2>6. Filed' = Filed /\ Delivered' = Delivered
    BY <2>1, <1>1 DEF Filed, Delivered
  <2>7. Filed \cup refused \cup Queued \cup HeldBack \cup Waiting
          \subseteq Filed' \cup refused' \cup Queued' \cup HeldBack' \cup Waiting'
    BY <2>1, <2>4, <2>5, <2>6
  <2>8. Lost' \subseteq Lost
    BY <2>6, <2>7, StillThere
  <2> QED BY <2>1, <2>8, <1>1 DEF Saves
<1> QED BY <1>1, <1>3, <1>4, <1>5, MuxPacketCases

\* DrainSegments loses nothing without an error.
LEMMA DrainSaves == ASSUME Base, Order, Drain PROVE Saves \/ Spoils \/ Stops
<1>1. TypeOK /\ Tagged /\ storageError \in BOOLEAN /\ caller \in {"Process", "Held", "Finish"}
  BY DEF Base, TypeOK, FlagTypes, CallTypes
<1>2. ASSUME NEW s \in Streams, NEW next \in {"Audio", "Drain"}, DrainWrite(s, next),
             pc \in {"Drain", "Audio", "Video"}
      PROVE  Saves \/ Spoils \/ Stops
  <2> DEFINE y == Head(queue[s])
  <2>1. /\ queue[s] # <<>> /\ MuxRaw(y, next, ready) /\ Pop(s)
        /\ UNCHANGED <<sent, pending, pendingVideo, shutdown>>
    BY <1>2 DEF DrainWrite
  <2>2. ~trailerWritten /\ pc # "crashed" /\ pending = <<>>
    BY <1>2 DEF Base, Control
  <2>3. Crashes \/ Writes(y, next, ready) \/ Breaks(ready) \/ Refuses(y, ready)
    BY <1>1, <2>1, <2>2, MuxRawCases
  <2>4. Queued = {y} \cup Queued' /\ y \in Packets
    BY <2>1, QueueFront
  <2> HIDE DEF y
  <2>5. HeldBack' = HeldBack
    BY <2>1 DEF HeldBack
  <2>6. y \in Queued \cup HeldBack \cup Waiting
    BY <2>4
  <2>7. Queued \cup HeldBack \cup Range(ready)
          \subseteq {y} \cup Queued' \cup HeldBack' \cup Range(ready)
    BY <2>4, <2>5
  <2> QED BY <2>1, <2>2, <2>3, <2>4, <2>6, <2>7, RawSaves
<1>3. ASSUME NEW e, Return(e, ready), DrainFrame, Unwritten, pc = "Drain", e # "create"
      PROVE  Saves \/ Spoils \/ Stops
  <2>1. CASE e # "ok"
    BY <2>1, <1>3, ReturnSpoils
  <2>2. CASE e = "ok"
    <3>1. UNCHANGED <<failure, hr, ready>>
      BY <1>1, <1>3, <2>2, Succeeds
    <3>2. UNCHANGED <<sent, queue, pendingVideo, pending, refused, shutdown, parts>>
      BY <1>3 DEF DrainFrame, Unwritten, input
    <3> QED BY <3>1, <3>2, <1>3, SameFiles, StaySaves
  <2> QED BY <2>1, <2>2
<1>4. CASE Decide
  <2>1. CASE Return("ok", ready)
    BY <2>1, <1>3, <1>4 DEF Decide
  <2>2. CASE ~Return("ok", ready)
    <3>1. pc = "Drain" /\ UNCHANGED <<ready, hr, failure>> /\ DrainFrame /\ Unwritten
      BY <1>1, <1>4, <2>2, Decides
    <3>2. UNCHANGED <<sent, queue, pendingVideo, pending, refused, shutdown, parts>>
      BY <3>1 DEF DrainFrame, Unwritten, input
    <3> QED BY <3>1, <3>2, SameFiles, StaySaves
  <2> QED BY <2>1, <2>2
<1>5. CASE LengthFails
  BY <1>3, <1>5 DEF LengthFails
<1>6. CASE AudioWritten
  <2>1. /\ pc = "Audio"
        /\ UNCHANGED <<sent, queue, pendingVideo, pending, ready, refused, failure, hr, shutdown,
                       parts>>
    BY <1>6 DEF AudioWritten, Goto, DrainFrame, Unwritten, input
  <2> QED BY <2>1, SameFiles, StaySaves
<1>7. CASE WriteAudio \/ WriteVideo
  BY <1>2, <1>7, DrainWrites DEF Streams
<1>8. CASE Drained
  <2>1. CASE finish /\ queue["audio"] # <<>>
    BY <2>1, <1>2, <1>8, DrainWrites DEF Streams
  <2>2. CASE ~(finish /\ queue["audio"] # <<>>)
    BY <2>2, <1>3, <1>8, DrainWrites
  <2> QED BY <2>1, <2>2
<1> QED BY <1>4, <1>5, <1>6, <1>7, <1>8 DEF Drain

\* A part that cannot be made costs the picture that waits.
LEMMA CreateLoses ==
  ASSUME Base, Order, Causes, Brief, NoneLost, pc = "Create", caller = "Process",
         Return("create", ready), RollFrame, parts' = parts
  PROVE  NoneLost'
<1>1. /\ failure' = "create" /\ ready' = <<>> /\ hr' = hr
  BY Fails DEF Base, TypeOK, CallTypes
<1>2. UNCHANGED <<sent, queue, pendingVideo, pending, refused>>
  BY DEF RollFrame, input, held
<1>3. failure = "ok" /\ ~shutdown /\ hr = "ok"
  BY DEF Base, Control, Calls, Rolling, Causes
<1>4. Lost = {}
  BY <1>3 DEF NoneLost, Good
<1>5. Newest(ready)
  BY DEF Brief, Draining
<1>6. /\ Filed' = Filed /\ Queued' = Queued /\ HeldBack' = HeldBack /\ Delivered' = Delivered
      /\ Waiting \subseteq Range(ready) \cup Waiting'
  BY <1>1, <1>2, SameFiles DEF Queued, HeldBack, Delivered, Waiting
<1>7. Lost' \subseteq Range(ready)
  BY <1>2, <1>4, <1>6 DEF Lost, Kept
<1>8. Lost' \subseteq {Last(sent'["video"])}
  BY <1>2, <1>5, <1>7 DEF Newest
<1>9. sent["video"] # <<>>
  <2>1. queue["video"] # <<>> /\ TypeOK /\ Tagged
    BY DEF Base, Control, Draining
  <2>2. queue["video"] \in Seq(Packets) /\ sent["video"] \in Seq(Packets)
    BY <2>1, Elements DEF Streams
  <2>3. Head(queue["video"]) \in Range(queue["video"])
    BY <2>1, <2>2, RangeTail
  <2>4. Head(queue["video"]).stream = "video" /\ Head(queue["video"]) \in Queued
    BY <2>1, <2>3, Elements DEF Queued, Streams
  <2>5. Head(queue["video"]) \in Delivered
    BY <2>4 DEF Order, Line, InLine
  <2>6. Head(queue["video"]) \in Range(sent["video"])
    BY <2>1, <2>4, <2>5, Elements DEF Delivered, Streams
  <2> QED BY <2>6, RangeEmpty
<1> QED BY <1>1, <1>2, <1>8, <1>9 DEF NoneLost

\* RollSegment loses at most the picture that waits, and only by a part not made.
LEMMA RollNoneLost == ASSUME Base, Order, Causes, Brief, NoneLost, Roll PROVE NoneLost'
<1>1. TypeOK /\ Tagged /\ InOrder /\ Control
  BY DEF Base, Order
<1>2. /\ pc \in {"Create", "Trailer", "Retire", "Open"}
      /\ UNCHANGED <<sent, queue, pendingVideo, pending, refused, shutdown>>
  BY DEF Roll, CreateNext, SealCurrent, RetireCurrent, OpenNext, RollFrame, input, held
<1>3. ASSUME Filed' = Filed, UNCHANGED <<ready, failure, hr>> PROVE NoneLost'
  BY <1>2, <1>3, StaySaves, KeepsNoneLost
<1>4. ASSUME NEW e, Return(e, ready), e \notin {"ok", "create"} PROVE NoneLost'
  BY <1>4, ReturnSpoils, KeepsNoneLost
<1>5. CASE CreateNext
  <2>1. pc = "Create" /\ RollFrame /\ parts' = parts
        /\ (Goto("Trailer") \/ Return("create", ready))
    BY <1>5 DEF CreateNext
  <2>2. CASE Goto("Trailer")
    BY <2>1, <2>2, <1>3, SameFiles DEF Goto
  <2>3. CASE Return("create", ready)
    <3>1. CASE caller = "Process"
      BY <2>1, <2>3, <3>1, CreateLoses
    <3>2. CASE caller # "Process"
      BY <2>3, <3>2, ReturnSpoils, KeepsNoneLost
    <3> QED BY <3>1, <3>2
  <2> QED BY <2>1, <2>2, <2>3
<1>6. CASE SealCurrent
  <2>1. PICK e \in Outcomes : /\ parts' = Appended(Trailer(e))
                              /\ IF e = "ok" THEN Goto("Retire") ELSE Return(e, ready)
    BY <1>6 DEF SealCurrent
  <2>2. Filed' = Filed
    BY <1>1, <2>1, TrailerAppended
  <2>3. CASE e = "ok"
    BY <2>1, <2>2, <2>3, <1>3 DEF Goto
  <2>4. CASE e # "ok"
    BY <2>1, <2>4, <1>4 DEF Outcomes
  <2> QED BY <2>3, <2>4
<1>7. CASE RetireCurrent
  <2>1. parts' = parts /\ (Goto("Open") \/ Return("retire", ready))
    BY <1>7 DEF RetireCurrent
  <2> QED BY <2>1, <1>3, <1>4, SameFiles DEF Goto
<1>8. CASE OpenNext
  <2>1. parts' = Append(parts, [origin |-> video.pts, content |-> <<>>])
        /\ (Goto("Video") \/ Return("open", ready))
    BY <1>8 DEF OpenNext
  <2>2. video.pts \in Int
    <3>1. queue["video"] # <<>>
      BY <1>1, <1>8 DEF OpenNext, Control, Draining
    <3> QED BY <3>1, <1>1, VideoHead, PacketFields
  <2>3. Filed' = Filed
    BY <2>1, <2>2, <1>1, FiledOpened
  <2> QED BY <2>1, <2>3, <1>3, <1>4 DEF Goto
<1> QED BY <1>5, <1>6, <1>7, <1>8 DEF Roll

\* Handling a packet loses nothing without an error.
LEMMA WriteSaves ==
  ASSUME Base, Order, WritePacket \/ WriteHeld
  PROVE  Saves \/ Spoils \/ Stops
<1>1. TypeOK /\ Tagged /\ ready \in Seq(Packets)
  BY DEF Base, TypeOK, QueueTypes
<1>2. CASE WritePacket
  <2> DEFINE x == Head(ready)
             rest == Tail(ready)
             h == Head(pendingVideo)
  <2>1. /\ pc = "Write" /\ ready # <<>> /\ ~trailerWritten /\ pending = <<>>
        /\ caller = "Process" /\ UNCHANGED <<sent, pending, shutdown>>
        /\ \/ pendingVideo' = pendingVideo /\ Hands(x, rest)
           \/ pendingVideo # <<>> /\ pendingVideo' = <<>> /\ Hands(h, ready)
           \/ /\ pendingVideo = <<>> /\ pendingVideo' = <<x>> /\ ready' = rest
              /\ UNCHANGED <<pc, roll, boundary, hr, failure, queue, storageError, parts, refused>>
    BY <1>2, WritePackets
  <2>2. Range(ready) = {x} \cup Range(rest) /\ Waiting = Range(ready)
    BY <1>1, <2>1, RangeTail, RangeEmpty DEF Waiting
  <2>3. pendingVideo # <<>> => HeldBack = {h}
    BY <1>1, Held1 DEF HeldBack
  <2> HIDE DEF x, rest, h
  <2>4. CASE pendingVideo' = pendingVideo /\ Hands(x, rest)
    <3>1. HeldBack' = HeldBack
      BY <2>4 DEF HeldBack
    <3> QED BY <2>1, <2>2, <2>4, <3>1, HandsSaves
  <2>5. CASE pendingVideo # <<>> /\ pendingVideo' = <<>> /\ Hands(h, ready)
    BY <2>1, <2>3, <2>5, HandsSaves
  <2>6. CASE /\ pendingVideo = <<>> /\ pendingVideo' = <<x>> /\ ready' = rest
             /\ UNCHANGED <<pc, roll, boundary, hr, failure, queue, storageError, parts, refused>>
    <3>1. HeldBack = {} /\ HeldBack' = {x} /\ Waiting' = Range(rest)
      BY <2>1, <2>6, RangeEmpty DEF HeldBack, Waiting, Range
    <3>2. Filed' = Filed /\ Queued' = Queued /\ Delivered' = Delivered
      BY <2>1, <2>6 DEF Filed, Queued, Delivered
    <3>3. Filed \cup refused \cup Queued \cup HeldBack \cup Waiting
            \subseteq Filed' \cup refused' \cup Queued' \cup HeldBack' \cup Waiting'
      BY <2>2, <2>6, <3>1, <3>2
    <3>4. Lost' \subseteq Lost
      BY <3>2, <3>3, StillThere
    <3> QED BY <2>1, <2>6, <3>4 DEF Saves
  <2> QED BY <2>1, <2>4, <2>5, <2>6
<1>3. CASE WriteHeld
  <2> DEFINE h == Head(pendingVideo)
  <2>1. /\ pc = "Held" /\ ~trailerWritten /\ caller = "Held" /\ ready = <<>> /\ pending = <<>>
        /\ pendingVideo' = <<>> /\ UNCHANGED <<sent, pending, shutdown>>
        /\ \/ pendingVideo = <<>> /\ Return("ok", ready) /\ Unwritten
           \/ pendingVideo # <<>> /\ Hands(h, ready)
    BY <1>3, WriteHelds
  <2>2. pendingVideo # <<>> => HeldBack = {h}
    BY <1>1, Held1 DEF HeldBack
  <2> HIDE DEF h
  <2>3. CASE pendingVideo = <<>> /\ Return("ok", ready) /\ Unwritten
    <3>1. UNCHANGED <<failure, hr, ready>>
      BY <2>1, <2>3, Succeeds
    <3>2. UNCHANGED <<queue, pendingVideo, refused, parts>>
      BY <2>1, <2>3 DEF Unwritten
    <3> QED BY <2>1, <3>1, <3>2, SameFiles, StaySaves
  <2>4. CASE pendingVideo # <<>> /\ Hands(h, ready)
    <3>1. HeldBack \cup Range(ready) \subseteq {h} \cup HeldBack' \cup Range(ready)
      BY <2>2, <2>4
    <3> QED BY <2>1, <2>2, <2>4, <3>1, HandsSaves
  <2> QED BY <2>1, <2>3, <2>4
<1> QED BY <1>2, <1>3

\* Taking a sample loses nothing, for one that fails to be taken is an error.
LEMMA ProcessNoneLost ==
  ASSUME Base, Order, Causes, NoneLost, NEW s \in Streams, Process(s)
  PROVE  NoneLost'
<1>1. PICK p \in Packets :
           /\ p \in NextPackets(s)
           /\ sent' = [sent EXCEPT ![s] = Append(@, p)]
           /\ pc = "idle" /\ ready = <<>> /\ caller = "Process"
           /\ ~shutdown /\ ~finalizing /\ failure = "ok" /\ ~trailerWritten
           /\ UNCHANGED <<pendingVideo, queue, hr, shutdown, parts, refused>>
           /\ \/ pending = <<>> /\ pending' = pending /\ ready' = <<p>>
              \/ pending' = Append(pending, p) /\ ready' = ready
              \/ pending' = <<>> /\ ready' = Append(pending, p)
  BY Processes
<1>2. failure' \in {"ok", "header"}
  BY <1>1 DEF Process
<1>3. hr = "ok" /\ Lost = {} /\ refused = {}
  BY <1>1 DEF Causes, NoneLost, Good
<1>4. Delivered' = Delivered \cup {p}
  BY <1>1, DeliverOrder
<1>5. pending \in Seq(Packets)
  BY DEF Base, TypeOK, QueueTypes
<1>6. Waiting = Range(pending) /\ Range(Append(pending, p)) = Range(pending) \cup {p}
      /\ Range(<<p>>) = {p}
  <2>1. Waiting = Range(pending)
    BY <1>1, RangeEmpty DEF Waiting
  <2>2. Range(Append(pending, p)) = Range(pending) \cup {p}
    BY <1>5, RangeAppend
  <2>3. Range(<<p>>) = {p}
    BY DEF Range
  <2> QED BY <2>1, <2>2, <2>3
<1>7. Waiting' = Waiting \cup {p}
  <2>1. Waiting' = Range(ready') \cup Range(pending')
    BY DEF Waiting
  <2>2. CASE pending = <<>> /\ pending' = pending /\ ready' = <<p>>
    BY <2>1, <2>2, <1>6, RangeEmpty
  <2>3. CASE pending' = Append(pending, p) /\ ready' = ready
    BY <2>1, <2>3, <1>1, <1>6, RangeEmpty
  <2>4. CASE pending' = <<>> /\ ready' = Append(pending, p)
    BY <2>1, <2>4, <1>6, RangeEmpty
  <2> QED BY <1>1, <2>2, <2>3, <2>4
<1>8. Filed' = Filed /\ Queued' = Queued /\ HeldBack' = HeldBack
  BY <1>1, SameFiles DEF Queued, HeldBack
<1>9. Lost' = {}
  BY <1>1, <1>3, <1>4, <1>7, <1>8 DEF Lost, Kept
<1> QED BY <1>1, <1>2, <1>3, <1>9 DEF NoneLost

\* The calls around the packets lose nothing but by Shutdown.
LEMMA CallSaves ==
  ASSUME Base, Order, \/ ProcessFails \/ ProcessReturns \/ BeginFinalize \/ Finalize \/ Resume
                      \/ SealedBefore \/ Seal \/ Shutdown
  PROVE  Saves \/ Spoils \/ Stops
<1>1. CASE ProcessFails
  BY <1>1 DEF ProcessFails, Spoils
<1>2. CASE ProcessReturns \/ BeginFinalize \/ Finalize \/ Resume \/ SealedBefore
  <2>1. UNCHANGED <<sent, queue, pendingVideo, pending, ready, refused, failure, hr, shutdown,
                    parts>>
    BY <1>2 DEF ProcessReturns, BeginFinalize, Finalize, Resume, SealedBefore, FinalizeFrame, End,
         Goto, input, held, call, ends
  <2>2. pc # "crashed"
    BY <1>2 DEF ProcessReturns, BeginFinalize, Finalize, Resume, SealedBefore
  <2> QED BY <2>1, <2>2, SameFiles, StaySaves
<1>3. CASE Seal
  <2>1. /\ pc = "Seal"
        /\ UNCHANGED <<sent, pending, pendingVideo, queue, refused, ready, hr, failure, shutdown>>
        /\ pc' = "crashed" \/ \E e : parts' = Appended(Trailer(e))
    BY <1>3, Seals
  <2>2. CASE pc' = "crashed"
    BY <2>1, <2>2 DEF Stops
  <2>3. ASSUME NEW e, parts' = Appended(Trailer(e)) PROVE Saves
    <3>1. Filed' = Filed
      BY <2>3, TrailerAppended DEF Base
    <3> QED BY <2>1, <3>1, StaySaves
  <2> QED BY <2>1, <2>2, <2>3
<1>4. CASE Shutdown
  BY <1>4 DEF Shutdown, Stops, call
<1> QED BY <1>1, <1>2, <1>3, <1>4

\* Every step keeps NoneLost.
LEMMA StepNoneLost ==
  ASSUME Base, Order, Causes, Brief, NoneLost, [Next]_vars
  PROVE  NoneLost'
<1>1. CASE Drain
  BY <1>1, DrainSaves, KeepsNoneLost
<1>2. CASE Roll
  BY <1>2, RollNoneLost
<1>3. CASE WritePacket \/ WriteHeld
  BY <1>3, WriteSaves, KeepsNoneLost
<1>4. ASSUME NEW s \in Streams, Process(s) PROVE NoneLost'
  BY <1>4, ProcessNoneLost
<1>5. CASE \/ ProcessFails \/ ProcessReturns \/ BeginFinalize \/ Finalize \/ Resume
           \/ SealedBefore \/ Seal \/ Shutdown
  BY <1>5, CallSaves, KeepsNoneLost
<1>6. CASE UNCHANGED vars
  <2>1. UNCHANGED <<sent, queue, pendingVideo, pending, ready, refused, parts, failure, hr,
                    shutdown, pc>>
    BY <1>6 DEF vars, input, held, call, ends
  <2>2. Lost' = Lost /\ (Good' <=> Good)
    BY <2>1 DEF Lost, Kept, Delivered, Filed, Queued, HeldBack, Waiting, Good
  <2> QED BY <2>1, <2>2 DEF NoneLost
<1> QED BY <1>1, <1>2, <1>3, <1>4, <1>5, <1>6 DEF Next

\* Nothing is lost to begin with.
LEMMA InitNoneLost == ASSUME Init PROVE NoneLost
<1>1. \A s \in Streams : sent[s] = <<>>
  BY DEF Init
<1>2. Delivered = {}
  BY <1>1, RangeEmpty DEF Delivered, Streams
<1> QED BY <1>2 DEF Init, NoneLost, Lost
-----------------------------------------------------------------------------
(* How a recording ends *)

Ended == result = "ok" \/ (result = "create" /\ failure = "create" /\ refused = {})

\* The files are complete, and what they do not hold is the last picture at most.
Whole ==
  /\ \A k \in 1 .. Len(parts) : Complete(k)
  /\ Lost \subseteq (IF result = "ok" THEN {} ELSE {Last(sent["video"])})
  /\ result # "ok" => sent["video"] # <<>>
  /\ Kept = {} /\ refused = {}

Ending == Causes /\ Emptied /\ Brief /\ Trailing /\ Completed /\ NoneLost

\* Without a header, or after a trailer, there is no good end.
LEMMA NoGoodEnd ==
  ASSUME Base, Causes, Finalize \/ SealedBefore, finalized' # finalized
  PROVE  ~Ended'
<1>1. CASE Finalize
  <2>1. trailerWritten \/ ~header
    BY <1>1 DEF Finalize
  <2>2. End(IF failure # "ok" THEN failure ELSE IF trailerWritten THEN "invalid" ELSE "empty")
    BY <1>1 DEF Finalize
  <2>3. ~finalized /\ failure' = failure
    BY <1>1, <2>2 DEF Finalize, End
  <2>4. failure # "create"
    BY <2>1, <2>3 DEF Causes
  <2>5. result' # "ok"
    BY <2>2 DEF End
  <2> QED BY <2>3, <2>4, <2>5 DEF Ended
<1>2. CASE SealedBefore
  <2>1. End(IF hr # "ok" THEN hr ELSE "invalid")
    BY <1>2 DEF SealedBefore
  <2>2. result' = (IF hr # "ok" THEN hr ELSE "invalid") /\ failure' = failure
    BY <2>1 DEF End
  <2>3. hr = "create" => failure # "create"
    BY DEF Causes
  <2> QED BY <2>2, <2>3 DEF Ended
<1> QED BY <1>1, <1>2

\* The last trailer: all that was kept has been written.
LEMMA SealEnds ==
  ASSUME Base, Order, Ending, Seal, finalized' # finalized, Ended'
  PROVE  Whole'
<1>1. PICK e \in Outcomes :
           /\ header /\ pc' = "idle" /\ finalized' = TRUE
           /\ parts' = Appended(Trailer(e))
           /\ result' = (IF (IF e = "ok" THEN hr ELSE e) = "ok" THEN failure
                         ELSE IF e = "ok" THEN hr ELSE e)
  BY Seals
<1>2. /\ pc = "Seal"
      /\ UNCHANGED <<sent, pending, pendingVideo, queue, refused, ready, hr, failure, shutdown>>
  BY Seals
<1>3. caller = "Finish" /\ ~shutdown /\ TypeOK /\ Tagged
  BY <1>2 DEF Base, Calls
<1>4. e = "ok" /\ hr = "ok" /\ result' = failure
  <2>1. CASE result' = "ok"
    BY <2>1, <1>1 DEF Outcomes
  <2>2. CASE result' = "create" /\ failure = "create"
    <3>1. hr # "create"
      BY <2>2 DEF Ending, Causes
    <3> QED BY <2>2, <3>1, <1>1 DEF Outcomes
  <2>3. failure' = failure
    BY <1>2
  <2> QED BY <2>1, <2>2, <2>3 DEF Ended
<1>5. refused = {} /\ (failure = "ok" \/ failure = "create")
  <2>1. CASE failure = "ok"
    BY <2>1, <1>4 DEF Ending, NoneLost
  <2>2. CASE failure # "ok"
    BY <2>2, <1>2, <1>4 DEF Ended
  <2> QED BY <2>1, <2>2
<1>6. /\ Lost \subseteq (IF failure = "ok" THEN {} ELSE {Last(sent["video"])})
      /\ failure # "ok" => sent["video"] # <<>>
  BY <1>2, <1>3, <1>4, <1>5 DEF Ending, NoneLost, Good
<1>7. Kept = {}
  <2>1. \A s \in Streams : queue[s] = <<>>
    BY <1>2, <1>4 DEF Ending, Emptied
  <2>2. pendingVideo = <<>>
    BY <1>3 DEF Ending, Emptied
  <2>3. ready = <<>> /\ pending = <<>>
    BY <1>2, <1>3 DEF Base, Control, Draining
  <2> QED BY <2>1, <2>2, <2>3, RangeEmpty DEF Kept, Queued, HeldBack, Waiting, Streams
<1>8. Filed' = Filed /\ Kept' = Kept /\ Delivered' = Delivered
  <2>1. Filed' = Filed
    BY <1>1, <1>3, TrailerAppended
  <2> QED BY <2>1, <1>2 DEF Kept, Queued, HeldBack, Waiting, Delivered
<1>9. Lost' = Lost
  BY <1>2, <1>8 DEF Lost
<1>10. \A k \in 1 .. Len(parts') : Complete(k)'
  <2>1. Completed'
    BY StepTrailing DEF Ending, Next
  <2>2. Complete(Len(parts))'
    BY <1>1, <1>3, <1>4, TrailerComplete
  <2>3. Len(parts') \in Nat
    BY <1>1, <1>3, TrailerTypes, AppendedLast, FiledIs
  <2>4. \A n \in Nat : \A k \in 1 .. n : k = n \/ k \in 1 .. n - 1
    OBVIOUS
  <2>5. ASSUME NEW k \in 1 .. Len(parts') PROVE Complete(k)'
    <3>1. k = Len(parts') \/ k \in 1 .. Len(parts') - 1
      BY <2>3, <2>4
    <3>2. CASE k = Len(parts')
      BY <2>2, <3>2 DEF Complete
    <3>3. CASE k \in 1 .. Len(parts') - 1
      BY <2>1, <3>3 DEF Completed
    <3> QED BY <3>1, <3>2, <3>3
  <2> QED BY <2>5
<1> QED BY <1>2, <1>4, <1>5, <1>6, <1>7, <1>8, <1>9, <1>10 DEF Whole

\* What Finalize left stays; Shutdown only drops what was kept.
LEMMA EndStays ==
  ASSUME Base, finalized, [Next]_vars
  PROVE  UNCHANGED <<parts, sent, result, failure, refused>>
<1>1. pc = "idle" /\ finalizing
  BY DEF Base, Calls
<1>2. CASE Shutdown
  BY <1>2 DEF Shutdown, input
<1>3. CASE UNCHANGED vars
  BY <1>3 DEF vars, input, ends
<1>4. ~Drain /\ ~Roll
  BY <1>1 DEF Drain, Roll, Decide, LengthFails, Drained, WriteAudio, AudioWritten, WriteVideo,
         CreateNext, SealCurrent, RetireCurrent, OpenNext
<1>5. /\ ~ProcessFails /\ ~WritePacket /\ ~ProcessReturns /\ ~BeginFinalize /\ ~Finalize
      /\ ~WriteHeld /\ ~Resume /\ ~SealedBefore /\ ~Seal /\ \A s \in Streams : ~Process(s)
  BY <1>1 DEF ProcessFails, Accepting, WritePacket, ProcessReturns, BeginFinalize, Finalize,
         WriteHeld, Resume, SealedBefore, Seal, Process
<1> QED BY <1>2, <1>3, <1>4, <1>5 DEF Next

\* Only these three end a recording.
LEMMA EndsBy ==
  ASSUME Base, [Next]_vars, finalized' # finalized
  PROVE  Finalize \/ SealedBefore \/ Seal
<1>1. CASE Drain \/ Roll \/ WritePacket \/ WriteHeld
  BY <1>1, DrainUnderway, RollUnderway, WriteUnderway DEF Underway, Returning, Proceeding, Holding
<1>2. CASE \/ \E s \in Streams : Process(s)
           \/ ProcessFails \/ ProcessReturns \/ BeginFinalize \/ Resume \/ Shutdown
           \/ UNCHANGED vars
  BY <1>2 DEF Process, ProcessFails, ProcessReturns, BeginFinalize, Resume, Shutdown, ends, vars
<1> QED BY <1>1, <1>2 DEF Next

\* In whole files every packet of a stream is saved but the last picture.
LEMMA WholeSaved ==
  ASSUME Base', Order', Whole'
  PROVE  /\ \A k \in DOMAIN parts' : Complete(k)'
         /\ \A s \in Streams : \A i \in DOMAIN sent'[s] :
              \/ sent'[s][i] \in Saved(s)'
              \/ result' # "ok" /\ s = "video" /\ i = Len(sent'[s])
<1>1. /\ sent' \in [Streams -> Seq(Packets)] /\ parts' \in Seq(Files)
      /\ \A s \in Streams : \A i \in DOMAIN sent'[s] : sent'[s][i].stream = s
      /\ \A s \in Streams : Ordered(sent'[s])
  BY DEF Base, TypeOK, QueueTypes, FileTypes, Tagged, Order, Ordered
<1>2. DOMAIN parts' = 1 .. Len(parts')
  BY <1>1, FiledIsAfter
<1>3. ASSUME NEW s \in Streams, NEW i \in DOMAIN sent'[s], sent'[s][i] \notin Saved(s)'
      PROVE  result' # "ok" /\ s = "video" /\ i = Len(sent'[s])
  <2> DEFINE q == sent'[s]
             x == q[i]
  <2>1. q \in Seq(Packets) /\ DOMAIN q = 1 .. Len(q) /\ Len(q) \in Nat
    BY <1>1, LenProperties
  <2>2. x.stream = s /\ x \in Range(q)
    BY <1>1, <1>3 DEF Range
  <2>3. x \in Delivered'
    BY <2>2 DEF Delivered, Streams
  <2>4. x \notin Filed'
    BY <1>3, <2>2 DEF Filed, Saved
  <2>5. x \in Lost' /\ x \notin Kept'
    BY <2>3, <2>4 DEF Lost, Whole
  <2>6. result' # "ok" /\ x = Last(sent'["video"]) /\ sent'["video"] # <<>>
    BY <2>5 DEF Whole
  <2>7. s = "video"
    <3> DEFINE r == sent'["video"]
    <3>1. r \in Seq(Packets) /\ r # <<>>
      BY <2>6, <1>1 DEF Streams
    <3>2. Len(r) \in DOMAIN r
      BY <3>1, LenProperties, EmptySeq
    <3>3. r[Len(r)].stream = "video"
      BY <3>2, <1>1 DEF Streams
    <3> QED BY <3>3, <2>2, <2>6 DEF Last
  <2>8. i = Len(q)
    <3>1. x = q[Len(q)] /\ Ordered(q)
      BY <2>6, <2>7, <1>1 DEF Last
    <3>2. ASSUME i # Len(q) PROVE FALSE
      <4>1. \A n \in Nat : \A k \in 1 .. n : k # n => k \in 1 .. n - 1
        OBVIOUS
      <4>2. i \in 1 .. Len(q) - 1
        BY <4>1, <3>2, <2>1, <1>3
      <4>3. Len(q) \in DOMAIN q
        BY <4>2, <2>1
      <4>4. q[i].dts < q[Len(q)].dts
        BY <4>2, <4>3, <3>1 DEF Ordered
      <4>5. x \in Packets
        BY <2>1, <1>3, ElementOfSeq
      <4>6. x.dts \in Int
        BY <4>5, PacketFields
      <4>7. x.dts < x.dts
        BY <3>1, <4>4
      <4> QED BY <4>6, <4>7
    <3> QED BY <3>2
  <2> QED BY <2>6, <2>7, <2>8
<1> QED BY <1>2, <1>3 DEF Whole

\* A step that ends the recording well leaves whole files, and no step undoes that.
LEMMA StepEnds ==
  ASSUME Base, Base', Order, Order', Ending, Ending', EndsComplete, [Next]_vars
  PROVE  EndsComplete'
<1>1. DOMAIN parts' = 1 .. Len(parts')
      /\ \A k \in 1 .. Len(parts') : DOMAIN parts'[k].content = 1 .. Len(parts'[k].content)
  BY FiledIsAfter DEF Base, TypeOK, FileTypes
<1>2. \A k \in DOMAIN parts' : \A i \in DOMAIN parts'[k].content :
        parts'[k].content[i].stream = "trailer" => i = Len(parts'[k].content)
  BY <1>1 DEF Ending, Trailing
<1>3. CASE ~finalized'
  <2>1. result' = "none"
    BY <1>3 DEF Ending, Causes
  <2> QED BY <2>1, <1>2 DEF EndsComplete
<1>4. CASE finalized
  BY <1>4, EndStays DEF EndsComplete, Complete, Saved
<1>5. CASE finalized' /\ ~finalized /\ ~Ended'
  BY <1>2, <1>5 DEF EndsComplete, Ended
<1>6. CASE finalized' /\ ~finalized /\ Ended'
  <2>1. Seal
    <3>1. Finalize \/ SealedBefore \/ Seal
      BY <1>6, EndsBy
    <3>2. ~(Finalize \/ SealedBefore)
      BY <1>6, NoGoodEnd DEF Ending
    <3> QED BY <3>1, <3>2
  <2>2. Whole'
    BY <1>6, <2>1, SealEnds
  <2>3. /\ \A k \in DOMAIN parts' : Complete(k)'
        /\ \A s \in Streams : \A i \in DOMAIN sent'[s] :
             \/ sent'[s][i] \in Saved(s)'
             \/ result' # "ok" /\ s = "video" /\ i = Len(sent'[s])
    BY <2>2, WholeSaved
  <2> QED BY <1>2, <2>3 DEF EndsComplete
<1>7. finalized \in BOOLEAN /\ finalized' \in BOOLEAN
  BY DEF Base, TypeOK, FlagTypes
<1> QED BY <1>3, <1>4, <1>5, <1>6, <1>7

\* Every step keeps the invariant.
LEMMA StepEnding ==
  ASSUME Base, Base', Order, Ending, [Next]_vars
  PROVE  Ending'
<1>1. Causes' /\ Emptied'
  BY StepCauses DEF Ending
<1>2. Brief'
  BY StepBrief DEF Ending
<1>3. Trailing' /\ Completed'
  BY StepTrailing DEF Ending
<1>4. NoneLost'
  BY StepNoneLost DEF Ending
<1> QED BY <1>1, <1>2, <1>3, <1>4 DEF Ending

\* The invariant and the property hold to begin with.
LEMMA InitEnding == ASSUME Init PROVE Ending /\ EndsComplete
<1>1. Causes /\ Emptied /\ Brief /\ Trailing /\ Completed /\ NoneLost
  BY InitCauses, InitBrief, InitTrailing, InitNoneLost
<1>2. EndsComplete
  <2>1. DOMAIN parts = {1} /\ DOMAIN parts[1].content = {} /\ result = "none"
    BY DEF Init
  <2> QED BY <2>1 DEF EndsComplete
<1> QED BY <1>1, <1>2 DEF Ending

\* A file has one trailer, its last write; and a recording that ends well, or because
\* its next part could not be made, is wholly in complete files, all but the picture
\* whose sample was answered with the failure (FragmentedMp4Sink.cpp, RollSegment and
\* Finalize).
THEOREM EndsCompleteHolds == Spec => []EndsComplete
<1>1. Init => Base /\ Order /\ Ending /\ EndsComplete
  BY InitBase, InitOrder, InitEnding
<1>2. Base /\ Order /\ Ending /\ EndsComplete /\ [Next]_vars
        => (Base /\ Order /\ Ending /\ EndsComplete)'
  BY StepBase, StepOrder, StepEnding, StepEnds
<1> QED BY <1>1, <1>2, PTL DEF Spec
-----------------------------------------------------------------------------
(* What every part holds *)

\* What a file holds of a stream.
In(k, s) == {x \in Range(parts[k].content) : x.stream = s}
Here(s)  == In(part, s)

\* How the encoders number their packets.  A picture is shown no earlier than it is
\* decoded, and a key picture after all that were decoded before it; sound is shown as
\* it is decoded; both streams start at 0.
Timeline ==
  /\ \A v \in Range(sent["video"]) : v.dts >= 0 /\ v.pts >= v.dts
  /\ \A u, v \in Range(sent["video"]) : u.dts = v.dts => u = v
  /\ \A u, v \in Range(sent["video"]) : v.key # "no" /\ u.dts < v.dts => u.pts < v.pts
  /\ \A v \in Range(sent["video"]) :
       (\A u \in Range(sent["video"]) : v.dts <= u.dts) => v.key # "no" /\ v.pts = 0
  /\ \A a \in Range(sent["audio"]) : a.dts >= 0 /\ a.pts = a.dts
  /\ \A a \in Range(sent["audio"]) :
       NoLongGap /\ a.pts # 0 =>
         \E b \in Range(sent["audio"]) : b.dts < a.dts /\ a.pts <= b.pts + SplitAfter

\* The parts divide the timeline: earlier ones end before the current one begins, and
\* what is kept, or is still to come, belongs to the current one or a later one.
Division ==
  /\ segmentOrigin = parts[part].origin /\ segmentOrigin >= 0 /\ (part = 1 => segmentOrigin = 0)
  /\ \A k \in 1 .. Len(parts) : \A s \in Streams : \A x \in In(k, s) :
       TakesPartOf(k, x.pts) /\ (k < part => x.pts < segmentOrigin)
  /\ \A x \in Kept : x.pts >= segmentOrigin
  /\ \/ finalizing \/ segmentOrigin = 0
     \/ \A s \in Streams : \E d \in Range(sent[s]) : d.dts >= segmentOrigin

\* The sound of the current part is shown before a picture that no picture kept is
\* decoded before: the next cut comes after it.
SoundBound ==
  mode # "none" /\ ~(caller = "Finish" /\ queue["video"] = <<>>) =>
    \A a \in Here("audio") : \E v \in Range(sent["video"]) :
      a.pts < v.pts /\ \A x \in Kept : x.stream = "video" => v.dts <= x.dts

\* A cut that has been decided: nothing that is kept, or is still to come, is shown
\* before the key picture, and there is sound after it.
Cutting == pc \in Rolling \/ (pc = "Audio" /\ roll)
Cut ==
  /\ pc = "Audio" => boundary <= video.pts
  /\ Cutting =>
       /\ boundary = video.pts /\ video.key # "no" /\ segmentHasVideo /\ boundary > segmentOrigin
       /\ mode = "time" => boundary >= segmentOrigin + SplitAfter
       /\ \E a \in Range(queue["audio"]) : a.pts >= boundary
       /\ \A x \in Kept : x.stream = "video" => x.pts >= boundary
       /\ finalizing \/ \E d \in Range(sent["video"]) : d.dts >= boundary
  /\ pc \in Rolling => \A x \in Kept : x.pts >= boundary

\* The first picture of a part is the key picture that it was cut at.
Begins ==
  /\ refused = {} =>
       \A k \in 1 .. Len(parts) : \A v \in In(k, "video") :
         (\A u \in In(k, "video") : v.dts <= u.dts) => v.key # "no" /\ v.pts = parts[k].origin
  /\ refused = {} /\ header /\ ~trailerWritten /\ ~storageError /\ Here("video") = {} /\ part > 1 =>
       \/ pc = "Video" /\ video.key # "no" /\ video.pts = segmentOrigin
       \/ pc = "crashed"
  /\ segmentHasVideo => header /\ Here("video") # {}

\* Only one failure is told to Process, and a muxer that has no header yet has no file.
Working ==
  /\ caller = "Process" /\ (pc \in Draining \/ ready # <<>>) => failure = "ok"
  /\ ~header /\ failure = "ok" /\ ~finalizing => part = 1

\* Nothing was in the way of a whole part, and one is being written.
Clean == refused = {} /\ mode # "bytes" /\ NoLongGap /\ ~storageError /\ failure # "full"
Alive == header /\ ~trailerWritten /\ ~shutdown /\ pc # "crashed"

\* The current part holds sound and a picture, or they are still kept; a part that has
\* its trailer holds both.
Furnished ==
  Clean =>
    /\ Alive => Here("audio") # {} \/ \E a \in Kept : a.stream = "audio" /\ a.pts < segmentOrigin + SplitAfter
    /\ Alive /\ hr # "full" => Here("video") # {} \/ \E v \in Kept : v.stream = "video"
    /\ Alive /\ hr # "full" /\ pc = "Seal" => Here("audio") # {} /\ Here("video") # {}
    /\ \A k \in 1 .. Len(parts) :
         Sealed(k) /\ (k < Len(parts) \/ pc \in {"Retire", "Open"} \/ hr # "full") =>
           In(k, "audio") # {} /\ In(k, "video") # {}

Playing == Timeline /\ Division /\ SoundBound /\ Cut /\ Begins /\ Working /\ Furnished

\* The next sound is shown as it is decoded, and no gap after the last.
LEMMA NextSound ==
  ASSUME Base, Timeline, NEW p \in NextPackets("audio")
  PROVE  /\ p.dts >= 0 /\ p.pts = p.dts
         /\ NoLongGap /\ p.pts # 0 =>
              \E b \in Range(sent["audio"]) : b.dts < p.dts /\ p.pts <= b.pts + SplitAfter
<1> DEFINE old == sent["audio"]
           dts == IF old = <<>> THEN 0 ELSE Last(old).dts
<1>1. old \in Seq(Packets)
  BY DEF Base, TypeOK, QueueTypes, Streams
<1>2. PICK gap \in IF old = <<>> THEN {0} ELSE Gaps : p = Packet("audio", dts + gap, dts + gap, "no")
  BY DEF NextPackets
<1>3. gap \in Nat /\ (old = <<>> => gap = 0) /\ (old # <<>> => gap > 0 /\ gap \in Gaps)
  <2>1. old = <<>> => gap = 0
    OBVIOUS
  <2>2. old # <<>> => gap \in Gaps
    OBVIOUS
  <2>3. \A g \in Gaps : g \in Nat /\ g > 0
    BY ConstantsAssumption
  <2> QED BY <2>1, <2>2, <2>3
<1>4. ASSUME old # <<>>
      PROVE  Last(old) \in Range(old) /\ Last(old) \in Packets
  <2>1. Len(old) \in 1 .. Len(old)
    BY <1>1, <1>4, EmptySeq, LenProperties
  <2> QED BY <2>1, <1>1, RangeMembers DEF Last
<1>5. old # <<>> => /\ Last(old).dts \in Int /\ Last(old).dts >= 0 /\ Last(old).pts = Last(old).dts
                    /\ Last(old) \in Range(old)
  BY <1>4, PacketFields DEF Timeline
<1>6. p.dts = dts + gap /\ p.pts = dts + gap
  BY <1>2 DEF Packet
<1>7. CASE old = <<>>
  BY <1>6, <1>7, <1>3
<1>8. CASE old # <<>>
  <2>1. dts = Last(old).dts
    BY <1>8
  <2> HIDE DEF dts
  <2>2. p.dts >= 0 /\ p.pts = p.dts /\ Last(old).dts < p.dts /\ p.pts = Last(old).pts + gap
    BY <2>1, <1>3, <1>5, <1>6, <1>8
  <2>3. NoLongGap => p.pts <= Last(old).pts + SplitAfter
    BY <2>2, <1>3, <1>5, <1>8, ConstantsAssumption DEF NoLongGap
  <2> QED BY <2>2, <2>3, <1>5, <1>8
<1> QED BY <1>7, <1>8

\* The next picture is shown no earlier than decoded; a key picture after all others.
LEMMA NextPicture ==
  ASSUME Base, Timeline, NEW p \in NextPackets("video")
  PROVE  /\ p.dts >= 0 /\ p.pts >= p.dts
         /\ p.key # "no" => \A x \in Range(sent["video"]) : x.pts < p.pts
         /\ Range(sent["video"]) = {} => p.key # "no" /\ p.pts = 0
<1> DEFINE old == sent["video"]
           dts == IF old = <<>> THEN 0 ELSE Last(old).dts
<1>1. old \in Seq(Packets)
  BY DEF Base, TypeOK, QueueTypes, Streams
<1>2. PICK step \in (IF old = <<>> THEN {0} ELSE Steps), later \in (IF old = <<>> THEN {0} ELSE Reorder),
           key \in {"IDR", "CRA", "no"} : p = Packet("video", dts + step, dts + step + later, key)
  BY DEF NextPackets
<1>3. Picture(p)
  BY DEF NextPackets
<1>4. step \in Nat /\ later \in Nat /\ (old = <<>> => step = 0 /\ later = 0)
  BY ConstantsAssumption
<1>5. ASSUME old # <<>>
      PROVE  Last(old) \in Range(old) /\ Last(old) \in Packets
  <2>1. Len(old) \in 1 .. Len(old)
    BY <1>1, <1>5, EmptySeq, LenProperties
  <2> QED BY <2>1, <1>1, RangeMembers DEF Last
<1>6. dts \in Int /\ dts >= 0 /\ (old = <<>> => dts = 0)
  <2>1. CASE old = <<>>
    BY <2>1
  <2>2. CASE old # <<>>
    <3>1. Last(old).dts \in Int /\ Last(old).dts >= 0
      BY <2>2, <1>5, PacketFields DEF Timeline
    <3> QED BY <3>1, <2>2
  <2> QED BY <2>1, <2>2
<1>7. p.dts = dts + step /\ p.pts = dts + step + later
  BY <1>2 DEF Packet
<1>8. p.dts >= 0 /\ p.pts >= p.dts
  BY <1>4, <1>6, <1>7
<1>9. ASSUME p.key # "no", NEW x \in Range(old) PROVE x.pts < p.pts
  <2>1. PICK i \in 1 .. Len(old) : old[i] = x
    BY <1>1, RangeMembers
  <2>2. i \in DOMAIN old
    BY <1>1, RangeMembers
  <2> QED BY <2>1, <2>2, <1>3, <1>9 DEF Picture
<1>10. ASSUME Range(old) = {} PROVE p.key # "no" /\ p.pts = 0
  <2>1. old = <<>>
    BY <1>5, <1>10
  <2>2. p.key = "IDR"
    BY <2>1, <1>3 DEF Picture
  <2> QED BY <2>1, <2>2, <1>4, <1>6, <1>7
<1> QED BY <1>8, <1>9, <1>10

\* What is delivered next keeps the encoders' numbering.
LEMMA DeliverTimeline ==
  ASSUME Base, Order, Timeline, NEW s \in Streams, NEW p \in NextPackets(s),
         sent' = [sent EXCEPT ![s] = Append(@, p)]
  PROVE  /\ Timeline'
         /\ Range(sent'[s]) = Range(sent[s]) \cup {p}
         /\ \A t \in Streams : t # s => sent'[t] = sent[t]
         /\ p \in Packets /\ p.stream = s /\ p.dts >= 0 /\ p.pts >= p.dts
         /\ \A x \in Range(sent[s]) : x \in Packets /\ x.dts < p.dts
<1>1. p \in Packets /\ p.stream = s
  BY Next1 DEF Base
<1>2. /\ sent \in [Streams -> Seq(Packets)] /\ sent[s] \in Seq(Packets)
      /\ \A t \in Streams : Range(sent[t]) \subseteq Packets
  BY Elements DEF Base, TypeOK, QueueTypes
<1>3. /\ Range(sent'[s]) = Range(sent[s]) \cup {p}
      /\ \A t \in Streams : t # s => sent'[t] = sent[t]
  BY <1>1, <1>2, RangeAppend
<1>4. \A x \in Range(sent[s]) : x \in Packets /\ x.dts < p.dts
  <2>1. Before(Delivered, {p}) /\ Range(sent[s]) \subseteq Delivered
    BY DeliverOrder DEF Delivered, Streams
  <2>2. \A x \in Range(sent[s]) : x.stream = s
    BY Elements DEF Base
  <2> QED BY <2>1, <2>2, <1>1, <1>2 DEF Before
<1>5. CASE s = "audio"
  <2>1. sent'["video"] = sent["video"]
    BY <1>3, <1>5 DEF Streams
  <2>2. /\ p.dts >= 0 /\ p.pts = p.dts
        /\ NoLongGap /\ p.pts # 0 =>
             \E b \in Range(sent["audio"]) : b.dts < p.dts /\ p.pts <= b.pts + SplitAfter
    BY <1>5, NextSound
  <2>3. \A a \in Range(sent'["audio"]) : a.dts >= 0 /\ a.pts = a.dts
    BY <2>2, <1>3, <1>5 DEF Timeline
  <2>4. \A a \in Range(sent'["audio"]) : NoLongGap /\ a.pts # 0 =>
             \E b \in Range(sent'["audio"]) : b.dts < a.dts /\ a.pts <= b.pts + SplitAfter
    BY <2>2, <1>3, <1>5 DEF Timeline
  <2>5. Timeline'
    BY <2>1, <2>3, <2>4 DEF Timeline, NoLongGap
  <2>6. p.pts >= p.dts
    BY <2>2, <1>1, PacketFields
  <2> QED BY <2>2, <2>5, <2>6, <1>1, <1>3, <1>4
<1>6. CASE s = "video"
  <2>1. sent'["audio"] = sent["audio"]
    BY <1>3, <1>6 DEF Streams
  <2>2. /\ p.dts >= 0 /\ p.pts >= p.dts
        /\ p.key # "no" => \A x \in Range(sent["video"]) : x.pts < p.pts
        /\ Range(sent["video"]) = {} => p.key # "no" /\ p.pts = 0
    BY <1>6, NextPicture
  <2> DEFINE R == Range(sent["video"])
  <2>3. Range(sent'["video"]) = R \cup {p} /\ R \subseteq Packets /\ \A x \in R : x.dts < p.dts
    BY <1>2, <1>3, <1>4, <1>6
  <2>4. p.dts \in Int /\ \A x \in R : x.dts \in Int /\ x.pts \in Int
    BY <1>1, <2>3, PacketFields
  <2>5. /\ \A v \in R : v.dts >= 0 /\ v.pts >= v.dts
        /\ \A u, v \in R : u.dts = v.dts => u = v
        /\ \A u, v \in R : v.key # "no" /\ u.dts < v.dts => u.pts < v.pts
        /\ \A v \in R : (\A u \in R : v.dts <= u.dts) => v.key # "no" /\ v.pts = 0
    BY DEF Timeline
  <2>6. R = {} => p.key # "no" /\ p.pts = 0
    BY <2>2
  <2>14. p.key # "no" => \A x \in R : x.pts < p.pts
    BY <2>2
  <2> HIDE DEF R
  <2> DEFINE T == R \cup {p}
  <2>7. \A v \in T : v.dts >= 0 /\ v.pts >= v.dts
    BY <2>2, <2>5
  <2>8. \A u, v \in T : u.dts = v.dts => u = v
    BY <2>3, <2>4, <2>5
  <2>9. \A u, v \in T : v.key # "no" /\ u.dts < v.dts => u.pts < v.pts
    BY <2>3, <2>4, <2>5, <2>14
  <2>10. ASSUME NEW v \in T, \A u \in T : v.dts <= u.dts PROVE v.key # "no" /\ v.pts = 0
    <3>1. CASE v = p
      <4>1. R = {}
        BY <3>1, <2>3, <2>4, <2>10
      <4> QED BY <4>1, <3>1, <2>6
    <3>2. CASE v # p
      BY <3>2, <2>5, <2>10
    <3> QED BY <3>1, <3>2
  <2>11. Range(sent'["video"]) = T
    BY <2>3
  <2> HIDE DEF T
  <2>12. Timeline'
    BY <2>1, <2>7, <2>8, <2>9, <2>10, <2>11 DEF Timeline, NoLongGap
  <2> QED BY <2>2, <2>12, <1>1, <1>3, <1>4
<1> QED BY <1>5, <1>6 DEF Streams
-----------------------------------------------------------------------------
(* What a step does to a part *)

\* Every step but the delivery of a packet and the opening of a part.
SamePart ==
  /\ UNCHANGED <<mode, sent, part, segmentOrigin, header>>
  /\ Kept' \subseteq Kept /\ refused \subseteq refused'
  /\ (storageError => storageError') /\ (finalizing => finalizing')
  /\ (trailerWritten => trailerWritten')
  /\ caller = "Finish" /\ queue["video"] = <<>> => caller' = "Finish" /\ queue'["video"] = <<>>

\* Where a packet is written from.
Written(x) ==
  /\ x \in Kept /\ parts' = Appended(x)
  /\ header /\ ~trailerWritten /\ ~storageError /\ refused' = refused
  /\ \/ mode = "none"
     \/ pc = "Audio" /\ x.stream = "audio" /\ x.pts < boundary
     \/ pc = "Drain" /\ x.stream = "audio" /\ caller = "Finish" /\ queue["video"] = <<>>
     \/ pc = "Video" /\ x = video /\ pc' = "Drain"

Changed ==
  \/ parts' = parts
  \/ \E x \in Packets : Written(x)
  \/ trailerWritten' /\ \E e : parts' = Appended(Trailer(e)) /\ (pc = "Trailer" \/ (pc = "Seal" /\ header))

\* Nothing that was kept is missing, unless the part is beyond help, is about to be
\* left, or the picture held at the end found the queue full.
Keeps ==
  \/ ~(Clean' /\ Alive')
  \/ pc \in Rolling /\ parts' = parts
  \/ /\ hr' = "full" /\ pc' # "Seal" /\ parts' = parts
     /\ \A x \in Kept : x.stream = "audio" => x \in Kept'
  \/ /\ hr' = hr /\ (pc' = "Seal" => pc = "Seal" \/ (queue'["video"] = <<>> /\ queue'["audio"] = <<>>))
     /\ \A x \in Kept : x \in Kept' \/ parts' = Appended(x)

\* A write into the current file.
LEMMA RawEffect ==
  ASSUME Base, NEW x, NEW next, NEW rest, MuxRaw(x, next, rest), ~trailerWritten,
         Range(rest) \subseteq Range(ready)
  PROVE  /\ Range(ready') \subseteq Range(ready) /\ refused \subseteq refused'
         /\ storageError => storageError'
         /\ \/ parts' = parts /\ (pc' = "crashed" \/ storageError' \/ refused' # {})
            \/ /\ parts' = Appended(x) /\ header /\ ~storageError /\ refused' = refused
               /\ IF next = "return" THEN Return("ok", rest) ELSE Goto(next)
<1>1. storageError \in BOOLEAN /\ caller \in {"Process", "Held", "Finish"}
  BY DEF Base, TypeOK, FlagTypes, CallTypes
<1>2. ASSUME NEW e, Return(e, rest)
      PROVE  Range(ready') \subseteq Range(ready)
  <2>1. ready' \in {rest, ready, <<>>}
    BY <1>1, <1>2, Returns
  <2> QED BY <2>1, RangeEmpty
<1>3. ASSUME NEW label, Goto(label)
      PROVE  Range(ready') \subseteq Range(ready)
  BY <1>3 DEF Goto
<1>4. CASE ~header /\ Goto("crashed") /\ UNCHANGED <<storageError, parts, refused>>
  <2>1. pc' = "crashed"
    BY <1>4 DEF Goto
  <2> QED BY <2>1, <1>3, <1>4
<1>5. ASSUME NEW e \in Outcomes \cup {"refused"}, header,
             parts' = (IF e = "ok" THEN Appended(x) ELSE parts),
             storageError' = (storageError \/ e = "storage"),
             refused' = (IF e = "refused" THEN refused \cup {x} ELSE refused),
             IF e = "ok" /\ next # "return" THEN Goto(next) ELSE Return(e, rest)
      PROVE  /\ Range(ready') \subseteq Range(ready) /\ refused \subseteq refused'
             /\ storageError => storageError'
             /\ \/ parts' = parts /\ (pc' = "crashed" \/ storageError' \/ refused' # {})
                \/ /\ parts' = Appended(x) /\ header /\ ~storageError /\ refused' = refused
                   /\ IF next = "return" THEN Return("ok", rest) ELSE Goto(next)
  <2>1. Range(ready') \subseteq Range(ready)
    BY <1>2, <1>3, <1>5
  <2>2. refused \subseteq refused'
    BY <1>5
  <2>3. storageError => storageError'
    BY <1>5
  <2>4. CASE e = "ok"
    <3>1. ~storageError
      BY <2>4, <1>5 DEF Outcomes
    <3>2. IF next = "return" THEN Return("ok", rest) ELSE Goto(next)
      BY <2>4, <1>5
    <3> QED BY <2>1, <2>2, <2>3, <2>4, <3>1, <3>2, <1>5
  <2>5. CASE e = "storage"
    BY <2>1, <2>2, <2>3, <2>5, <1>5
  <2>6. CASE e = "refused"
    BY <2>1, <2>2, <2>3, <2>6, <1>5
  <2> QED BY <2>4, <2>5, <2>6, <1>5 DEF Outcomes
<1> QED BY <1>4, <1>5 DEF MuxRaw

\* The calls around the packets.
LEMMA CallEffect ==
  ASSUME Base,
         \/ ProcessFails \/ ProcessReturns \/ BeginFinalize \/ Finalize \/ Resume \/ SealedBefore
         \/ Shutdown \/ UNCHANGED vars
  PROVE  SamePart /\ Changed /\ Keeps
<1>1. /\ UNCHANGED <<mode, sent, part, segmentOrigin, header, refused, storageError, trailerWritten, parts, hr>>
      /\ finalizing => finalizing'
  BY DEF ProcessFails, ProcessReturns, BeginFinalize, Finalize, Resume, SealedBefore, Shutdown,
         vars, input, held, segment, call, ends, FinalizeFrame, Goto, End
<1>2. caller = "Finish" => caller' = "Finish"
  BY DEF ProcessFails, ProcessReturns, BeginFinalize, Finalize, Resume, SealedBefore, Shutdown,
         vars, input, held, segment, call, ends, FinalizeFrame, Goto, End, Base, Calls
<1>3. CASE Shutdown
  <2>1. queue'["video"] = <<>> /\ Kept' \subseteq Kept /\ shutdown'
    BY <1>3, RangeEmpty DEF Shutdown, Kept, Queued, HeldBack, Waiting, input, call, Streams
  <2> QED BY <2>1, <1>1, <1>2 DEF SamePart, Changed, Keeps, Alive
<1>4. CASE \/ ProcessFails \/ ProcessReturns \/ BeginFinalize \/ Finalize \/ Resume \/ SealedBefore
           \/ UNCHANGED vars
  <2>1. UNCHANGED <<queue, pendingVideo, pending, ready>>
    BY <1>4 DEF ProcessFails, ProcessReturns, BeginFinalize, Finalize, Resume, SealedBefore,
         vars, input, held, segment, call, ends, FinalizeFrame, Goto, End
  <2>2. Kept' = Kept
    BY <2>1 DEF Kept, Queued, HeldBack, Waiting
  <2>3. ASSUME pc' = "Seal"
      PROVE  pc = "Seal" \/ (queue'["video"] = <<>> /\ queue'["audio"] = <<>>)
    <3>1. (Resume /\ mode = "none") \/ pc = "Seal"
      BY <1>4, <2>3 DEF ProcessFails, ProcessReturns, BeginFinalize, Finalize, SealedBefore, Resume,
         vars, input, held, segment, call, ends, FinalizeFrame, Goto, End, Accepting
    <3>2. pc = "Seal" \/ (queue'["video"] = <<>> /\ queue'["audio"] = <<>>)
      BY <2>1, <3>1 DEF Base, Control
    <3> QED BY <3>2
  <2> QED BY <1>1, <1>2, <2>1, <2>2, <2>3 DEF SamePart, Changed, Keeps
<1> QED BY <1>3, <1>4

\* The last drain does not wait for packets that no encoder will deliver.
LEMMA DecidesWait ==
  ASSUME TypeOK, Tagged, Decide, Return("ok", ready)
  PROVE  ~finish
<1>1. caller \in {"Process", "Held", "Finish"}
  BY DEF TypeOK, CallTypes
<1>2. pc' \in {"Write", "Resume", "Seal"}
  BY <1>1, Succeeds
<1> QED BY <1>2 DEF Decide

\* A queued packet is written.
LEMMA DrainWriteEffect ==
  ASSUME Base, Order, NEW s \in Streams, NEW next, DrainWrite(s, next),
         \/ s = "audio" /\ pc = "Audio" /\ next = "Audio" /\ Head(queue["audio"]).pts < boundary
         \/ /\ s = "audio" /\ pc = "Drain" /\ next = "Drain" /\ caller = "Finish"
            /\ queue["video"] = <<>>
         \/ s = "video" /\ pc = "Video" /\ next = "Drain"
  PROVE  SamePart /\ Changed /\ Keeps
<1> DEFINE x == Head(queue[s])
<1>1. /\ queue[s] # <<>> /\ MuxRaw(x, next, ready) /\ Pop(s)
      /\ UNCHANGED <<mode, sent, pending, pendingVideo, header, part, segmentOrigin,
                     trailerWritten, caller, shutdown, finalizing, finalized, result>>
  BY DEF DrainWrite
<1>2. ~trailerWritten /\ TypeOK /\ Tagged
  BY DEF Base, Control, Draining, Rolling
<1>3. /\ Queued = {x} \cup Queued' /\ x \in Packets /\ x.stream = s
      /\ \A t \in Streams : t # s => queue'[t] = queue[t]
  BY <1>1, <1>2, QueueFront, QueuePop
<1>4. /\ Range(ready') \subseteq Range(ready) /\ refused \subseteq refused'
      /\ storageError => storageError'
      /\ \/ parts' = parts /\ (pc' = "crashed" \/ storageError' \/ refused' # {})
         \/ /\ parts' = Appended(x) /\ header /\ ~storageError /\ refused' = refused
            /\ IF next = "return" THEN Return("ok", ready) ELSE Goto(next)
  BY <1>1, <1>2, RawEffect
<1>5. s = "video" => x = video
  BY DEF video
<1> HIDE DEF x
<1>6. Kept' \subseteq Kept /\ x \in Kept
  BY <1>1, <1>3, <1>4 DEF Kept, HeldBack, Waiting
<1>7. queue["video"] = <<>> => queue'["video"] = <<>>
  BY <1>1, <1>3 DEF Streams
<1>8. SamePart
  BY <1>1, <1>4, <1>6, <1>7 DEF SamePart
<1>9. CASE parts' = parts /\ (pc' = "crashed" \/ storageError' \/ refused' # {})
  <2>1. ~(Clean' /\ Alive')
    BY <1>9 DEF Clean, Alive
  <2> QED BY <2>1, <1>8, <1>9 DEF Changed, Keeps
<1>10. CASE /\ parts' = Appended(x) /\ header /\ ~storageError /\ refused' = refused
            /\ IF next = "return" THEN Return("ok", ready) ELSE Goto(next)
  <2>1. Goto(next)
    BY <1>10
  <2>2. pc' = next /\ pc' # "Seal" /\ ready' = ready /\ hr' = hr
    BY <2>1 DEF Goto
  <2>3. \A y \in Kept : y \in Kept' \/ y = x
    BY <1>1, <1>3, <2>2 DEF Kept, HeldBack, Waiting
  <2>4. Keeps
    BY <2>2, <2>3, <1>10 DEF Keeps
  <2>5. x.stream = "audio" /\ pc = "Audio" => x.pts < boundary
    BY <1>3 DEF x
  <2>6. Written(x)
    BY <2>2, <2>5, <1>2, <1>3, <1>5, <1>6, <1>10 DEF Written
  <2> QED BY <2>4, <2>6, <1>3, <1>8 DEF Changed
<1> QED BY <1>4, <1>9, <1>10

\* A drain returns or goes on without a write.
LEMMA QuietEffect ==
  ASSUME Base,
         UNCHANGED <<mode, sent, part, segmentOrigin, header, trailerWritten, parts, refused, storageError,
                     queue, pending, pendingVideo, finalizing, caller>>,
         \/ UNCHANGED <<ready, hr>> /\ pc' # "Seal"
         \/ \E e : /\ Return(e, ready)
                   /\ \/ e = "ok" /\ (finish => queue["video"] = <<>> /\ queue["audio"] = <<>>)
                      \/ e = "length" /\ mode = "bytes"
  PROVE  SamePart /\ Changed /\ Keeps
<1>1. CASE UNCHANGED <<ready, hr>> /\ pc' # "Seal"
  <2>1. Kept' = Kept
    BY <1>1 DEF Kept, Queued, HeldBack, Waiting
  <2> QED BY <1>1, <2>1 DEF SamePart, Changed, Keeps
<1>2. ASSUME NEW e, Return(e, ready),
             \/ e = "ok" /\ (finish => queue["video"] = <<>> /\ queue["audio"] = <<>>)
             \/ e = "length" /\ mode = "bytes"
      PROVE  SamePart /\ Changed /\ Keeps
  <2>1. caller \in {"Process", "Held", "Finish"}
    BY DEF Base, TypeOK, CallTypes
  <2>2. ready' \in {ready, <<>>} /\ (e = "ok" => ready' = ready /\ hr' = hr)
        /\ (pc' = "Seal" => caller = "Finish")
    BY <1>2, <2>1, Returns
  <2>3. Kept' \subseteq Kept /\ (ready' = ready => Kept' = Kept)
    BY <2>2, RangeEmpty DEF Kept, Queued, HeldBack, Waiting
  <2>4. SamePart /\ Changed
    BY <2>3 DEF SamePart, Changed
  <2>5. CASE e = "ok"
    <3>1. pc' = "Seal" => queue'["video"] = <<>> /\ queue'["audio"] = <<>>
      BY <1>2, <2>2, <2>5 DEF finish
    <3> QED BY <3>1, <2>2, <2>3, <2>4, <2>5 DEF Keeps
  <2>6. CASE mode = "bytes"
    BY <2>4, <2>6 DEF Keeps, Clean
  <2> QED BY <1>2, <2>5, <2>6
<1> QED BY <1>1, <1>2

\* What a drain does.
LEMMA DrainEffect == ASSUME Base, Order, Drain PROVE SamePart /\ Changed /\ Keeps
<1>1. TypeOK /\ Tagged
  BY DEF Base
<1>2. CASE Decide
  <2>1. /\ pc = "Drain" /\ queue["video"] # <<>> /\ DrainFrame /\ Unwritten
        /\ \/ Return("ok", ready)
           \/ pc' = "Audio" /\ UNCHANGED <<ready, hr, failure>>
    BY <1>1, <1>2, Decides
  <2>2. Return("ok", ready) => ~finish
    BY <1>1, <1>2, DecidesWait
  <2> QED BY <2>1, <2>2, QuietEffect DEF DrainFrame, Unwritten, segment, input
<1>3. CASE LengthFails
  BY <1>3, QuietEffect DEF LengthFails, DrainFrame, Unwritten, segment, input
<1>4. CASE WriteAudio
  <2>1. DrainWrite("audio", "Audio") /\ pc = "Audio"
    BY <1>4, DrainWrites
  <2>2. Head(queue["audio"]).pts < boundary
    BY <1>4 DEF WriteAudio, SoundBefore
  <2> QED BY <2>1, <2>2, DrainWriteEffect DEF Streams
<1>5. CASE AudioWritten
  <2>1. DrainFrame /\ Unwritten /\ pc' # "Seal" /\ UNCHANGED <<ready, hr>>
    BY <1>5 DEF AudioWritten, Goto
  <2> QED BY <2>1, QuietEffect DEF DrainFrame, Unwritten, segment, input
<1>6. CASE WriteVideo
  <2>1. DrainWrite("video", "Drain") /\ pc = "Video"
    BY <1>6, DrainWrites
  <2> QED BY <2>1, DrainWriteEffect DEF Streams
<1>7. CASE Drained
  <2>1. pc = "Drain" /\ queue["video"] = <<>>
    BY <1>7 DEF Drained
  <2>2. CASE finish /\ queue["audio"] # <<>>
    <3>1. DrainWrite("audio", "Drain") /\ caller = "Finish"
      BY <1>7, <2>2, DrainWrites DEF finish
    <3> QED BY <2>1, <3>1, DrainWriteEffect DEF Streams
  <2>3. CASE ~(finish /\ queue["audio"] # <<>>)
    <3>1. Return("ok", ready) /\ Unwritten /\ DrainFrame
      BY <1>7, <2>3, DrainWrites
    <3> QED BY <2>1, <2>3, <3>1, QuietEffect DEF DrainFrame, Unwritten, segment, input
  <2> QED BY <2>2, <2>3
<1> QED BY <1>2, <1>3, <1>4, <1>5, <1>6, <1>7 DEF Drain

\* The next part is prepared.
LEMMA RollEffect ==
  ASSUME Base, CreateNext \/ SealCurrent \/ RetireCurrent
  PROVE  SamePart /\ Changed /\ Keeps
<1>1. caller \in {"Process", "Held", "Finish"} /\ pc \in Rolling
  BY DEF Base, TypeOK, CallTypes, CreateNext, SealCurrent, RetireCurrent, Rolling
<1>2. /\ UNCHANGED <<mode, sent, part, segmentOrigin, header, refused, queue, pending, pendingVideo,
                     finalizing, caller>>
      /\ (storageError => storageError') /\ (trailerWritten => trailerWritten')
  <2>1. CASE CreateNext \/ RetireCurrent
    BY <2>1 DEF CreateNext, RetireCurrent, RollFrame, input, held, segment
  <2>2. CASE SealCurrent
    <3>1. /\ RollFrame /\ UNCHANGED <<part, segmentOrigin, header>> /\ trailerWritten' = TRUE
          /\ \E e \in Outcomes : storageError' = (storageError \/ e = "storage")
      BY <2>2 DEF SealCurrent
    <3>2. storageError => storageError'
      BY <3>1
    <3> QED BY <3>1, <3>2 DEF RollFrame, input, held
  <2> QED BY <2>1, <2>2
<1>3. ready' \in {ready, <<>>}
  <2>1. ASSUME NEW e, Return(e, ready) PROVE ready' \in {ready, <<>>}
    BY <1>1, <2>1, Returns
  <2> QED BY <2>1 DEF CreateNext, SealCurrent, RetireCurrent, Goto
<1>4. Kept' \subseteq Kept
  BY <1>2, <1>3, RangeEmpty DEF Kept, Queued, HeldBack, Waiting
<1>5. SamePart
  BY <1>2, <1>4 DEF SamePart
<1>6. CASE CreateNext \/ RetireCurrent
  <2>1. parts' = parts
    BY <1>6 DEF CreateNext, RetireCurrent
  <2> QED BY <2>1, <1>1, <1>5 DEF Changed, Keeps
<1>7. CASE SealCurrent
  <2>1. pc = "Trailer" /\ trailerWritten' /\ \E e : parts' = Appended(Trailer(e))
    BY <1>7 DEF SealCurrent
  <2> QED BY <2>1, <1>5 DEF Changed, Keeps, Alive
<1> QED BY <1>6, <1>7

\* The last trailer.
LEMMA SealEffect == ASSUME Base, Seal PROVE SamePart /\ Changed /\ Keeps
<1>1. /\ pc = "Seal" /\ ~trailerWritten /\ trailerWritten' = TRUE
      /\ UNCHANGED <<mode, sent, pending, pendingVideo, queue, header, part, segmentOrigin,
                     segmentHasVideo, refused, caller, ready, roll, boundary, hr, failure,
                     shutdown, finalizing>>
      /\ \/ ~header /\ pc' = "crashed" /\ UNCHANGED <<parts, storageError>>
         \/ \E e \in Outcomes : /\ header /\ parts' = Appended(Trailer(e))
                                /\ storageError' = (storageError \/ e = "storage")
  BY Seals
<1>2. Kept' = Kept
  BY <1>1 DEF Kept, Queued, HeldBack, Waiting
<1>3. storageError => storageError'
  BY <1>1
<1>4. SamePart
  BY <1>1, <1>2, <1>3 DEF SamePart
<1>5. Changed
  BY <1>1 DEF Changed
<1> QED BY <1>1, <1>4, <1>5 DEF Keeps, Alive

\* A packet is handed to the muxer.
LEMMA HandsEffect ==
  ASSUME Base, NEW x, NEW rest, Hands(x, rest), ~trailerWritten, x \in HeldBack \cup Waiting,
         \/ caller = "Process"
         \/ caller = "Held" /\ ready = <<>> /\ rest = ready,
         Range(rest) \subseteq Range(ready), pending = <<>>,
         HeldBack \cup Range(ready) \subseteq {x} \cup HeldBack' \cup Range(rest)
  PROVE  SamePart /\ Changed /\ Keeps
<1>1. /\ MuxPacket(x, rest) /\ x \in Packets /\ rest \in Seq(Packets) /\ TypeOK /\ Tagged
      /\ UNCHANGED <<mode, sent, pending, part, segmentOrigin, segmentHasVideo, header,
                     trailerWritten, caller, shutdown, finalizing, finalized, result>>
      /\ pendingVideo' \in {pendingVideo, <<>>}
  BY DEF Hands, Base
<1>2. HeldBack' \subseteq HeldBack /\ Range(pending') = Range(pending) /\ Range(pending) = {}
  BY <1>1, RangeEmpty DEF HeldBack
<1>3. x.stream \in Streams
  BY <1>1, PacketFields
<1>4. ASSUME Range(ready') \subseteq Range(ready), Queued' \subseteq Queued \cup {x},
             refused \subseteq refused', storageError => storageError'
      PROVE  SamePart
  <2>1. Kept' \subseteq Kept
    BY <1>2, <1>4 DEF Kept, Waiting
  <2> QED BY <2>1, <1>1, <1>4 DEF SamePart
<1>5. CASE Direct(x, rest)
  <2>1. mode = "none" /\ MuxRaw(x, "return", rest) /\ queue' = queue
    BY <1>5 DEF Direct
  <2>2. /\ Range(ready') \subseteq Range(ready) /\ refused \subseteq refused'
        /\ storageError => storageError'
        /\ \/ parts' = parts /\ (pc' = "crashed" \/ storageError' \/ refused' # {})
           \/ /\ parts' = Appended(x) /\ header /\ ~storageError /\ refused' = refused
              /\ Return("ok", rest)
    BY <2>1, RawEffect
  <2>3. Queued' = Queued
    BY <2>1 DEF Queued
  <2>4. SamePart
    BY <2>2, <2>3, <1>4
  <2>5. CASE parts' = parts /\ (pc' = "crashed" \/ storageError' \/ refused' # {})
    <3>1. ~(Clean' /\ Alive')
      BY <2>5 DEF Clean, Alive
    <3> QED BY <2>4, <2>5, <3>1 DEF Changed, Keeps
  <2>6. CASE /\ parts' = Appended(x) /\ header /\ ~storageError /\ refused' = refused
             /\ Return("ok", rest)
    <3>1. hr' = hr /\ pc' # "Seal" /\ ready' = rest
      BY <2>6, Succeeds
    <3>2. \A y \in Kept : y \in Kept' \/ y = x
      BY <2>3, <3>1, <1>2 DEF Kept, Waiting
    <3>3. x \in Kept
      BY DEF Kept
    <3>4. Written(x)
      BY <2>1, <2>6, <3>3 DEF Written
    <3> QED BY <3>1, <3>2, <3>4, <2>4, <2>6, <1>1 DEF Changed, Keeps
  <2> QED BY <2>2, <2>5, <2>6
<1>6. CASE Overflows(rest)
  <2>1. Return("full", rest) /\ UNCHANGED <<queue, storageError, parts, refused>>
    BY <1>6 DEF Overflows
  <2>2. \/ caller = "Process" /\ failure' = "full" /\ ready' = <<>>
        \/ caller = "Held" /\ pc' = "Resume" /\ hr' = "full" /\ ready' = ready
    BY <2>1, Fails
  <2>3. Queued' = Queued /\ Range(ready') \subseteq Range(ready)
    BY <2>1, <2>2, RangeEmpty DEF Queued
  <2>4. SamePart /\ Changed
    BY <2>1, <2>3, <1>4 DEF Changed
  <2>5. CASE failure' = "full"
    BY <2>4, <2>5 DEF Keeps, Clean
  <2>6. CASE caller = "Held" /\ pc' = "Resume" /\ hr' = "full" /\ ready' = ready
    <3>1. \A y \in Range(pendingVideo) : y.stream = "video"
      BY Elements, <1>1
    <3>2. \A y \in Kept : y.stream = "audio" => y \in Kept'
      BY <2>3, <2>6, <3>1, <1>2 DEF Kept, HeldBack, Waiting
    <3> QED BY <2>1, <2>4, <2>6, <3>2 DEF Keeps
  <2> QED BY <2>2, <2>5, <2>6
<1>7. CASE Queues(x, rest)
  <2>1. /\ queue' = [queue EXCEPT ![x.stream] = Append(@, x)]
        /\ pc' = "Drain" /\ ready' = rest
        /\ UNCHANGED <<roll, boundary, hr, failure, storageError, parts, refused>>
    BY <1>7 DEF Queues
  <2>2. /\ \A t \in Streams : t # x.stream => queue'[t] = queue[t]
        /\ Range(queue'[x.stream]) = Range(queue[x.stream]) \cup {x}
    BY <2>1, <1>1, <1>3, QueueAppend
  <2>3. Queued' = Queued \cup {x}
    BY <2>2, <1>3 DEF Queued, Streams
  <2>4. SamePart
    BY <2>1, <2>3, <1>4
  <2>5. \A y \in Kept : y \in Kept'
    BY <2>1, <2>3, <1>2 DEF Kept, Waiting
  <2> QED BY <2>1, <2>4, <2>5 DEF Changed, Keeps
<1> QED BY <1>1, <1>5, <1>6, <1>7, MuxPacketCases

\* The next packet of the call, and the picture that was held.
LEMMA WriteEffect ==
  ASSUME Base, WritePacket \/ WriteHeld
  PROVE  SamePart /\ Changed /\ Keeps
<1>0. TypeOK /\ Tagged
  BY DEF Base
<1>1. CASE WritePacket
  <2>1. /\ pc = "Write" /\ ready # <<>> /\ ~trailerWritten /\ pending = <<>>
        /\ caller = "Process" /\ Head(ready) \in Packets /\ Tail(ready) \in Seq(Packets)
        /\ UNCHANGED <<mode, sent, pending, part, segmentOrigin, segmentHasVideo, header,
                       trailerWritten, caller, shutdown, finalizing, finalized, result>>
        /\ \/ /\ Head(ready).stream = "audio" /\ pendingVideo' = pendingVideo
              /\ Hands(Head(ready), Tail(ready))
           \/ /\ Head(ready).stream = "video" /\ pendingVideo # <<>> /\ pendingVideo' = <<>>
              /\ Hands(Head(pendingVideo), ready)
           \/ /\ Head(ready).stream = "video" /\ pendingVideo = <<>>
              /\ pendingVideo' = <<Head(ready)>> /\ ready' = Tail(ready)
              /\ UNCHANGED <<pc, roll, boundary, hr, failure, queue, storageError, parts,
                             refused>>
    BY <1>1, WritePackets
  <2>2. Range(ready) = {Head(ready)} \cup Range(Tail(ready))
    BY <2>1, RangeTail DEF Base, TypeOK, QueueTypes
  <2>3. CASE pendingVideo' = pendingVideo /\ Hands(Head(ready), Tail(ready))
    BY <2>1, <2>2, <2>3, HandsEffect DEF HeldBack, Waiting
  <2>4. CASE pendingVideo # <<>> /\ pendingVideo' = <<>> /\ Hands(Head(pendingVideo), ready)
    <3>1. Range(pendingVideo) = {Head(pendingVideo)}
      BY <2>4, <1>0, Held1
    <3> QED BY <2>1, <2>4, <3>1, HandsEffect DEF HeldBack
  <2>5. CASE /\ pendingVideo = <<>>
             /\ pendingVideo' = <<Head(ready)>> /\ ready' = Tail(ready)
             /\ UNCHANGED <<pc, roll, boundary, hr, failure, queue, storageError, parts,
                             refused>>
    <3>1. Range(<<Head(ready)>>) = {Head(ready)}
      BY DEF Range
    <3>2. Range(pendingVideo) = {}
      BY <2>5, RangeEmpty
    <3>3. Kept' = Kept
      BY <2>1, <2>2, <2>5, <3>1, <3>2 DEF Kept, Queued, HeldBack, Waiting
    <3> QED BY <2>1, <2>5, <3>3 DEF SamePart, Changed, Keeps
  <2> QED BY <2>1, <2>3, <2>4, <2>5
<1>2. CASE WriteHeld
  <2>1. /\ pc = "Held" /\ ~trailerWritten /\ caller = "Held" /\ ready = <<>> /\ pending = <<>>
        /\ pendingVideo' = <<>>
        /\ UNCHANGED <<mode, sent, pending, part, segmentOrigin, segmentHasVideo, header,
                       trailerWritten, caller, shutdown, finalizing, finalized, result>>
        /\ \/ pendingVideo = <<>> /\ Return("ok", ready) /\ Unwritten
           \/ pendingVideo # <<>> /\ Hands(Head(pendingVideo), ready)
    BY <1>2, WriteHelds
  <2>2. CASE pendingVideo = <<>> /\ Return("ok", ready) /\ Unwritten
    BY <2>1, <2>2, QuietEffect DEF Unwritten, finish
  <2>3. CASE pendingVideo # <<>> /\ Hands(Head(pendingVideo), ready)
    <3>1. Range(pendingVideo) = {Head(pendingVideo)}
      BY <2>3, <1>0, Held1
    <3> QED BY <2>1, <2>3, <3>1, HandsEffect DEF HeldBack
  <2> QED BY <2>1, <2>2, <2>3
<1> QED BY <1>1, <1>2

\* Every step.
LEMMA StepEffect ==
  ASSUME Base, Order, [Next]_vars
  PROVE  \/ \E s \in Streams : Process(s)
         \/ OpenNext
         \/ SamePart /\ Changed /\ Keeps
<1>1. CASE Drain
  BY <1>1, DrainEffect
<1>2. CASE Roll
  BY <1>2, RollEffect DEF Roll
<1>3. CASE WritePacket \/ WriteHeld
  BY <1>3, WriteEffect
<1>4. CASE Seal
  BY <1>4, SealEffect
<1>5. CASE \/ ProcessFails \/ ProcessReturns \/ BeginFinalize \/ Finalize \/ Resume \/ SealedBefore
           \/ Shutdown \/ UNCHANGED vars
  BY <1>5, CallEffect
<1> QED BY <1>1, <1>2, <1>3, <1>4, <1>5 DEF Next

\* What is kept and what is filed has been delivered, what is filed first.
LEMMA Known ==
  ASSUME Base, Order
  PROVE  /\ Kept \subseteq Packets /\ \A x \in Kept : x.stream \in Streams /\ x \in Range(sent[x.stream])
         /\ \A k \in 1 .. Len(parts) : \A s \in Streams :
              In(k, s) \subseteq Filed \cap Range(sent[s]) \cap Packets
         /\ \A k \in 1 .. Len(parts) : \A s \in Streams : \A x \in In(k, s) : x.stream = s
         /\ Before(Filed, Kept)
         /\ part = Len(parts) /\ part \in 1 .. Len(parts)
<1>1. Delivered \subseteq Packets /\ \A s \in Streams : \A x \in Range(sent[s]) : x.stream = s
  BY Elements DEF Base
<1>2. Filed \cup Kept \subseteq Delivered /\ Before(Filed, Kept)
  BY DEF Order, Line, InLine, Kept
<1>3. \A x \in Delivered : x \in Packets /\ x.stream \in Streams /\ x \in Range(sent[x.stream])
  BY <1>1, PacketFields DEF Delivered, Streams
<1>4. \A k \in 1 .. Len(parts) : \A s \in Streams : In(k, s) \subseteq Filed
  BY FiledIs DEF Base, In
<1>5. \A k \in 1 .. Len(parts) : \A s \in Streams : \A x \in In(k, s) : x.stream = s
  BY DEF In
<1>6. part = Len(parts) /\ part \in 1 .. Len(parts)
  BY FiledIs DEF Base, TypeOK, FileTypes
<1>7. \A k \in 1 .. Len(parts) : \A s \in Streams :
              In(k, s) \subseteq Filed \cap Range(sent[s]) \cap Packets
  BY <1>2, <1>3, <1>4, <1>5
<1> QED BY <1>2, <1>3, <1>5, <1>6, <1>7

\* One more element of the current file.
LEMMA InAppended ==
  ASSUME TypeOK, NEW x \in Content, parts' = Appended(x)
  PROVE  /\ Len(parts') = Len(parts)
         /\ \A k \in 1 .. Len(parts) : parts'[k].origin = parts[k].origin
         /\ \A k \in 1 .. Len(parts) : \A s \in Streams :
              In(k, s)' = In(k, s) \cup (IF k = part /\ x.stream = s THEN {x} ELSE {})
<1>1. /\ parts' \in Seq(Files) /\ Len(parts') = Len(parts)
      /\ \A k \in 1 .. Len(parts) : k # part => parts'[k] = parts[k]
      /\ parts'[part].content = Append(parts[part].content, x)
      /\ parts'[part].origin = parts[part].origin
  BY FileAppended
<1>2. parts[part].content \in Seq(Content)
  BY FiledIs
<1>3. Range(parts'[part].content) = Range(parts[part].content) \cup {x}
  BY <1>1, <1>2, RangeAppend
<1>4. ASSUME NEW k \in 1 .. Len(parts), NEW s \in Streams
      PROVE  In(k, s)' = In(k, s) \cup (IF k = part /\ x.stream = s THEN {x} ELSE {})
  <2>1. CASE k = part
    BY <1>3, <2>1 DEF In
  <2>2. CASE k # part
    BY <1>1, <2>2 DEF In
  <2> QED BY <2>1, <2>2
<1> QED BY <1>1, <1>4

\* What a step within a part adds to it.
LEMMA Grown ==
  ASSUME Base, SamePart, Changed
  PROVE  /\ Len(parts') = Len(parts) /\ part' = part
         /\ \A k \in 1 .. Len(parts) : parts'[k].origin = parts[k].origin
         /\ \/ \A k \in 1 .. Len(parts) : \A s \in Streams : In(k, s)' = In(k, s)
            \/ \E x \in Packets : /\ Written(x)
                 /\ \A k \in 1 .. Len(parts) : \A s \in Streams :
                      In(k, s)' = In(k, s) \cup (IF k = part /\ x.stream = s THEN {x} ELSE {})
<1>1. TypeOK /\ part' = part
  BY DEF Base, SamePart
<1>2. CASE parts' = parts
  BY <1>1, <1>2 DEF In
<1>3. ASSUME NEW x \in Packets, Written(x)
      PROVE  /\ Len(parts') = Len(parts) /\ part' = part
             /\ \A k \in 1 .. Len(parts) : parts'[k].origin = parts[k].origin
             /\ \A k \in 1 .. Len(parts) : \A s \in Streams :
                      In(k, s)' = In(k, s) \cup (IF k = part /\ x.stream = s THEN {x} ELSE {})
  <2>1. x \in Content /\ parts' = Appended(x)
    BY <1>3 DEF Content, Written
  <2> QED BY <2>1, <1>1, InAppended
<1>4. ASSUME NEW e, parts' = Appended(Trailer(e))
      PROVE  /\ Len(parts') = Len(parts) /\ part' = part
             /\ \A k \in 1 .. Len(parts) : parts'[k].origin = parts[k].origin
             /\ \A k \in 1 .. Len(parts) : \A s \in Streams : In(k, s)' = In(k, s)
  <2>1. Trailer(e) \in Content /\ Trailer(e).stream \notin Streams
    BY TrailerTypes DEF Streams
  <2>2. /\ Len(parts') = Len(parts)
        /\ \A k \in 1 .. Len(parts) : parts'[k].origin = parts[k].origin
        /\ \A k \in 1 .. Len(parts) : \A s \in Streams :
              In(k, s)' = In(k, s) \cup (IF k = part /\ Trailer(e).stream = s THEN {Trailer(e)} ELSE {})
    BY <2>1, <1>1, <1>4, InAppended
  <2>3. ASSUME NEW k \in 1 .. Len(parts), NEW s \in Streams PROVE In(k, s)' = In(k, s)
    <3>1. Trailer(e).stream # s
      BY <2>1, <2>3
    <3>2. In(k, s)' = In(k, s) \cup (IF k = part /\ Trailer(e).stream = s THEN {Trailer(e)} ELSE {})
      BY <2>2
    <3> QED BY <3>1, <3>2
  <2> QED BY <2>2, <2>3, <1>1
<1> QED BY <1>2, <1>3, <1>4 DEF Changed

\* The next part is empty.
LEMMA InOpened ==
  ASSUME Base, OpenNext
  PROVE  /\ Len(parts') = Len(parts) + 1 /\ part' = part + 1 /\ segmentOrigin' = video.pts
         /\ \A k \in 1 .. Len(parts) : /\ parts'[k].origin = parts[k].origin
                                       /\ \A s \in Streams : In(k, s)' = In(k, s)
         /\ parts'[part + 1].origin = video.pts /\ \A s \in Streams : Here(s)' = {}
         /\ part = Len(parts) /\ part \in Nat
<1>1. TypeOK /\ Tagged /\ part = Len(parts) /\ Len(parts) \in Nat /\ pc = "Open"
  BY FiledIs, OpenNexts DEF Base, TypeOK, FileTypes
<1>2. queue["video"] # <<>> /\ video.pts \in Int
  <2>1. queue["video"] # <<>>
    BY <1>1 DEF Base, Control, Draining, Rolling
  <2> QED BY <2>1, <1>1, VideoHead, PacketFields
<1>3. part' = part + 1 /\ segmentOrigin' = video.pts
      /\ parts' = Append(parts, [origin |-> video.pts, content |-> <<>>])
  BY OpenNexts
<1>4. /\ Len(parts') = Len(parts) + 1
      /\ \A k \in 1 .. Len(parts) : parts'[k] = parts[k]
      /\ parts'[Len(parts) + 1] = [origin |-> video.pts, content |-> <<>>]
  BY <1>1, <1>2, <1>3, FileOpened
<1>5. \A s \in Streams : Here(s)' = {}
  <2>1. parts'[part'].content = <<>>
    BY <1>1, <1>3, <1>4
  <2> QED BY <2>1, RangeEmpty DEF Here, In
<1> QED BY <1>1, <1>3, <1>4, <1>5 DEF In

\* The packets that are kept once one more is delivered.
LEMMA Taken ==
  ASSUME Base, NEW s \in Streams, Process(s)
  PROVE  \E p \in NextPackets(s) :
           /\ sent' = [sent EXCEPT ![s] = Append(@, p)]
           /\ Kept' = Kept \cup {p} /\ ready = <<>> /\ pc = "idle" /\ pc' \in {"idle", "Write"}
           /\ caller = "Process" /\ ~shutdown /\ ~finalizing /\ ~trailerWritten /\ failure = "ok"
           /\ UNCHANGED <<mode, pendingVideo, queue, part, segmentOrigin, segmentHasVideo,
                          trailerWritten, caller, roll, boundary, hr, storageError, shutdown,
                          finalizing, finalized, result, parts, refused>>
           /\ header' = header
              \/ (header' = TRUE /\ ~header /\ failure' = failure /\ \A t \in Streams : sent'[t] # <<>>)
           /\ pc' = "Write" => header' /\ failure' = failure
           /\ pc' = "idle" => ~header' /\ ready' = ready
<1>1. PICK p \in Packets :
            /\ p \in NextPackets(s) /\ p.stream = s
            /\ sent' = [sent EXCEPT ![s] = Append(@, p)]
            /\ pc = "idle" /\ ready = <<>> /\ caller = "Process"
            /\ ~shutdown /\ ~finalizing /\ ~finalized /\ failure = "ok" /\ ~trailerWritten
            /\ UNCHANGED <<mode, pendingVideo, queue, part, segmentOrigin, segmentHasVideo,
                           trailerWritten, caller, roll, boundary, hr, storageError, shutdown,
                           finalizing, finalized, result, parts, refused>>
            /\ \/ /\ pending = <<>> /\ pending' = pending /\ header' = header /\ failure' = failure
                  /\ ready' = <<p>> /\ pc' = "Write" /\ header
               \/ /\ pending' = Append(pending, p) /\ header' = header
                  /\ UNCHANGED <<pc, ready>> /\ ~header
               \/ /\ pending' = <<>> /\ header' = TRUE /\ failure' = failure
                  /\ ready' = Append(pending, p) /\ pc' = "Write" /\ ~header
                  /\ \A t \in Streams : sent'[t] # <<>>
  BY Processes
<1>2. Range(<<p>>) = {p} /\ Range(ready) = {} /\ Range(Append(pending, p)) = Range(pending) \cup {p}
  <2>1. Range(<<p>>) = {p}
    BY DEF Range
  <2>2. Range(ready) = {}
    BY <1>1, RangeEmpty
  <2>3. pending \in Seq(Packets)
    BY DEF Base, TypeOK, QueueTypes
  <2>4. Range(Append(pending, p)) = Range(pending) \cup {p}
    BY <2>3, RangeAppend
  <2> QED BY <2>1, <2>2, <2>4
<1>3. Waiting' = Waiting \cup {p}
  <2>1. Range(ready') \cup Range(pending') = Range(ready) \cup Range(pending) \cup {p}
    BY <1>1, <1>2, RangeEmpty
  <2> QED BY <2>1 DEF Waiting
<1>4. Kept' = Kept \cup {p}
  BY <1>1, <1>3 DEF Kept, Queued, HeldBack
<1>5. pc' \in {"idle", "Write"}
  BY <1>1
<1>6. header' = header \/ (header' = TRUE /\ ~header /\ failure' = failure /\ \A t \in Streams : sent'[t] # <<>>)
  BY <1>1
<1>7. (pc' = "Write" => header' /\ failure' = failure) /\ (pc' = "idle" => ~header' /\ ready' = ready)
  BY <1>1
<1> QED BY <1>1, <1>4, <1>5, <1>6, <1>7
-----------------------------------------------------------------------------
(* The parts divide the timeline *)

\* The head of a queue is the first of its stream that is kept.
LEMMA FirstKept ==
  ASSUME Base, Order, NEW s \in Streams, queue[s] # <<>>
  PROVE  /\ Head(queue[s]) \in Kept \cap Packets \cap Range(sent[s]) /\ Head(queue[s]).stream = s
         /\ \A y \in Kept : y.stream = s => Head(queue[s]).dts <= y.dts
<1> DEFINE q == queue[s]
           h == Head(q)
<1>1. /\ q \in Seq(Packets) /\ q # <<>> /\ Ordered(q) /\ \A x \in Range(q) : x.stream = s
      /\ \A t \in Streams : \A x \in Range(queue[t]) : x.stream = t
  BY Elements DEF Base, Order
<1>2. h \in Packets /\ h = q[1] /\ Range(q) = {h} \cup Range(Tail(q)) /\ Before({h}, Range(Tail(q)))
  BY <1>1, RangeTail, OrderedTail
<1>3. Range(q) \subseteq Queued
  BY DEF Queued, Streams
<1>4. h \in Range(q) /\ h.stream = s /\ h.dts \in Int
  BY <1>1, <1>2, PacketFields
<1>5. h \in Kept /\ h \in Range(sent[s])
  BY <1>3, <1>4, Known DEF Kept
<1>6. Before(Queued, HeldBack \cup Waiting)
  BY DEF Order, Line, InLine
<1>7. ASSUME NEW y \in Kept, y.stream = s PROVE h.dts <= y.dts
  <2>0. y.dts \in Int
    BY Known, PacketFields
  <2>1. CASE y \in Queued
    <3>1. y \in Range(q)
      BY <2>1, <1>1, <1>7 DEF Queued, Streams
    <3> QED BY <3>1, <2>0, <1>2, <1>4, <1>7 DEF Before
  <2>2. CASE y \notin Queued
    <3>1. y \in HeldBack \cup Waiting /\ h \in Queued
      BY <2>2, <1>3, <1>4 DEF Kept
    <3>2. h.dts < y.dts
      BY <3>1, <1>4, <1>6, <1>7 DEF Before
    <3> QED BY <3>2, <2>0, <1>4
  <2> QED BY <2>1, <2>2
<1> QED BY <1>2, <1>4, <1>5, <1>7

\* The picture that is decided about is the first that is kept.
LEMMA FirstPicture ==
  ASSUME Base, Order, queue["video"] # <<>>
  PROVE  /\ video \in Kept /\ video \in Packets /\ video \in Range(sent["video"])
         /\ video.stream = "video" /\ video.dts \in Int /\ video.pts \in Int
         /\ \A y \in Kept : y.stream = "video" => video.dts <= y.dts
<1>1. /\ video \in Kept \cap Packets \cap Range(sent["video"]) /\ video.stream = "video"
      /\ \A y \in Kept : y.stream = "video" => video.dts <= y.dts
  BY FirstKept DEF Streams, video
<1> QED BY <1>1, PacketFields

\* What the current part holds is shown before the picture that it is cut at.
LEMMA BeforeCut ==
  ASSUME Base, Order, Timeline, SoundBound, Cut, pc \in Rolling
  PROVE  /\ \A s \in Streams : \A x \in Here(s) : x.pts < boundary
         /\ video.pts = boundary /\ queue["video"] # <<>> /\ mode # "none"
<1>1. queue["video"] # <<>> /\ mode # "none"
  BY DEF Base, Control, Draining, Rolling
<1>2. boundary = video.pts /\ video.key # "no"
  BY DEF Cut, Cutting
<1>3. /\ video \in Kept /\ video \in Packets /\ video \in Range(sent["video"])
      /\ video.stream = "video" /\ video.dts \in Int /\ video.pts \in Int
  BY <1>1, FirstPicture
<1>4. part \in 1 .. Len(parts)
  BY Known
<1>5. ASSUME NEW x \in Here("video") PROVE x.pts < boundary
  <2>1. x \in Filed /\ x \in Range(sent["video"]) /\ x.stream = "video"
    BY <1>4, Known DEF Here, Streams
  <2>2. x.dts < video.dts
    BY <2>1, <1>3, Known DEF Before
  <2> QED BY <2>1, <2>2, <1>2, <1>3 DEF Timeline
<1>6. ASSUME NEW x \in Here("audio") PROVE x.pts < boundary
  <2>1. PICK v \in Range(sent["video"]) :
               x.pts < v.pts /\ \A y \in Kept : y.stream = "video" => v.dts <= y.dts
    BY <1>1 DEF SoundBound
  <2>2. v.dts <= video.dts /\ v \in Packets /\ x \in Packets
    BY <2>1, <1>3, <1>4, Known, Elements DEF Here, Streams, Base
  <2>3. x.pts \in Int /\ v.pts \in Int /\ v.dts \in Int
    BY <2>2, PacketFields
  <2>4. CASE v.dts = video.dts
    BY <2>1, <2>4, <1>2, <1>3 DEF Timeline
  <2>5. CASE v.dts # video.dts
    <3>1. v.dts < video.dts
      BY <2>2, <2>3, <2>5, <1>3
    <3>2. v.pts < video.pts
      BY <3>1, <1>2, <1>3 DEF Timeline
    <3> QED BY <3>2, <2>1, <2>3, <1>2, <1>3
  <2> QED BY <2>4, <2>5
<1> QED BY <1>1, <1>2, <1>5, <1>6 DEF Streams

\* Steps within a part.
LEMMA SameDivision ==
  ASSUME Base, Order, Division, SamePart, Changed
  PROVE  Division'
<1>1. /\ Len(parts') = Len(parts) /\ part' = part
      /\ \A k \in 1 .. Len(parts) : parts'[k].origin = parts[k].origin
      /\ \/ \A k \in 1 .. Len(parts) : \A s \in Streams : In(k, s)' = In(k, s)
         \/ \E x \in Packets : /\ Written(x)
                 /\ \A k \in 1 .. Len(parts) : \A s \in Streams :
                      In(k, s)' = In(k, s) \cup (IF k = part /\ x.stream = s THEN {x} ELSE {})
  BY Grown
<1>2. segmentOrigin' = segmentOrigin /\ sent' = sent /\ Kept' \subseteq Kept /\ (finalizing => finalizing')
  BY DEF SamePart
<1>3. part = Len(parts) /\ part \in 1 .. Len(parts) /\ Len(parts) \in Nat
  BY Known, FiledIs DEF Base
<1>4. segmentOrigin = parts[part].origin /\ segmentOrigin >= 0 /\ (part = 1 => segmentOrigin = 0)
  BY DEF Division
<1>5. segmentOrigin' = parts'[part'].origin
  BY <1>1, <1>2, <1>3, <1>4
<1>6. ASSUME NEW k \in 1 .. Len(parts), NEW s \in Streams, NEW x \in In(k, s)
      PROVE  TakesPartOf(k, x.pts)' /\ (k < part => x.pts < segmentOrigin)
  <2>1. TakesPartOf(k, x.pts) /\ (k < part => x.pts < segmentOrigin)
    BY DEF Division
  <2>2. k < Len(parts) => parts'[k + 1].origin = parts[k + 1].origin
    BY <1>1, <1>3
  <2> QED BY <2>1, <2>2, <1>1 DEF TakesPartOf
<1>7. ASSUME NEW x \in Packets, Written(x)
      PROVE  TakesPartOf(part, x.pts)'
  <2>1. x.pts >= segmentOrigin
    BY <1>7 DEF Division, Written
  <2>2. x.pts \in Int /\ parts'[part].origin = segmentOrigin /\ segmentOrigin \in Int
    BY <1>1, <1>3, <1>4, PacketFields DEF Base, TypeOK, FileTypes
  <2> QED BY <2>1, <2>2, <1>1, <1>3 DEF TakesPartOf
<1>8. \A k \in 1 .. Len(parts) : \A s \in Streams : \A x \in In(k, s)' :
        TakesPartOf(k, x.pts)' /\ (k < part => x.pts < segmentOrigin)
  <2>1. CASE \A k \in 1 .. Len(parts) : \A s \in Streams : In(k, s)' = In(k, s)
    BY <2>1, <1>6
  <2>2. ASSUME NEW y \in Packets, Written(y),
               \A k \in 1 .. Len(parts) : \A s \in Streams :
                 In(k, s)' = In(k, s) \cup (IF k = part /\ y.stream = s THEN {y} ELSE {}),
               NEW k \in 1 .. Len(parts), NEW s \in Streams, NEW x \in In(k, s)'
        PROVE  TakesPartOf(k, x.pts)' /\ (k < part => x.pts < segmentOrigin)
    <3>1. CASE x \in In(k, s)
      BY <3>1, <1>6
    <3>2. CASE x \notin In(k, s)
      <4>1. x = y /\ k = part
        BY <2>2, <3>2
      <4>2. TakesPartOf(part, y.pts)'
        BY <2>2, <1>7
      <4> QED BY <4>1, <4>2, <1>1, <1>3 DEF TakesPartOf
    <3> QED BY <3>1, <3>2
  <2> QED BY <2>1, <2>2, <1>1
<1>9. \A x \in Kept' : x.pts >= segmentOrigin'
  BY <1>2 DEF Division
<1>10. \/ finalizing' \/ segmentOrigin' = 0
       \/ \A s \in Streams : \E d \in Range(sent'[s]) : d.dts >= segmentOrigin'
  BY <1>2 DEF Division
<1> QED BY <1>1, <1>2, <1>4, <1>5, <1>8, <1>9, <1>10 DEF Division

\* Sound that is written is shown before the picture that was decided about.
LEMMA SameSound ==
  ASSUME Base, Order, Cut, SoundBound, SamePart, Changed
  PROVE  SoundBound'
<1>1. /\ mode' = mode /\ sent' = sent /\ Kept' \subseteq Kept
      /\ caller = "Finish" /\ queue["video"] = <<>> => caller' = "Finish" /\ queue'["video"] = <<>>
  BY DEF SamePart
<1>2. ASSUME mode # "none", ~(caller = "Finish" /\ queue["video"] = <<>>), NEW a \in Here("audio")'
      PROVE  \E v \in Range(sent["video"]) :
               a.pts < v.pts /\ \A x \in Kept : x.stream = "video" => v.dts <= x.dts
  <2>1. CASE a \in Here("audio")
    BY <2>1, <1>2 DEF SoundBound
  <2>2. CASE a \notin Here("audio")
    <3>1. a \in Packets /\ a.stream = "audio" /\ Written(a)
      BY <2>2, Grown, Known DEF Here, Streams
    <3>2. pc = "Audio" /\ a.pts < boundary
      <4>1. pc = "Video" => video.stream = "video"
        BY FirstPicture DEF Base, Control, Draining
      <4> QED BY <3>1, <4>1, <1>2 DEF Written
    <3>3. /\ video \in Range(sent["video"]) /\ video.pts \in Int
          /\ \A y \in Kept : y.stream = "video" => video.dts <= y.dts
      BY <3>2, FirstPicture DEF Base, Control, Draining
    <3>4. a.pts < video.pts
      <4>1. boundary <= video.pts /\ boundary \in Int /\ a.pts \in Int
        BY <3>1, <3>2, PacketFields DEF Cut, Base, TypeOK, CallTypes
      <4> QED BY <4>1, <3>2, <3>3
    <3> QED BY <3>3, <3>4
  <2> QED BY <2>1, <2>2
<1>3. ASSUME mode' # "none", ~(caller' = "Finish" /\ queue'["video"] = <<>>), NEW a \in Here("audio")'
      PROVE  \E v \in Range(sent'["video"]) :
               a.pts < v.pts /\ \A x \in Kept' : x.stream = "video" => v.dts <= x.dts
  BY <1>1, <1>2, <1>3
<1> QED BY <1>3 DEF SoundBound

\* One more packet is delivered.
LEMMA ProcessDivision ==
  ASSUME Base, Order, Timeline, Division, SoundBound, NEW s \in Streams, Process(s)
  PROVE  Timeline' /\ Division' /\ SoundBound'
<1>1. PICK p \in NextPackets(s) :
           /\ sent' = [sent EXCEPT ![s] = Append(@, p)]
           /\ Kept' = Kept \cup {p} /\ ~finalizing /\ caller = "Process"
           /\ UNCHANGED <<mode, queue, part, segmentOrigin, caller, finalizing, parts>>
  BY Taken
<1>2. /\ Timeline'
      /\ Range(sent'[s]) = Range(sent[s]) \cup {p}
      /\ \A t \in Streams : t # s => sent'[t] = sent[t]
      /\ p \in Packets /\ p.stream = s /\ p.dts >= 0 /\ p.pts >= p.dts
      /\ \A x \in Range(sent[s]) : x \in Packets /\ x.dts < p.dts
  BY <1>1, DeliverTimeline
<1>3. p.dts \in Int /\ p.pts \in Int /\ segmentOrigin \in Int
  BY <1>2, PacketFields DEF Base, TypeOK, FileTypes
<1>4. p.pts >= segmentOrigin
  <2>1. CASE segmentOrigin = 0
    BY <2>1, <1>2, <1>3
  <2>2. ASSUME NEW d \in Range(sent[s]), d.dts >= segmentOrigin PROVE p.pts >= segmentOrigin
    <3>1. d.dts \in Int /\ d.dts < p.dts
      BY <1>2, PacketFields
    <3> QED BY <3>1, <2>2, <1>2, <1>3
  <2> QED BY <2>1, <2>2, <1>1 DEF Division
<1>5. \A t \in Streams : Range(sent[t]) \subseteq Range(sent'[t])
  BY <1>2
<1>6. Division'
  <2>1. \A k : \A t : In(k, t)' = In(k, t)
    BY <1>1 DEF In
  <2>2. \A k, t : TakesPartOf(k, t)' = TakesPartOf(k, t)
    BY <1>1 DEF TakesPartOf
  <2>3. \A x \in Kept' : x.pts >= segmentOrigin
    BY <1>1, <1>4 DEF Division
  <2>4. segmentOrigin = 0 \/ \A t \in Streams : \E d \in Range(sent'[t]) : d.dts >= segmentOrigin
    BY <1>1, <1>5 DEF Division
  <2> QED BY <1>1, <2>1, <2>2, <2>3, <2>4 DEF Division
<1>7. SoundBound'
  <2>1. Here("audio")' = Here("audio")
    BY <1>1 DEF Here, In
  <2>2. ASSUME mode # "none", NEW a \in Here("audio")
        PROVE  \E v \in Range(sent'["video"]) :
                 a.pts < v.pts /\ \A x \in Kept' : x.stream = "video" => v.dts <= x.dts
    <3>1. PICK v \in Range(sent["video"]) :
                 a.pts < v.pts /\ \A x \in Kept : x.stream = "video" => v.dts <= x.dts
      BY <2>2, <1>1 DEF SoundBound
    <3>2. p.stream = "video" => v.dts <= p.dts
      <4>1. ASSUME s = "video" PROVE v.dts <= p.dts
        <5>1. v \in Packets /\ v.dts < p.dts
          BY <4>1, <1>2
        <5>2. v.dts \in Int
          BY <5>1, PacketFields
        <5> QED BY <5>1, <5>2, <1>3
      <4> QED BY <4>1, <1>2
    <3>3. v \in Range(sent'["video"])
      BY <1>5 DEF Streams
    <3> QED BY <3>1, <3>2, <3>3, <1>1
  <2> QED BY <1>1, <2>1, <2>2 DEF SoundBound
<1> QED BY <1>2, <1>6, <1>7

\* The next part begins where the current one ends.
LEMMA OpenDivision ==
  ASSUME Base, Order, Timeline, Division, SoundBound, Cut, OpenNext
  PROVE  Timeline' /\ Division' /\ SoundBound'
<1>1. /\ Len(parts') = Len(parts) + 1 /\ part' = part + 1 /\ segmentOrigin' = video.pts
      /\ \A k \in 1 .. Len(parts) : /\ parts'[k].origin = parts[k].origin
                                    /\ \A s \in Streams : In(k, s)' = In(k, s)
      /\ parts'[part + 1].origin = video.pts /\ \A s \in Streams : Here(s)' = {}
      /\ part = Len(parts) /\ part \in Nat
  BY InOpened
<1>2. /\ pc = "Open" /\ caller \in {"Process", "Held", "Finish"}
      /\ UNCHANGED <<mode, sent, pending, pendingVideo, queue, finalizing>>
      /\ ready' \in {ready, <<>>}
  <2>1. caller \in {"Process", "Held", "Finish"}
    BY DEF Base, TypeOK, CallTypes
  <2>2. /\ pc = "Open" /\ UNCHANGED <<mode, sent, pending, pendingVideo, queue, finalizing>>
        /\ ready' = ready \/ Return("open", ready)
    BY OpenNexts
  <2> QED BY <2>1, <2>2, Returns
<1>3. pc \in Rolling /\ Cutting
  BY <1>2 DEF Rolling, Cutting
<1>4. /\ \A s \in Streams : \A x \in Here(s) : x.pts < video.pts
      /\ video.pts = boundary /\ queue["video"] # <<>>
  BY <1>3, BeforeCut
<1>5. /\ boundary > segmentOrigin /\ (\A x \in Kept : x.pts >= boundary)
      /\ \E a \in Range(queue["audio"]) : a.pts >= boundary
      /\ finalizing \/ \E d \in Range(sent["video"]) : d.dts >= boundary
  BY <1>3 DEF Cut
<1>6. boundary \in Int /\ segmentOrigin \in Int /\ segmentOrigin >= 0
  BY DEF Base, TypeOK, FileTypes, CallTypes, Division
<1>7. Kept' \subseteq Kept
  BY <1>2, RangeEmpty DEF Kept, Queued, HeldBack, Waiting
<1>8. ASSUME NEW k \in 1 .. Len(parts), NEW s \in Streams, NEW x \in In(k, s)
      PROVE  TakesPartOf(k, x.pts)' /\ x.pts < video.pts
  <2>1. TakesPartOf(k, x.pts) /\ (k < part => x.pts < segmentOrigin)
    BY DEF Division
  <2>2. x.pts \in Int
    BY Known, PacketFields
  <2>3. x.pts < video.pts
    <3>1. CASE k < part
      BY <3>1, <2>1, <2>2, <1>4, <1>5, <1>6
    <3>2. CASE k = part
      BY <3>2, <1>4 DEF Here
    <3> QED BY <3>1, <3>2, <1>1
  <2>4. parts[k].origin <= x.pts
    BY <2>1 DEF TakesPartOf
  <2>5. k < Len(parts') => x.pts < parts'[k + 1].origin
    <3>1. CASE k < part
      BY <3>1, <2>1, <1>1 DEF TakesPartOf
    <3>2. CASE k = part
      BY <3>2, <2>3, <1>1
    <3> QED BY <3>1, <3>2, <1>1
  <2> QED BY <2>3, <2>4, <2>5, <1>1 DEF TakesPartOf
<1>9. ASSUME NEW k \in 1 .. Len(parts'), NEW s \in Streams, NEW x \in In(k, s)'
      PROVE  TakesPartOf(k, x.pts)' /\ (k < part' => x.pts < segmentOrigin')
  <2>1. CASE k = part'
    BY <2>1, <1>1 DEF Here
  <2>2. CASE k # part'
    <3>1. k \in 1 .. Len(parts)
      BY <2>2, <1>1
    <3>2. x \in In(k, s)
      BY <3>1, <1>1
    <3> QED BY <3>1, <3>2, <1>1, <1>8
  <2> QED BY <2>1, <2>2
<1>10. segmentOrigin' = parts'[part'].origin /\ segmentOrigin' >= 0 /\ part' # 1
  <2>1. segmentOrigin' = parts'[part'].origin
    BY <1>1
  <2>2. video.pts = boundary
    BY <1>4
  <2>3. video.pts >= 0
    BY <2>2, <1>5, <1>6
  <2>4. part >= 1 /\ part \in Nat
    BY Known, <1>1
  <2>5. part + 1 # 1
    BY <2>4
  <2> QED BY <2>1, <2>3, <2>5, <1>1
<1>11. \A x \in Kept' : x.pts >= segmentOrigin'
  BY <1>1, <1>4, <1>5, <1>7
<1>12. finalizing' \/ \A s \in Streams : \E d \in Range(sent'[s]) : d.dts >= segmentOrigin'
  <2>1. PICK a \in Range(queue["audio"]) : a.pts >= boundary
    BY <1>5
  <2>2. a \in Kept /\ a.stream = "audio"
    BY Elements DEF Kept, Queued, Base, Streams
  <2>3. a \in Range(sent["audio"])
    BY <2>2, Known
  <2>4. a.dts >= boundary
    BY <2>1, <2>3 DEF Timeline
  <2> QED BY <2>3, <2>4, <1>1, <1>2, <1>4, <1>5 DEF Streams
<1>13. Division'
  BY <1>9, <1>10, <1>11, <1>12 DEF Division
<1>14. SoundBound'
  BY <1>1 DEF SoundBound, Streams
<1>15. Timeline'
  BY <1>2 DEF Timeline, NoLongGap
<1> QED BY <1>13, <1>14, <1>15

\* Every step.
LEMMA StepDivision ==
  ASSUME Base, Order, Timeline, Division, SoundBound, Cut, [Next]_vars
  PROVE  Timeline' /\ Division' /\ SoundBound'
<1>1. CASE \E s \in Streams : Process(s)
  BY <1>1, ProcessDivision
<1>2. CASE OpenNext
  BY <1>2, OpenDivision
<1>3. CASE SamePart /\ Changed
  <2>1. Timeline'
    BY <1>3 DEF SamePart, Timeline, NoLongGap
  <2> QED BY <1>3, <2>1, SameDivision, SameSound
<1> QED BY <1>1, <1>2, <1>3, StepEffect
-----------------------------------------------------------------------------
(* A cut is clean *)

\* What a decision to cut was made of.
LEMMA DecideCuts ==
  ASSUME TypeOK, Tagged, Decide, pc' = "Audio", video.dts <= video.pts
  PROVE  /\ boundary' <= video.pts
         /\ roll' => /\ MayRoll /\ boundary' = video.pts /\ Covered(video.pts)
                     /\ mode = "time" => video.pts - segmentOrigin >= SplitAfter
                     /\ \/ video.pts <= video.dts
                        \/ ~HasLeading /\ (finish \/ Last(queue["video"]).dts >= video.pts)
<1> DEFINE reordered(due) == due /\ video.pts > video.dts
           cut(due) == due /\ ~(reordered(due) /\ HasLeading)
           end(due) == IF cut(due) THEN video.pts ELSE video.dts
<1>1. caller \in {"Process", "Held", "Finish"}
  BY DEF TypeOK, CallTypes
<1>2. ~Return("ok", ready)
  BY <1>1, Returns
<1>3. PICK due \in Due :
        /\ ~(~finish /\ (\/ reordered(due) /\ Last(queue["video"]).dts < video.pts
                         \/ ~Covered(end(due))))
        /\ roll' = (cut(due) /\ Covered(end(due))) /\ boundary' = end(due)
  BY <1>2 DEF Decide
<1>4. video.dts \in Int /\ video.pts \in Int /\ Last(queue["video"]).dts \in Int
  <2>1. queue["video"] # <<>> /\ queue["video"] \in Seq(Packets)
    BY DEF Decide, TypeOK, QueueTypes, Streams
  <2>2. Len(queue["video"]) \in 1 .. Len(queue["video"])
    BY <2>1, EmptySeq, LenProperties
  <2>3. Last(queue["video"]) \in Packets
    BY <2>1, <2>2, RangeMembers DEF Last
  <2> QED BY <2>1, <2>3, VideoHead, PacketFields
<1>5. due \in BOOLEAN /\ (due => MayRoll /\ (mode = "time" => video.pts - segmentOrigin >= SplitAfter))
  <2>1. CASE ~MayRoll
    BY <2>1 DEF Due
  <2>2. CASE MayRoll /\ mode = "time"
    <3>1. due = (video.pts - segmentOrigin >= SplitAfter)
      BY <2>2 DEF Due
    <3>2. due \in BOOLEAN
      BY <3>1
    <3>3. due => video.pts - segmentOrigin >= SplitAfter
      BY <3>1
    <3> QED BY <2>2, <3>2, <3>3
  <2>3. CASE MayRoll /\ mode # "time"
    BY <2>3 DEF Due
  <2> QED BY <2>1, <2>2, <2>3
<1>6. boundary' <= video.pts
  BY <1>3, <1>4
<1>7. ASSUME roll'
      PROVE  /\ MayRoll /\ boundary' = video.pts /\ Covered(video.pts)
             /\ mode = "time" => video.pts - segmentOrigin >= SplitAfter
             /\ \/ video.pts <= video.dts
                \/ ~HasLeading /\ (finish \/ Last(queue["video"]).dts >= video.pts)
  <2>1. cut(due) /\ Covered(end(due))
    BY <1>3, <1>7
  <2>2. due /\ end(due) = video.pts
    BY <2>1
  <2>3. reordered(due) => ~HasLeading /\ (finish \/ ~(Last(queue["video"]).dts < video.pts))
    BY <2>1, <1>3
  <2>4. ~reordered(due) => video.pts <= video.dts
    BY <2>2, <1>4
  <2>5. \/ video.pts <= video.dts
        \/ ~HasLeading /\ (finish \/ Last(queue["video"]).dts >= video.pts)
    BY <2>3, <2>4, <1>4
  <2> QED BY <2>1, <2>2, <2>5, <1>3, <1>5
<1> QED BY <1>6, <1>7

\* No picture that is kept is shown before the one that the part is cut at.
LEMMA CutPictures ==
  ASSUME Base, Order, Timeline, Emptied, pc = "Drain", queue["video"] # <<>>,
         \/ video.pts <= video.dts
         \/ ~HasLeading /\ (finish \/ Last(queue["video"]).dts >= video.pts)
  PROVE  /\ \A y \in Kept : y.stream = "video" => y.pts >= video.pts
         /\ finalizing \/ \E d \in Range(sent["video"]) : d.dts >= video.pts
<1> DEFINE q == queue["video"]
<1>1. /\ video \in Range(sent["video"]) /\ video.dts \in Int /\ video.pts \in Int
      /\ \A y \in Kept : y.stream = "video" => video.dts <= y.dts
  BY FirstPicture
<1>2. \A y \in Kept : y.stream = "video" =>
        y.dts \in Int /\ y.pts \in Int /\ y.pts >= y.dts /\ y \in Range(sent["video"])
  <2>1. \A y \in Kept : y.dts \in Int /\ y.pts \in Int /\ y \in Range(sent[y.stream])
    BY Known, PacketFields
  <2> QED BY <2>1 DEF Timeline
<1>3. q \in Seq(Packets) /\ Ordered(q) /\ \A x \in Range(q) : x.stream = "video"
  BY Elements DEF Base, Order, Streams, TypeOK, QueueTypes
<1>4. /\ DOMAIN q = 1 .. Len(q) /\ Len(q) \in 1 .. Len(q)
      /\ \A i \in DOMAIN q : q[i] \in Kept /\ q[i].stream = "video"
  <2>1. DOMAIN q = 1 .. Len(q) /\ Len(q) \in 1 .. Len(q)
    BY <1>3, EmptySeq, LenProperties
  <2>2. \A i \in DOMAIN q : q[i] \in Range(q)
    BY <2>1, <1>3, RangeMembers
  <2> QED BY <2>1, <2>2, <1>3 DEF Kept, Queued
<1>5. CASE video.pts <= video.dts
  <2>1. ASSUME NEW y \in Kept, y.stream = "video" PROVE y.pts >= video.pts
    BY <2>1, <1>1, <1>2, <1>5
  <2> QED BY <2>1, <1>1, <1>5
<1>6. CASE ~HasLeading /\ (finish \/ Last(q).dts >= video.pts)
  <2>1. ASSUME NEW i \in DOMAIN q PROVE q[i].pts >= video.pts
    <3>1. \/ ~(q[i].pts < video.pts)
          \/ \E j \in 1 .. i - 1 : ~(q[j].dts < video.pts)
      BY <1>6 DEF HasLeading
    <3>2. CASE ~(q[i].pts < video.pts)
      BY <3>2, <1>1, <1>2, <1>4
    <3>3. ASSUME NEW j \in 1 .. i - 1, ~(q[j].dts < video.pts) PROVE q[i].pts >= video.pts
      <4>1. j \in DOMAIN q
        BY <1>4
      <4>2. q[j].dts < q[i].dts
        BY <4>1, <1>3, <1>4 DEF Ordered
      <4>3. q[j].dts \in Int /\ q[i].dts \in Int /\ q[i].pts \in Int /\ q[i].pts >= q[i].dts
        BY <4>1, <1>2, <1>4
      <4> QED BY <4>2, <4>3, <3>3, <1>1
    <3> QED BY <3>1, <3>2, <3>3
  <2>2. ASSUME finish PROVE HeldBack = {} /\ Waiting = {}
    <3>1. pendingVideo = <<>> /\ ready = <<>> /\ pending = <<>>
      BY <2>2 DEF Emptied, finish, Base, Control
    <3> QED BY <3>1, RangeEmpty DEF HeldBack, Waiting
  <2>3. ASSUME NEW y \in HeldBack \cup Waiting, y.stream = "video" PROVE y.pts >= video.pts
    <3>1. Last(q).dts >= video.pts
      BY <2>2, <2>3, <1>6
    <3>2. Last(q) \in Queued /\ Last(q).stream = "video" /\ Last(q).dts \in Int
      <4>1. q[Len(q)] \in Range(q) /\ q[Len(q)].stream = "video" /\ q[Len(q)].dts \in Int
        BY <1>2, <1>3, <1>4, RangeMembers
      <4> QED BY <4>1 DEF Last, Queued
    <3>3. Last(q).dts < y.dts
      BY <3>2, <2>3 DEF Order, Line, InLine, Before
    <3>4. y \in Kept
      BY <2>3 DEF Kept
    <3>5. y.dts \in Int /\ y.pts \in Int /\ y.pts >= y.dts
      BY <3>4, <2>3, <1>2
    <3> QED BY <3>1, <3>2, <3>3, <3>5, <1>1
  <2>4. ASSUME NEW y \in Kept, y.stream = "video" PROVE y.pts >= video.pts
    <3>1. CASE y \in HeldBack \cup Waiting
      BY <3>1, <2>3, <2>4
    <3>2. CASE y \in Queued
      <4>1. y \in Range(q)
        BY <3>2, <2>4, Elements DEF Queued, Streams, Base
      <4>2. PICK i \in 1 .. Len(q) : q[i] = y
        BY <4>1, <1>3, RangeMembers
      <4> QED BY <4>2, <2>1, <1>4
    <3> QED BY <3>1, <3>2, <2>4 DEF Kept
  <2>5. CASE finish
    BY <2>4, <2>5 DEF finish, Base, Calls
  <2>6. CASE Last(q).dts >= video.pts
    <3>1. Last(q) \in Range(sent["video"])
      BY <1>2, <1>4 DEF Last
    <3> QED BY <3>1, <2>4, <2>6
  <2> QED BY <2>5, <2>6, <1>6
<1> QED BY <1>5, <1>6

\* A decision to cut.
LEMMA DecideCut ==
  ASSUME Base, Order, Timeline, Emptied, Decide, pc' = "Audio"
  PROVE  Cut'
<1>1. /\ pc = "Drain" /\ queue["video"] # <<>> /\ TypeOK /\ Tagged
      /\ UNCHANGED <<mode, sent, queue, pending, pendingVideo, segmentHasVideo, segmentOrigin, finalizing,
                     ready>>
  <2>1. pc = "Drain" /\ queue["video"] # <<>> /\ DrainFrame /\ Unwritten /\ TypeOK /\ Tagged
    BY Decides DEF Base
  <2>2. ready' = ready
    <3>1. caller \in {"Process", "Held", "Finish"}
      BY DEF Base, TypeOK, CallTypes
    <3>2. ~Return("ok", ready)
      BY <3>1, Returns
    <3> QED BY <3>2, <2>1, Decides
  <2> QED BY <2>1, <2>2 DEF DrainFrame, Unwritten, input, segment
<1>2. video \in Range(sent["video"]) /\ video.dts \in Int /\ video.pts \in Int /\ video.dts <= video.pts
  <2>1. video \in Range(sent["video"]) /\ video.dts \in Int /\ video.pts \in Int
    BY <1>1, FirstPicture
  <2> QED BY <2>1 DEF Timeline
<1>3. /\ boundary' <= video.pts
      /\ roll' => /\ MayRoll /\ boundary' = video.pts /\ Covered(video.pts)
                  /\ mode = "time" => video.pts - segmentOrigin >= SplitAfter
                  /\ \/ video.pts <= video.dts
                     \/ ~HasLeading /\ (finish \/ Last(queue["video"]).dts >= video.pts)
  BY <1>1, <1>2, DecideCuts
<1>4. video' = video /\ Kept' = Kept /\ pc' \notin Rolling
  BY <1>1 DEF video, Kept, Queued, HeldBack, Waiting, Rolling
<1>5. segmentOrigin \in Int /\ SplitAfter \in Int
  BY ConstantsAssumption DEF Base, TypeOK, FileTypes
<1>6. ASSUME roll'
      PROVE  /\ video.key # "no" /\ segmentHasVideo /\ video.pts > segmentOrigin
             /\ mode = "time" => video.pts >= segmentOrigin + SplitAfter
             /\ \E a \in Range(queue["audio"]) : a.pts >= video.pts
             /\ \A x \in Kept : x.stream = "video" => x.pts >= video.pts
             /\ finalizing \/ \E d \in Range(sent["video"]) : d.dts >= video.pts
  <2>1. /\ MayRoll /\ Covered(video.pts)
        /\ mode = "time" => video.pts - segmentOrigin >= SplitAfter
    BY <1>3, <1>6
  <2>2. video.key # "no" /\ segmentHasVideo /\ video.pts > segmentOrigin
    BY <2>1 DEF MayRoll, SafeKey
  <2>3. mode = "time" => video.pts >= segmentOrigin + SplitAfter
    BY <2>1, <1>2, <1>5
  <2>4. \E a \in Range(queue["audio"]) : a.pts >= video.pts
    <3>1. queue["audio"] # <<>> /\ Last(queue["audio"]).pts >= video.pts
      BY <2>1 DEF Covered
    <3>2. queue["audio"] \in Seq(Packets)
      BY <1>1 DEF TypeOK, QueueTypes, Streams
    <3>3. Len(queue["audio"]) \in 1 .. Len(queue["audio"])
      BY <3>1, <3>2, EmptySeq, LenProperties
    <3>4. Last(queue["audio"]) \in Range(queue["audio"])
      BY <3>2, <3>3, RangeMembers DEF Last
    <3> QED BY <3>1, <3>4
  <2>5. /\ \A x \in Kept : x.stream = "video" => x.pts >= video.pts
        /\ finalizing \/ \E d \in Range(sent["video"]) : d.dts >= video.pts
    BY <1>1, <1>3, <1>6, CutPictures
  <2> QED BY <2>2, <2>3, <2>4, <2>5
<1>7. Cutting' => roll'
  BY <1>4 DEF Cutting
<1>8. roll' => boundary' = video'.pts
  BY <1>3, <1>4
<1>9. boundary' <= video'.pts
  BY <1>3, <1>4
<1>10. ASSUME Cutting'
       PROVE  /\ boundary' = video'.pts /\ video'.key # "no" /\ segmentHasVideo' /\ boundary' > segmentOrigin'
              /\ mode' = "time" => boundary' >= segmentOrigin' + SplitAfter
              /\ \E a \in Range(queue'["audio"]) : a.pts >= boundary'
              /\ \A x \in Kept' : x.stream = "video" => x.pts >= boundary'
              /\ finalizing' \/ \E d \in Range(sent'["video"]) : d.dts >= boundary'
  <2>1. roll' /\ boundary' = video.pts /\ video' = video
    BY <1>4, <1>7, <1>8, <1>10
  <2>2. /\ video.key # "no" /\ segmentHasVideo /\ boundary' > segmentOrigin
        /\ mode = "time" => boundary' >= segmentOrigin + SplitAfter
        /\ \E a \in Range(queue["audio"]) : a.pts >= boundary'
        /\ \A x \in Kept : x.stream = "video" => x.pts >= boundary'
        /\ finalizing \/ \E d \in Range(sent["video"]) : d.dts >= boundary'
    BY <2>1, <1>6
  <2> QED BY <2>1, <2>2, <1>1, <1>4
<1> QED BY <1>4, <1>9, <1>10 DEF Cut

\* What is decided stays decided.
LEMMA CutStays ==
  ASSUME Cut, UNCHANGED <<mode, boundary, queue, segmentHasVideo, segmentOrigin, finalizing, sent>>,
         Kept' \subseteq Kept, Cutting' => Cutting,
         pc' = "Audio" => pc = "Audio", pc' \in Rolling => pc \in Rolling
  PROVE  Cut'
<1>1. video' = video
  BY DEF video
<1>2. pc' = "Audio" => boundary' <= video'.pts
  BY <1>1 DEF Cut
<1>3. ASSUME Cutting'
      PROVE  /\ boundary' = video'.pts /\ video'.key # "no" /\ segmentHasVideo' /\ boundary' > segmentOrigin'
             /\ mode' = "time" => boundary' >= segmentOrigin' + SplitAfter
             /\ \E a \in Range(queue'["audio"]) : a.pts >= boundary'
             /\ \A x \in Kept' : x.stream = "video" => x.pts >= boundary'
             /\ finalizing' \/ \E d \in Range(sent'["video"]) : d.dts >= boundary'
  BY <1>1, <1>3 DEF Cut
<1>4. pc' \in Rolling => \A x \in Kept' : x.pts >= boundary'
  BY DEF Cut
<1> QED BY <1>2, <1>3, <1>4 DEF Cut

\* The sound that a cut was decided by is not among what is written before it.
LEMMA WriteAudioCut ==
  ASSUME Base, Order, Cut, WriteAudio, pc' = "Audio"
  PROVE  Cut'
<1>1. DrainWrite("audio", "Audio") /\ pc = "Audio" /\ TypeOK /\ Tagged
  BY DrainWrites DEF Base
<1>2. /\ queue["audio"] # <<>> /\ MuxRaw(Head(queue["audio"]), "Audio", ready) /\ Pop("audio")
      /\ UNCHANGED <<mode, sent, segmentOrigin, caller, finalizing, trailerWritten>>
  BY <1>1 DEF DrainWrite
<1>3. ~trailerWritten /\ storageError \in BOOLEAN /\ caller \in {"Process", "Held", "Finish"}
  BY <1>1 DEF Base, Control, Draining, Rolling, TypeOK, FlagTypes, CallTypes
<1>4. \A e, rest : ~Return(e, rest)
  BY <1>3, Returns
<1>5. Goto("Audio")
  <2>1. \/ Crashes \/ Writes(Head(queue["audio"]), "Audio", ready) \/ Breaks(ready)
        \/ Refuses(Head(queue["audio"]), ready)
    BY <1>2, <1>3, MuxRawCases
  <2>2. ~Crashes
    BY DEF Crashes, Goto
  <2> QED BY <2>1, <2>2, <1>4 DEF Writes, Breaks, Refuses
<1>6. UNCHANGED <<roll, boundary, segmentHasVideo>>
  BY <1>5 DEF Goto, WriteAudio, DrainFrame, segment
<1>7. /\ queue'["video"] = queue["video"] /\ queue'["audio"] = Tail(queue["audio"])
      /\ Range(queue["audio"]) = {Head(queue["audio"])} \cup Range(Tail(queue["audio"]))
  <2>1. queue \in [Streams -> Seq(Packets)] /\ queue["audio"] \in Seq(Packets)
    BY <1>1 DEF TypeOK, QueueTypes, Streams
  <2> QED BY <2>1, <1>2, RangeTail DEF Pop, Streams
<1>8. Head(queue["audio"]).pts < boundary /\ Head(queue["audio"]).pts \in Int /\ boundary \in Int
  <2>1. Head(queue["audio"]) \in Packets
    BY <1>2, FirstKept DEF Streams
  <2> QED BY <2>1, PacketFields DEF WriteAudio, SoundBefore, Base, TypeOK, CallTypes
<1>9. video' = video /\ Kept' \subseteq Kept /\ pc' \notin Rolling
  <2>1. Kept' \subseteq Kept
    BY DrainEffect DEF SamePart, Drain
  <2> QED BY <2>1, <1>7 DEF video, Rolling
<1>10. Cutting' => Cutting
  BY <1>1, <1>6, <1>9 DEF Cutting
<1>11. pc' = "Audio" => boundary' <= video'.pts
  BY <1>1, <1>6, <1>9 DEF Cut
<1>12. ASSUME Cutting' PROVE \E a \in Range(queue'["audio"]) : a.pts >= boundary'
  <2>1. PICK a \in Range(queue["audio"]) : a.pts >= boundary
    BY <1>10, <1>12 DEF Cut
  <2>2. a # Head(queue["audio"])
    BY <2>1, <1>8
  <2> QED BY <2>1, <2>2, <1>6, <1>7
<1>13. ASSUME Cutting'
       PROVE  /\ boundary' = video'.pts /\ video'.key # "no" /\ segmentHasVideo' /\ boundary' > segmentOrigin'
              /\ mode' = "time" => boundary' >= segmentOrigin' + SplitAfter
              /\ \A x \in Kept' : x.stream = "video" => x.pts >= boundary'
              /\ finalizing' \/ \E d \in Range(sent'["video"]) : d.dts >= boundary'
  BY <1>2, <1>6, <1>9, <1>10, <1>13 DEF Cut
<1> QED BY <1>9, <1>11, <1>12, <1>13 DEF Cut

\* Once the sound before it is written, nothing that is kept is shown before the cut.
LEMMA AudioWrittenCut ==
  ASSUME Base, Order, Timeline, Cut, AudioWritten
  PROVE  Cut'
<1>1. /\ pc = "Audio" /\ ~SoundBefore /\ pc' = (IF roll THEN "Create" ELSE "Video")
      /\ UNCHANGED <<mode, boundary, roll, queue, segmentHasVideo, segmentOrigin, finalizing, sent,
                     pending, pendingVideo, ready>>
  BY DEF AudioWritten, Goto, DrainFrame, Unwritten, input, segment
<1>2. video' = video /\ Kept' = Kept
  BY <1>1 DEF video, Kept, Queued, HeldBack, Waiting
<1>3. CASE ~roll
  BY <1>1, <1>3 DEF Cut, Cutting, Rolling
<1>4. CASE roll
  <2>1. /\ boundary = video.pts /\ video.key # "no" /\ segmentHasVideo /\ boundary > segmentOrigin
        /\ mode = "time" => boundary >= segmentOrigin + SplitAfter
        /\ \E a \in Range(queue["audio"]) : a.pts >= boundary
        /\ \A x \in Kept : x.stream = "video" => x.pts >= boundary
        /\ finalizing \/ \E d \in Range(sent["video"]) : d.dts >= boundary
    BY <1>1, <1>4 DEF Cut, Cutting
  <2>2. queue["audio"] # <<>>
    BY <2>1, RangeEmpty
  <2>3. /\ Head(queue["audio"]) \in Packets /\ Head(queue["audio"]) \in Range(sent["audio"])
        /\ \A y \in Kept : y.stream = "audio" => Head(queue["audio"]).dts <= y.dts
    BY <2>2, FirstKept DEF Streams
  <2>4. /\ Head(queue["audio"]).dts \in Int /\ Head(queue["audio"]).dts = Head(queue["audio"]).pts
        /\ boundary \in Int
    BY <2>3, PacketFields DEF Timeline, Base, TypeOK, CallTypes
  <2>5. Head(queue["audio"]).dts >= boundary
    BY <2>2, <2>4, <1>1 DEF SoundBefore
  <2>6. ASSUME NEW y \in Kept PROVE y.pts >= boundary
    <3>1. y \in Packets /\ y \in Range(sent[y.stream]) /\ y.dts \in Int /\ y.stream \in Streams
      BY Known, PacketFields
    <3>2. CASE y.stream = "audio"
      <4>1. y.pts = y.dts
        BY <3>1, <3>2 DEF Timeline
      <4> QED BY <4>1, <3>1, <3>2, <2>3, <2>4, <2>5
    <3>3. CASE y.stream = "video"
      BY <2>1, <3>3
    <3> QED BY <3>1, <3>2, <3>3 DEF Streams
  <2>7. pc' = "Create"
    BY <1>1, <1>4
  <2> QED BY <2>1, <2>6, <2>7, <1>1, <1>2 DEF Cut
<1> QED BY <1>3, <1>4

\* Every step.
LEMMA StepCut ==
  ASSUME Base, Order, Timeline, Emptied, Cut, [Next]_vars
  PROVE  Cut'
<1>1. caller \in {"Process", "Held", "Finish"} /\ TypeOK /\ Tagged
  BY DEF Base, TypeOK, CallTypes
<1>2. \A e, rest : Return(e, rest) => pc' \notin {"Audio"} \cup Rolling
  BY <1>1, Returns DEF Rolling
<1>3. ASSUME pc' \notin {"Audio"} \cup Rolling PROVE Cut'
  BY <1>3 DEF Cut, Cutting
<1>4. CASE Decide
  <2>1. CASE pc' = "Audio"
    BY <1>4, <2>1, DecideCut
  <2>2. CASE Return("ok", ready)
    BY <1>2, <1>3, <2>2
  <2> QED BY <1>1, <1>4, <2>1, <2>2, Decides
<1>5. CASE LengthFails
  BY <1>2, <1>3, <1>5 DEF LengthFails
<1>6. ASSUME NEW x, NEW next, NEW rest, MuxRaw(x, next, rest), ~trailerWritten,
             pc' \in {"Audio"} \cup Rolling
      PROVE  pc' = next
  <2>1. storageError \in BOOLEAN
    BY <1>1 DEF TypeOK, FlagTypes
  <2>2. Crashes \/ Writes(x, next, rest) \/ Breaks(rest) \/ Refuses(x, rest)
    BY <2>1, <1>6, MuxRawCases
  <2>3. ~Crashes
    BY <1>6 DEF Crashes, Goto, Rolling
  <2> QED BY <2>2, <2>3, <1>2, <1>6 DEF Writes, Breaks, Refuses, Goto
<1>7. CASE WriteAudio
  <2>1. /\ MuxRaw(Head(queue["audio"]), "Audio", ready) /\ ~trailerWritten
    BY <1>7 DEF WriteAudio, Base, Control, Draining, Rolling
  <2> QED BY <2>1, <1>3, <1>6, <1>7, WriteAudioCut DEF Rolling
<1>8. CASE AudioWritten
  BY <1>8, AudioWrittenCut
<1>9. CASE WriteVideo
  <2>1. MuxRaw(video, "Drain", ready) /\ ~trailerWritten
    BY <1>9 DEF WriteVideo, Base, Control, Draining, Rolling
  <2> QED BY <2>1, <1>3, <1>6 DEF Rolling
<1>10. CASE Drained
  <2>1. /\ MuxRaw(Head(queue["audio"]), "Drain", ready) \/ Return("ok", ready)
        /\ ~trailerWritten
    BY <1>10 DEF Drained, Base, Control, Draining, Rolling
  <2> QED BY <2>1, <1>2, <1>3, <1>6 DEF Rolling
<1>11. CASE CreateNext \/ SealCurrent \/ RetireCurrent
  <2>1. CASE \E e, rest : Return(e, rest)
    BY <2>1, <1>2, <1>3
  <2>2. CASE UNCHANGED boundary
    <3>1. /\ UNCHANGED <<mode, boundary, queue, segmentHasVideo, segmentOrigin, finalizing, sent>>
          /\ pc \in Rolling
      BY <2>2, <1>11 DEF CreateNext, SealCurrent, RetireCurrent, RollFrame, input, held, segment, Rolling
    <3>2. Kept' \subseteq Kept
      BY <1>11, RollEffect DEF SamePart
    <3>3. CASE pc' = "Audio"
      BY <1>11, <3>3, <1>2 DEF CreateNext, SealCurrent, RetireCurrent, Goto
    <3>4. CASE pc' # "Audio"
      BY <3>1, <3>2, <3>4, CutStays DEF Cutting
    <3> QED BY <3>3, <3>4
  <2> QED BY <1>11, <2>1, <2>2 DEF CreateNext, SealCurrent, RetireCurrent, Goto
<1>12. CASE OpenNext
  <2>1. pc' \notin {"Audio"} \cup Rolling
    BY <1>12, OpenNexts DEF Rolling
  <2> QED BY <2>1, <1>3
<1>13. ASSUME NEW x, NEW rest, Hands(x, rest), ~trailerWritten
       PROVE  pc' \notin {"Audio"} \cup Rolling
  <2>1. Direct(x, rest) \/ Overflows(rest) \/ Queues(x, rest)
    BY <1>13, MuxPacketCases DEF Hands
  <2>2. CASE Direct(x, rest)
    <3>1. MuxRaw(x, "return", rest)
      BY <2>2 DEF Direct
    <3> QED BY <3>1, <1>6, <1>13 DEF Rolling
  <2>3. CASE Overflows(rest)
    BY <2>3, <1>2 DEF Overflows
  <2>4. CASE Queues(x, rest)
    BY <2>4 DEF Queues, Rolling
  <2> QED BY <2>1, <2>2, <2>3, <2>4
<1>14. CASE WritePacket
  <2>1. pc' \notin {"Audio"} \cup Rolling
    <3>1. /\ ~trailerWritten /\ pc = "Write"
          /\ (\E x, rest : Hands(x, rest)) \/ pc' = pc
      BY <1>14, WritePackets
    <3> QED BY <3>1, <1>13 DEF Rolling
  <2> QED BY <2>1, <1>3
<1>15. CASE WriteHeld
  <2>1. pc' \notin {"Audio"} \cup Rolling
    <3>1. ~trailerWritten /\ ((\E x, rest : Hands(x, rest)) \/ Return("ok", ready))
      BY <1>15, WriteHelds
    <3> QED BY <3>1, <1>2, <1>13
  <2> QED BY <2>1, <1>3
<1>16. CASE \E s \in Streams : Process(s)
  <2>1. pc' \in {"idle", "Write"}
    BY <1>16, Taken
  <2> QED BY <2>1, <1>3 DEF Rolling
<1>17. CASE Seal
  <2>1. pc' \in {"idle", "crashed"}
    BY <1>17, Seals
  <2> QED BY <2>1, <1>3 DEF Rolling
<1>18. CASE ProcessReturns \/ Finalize \/ Resume \/ SealedBefore
  <2>1. pc' \in {"idle", "Held", "Seal", "Drain"}
    BY <1>18 DEF ProcessReturns, Finalize, Resume, SealedBefore, End, Goto
  <2> QED BY <2>1, <1>3 DEF Rolling
<1>19. CASE ProcessFails \/ BeginFinalize \/ Shutdown
  <2>1. pc = "idle" /\ pc' = pc
    BY <1>19 DEF ProcessFails, BeginFinalize, Shutdown, Accepting, call
  <2> QED BY <2>1, <1>3 DEF Rolling
<1>20. CASE UNCHANGED vars
  <2>1. UNCHANGED <<mode, boundary, roll, pc, queue, segmentHasVideo, segmentOrigin, finalizing, sent,
                    pending, pendingVideo, ready>>
    BY <1>20 DEF vars, input, held, segment, call, ends
  <2>2. Kept' = Kept
    BY <2>1 DEF Kept, Queued, HeldBack, Waiting
  <2> QED BY <2>1, <2>2, CutStays DEF Cutting
<1> QED BY <1>4, <1>5, <1>7, <1>8, <1>9, <1>10, <1>11, <1>12, <1>14, <1>15, <1>16, <1>17, <1>18,
           <1>19, <1>20 DEF Next, Drain, Roll
-----------------------------------------------------------------------------
(* The failure that Process is told *)

\* A crash is the end.
LEMMA CrashedStays == ASSUME Base, pc = "crashed", [Next]_vars PROVE UNCHANGED vars
<1>1. ~Drain /\ ~Roll /\ ~Seal
  BY DEF Drain, Decide, LengthFails, WriteAudio, AudioWritten, WriteVideo, Drained, Roll, CreateNext,
         SealCurrent, RetireCurrent, OpenNext, Seal
<1>2. /\ ~ProcessFails /\ ~WritePacket /\ ~ProcessReturns /\ ~BeginFinalize /\ ~Finalize /\ ~WriteHeld
      /\ ~Resume /\ ~SealedBefore /\ ~Shutdown /\ \A s \in Streams : ~Process(s)
  BY DEF ProcessFails, WritePacket, ProcessReturns, BeginFinalize, Finalize, WriteHeld, Resume,
         SealedBefore, Shutdown, Process, Accepting
<1> QED BY <1>1, <1>2 DEF Next

\* What is under way for Process has not failed.
LEMMA UnderwayWorking ==
  ASSUME Base, Working, Underway
  PROVE  /\ caller' = "Process" /\ (pc' \in Draining \/ ready' # <<>>) => failure' = "ok"
         /\ failure # "ok" => failure' = failure
<1>1. caller \in {"Process", "Held", "Finish"} /\ (pc = "Held" => caller = "Held")
  BY DEF Base, TypeOK, CallTypes, Calls
<1>2. ASSUME NEW e, NEW rest, Returning(e, rest)
      PROVE  /\ caller' = "Process" /\ (pc' \in Draining \/ ready' # <<>>) => failure' = "ok"
             /\ failure # "ok" => failure' = failure
  <2>1. /\ Return(e, rest) /\ pc \in Draining \cup {"Write", "Held"} /\ (pc = "Write" => ready # <<>>)
        /\ caller' = caller
    BY <1>2 DEF Returning
  <2>2. CASE caller = "Process"
    <3>1. failure = "ok"
      BY <1>1, <2>1, <2>2 DEF Working
    <3>2. /\ pc' = "Write" /\ failure' = (IF e = "ok" THEN failure ELSE e)
          /\ ready' = (IF e = "ok" THEN rest ELSE <<>>)
      BY <1>1, <2>1, <2>2, Returns
    <3> QED BY <3>1, <3>2 DEF Draining
  <2>3. CASE caller # "Process"
    <3>1. failure' = failure
      BY <1>1, <2>1, <2>3, Returns
    <3> QED BY <3>1, <2>1, <2>3
  <2> QED BY <2>2, <2>3
<1>3. ASSUME NEW rest, Proceeding(rest)
      PROVE  /\ caller' = "Process" /\ (pc' \in Draining \/ ready' # <<>>) => failure' = "ok"
             /\ failure # "ok" => failure' = failure
  <2>1. /\ pc \in Draining \cup {"Write", "Held"} /\ (pc = "Write" => ready # <<>>)
        /\ caller' = caller /\ failure' = failure
    BY <1>3 DEF Proceeding
  <2> QED BY <2>1, <1>1 DEF Working
<1>4. CASE Holding
  BY <1>4 DEF Holding, Working
<1> QED BY <1>2, <1>3, <1>4 DEF Underway

\* Every step, for the first of what Working says.
LEMMA StepFailure ==
  ASSUME Base, Order, Working, [Next]_vars
  PROVE  /\ caller' = "Process" /\ (pc' \in Draining \/ ready' # <<>>) => failure' = "ok"
         /\ failure # "ok" => failure' = failure
<1>0. pc \in {"idle", "Resume", "Seal"} => ready = <<>>
  BY DEF Base, Control, Draining
<1>1. CASE Drain \/ Roll \/ WritePacket \/ WriteHeld
  <2>1. Underway
    BY <1>1, DrainUnderway, RollUnderway, WriteUnderway
  <2> QED BY <2>1, UnderwayWorking
<1>2. CASE \E s \in Streams : Process(s)
  <2>1. /\ failure = "ok" /\ pc' \in {"idle", "Write"} /\ ready = <<>>
        /\ (pc' = "Write" => failure' = failure) /\ (pc' = "idle" => ready' = ready)
    BY <1>2, Taken
  <2> QED BY <2>1 DEF Draining
<1>3. CASE ProcessFails
  <2>1. failure = "ok" /\ pc = "idle" /\ UNCHANGED <<pc, ready>>
    BY <1>3 DEF ProcessFails, Accepting, call
  <2> QED BY <2>1, <1>0 DEF Draining
<1>4. CASE ProcessReturns
  BY <1>4 DEF ProcessReturns, Draining, ends
<1>5. CASE BeginFinalize \/ Shutdown
  <2>1. pc = "idle" /\ UNCHANGED <<pc, ready, failure>>
    BY <1>5 DEF BeginFinalize, Shutdown, call
  <2> QED BY <2>1, <1>0 DEF Draining
<1>6. CASE Finalize \/ SealedBefore
  <2>1. pc \in {"idle", "Resume", "Seal"} /\ pc' \in {"idle", "Held"} /\ UNCHANGED <<ready, failure>>
    BY <1>6 DEF Finalize, SealedBefore, End, Goto
  <2> QED BY <2>1, <1>0 DEF Draining
<1>7. CASE Resume
  <2>1. caller' = "Finish" /\ UNCHANGED failure
    BY <1>7 DEF Resume, Goto
  <2> QED BY <2>1
<1>8. CASE Seal
  <2>1. pc = "Seal" /\ pc' \in {"idle", "crashed"} /\ UNCHANGED <<ready, failure>>
    BY <1>8, Seals
  <2> QED BY <2>1, <1>0 DEF Draining
<1>9. CASE UNCHANGED vars
  <2>1. UNCHANGED <<caller, pc, ready, failure>>
    BY <1>9 DEF vars, call, ends
  <2> QED BY <2>1 DEF Working
<1> QED BY <1>1, <1>2, <1>3, <1>4, <1>5, <1>6, <1>7, <1>8, <1>9 DEF Next

\* Every step.
LEMMA StepWorking ==
  ASSUME Base, Order, Working, [Next]_vars
  PROVE  Working' /\ (failure # "ok" => failure' = failure)
<1>10. /\ caller' = "Process" /\ (pc' \in Draining \/ ready' # <<>>) => failure' = "ok"
       /\ failure # "ok" => failure' = failure
  BY StepFailure
<1>11. ASSUME ~header', failure' = "ok", ~finalizing' PROVE part' = 1
  <2>1. failure = "ok"
    BY <1>10, <1>11
  <2>2. CASE \E s \in Streams : Process(s)
    <3>1. ~header /\ ~finalizing /\ part' = part
      BY <1>11, <2>2, Taken
    <3> QED BY <2>1, <3>1 DEF Working
  <2>3. CASE OpenNext
    <3>1. caller \in {"Process", "Held", "Finish"}
      BY DEF Base, TypeOK, CallTypes
    <3>2. Return("open", ready) /\ finalizing' = finalizing
      BY <1>11, <2>3, OpenNexts
    <3>3. caller # "Process"
      <4>1. Return("open", ready)
        BY <3>2
      <4>2. "open" # "ok"
        OBVIOUS
      <4>3. caller = "Process" => failure' = "open"
        BY <3>1, <4>1, <4>2, Fails
      <4> QED BY <4>3, <1>11
    <3> QED BY <1>11, <3>2, <3>3 DEF Base, Calls
  <2>4. CASE SamePart
    BY <1>11, <2>1, <2>4 DEF SamePart, Working
  <2> QED BY <2>2, <2>3, <2>4, StepEffect
<1> QED BY <1>10, <1>11 DEF Working

\* What got in the way of a whole part stays in the way.
LEMMA CleanBefore ==
  ASSUME Base, Order, Working, [Next]_vars, Clean'
  PROVE  Clean
<1>1. failure # "full"
  BY StepWorking DEF Clean
<1>2. refused \subseteq refused' /\ mode' = mode /\ (storageError => storageError')
  <2>1. CASE \E s \in Streams : Process(s)
    BY <2>1, Taken
  <2>2. CASE OpenNext
    BY <2>2, OpenNexts
  <2> QED BY <2>1, <2>2, StepEffect DEF SamePart
<1>3. NoLongGap
  BY DEF Clean, NoLongGap
<1>4. refused = {}
  BY <1>2 DEF Clean
<1> QED BY <1>1, <1>2, <1>3, <1>4 DEF Clean
-----------------------------------------------------------------------------
(* The picture that a part begins with *)

\* Only the write of a picture says that the part has one, and a new part has none.
LEMMA HasVideo ==
  ASSUME Base, [Next]_vars
  PROVE  \/ segmentHasVideo' = segmentHasVideo
         \/ OpenNext
         \/ WriteVideo /\ pc' = "Drain" /\ header
<1>1. CASE WriteVideo
  <2>1. segmentHasVideo' = (segmentHasVideo \/ pc' = "Drain") /\ segmentHasVideo \in BOOLEAN
    BY <1>1 DEF WriteVideo, Base, TypeOK, FlagTypes
  <2>2. pc' = "Drain" => header
    BY <1>1 DEF WriteVideo, MuxRaw, Goto
  <2>3. CASE pc' = "Drain"
    BY <2>2, <2>3, <1>1
  <2>4. CASE pc' # "Drain"
    BY <2>1, <2>4
  <2> QED BY <2>3, <2>4
<1>2. CASE Decide \/ LengthFails \/ WriteAudio \/ AudioWritten \/ Drained
  BY <1>2 DEF Decide, LengthFails, WriteAudio, AudioWritten, Drained, DrainFrame, segment
<1>3. CASE CreateNext \/ SealCurrent \/ RetireCurrent
  BY <1>3 DEF CreateNext, SealCurrent, RetireCurrent, segment
<1>4. CASE WritePacket \/ WriteHeld
  BY <1>4 DEF WritePacket, WriteHeld, segment
<1>5. CASE \E s \in Streams : Process(s)
  BY <1>5, Taken
<1>6. CASE \/ ProcessFails \/ ProcessReturns \/ BeginFinalize \/ Finalize \/ Resume \/ SealedBefore
           \/ Seal \/ Shutdown \/ UNCHANGED vars
  BY <1>6 DEF ProcessFails, ProcessReturns, BeginFinalize, Finalize, Resume, SealedBefore, Seal,
         Shutdown, vars, segment, FinalizeFrame
<1> QED BY <1>1, <1>2, <1>3, <1>4, <1>5, <1>6 DEF Next, Drain, Roll

\* The picture that is written into an empty first part is the first delivered.
LEMMA FirstWritten ==
  ASSUME Base, Base', Order', NEW x \in Packets, x.stream = "video", part = 1, sent' = sent,
         refused' = {}, parts' = Appended(x), Here("video")' = {x}, NEW u \in Range(sent["video"]),
         part' = part
  PROVE  x.dts <= u.dts
<1>1. u \in Delivered' /\ u \in Packets /\ u.stream = "video"
  BY Elements DEF Base, Delivered, Streams
<1>2. x.dts \in Int /\ u.dts \in Int
  BY <1>1, PacketFields
<1>3. x \in Here("video")' /\ x \in Filed'
  <2>1. x \in Range(parts'[part'].content)
    BY DEF Here, In
  <2>3. parts' \in Seq(Files) /\ part' \in 1 .. Len(parts')
    BY LenProperties DEF Base, TypeOK, FileTypes
  <2>2. /\ \A y : y \in Filed' <=> /\ y.stream \in Streams
                                   /\ \E k \in 1 .. Len(parts') : y \in Range(parts'[k].content)
    BY <2>3, FiledIsAfter
  <2> QED BY <2>1, <2>2, <2>3 DEF Streams
<1>4. CASE u \in Filed'
  <2>1. /\ Len(parts') = part'
        /\ \A y : y \in Filed' <=> /\ y.stream \in Streams
                                   /\ \E k \in 1 .. Len(parts') : y \in Range(parts'[k].content)
    <3>1. parts' \in Seq(Files) /\ part' = Len(parts')
      BY DEF Base, TypeOK, FileTypes
    <3> QED BY <3>1, FiledIsAfter
  <2>2. u \in Here("video")'
    BY <2>1, <1>1, <1>4 DEF Here, In
  <2> QED BY <2>2, <1>2
<1>5. CASE u \in Queued' \cup HeldBack' \cup Waiting'
  <2>1. Before(Filed', Queued' \cup HeldBack' \cup Waiting')
    BY DEF Order, Line, InLine
  <2> QED BY <2>1, <1>1, <1>2, <1>3, <1>5 DEF Before
<1>6. CASE u \notin Filed' \cup Queued' \cup HeldBack' \cup Waiting'
  <2>1. Before(Filed', {u})
    BY <1>1, <1>6 DEF Order, Line, InLine
  <2> QED BY <2>1, <1>1, <1>2, <1>3 DEF Before
<1> QED BY <1>4, <1>5, <1>6

\* A part starts with the picture that it was cut at.
LEMMA WrittenBegins ==
  ASSUME Base, Base', Order, Order', Timeline, Division, Begins, pc # "crashed",
         SamePart, NEW x \in Packets, Written(x), x.stream = "video", refused = {},
         Here("video")' = Here("video") \cup {x}, NEW v \in Here("video")',
         \A u \in Here("video")' : v.dts <= u.dts
  PROVE  v.key # "no" /\ v.pts = segmentOrigin
<1>1. part \in 1 .. Len(parts) /\ segmentOrigin = parts[part].origin /\ (part = 1 => segmentOrigin = 0)
  BY Known DEF Division
<1>2. \A u \in Here("video") : u.dts < x.dts /\ u.dts \in Int
  <2>1. \A u \in Here("video") : u \in Filed /\ u.stream = "video" /\ u \in Packets
    BY <1>1, Known DEF Here, Streams
  <2>2. x \in Kept /\ Before(Filed, Kept)
    BY Known DEF Written
  <2> QED BY <2>1, <2>2, PacketFields DEF Before
<1>3. x.dts \in Int
  BY PacketFields
<1>4. CASE Here("video") # {}
  <2>1. PICK u \in Here("video") : TRUE
    BY <1>4
  <2>2. v # x
    BY <2>1, <1>2, <1>3
  <2> QED BY <2>2, <1>1 DEF Begins, Here
<1>5. CASE Here("video") = {} /\ part > 1
  <2>1. pc = "Video" /\ video.key # "no" /\ video.pts = segmentOrigin
    BY <1>5 DEF Begins, Written
  <2>2. x = video
    BY <2>1 DEF Written, Base, Control, Draining
  <2> QED BY <2>1, <2>2, <1>5
<1>6. CASE Here("video") = {} /\ part = 1
  <2>1. \A u \in Range(sent["video"]) : x.dts <= u.dts
    BY <1>6, FirstWritten DEF SamePart, Written
  <2>2. x \in Range(sent["video"])
    BY Known DEF Written
  <2>3. x.key # "no" /\ x.pts = 0
    BY <2>1, <2>2 DEF Timeline
  <2> QED BY <2>3, <1>1, <1>6
<1>7. part > 1 \/ part = 1
  BY <1>1, Known
<1> QED BY <1>4, <1>5, <1>6, <1>7

\* Steps within a part.
LEMMA SameBegins ==
  ASSUME Base, Base', Order, Order', Timeline, Division, Begins, pc # "crashed",
         SamePart, Changed, [Next]_vars
  PROVE  Begins'
<1>1. /\ Len(parts') = Len(parts) /\ part' = part
      /\ \A k \in 1 .. Len(parts) : parts'[k].origin = parts[k].origin
      /\ \/ \A k \in 1 .. Len(parts) : \A s \in Streams : In(k, s)' = In(k, s)
         \/ \E x \in Packets : /\ Written(x)
                 /\ \A k \in 1 .. Len(parts) : \A s \in Streams :
                      In(k, s)' = In(k, s) \cup (IF k = part /\ x.stream = s THEN {x} ELSE {})
  BY Grown
<1>2. /\ header' = header /\ refused \subseteq refused' /\ segmentOrigin' = segmentOrigin
      /\ (storageError => storageError') /\ (trailerWritten => trailerWritten')
  BY DEF SamePart
<1>3. part \in 1 .. Len(parts) /\ segmentOrigin = parts[part].origin
  BY Known DEF Division
<1>4. Here("video") \subseteq Here("video")'
  BY <1>1, <1>3 DEF Here, Streams
<1>5. ASSUME refused' = {}, NEW k \in 1 .. Len(parts), NEW v \in In(k, "video")',
             \A u \in In(k, "video")' : v.dts <= u.dts
      PROVE  v.key # "no" /\ v.pts = parts'[k].origin
  <2>0. refused = {}
    BY <1>2, <1>5
  <2>1. CASE In(k, "video")' = In(k, "video")
    BY <2>0, <2>1, <1>1, <1>5 DEF Begins
  <2>2. ASSUME NEW x \in Packets, Written(x), x.stream = "video", k = part,
               In(k, "video")' = In(k, "video") \cup {x}
        PROVE  v.key # "no" /\ v.pts = parts'[k].origin
    <3>1. /\ Here("video")' = Here("video") \cup {x} /\ v \in Here("video")'
          /\ \A u \in Here("video")' : v.dts <= u.dts
      BY <2>2, <1>1, <1>5 DEF Here
    <3>2. v.key # "no" /\ v.pts = segmentOrigin
      BY <2>0, <2>2, <3>1, WrittenBegins
    <3> QED BY <3>2, <2>2, <1>1, <1>3
  <2> QED BY <2>1, <2>2, <1>1 DEF Streams
<1>6. ASSUME refused' = {}, header', ~trailerWritten', ~storageError', Here("video")' = {}, part' > 1
      PROVE  (pc' = "Video" /\ video'.key # "no" /\ video'.pts = segmentOrigin') \/ pc' = "crashed"
  <2>1. pc = "Video" /\ video.key # "no" /\ video.pts = segmentOrigin
    BY <1>1, <1>2, <1>4, <1>6 DEF Begins
  <2>2. CASE UNCHANGED vars
    <3>1. pc' = pc /\ video' = video
      BY <2>2 DEF vars, call, held, video
    <3> QED BY <3>1, <2>1, <1>2
  <2>3. CASE WriteVideo
    <3>1. MuxRaw(video, "Drain", ready) /\ ~trailerWritten /\ TypeOK
      BY <2>3, <1>2, <1>6 DEF WriteVideo, Base
    <3>2. \/ pc' = "crashed" \/ storageError' \/ refused' # {}
          \/ parts' = Appended(video)
      BY <3>1, RawEffect
    <3>3. CASE parts' = Appended(video)
      <4>1. video \in Packets /\ video.stream = "video"
        BY <2>1, FirstPicture DEF Base, Control, Draining
      <4>2. PICK k \in 1 .. Len(parts) : k = part
        BY <1>3
      <4>3. video \in Content /\ "video" \in Streams
        BY <4>1 DEF Content, Streams
      <4>4. In(k, "video")' = In(k, "video") \cup {video}
        BY <4>1, <4>2, <4>3, <3>1, <3>3, InAppended
      <4> QED BY <4>2, <4>4, <1>1, <1>6 DEF Here
    <3> QED BY <3>2, <3>3, <1>6
  <2>4. WriteVideo \/ UNCHANGED vars
    <3>1. ~Decide /\ ~LengthFails /\ ~WriteAudio /\ ~AudioWritten /\ ~Drained /\ ~Roll /\ ~Seal
      BY <2>1 DEF Decide, LengthFails, WriteAudio, AudioWritten, Drained, Roll, CreateNext,
         SealCurrent, RetireCurrent, OpenNext, Seal
    <3>2. /\ ~ProcessFails /\ ~WritePacket /\ ~ProcessReturns /\ ~BeginFinalize /\ ~Finalize /\ ~WriteHeld
          /\ ~Resume /\ ~SealedBefore /\ ~Shutdown /\ \A s \in Streams : ~Process(s)
      BY <2>1 DEF ProcessFails, WritePacket, ProcessReturns, BeginFinalize, Finalize, WriteHeld, Resume,
         SealedBefore, Shutdown, Process, Accepting
    <3> QED BY <3>1, <3>2 DEF Next, Drain
  <2> QED BY <2>2, <2>3, <2>4
<1>7. ASSUME segmentHasVideo' PROVE header' /\ Here("video")' # {}
  <2>1. CASE segmentHasVideo
    BY <2>1, <1>2, <1>4 DEF Begins
  <2>2. CASE ~segmentHasVideo /\ WriteVideo /\ pc' = "Drain" /\ header
    <3>1. /\ MuxRaw(video, "Drain", ready) /\ pc = "Video" /\ TypeOK /\ Tagged /\ ~trailerWritten
          /\ storageError \in BOOLEAN /\ caller \in {"Process", "Held", "Finish"}
      BY <2>2 DEF WriteVideo, Base, TypeOK, FlagTypes, CallTypes, Control
    <3>2. Crashes \/ Writes(video, "Drain", ready) \/ Breaks(ready) \/ Refuses(video, ready)
      BY <3>1, MuxRawCases
    <3>3. \A e, rest : ~Return(e, rest)
      BY <2>2, <3>1, Returns
    <3>4. parts' = Appended(video)
      BY <3>2, <3>3, <2>2 DEF Crashes, Goto, Writes, Breaks, Refuses
    <3>5. video \in Packets /\ video.stream = "video"
      BY <3>1, FirstPicture DEF Base, Control, Draining
    <3>6. PICK k \in 1 .. Len(parts) : k = part
      BY <1>3
    <3>7. video \in Content /\ "video" \in Streams
      BY <3>5 DEF Content, Streams
    <3>8. In(k, "video")' = In(k, "video") \cup {video}
      BY <3>1, <3>4, <3>5, <3>6, <3>7, InAppended
    <3> QED BY <3>6, <3>8, <1>1, <1>2, <2>2 DEF Here
  <2>3. CASE OpenNext
    BY <2>3, <1>7, OpenNexts
  <2> QED BY <1>7, <2>1, <2>2, <2>3, HasVideo
<1> QED BY <1>1, <1>5, <1>6, <1>7 DEF Begins

\* Every step.
LEMMA StepBegins ==
  ASSUME Base, Base', Order, Order', Timeline, Division, Cut, Working, Begins, [Next]_vars
  PROVE  Begins'
<1>1. CASE UNCHANGED vars
  <2>1. /\ UNCHANGED <<parts, refused, header, trailerWritten, storageError, part, pc, queue,
                       segmentOrigin, segmentHasVideo>>
    BY <1>1 DEF vars, call, held, segment, ends
  <2>2. \A k : \A s : In(k, s)' = In(k, s)
    BY <2>1 DEF In
  <2> QED BY <2>1, <2>2 DEF Begins, Here, video
<1>2. CASE \E s \in Streams : Process(s)
  <2>1. /\ UNCHANGED <<parts, refused, trailerWritten, storageError, part, queue, segmentOrigin, segmentHasVideo>>
        /\ pc = "idle" /\ failure = "ok" /\ ~finalizing
        /\ header' = header \/ (header' = TRUE /\ ~header)
    BY <1>2, Taken
  <2>2. \A k : \A s : In(k, s)' = In(k, s)
    BY <2>1 DEF In
  <2>3. ~header => part = 1
    BY <2>1 DEF Working
  <2> QED BY <2>1, <2>2, <2>3 DEF Begins, Here
<1>3. CASE OpenNext
  <2>1. /\ Len(parts') = Len(parts) + 1 /\ part' = part + 1 /\ segmentOrigin' = video.pts
        /\ \A k \in 1 .. Len(parts) : /\ parts'[k].origin = parts[k].origin
                                      /\ \A s \in Streams : In(k, s)' = In(k, s)
        /\ \A s \in Streams : Here(s)' = {}
        /\ part = Len(parts) /\ part \in Nat
    BY <1>3, InOpened
  <2>2. /\ UNCHANGED <<refused, queue>> /\ segmentHasVideo' = FALSE /\ pc = "Open"
        /\ (header' = TRUE /\ pc' = "Video") \/ header' = FALSE
    BY <1>3, OpenNexts
  <2>3. video' = video /\ video.key # "no"
    BY <2>2 DEF video, Cut, Cutting, Rolling
  <2>4. ASSUME refused' = {}, NEW k \in 1 .. Len(parts'), NEW v \in In(k, "video")',
               \A u \in In(k, "video")' : v.dts <= u.dts
        PROVE  v.key # "no" /\ v.pts = parts'[k].origin
    <3>1. k # part'
      BY <2>1, <2>4 DEF Here, Streams
    <3>2. k \in 1 .. Len(parts)
      BY <3>1, <2>1
    <3> QED BY <3>2, <2>1, <2>2, <2>4 DEF Begins, Streams
  <2>5. header' => pc' = "Video" /\ video'.key # "no" /\ video'.pts = segmentOrigin'
    BY <2>1, <2>2, <2>3
  <2> QED BY <2>2, <2>4, <2>5 DEF Begins
<1>4. CASE SamePart /\ Changed
  <2>1. CASE pc = "crashed"
    BY <2>1, <1>1, CrashedStays
  <2> QED BY <1>4, <2>1, SameBegins
<1> QED BY <1>2, <1>3, <1>4, StepEffect
-----------------------------------------------------------------------------
(* A part holds sound and picture *)

\* Only a trailer seals a file.
LEMMA SealedAppended ==
  ASSUME TypeOK, NEW x \in Content, parts' = Appended(x)
  PROVE  \A k \in 1 .. Len(parts) : Sealed(k)' <=> Sealed(k) \/ (k = part /\ x.stream = "trailer")
<1>1. /\ \A k \in 1 .. Len(parts) : k # part => parts'[k] = parts[k]
      /\ parts'[part].content = Append(parts[part].content, x)
  BY FileAppended
<1>2. parts[part].content \in Seq(Content)
  BY FiledIs
<1>3. Range(parts'[part].content) = Range(parts[part].content) \cup {x}
  BY <1>1, <1>2, RangeAppend
<1>4. ASSUME NEW k \in 1 .. Len(parts)
      PROVE  Sealed(k)' <=> Sealed(k) \/ (k = part /\ x.stream = "trailer")
  <2>1. Sealed(k) <=> \E y \in Range(parts[k].content) : y.stream = "trailer"
    BY DEF Sealed, Range
  <2>2. Sealed(k)' <=> \E y \in Range(parts'[k].content) : y.stream = "trailer"
    BY DEF Sealed, Range
  <2>3. CASE k = part
    <3>1. Range(parts'[k].content) = Range(parts[k].content) \cup {x}
      BY <1>3, <2>3
    <3> QED BY <3>1, <2>1, <2>2, <2>3
  <2>4. CASE k # part
    BY <1>1, <2>1, <2>2, <2>4
  <2> QED BY <2>3, <2>4
<1> QED BY <1>4

\* Who has shut down stays so.
LEMMA ShutdownStays == ASSUME Base, shutdown, [Next]_vars PROVE shutdown'
<1>1. CASE Drain \/ Roll \/ WritePacket \/ WriteHeld
  <2>1. Underway
    BY <1>1, DrainUnderway, RollUnderway, WriteUnderway
  <2> QED BY <2>1 DEF Underway, Returning, Proceeding, Holding
<1>2. CASE \E s \in Streams : Process(s)
  BY <1>2, Taken
<1>3. CASE Seal
  BY <1>3, Seals
<1>4. CASE \/ ProcessFails \/ ProcessReturns \/ BeginFinalize \/ Finalize \/ Resume \/ SealedBefore
           \/ Shutdown \/ UNCHANGED vars
  BY <1>4 DEF ProcessFails, ProcessReturns, BeginFinalize, Finalize, Resume, SealedBefore,
         Shutdown, vars, ends, FinalizeFrame
<1> QED BY <1>1, <1>2, <1>3, <1>4 DEF Next

\* A muxer that has its trailer changes no more than the result.
LEMMA TrailerStays ==
  ASSUME Base, Order, trailerWritten, pc \notin {"Retire", "Open"}, [Next]_vars
  PROVE  hr' = hr /\ pc' \notin {"Retire", "Open"}
<1>1. pc \in {"idle", "Write", "Resume", "Seal", "crashed"} /\ ready = <<>>
  BY DEF Base, Control
<1>2. CASE Drain \/ Roll \/ WritePacket \/ WriteHeld
  <2>1. Underway
    BY <1>2, DrainUnderway, RollUnderway, WriteUnderway
  <2>2. pc \in Draining \cup {"Held"} \/ ready # <<>>
    BY <2>1 DEF Underway, Returning, Proceeding, Holding
  <2> QED BY <2>2, <1>1 DEF Draining
<1>3. CASE \E s \in Streams : Process(s)
  BY <1>3, Taken
<1>4. CASE Seal
  BY <1>4 DEF Seal
<1>5. CASE ProcessFails \/ BeginFinalize \/ Shutdown
  <2>1. pc = "idle" /\ UNCHANGED <<pc, hr>>
    BY <1>5 DEF ProcessFails, BeginFinalize, Shutdown, Accepting, call
  <2> QED BY <2>1
<1>6. CASE ProcessReturns \/ Finalize \/ Resume \/ SealedBefore
  BY <1>6 DEF ProcessReturns, Finalize, Resume, SealedBefore, Goto, End
<1>7. CASE UNCHANGED vars
  <2>1. UNCHANGED <<pc, hr>>
    BY <1>7 DEF vars, call
  <2> QED BY <2>1
<1> QED BY <1>2, <1>3, <1>4, <1>5, <1>6, <1>7 DEF Next

\* After the last drain there is only the trailer to write.
LEMMA SealStep ==
  ASSUME Base, pc = "Seal", [Next]_vars
  PROVE  parts' = parts \/ Seal
<1>1. ~Drain /\ ~Roll
  BY DEF Drain, Decide, LengthFails, WriteAudio, AudioWritten, WriteVideo, Drained, Roll, CreateNext,
         SealCurrent, RetireCurrent, OpenNext
<1>2. /\ ~ProcessFails /\ ~WritePacket /\ ~ProcessReturns /\ ~BeginFinalize /\ ~Finalize /\ ~WriteHeld
      /\ ~Resume /\ ~Shutdown /\ \A s \in Streams : ~Process(s)
  BY DEF ProcessFails, WritePacket, ProcessReturns, BeginFinalize, Finalize, WriteHeld, Resume,
         Shutdown, Process, Accepting
<1> QED BY <1>1, <1>2 DEF Next, SealedBefore, vars

\* A part that is about to be left holds both: a cut by time is longer than any gap
\* in the sound after the part's beginning.
LEMMA RollingHolds ==
  ASSUME Base, Order, Cut, Begins, Furnished, Clean, Alive, pc \in Rolling
  PROVE  Here("audio") # {} /\ Here("video") # {}
<1>1. mode = "time"
  BY DEF Base, Control, Draining, Rolling, TypeOK, CallTypes, Clean
<1>2. /\ segmentHasVideo /\ boundary >= segmentOrigin + SplitAfter /\ \A x \in Kept : x.pts >= boundary
  BY <1>1 DEF Cut, Cutting
<1>3. boundary \in Int /\ segmentOrigin + SplitAfter \in Int /\ \A x \in Kept : x.pts \in Int
  <2>1. \A x \in Kept : x.pts \in Int
    BY Known, PacketFields
  <2>2. boundary \in Int /\ segmentOrigin \in Int /\ SplitAfter \in Int
    BY ConstantsAssumption DEF Base, TypeOK, CallTypes, FileTypes
  <2> QED BY <2>1, <2>2
<1>4. ~\E a \in Kept : a.stream = "audio" /\ a.pts < segmentOrigin + SplitAfter
  <2> DEFINE end == segmentOrigin + SplitAfter
  <2>1. boundary >= end /\ end \in Int
    BY <1>2, <1>3
  <2> HIDE DEF end
  <2>2. \A x \in Kept : ~(x.pts < end)
    BY <2>1, <1>2, <1>3
  <2> QED BY <2>2 DEF end
<1>5. Here("audio") # {}
  BY <1>4 DEF Furnished
<1> QED BY <1>2, <1>5 DEF Begins

\* What a step within a part leaves of sound and picture.
LEMMA SameHeld ==
  ASSUME Base, Order, Cut, Begins, Furnished, Clean, Clean', Alive, Alive', SamePart, Changed, Keeps
  PROVE  /\ Here("audio")' # {} \/ \E a \in Kept' : a.stream = "audio" /\ a.pts < segmentOrigin' + SplitAfter
         /\ hr' # "full" => Here("video")' # {} \/ \E v \in Kept' : v.stream = "video"
<1>1. part \in 1 .. Len(parts) /\ part' = part /\ segmentOrigin' = segmentOrigin
  BY Known DEF SamePart
<1>2. \A s \in Streams : Here(s) \subseteq Here(s)'
  BY <1>1, Grown DEF Here
<1>3. /\ Here("audio") # {} \/ \E a \in Kept : a.stream = "audio" /\ a.pts < segmentOrigin + SplitAfter
      /\ hr # "full" => Here("video") # {} \/ \E v \in Kept : v.stream = "video"
  BY DEF Furnished
<1>4. CASE pc \in Rolling /\ parts' = parts
  BY <1>2, <1>4, RollingHolds DEF Streams
<1>5. CASE /\ hr' = "full" /\ pc' # "Seal" /\ parts' = parts
           /\ \A x \in Kept : x.stream = "audio" => x \in Kept'
  BY <1>1, <1>2, <1>3, <1>5 DEF Streams
<1>6. CASE hr' = hr /\ \A x \in Kept : x \in Kept' \/ parts' = Appended(x)
  <2>1. ASSUME NEW x \in Kept, NEW s \in Streams, x.stream = s, parts' = Appended(x)
        PROVE  Here(s)' # {}
    <3>1. x \in Packets /\ x \in Content /\ TypeOK
      BY Known DEF Content, Base
    <3>2. PICK k \in 1 .. Len(parts) : k = part
      BY <1>1
    <3>3. In(k, s)' = In(k, s) \cup {x}
      BY <2>1, <3>1, <3>2, InAppended
    <3> QED BY <3>2, <3>3, <1>1 DEF Here
  <2>2. ASSUME NEW a \in Kept, a.stream = "audio", a.pts < segmentOrigin + SplitAfter
        PROVE  Here("audio")' # {} \/ \E y \in Kept' : y.stream = "audio" /\ y.pts < segmentOrigin' + SplitAfter
    BY <1>1, <1>6, <2>1, <2>2 DEF Streams
  <2>3. ASSUME NEW v \in Kept, v.stream = "video"
        PROVE  Here("video")' # {} \/ \E y \in Kept' : y.stream = "video"
    BY <1>6, <2>1, <2>3 DEF Streams
  <2>4. Here("audio")' # {} \/ \E a \in Kept' : a.stream = "audio" /\ a.pts < segmentOrigin' + SplitAfter
    BY <1>2, <1>3, <2>2 DEF Streams
  <2>5. hr' # "full" => Here("video")' # {} \/ \E v \in Kept' : v.stream = "video"
    BY <1>2, <1>3, <1>6, <2>3 DEF Streams
  <2> QED BY <2>4, <2>5
<1> QED BY <1>4, <1>5, <1>6 DEF Keeps

\* When the last drain is over, all that was kept is written.
LEMMA SealHeld ==
  ASSUME Base, Base', Emptied', Order, Cut, Begins, Furnished, Clean, Clean', Alive, Alive',
         SamePart, Changed, Keeps, hr' # "full", pc' = "Seal"
  PROVE  Here("audio")' # {} /\ Here("video")' # {}
<1>1. part \in 1 .. Len(parts) /\ part' = part
  BY Known DEF SamePart
<1>2. \A s \in Streams : Here(s) \subseteq Here(s)'
  BY <1>1, Grown DEF Here
<1>3. CASE pc \in Rolling /\ parts' = parts
  BY <1>2, <1>3, RollingHolds DEF Streams
<1>4. CASE hr' = hr /\ pc = "Seal"
  BY <1>2, <1>4 DEF Furnished, Streams
<1>5. CASE queue'["video"] = <<>> /\ queue'["audio"] = <<>>
  <2>1. ready' = <<>> /\ pending' = <<>> /\ pendingVideo' = <<>>
    BY DEF Base, Control, Calls, Emptied, Draining
  <2>2. Kept' = {}
    BY <2>1, <1>5, RangeEmpty DEF Kept, Queued, HeldBack, Waiting
  <2> QED BY <2>2, SameHeld
<1> QED BY <1>3, <1>4, <1>5 DEF Keeps

\* The current part, when it is sealed in a step.
LEMMA SealedHolds ==
  ASSUME Base, Order, Trailing, Cut, Begins, Furnished, Clean, SamePart, Changed, [Next]_vars,
         pc # "crashed", NEW k \in 1 .. Len(parts), k = part, Sealed(k)',
         pc' \in {"Retire", "Open"} \/ hr' # "full"
  PROVE  In(k, "audio") # {} /\ In(k, "video") # {}
<1>1. /\ k = Len(parts) /\ TypeOK
      /\ pc # "idle" => ~shutdown
  BY Known DEF Base, Calls
<1>2. CASE Sealed(k)
  <2>1. trailerWritten
    <3>1. PICK i \in DOMAIN parts[k].content : parts[k].content[i].stream = "trailer"
      BY <1>2 DEF Sealed
    <3>2. i \in 1 .. Len(parts[k].content)
      BY <3>1, <1>1, FiledIs
    <3>3. k < Len(parts) \/ trailerWritten
      BY <3>1, <3>2 DEF Trailing
    <3>4. ~(k < Len(parts))
      BY <1>1, FiledIs
    <3> QED BY <3>3, <3>4
  <2>2. CASE pc \in {"Retire", "Open"}
    BY <1>2, <2>2 DEF Furnished
  <2>3. CASE pc \notin {"Retire", "Open"}
    <3>1. hr # "full"
      BY <2>1, <2>3, TrailerStays
    <3> QED BY <3>1, <1>2 DEF Furnished
  <2> QED BY <2>2, <2>3
<1>3. CASE ~Sealed(k)
  <2>1. parts' # parts
    BY <1>3 DEF Sealed
  <2>2. ~\E x \in Packets : Written(x)
    <3>1. ASSUME NEW x \in Packets, Written(x) PROVE FALSE
      <4>1. x \in Content /\ x.stream # "trailer" /\ parts' = Appended(x)
        BY <3>1, PacketFields DEF Content, Streams, Written
      <4> QED BY <4>1, <1>1, <1>3, SealedAppended
    <3> QED BY <3>1
  <2>3. pc = "Trailer" \/ (pc = "Seal" /\ header)
    BY <2>1, <2>2 DEF Changed
  <2>4. CASE pc = "Trailer"
    <3>1. segmentHasVideo /\ pc \in Rolling
      BY <2>4 DEF Cut, Cutting, Rolling
    <3>2. Alive
      BY <2>4, <3>1, <1>1 DEF Alive, Begins, Base, Control
    <3> QED BY <3>1, <3>2, RollingHolds DEF Here
  <2>5. CASE pc = "Seal" /\ header
    <3>1. Seal
      BY <2>1, <2>5, SealStep
    <3>2. ~trailerWritten /\ hr' = hr /\ pc' \in {"idle", "crashed"}
      BY <3>1, Seals
    <3>3. Alive
      BY <2>5, <3>2, <1>1 DEF Alive
    <3> QED BY <2>5, <3>2, <3>3 DEF Furnished, Here
  <2> QED BY <2>3, <2>4, <2>5
<1> QED BY <1>2, <1>3

\* Steps within a part.
LEMMA SameFurnished ==
  ASSUME Base, Base', Emptied', Order, Trailing, Cut, Begins, Working, Furnished, pc # "crashed",
         SamePart, Changed, Keeps, [Next]_vars
  PROVE  Furnished'
<1> SUFFICES ASSUME Clean'
             PROVE  /\ Alive' => \/ Here("audio")' # {}
                                 \/ \E a \in Kept' : a.stream = "audio" /\ a.pts < segmentOrigin' + SplitAfter
                    /\ Alive' /\ hr' # "full" => Here("video")' # {} \/ \E v \in Kept' : v.stream = "video"
                    /\ Alive' /\ hr' # "full" /\ pc' = "Seal" => Here("audio")' # {} /\ Here("video")' # {}
                    /\ \A k \in 1 .. Len(parts') :
                         Sealed(k)' /\ (k < Len(parts') \/ pc' \in {"Retire", "Open"} \/ hr' # "full") =>
                           In(k, "audio")' # {} /\ In(k, "video")' # {}
  BY DEF Furnished
<1>1. Clean
  BY CleanBefore
<1>2. Alive' => Alive
  BY ShutdownStays DEF Alive, SamePart
<1>3. Len(parts') = Len(parts) /\ part \in 1 .. Len(parts) /\ part = Len(parts)
  BY Grown, Known
<1>4. ASSUME NEW k \in 1 .. Len(parts'), Sealed(k)',
             k < Len(parts') \/ pc' \in {"Retire", "Open"} \/ hr' # "full"
      PROVE  In(k, "audio")' # {} /\ In(k, "video")' # {}
  <2>1. k \in 1 .. Len(parts) /\ \A s \in Streams : In(k, s) \subseteq In(k, s)'
    BY <1>3, Grown
  <2>2. CASE k = part
    <3>1. ~(k < Len(parts'))
      BY <2>2, <1>3
    <3>2. In(k, "audio") # {} /\ In(k, "video") # {}
      BY <1>1, <1>4, <2>1, <2>2, <3>1, SealedHolds
    <3> QED BY <3>2, <2>1 DEF Streams
  <2>3. CASE k # part
    <3>1. k < Len(parts)
      BY <2>1, <2>3, <1>3
    <3>2. Sealed(k)
      <4>1. CASE parts' = parts
        BY <4>1, <1>4 DEF Sealed
      <4>2. CASE \E x \in Content : parts' = Appended(x)
        BY <4>2, <1>4, <2>1, <2>3, SealedAppended DEF Base
      <4> QED BY <4>1, <4>2, TrailerTypes DEF Changed, Written, Content
    <3>3. In(k, "audio") # {} /\ In(k, "video") # {}
      BY <3>1, <3>2, <2>1, <1>1 DEF Furnished
    <3> QED BY <3>3, <2>1 DEF Streams
  <2> QED BY <2>2, <2>3
<1>5. ASSUME Alive'
      PROVE  /\ Here("audio")' # {} \/ \E a \in Kept' : a.stream = "audio" /\ a.pts < segmentOrigin' + SplitAfter
             /\ hr' # "full" => Here("video")' # {} \/ \E v \in Kept' : v.stream = "video"
  BY <1>1, <1>2, <1>5, SameHeld
<1>6. ASSUME Alive', hr' # "full", pc' = "Seal"
      PROVE  Here("audio")' # {} /\ Here("video")' # {}
  BY <1>1, <1>2, <1>6, SealHeld
<1> QED BY <1>4, <1>5, <1>6

\* The first packet of a stream has the least decode time.
LEMMA FirstSent ==
  ASSUME NEW s, NEW q \in Seq(Packets), Ordered(q), \A i \in DOMAIN q : q[i].stream = s, q # <<>>
  PROVE  /\ q[1] \in Range(q) /\ q[1] \in Packets /\ q[1].stream = s
         /\ \A x \in Range(q) : q[1].dts <= x.dts
<1>1. DOMAIN q = 1 .. Len(q) /\ Len(q) \in Nat /\ 1 \in DOMAIN q
  BY EmptySeq, LenProperties
<1>2. q[1] \in Range(q) /\ q[1] \in Packets /\ q[1].stream = s
  BY <1>1, RangeMembers
<1>3. ASSUME NEW x \in Range(q) PROVE q[1].dts <= x.dts
  <2>1. PICK i \in 1 .. Len(q) : q[i] = x
    BY RangeMembers
  <2>2. i \in DOMAIN q /\ x \in Packets /\ x.stream = s
    BY <2>1, <1>1, RangeMembers
  <2>3. x.dts \in Int /\ q[1].dts \in Int
    BY <2>2, <1>2, PacketFields
  <2>4. CASE i = 1
    BY <2>1, <2>3, <2>4
  <2>5. CASE i # 1
    <3>1. 1 \in 1 .. i - 1
      BY <2>2, <2>5, <1>1
    <3>2. q[1].dts < q[i].dts
      BY <3>1, <2>1, <2>2, <1>2 DEF Ordered
    <3> QED BY <3>2, <2>1, <2>3
  <2> QED BY <2>4, <2>5
<1> QED BY <1>2, <1>3

\* With nothing lost and nothing refused, the first packets of both streams are in the
\* first part or kept.
LEMMA FirstHeld ==
  ASSUME Base', Order', Timeline', NoneLost', part' = 1, segmentOrigin' = 0, NoLongGap,
         failure' = "ok", hr' = "ok", ~shutdown', pc' # "crashed", \A t \in Streams : sent'[t] # <<>>
  PROVE  /\ Here("audio")' # {} \/ \E a \in Kept' : a.stream = "audio" /\ a.pts < segmentOrigin' + SplitAfter
         /\ Here("video")' # {} \/ \E v \in Kept' : v.stream = "video"
<1>1. Lost' = {} /\ refused' = {}
  BY DEF NoneLost, Good
<1>2. Len(parts') = 1 /\ parts' \in Seq(Files)
  BY DEF Base, TypeOK, FileTypes
<1>3. ASSUME NEW s \in Streams, NEW x \in Range(sent'[s]), x.stream = s PROVE x \in Here(s)' \/ x \in Kept'
  <2>1. x \in Delivered'
    BY <1>3 DEF Delivered, Streams
  <2>2. x \in Filed' \/ x \in Kept'
    BY <2>1, <1>1 DEF Lost
  <2>3. CASE x \in Filed'
    <3>1. PICK k \in 1 .. Len(parts') : x \in Range(parts'[k].content)
      BY <2>3, <1>2, FiledIsAfter
    <3>2. k = 1
      BY <1>2
    <3> QED BY <3>1, <3>2, <1>3 DEF Here, In
  <2> QED BY <2>2, <2>3
<1>4. ASSUME NEW s \in Streams
      PROVE  /\ sent'[s][1] \in Range(sent'[s]) /\ sent'[s][1] \in Packets /\ sent'[s][1].stream = s
             /\ \A x \in Range(sent'[s]) : sent'[s][1].dts <= x.dts
             /\ Range(sent'[s]) \subseteq Packets
  <2>1. sent'[s] \in Seq(Packets) /\ Ordered(sent'[s]) /\ \A i \in DOMAIN sent'[s] : sent'[s][i].stream = s
    BY DEF Base, TypeOK, QueueTypes, Tagged, Order
  <2> QED BY <2>1, FirstSent, RangeMembers
<1>5. Here("audio")' # {} \/ \E a \in Kept' : a.stream = "audio" /\ a.pts < segmentOrigin' + SplitAfter
  <2>1. PICK a \in Range(sent'["audio"]) :
          a \in Packets /\ a.stream = "audio" /\ \A x \in Range(sent'["audio"]) : a.dts <= x.dts
    BY <1>4 DEF Streams
  <2>2. a.pts = 0
    <3>1. a.dts \in Int
      BY <2>1, PacketFields
    <3>2. ASSUME NEW b \in Range(sent'["audio"]), b.dts < a.dts PROVE FALSE
      <4>1. a.dts <= b.dts /\ b.dts \in Int
        BY <2>1, <1>4, PacketFields DEF Streams
      <4> QED BY <4>1, <3>1, <3>2
    <3> QED BY <3>2, <2>1 DEF Timeline, NoLongGap
  <2>3. a.pts < segmentOrigin' + SplitAfter
    BY <2>2, ConstantsAssumption
  <2> QED BY <2>1, <2>3, <1>3 DEF Streams
<1>6. Here("video")' # {} \/ \E v \in Kept' : v.stream = "video"
  <2>1. sent'["video"][1] \in Range(sent'["video"]) /\ sent'["video"][1].stream = "video"
    BY <1>4 DEF Streams
  <2> QED BY <2>1, <1>3 DEF Streams
<1> QED BY <1>5, <1>6

\* One more packet is delivered.
LEMMA ProcessFurnished ==
  ASSUME Base, Base', Order, Order', Timeline', NoneLost', Causes, Division, Working, Furnished,
         NEW s \in Streams, Process(s)
  PROVE  Furnished'
<1>1. /\ Kept \subseteq Kept' /\ pc = "idle" /\ pc' \in {"idle", "Write"}
      /\ caller = "Process" /\ ~shutdown /\ ~finalizing /\ ~trailerWritten /\ failure = "ok"
      /\ UNCHANGED <<mode, part, segmentOrigin, trailerWritten, hr, storageError, shutdown, parts, refused>>
      /\ \/ header' = header
         \/ header' = TRUE /\ ~header /\ failure' = failure /\ \A t \in Streams : sent'[t] # <<>>
  BY Taken
<1>2. \A k : \A t : In(k, t)' = In(k, t)
  BY <1>1 DEF In
<1>3. \A k : Sealed(k)' = Sealed(k)
  BY <1>1 DEF Sealed
<1>4. Clean' => Clean
  BY <1>1 DEF Clean, NoLongGap
<1>5. ASSUME Clean', Alive'
      PROVE  /\ Here("audio")' # {} \/ \E a \in Kept' : a.stream = "audio" /\ a.pts < segmentOrigin' + SplitAfter
             /\ hr' # "full" => Here("video")' # {} \/ \E v \in Kept' : v.stream = "video"
  <2>1. CASE header' = header
    <3>1. Alive
      BY <2>1, <1>1, <1>5 DEF Alive
    <3>2. /\ Here("audio") # {} \/ \E a \in Kept : a.stream = "audio" /\ a.pts < segmentOrigin + SplitAfter
          /\ hr # "full" => Here("video") # {} \/ \E v \in Kept : v.stream = "video"
      BY <3>1, <1>4, <1>5 DEF Furnished
    <3>3. \A t : Here(t)' = Here(t)
      BY <1>1, <1>2 DEF Here
    <3> QED BY <3>2, <3>3, <1>1
  <2>2. CASE ~header /\ failure' = failure /\ \A t \in Streams : sent'[t] # <<>>
    <3>1. part' = 1 /\ segmentOrigin' = 0
      BY <2>2, <1>1 DEF Working, Division
    <3>2. failure' = "ok" /\ hr' = "ok" /\ ~shutdown' /\ pc' # "crashed"
      BY <2>2, <1>1 DEF Causes
    <3>3. NoLongGap
      BY <1>5 DEF Clean, NoLongGap
    <3>4. /\ Here("audio")' # {} \/ \E a \in Kept' : a.stream = "audio" /\ a.pts < segmentOrigin' + SplitAfter
          /\ Here("video")' # {} \/ \E v \in Kept' : v.stream = "video"
      BY <2>2, <3>1, <3>2, <3>3, FirstHeld
    <3> QED BY <3>4
  <2> QED BY <2>1, <2>2, <1>1
<1>6. pc' # "Seal" /\ pc' \notin {"Retire", "Open"}
  BY <1>1
<1>7. ASSUME Clean', NEW k \in 1 .. Len(parts'), Sealed(k)',
             k < Len(parts') \/ pc' \in {"Retire", "Open"} \/ hr' # "full"
      PROVE  In(k, "audio")' # {} /\ In(k, "video")' # {}
  <2>1. Sealed(k) /\ (k < Len(parts) \/ hr # "full") /\ k \in 1 .. Len(parts)
    BY <1>1, <1>3, <1>6, <1>7
  <2>2. In(k, "audio") # {} /\ In(k, "video") # {}
    BY <2>1, <1>4, <1>7 DEF Furnished
  <2> QED BY <2>2, <1>2
<1> QED BY <1>5, <1>6, <1>7 DEF Furnished

\* The sound that a new part begins with follows, within a gap, sound before the cut.
LEMMA NextSoundNear ==
  ASSUME Base, Order, Timeline, Division, SoundBound, Cut, Clean, pc = "Open"
  PROVE  \E a \in Kept : a.stream = "audio" /\ a.pts < video.pts + SplitAfter
<1> DEFINE h == Head(queue["audio"])
<1>1. pc \in Rolling /\ Cutting
  BY DEF Rolling, Cutting
<1>2. /\ \A s \in Streams : \A x \in Here(s) : x.pts < boundary
      /\ video.pts = boundary
  BY <1>1, BeforeCut
<1>3. /\ boundary > segmentOrigin /\ \A x \in Kept : x.pts >= boundary
      /\ queue["audio"] # <<>>
  BY <1>1, RangeEmpty DEF Cut
<1>4. /\ h \in Kept /\ h \in Packets /\ h \in Range(sent["audio"]) /\ h.stream = "audio"
      /\ \A y \in Kept : y.stream = "audio" => h.dts <= y.dts
  BY <1>3, FirstKept DEF Streams
<1> HIDE DEF h
<1>5. /\ boundary \in Int /\ segmentOrigin \in Int /\ segmentOrigin >= 0 /\ SplitAfter \in Nat
      /\ h.pts \in Int /\ h.dts \in Int
  BY <1>4, PacketFields, ConstantsAssumption DEF Base, TypeOK, CallTypes, FileTypes, Division
<1>6. h.pts # 0
  BY <1>3, <1>4, <1>5
<1>7. PICK b \in Range(sent["audio"]) : b.dts < h.dts /\ h.pts <= b.pts + SplitAfter
  BY <1>4, <1>6 DEF Timeline, Clean
<1>8. b \in Delivered /\ b \in Packets /\ b.stream = "audio" /\ b.dts \in Int /\ b.pts \in Int
  BY Elements, PacketFields DEF Base, Delivered, Streams
<1>9. b \notin Kept
  BY <1>4, <1>5, <1>7, <1>8
<1>10. b \in Filed
  <2>1. ~Dead
    BY DEF Dead, Clean, Base, Calls
  <2>2. b \notin refused
    BY DEF Clean
  <2>3. ASSUME b \notin Filed PROVE FALSE
    <3>1. Before(Kept, {b})
      BY <2>1, <2>2, <2>3, <1>8, <1>9 DEF Order, Line, InLine, Kept
    <3> QED BY <3>1, <1>4, <1>5, <1>7, <1>8 DEF Before
  <2> QED BY <2>3
<1>11. b.pts < boundary
  <2>1. PICK k \in 1 .. Len(parts) : b \in Range(parts[k].content)
    BY <1>10, FiledIs DEF Base
  <2>2. b \in In(k, "audio")
    BY <2>1, <1>8 DEF In
  <2>3. CASE k < part
    <3>1. b.pts < segmentOrigin
      BY <2>2, <2>3 DEF Division, Streams
    <3> QED BY <3>1, <1>3, <1>5, <1>8
  <2>4. CASE k = part
    BY <2>2, <2>4, <1>2 DEF Here, Streams
  <2>5. k < part \/ k = part
    BY Known
  <2> QED BY <2>3, <2>4, <2>5
<1>12. h.pts < video.pts + SplitAfter
  BY <1>2, <1>5, <1>7, <1>8, <1>11
<1> QED BY <1>4, <1>12

\* The next part is opened.
LEMMA OpenFurnished ==
  ASSUME Base, Order, Timeline, Division, SoundBound, Cut, Working, Furnished, OpenNext
  PROVE  Furnished'
<1>1. /\ Len(parts') = Len(parts) + 1 /\ part' = part + 1 /\ segmentOrigin' = video.pts
      /\ \A k \in 1 .. Len(parts) : \A s \in Streams : In(k, s)' = In(k, s)
      /\ part = Len(parts) /\ part \in Nat
  BY InOpened
<1>2. /\ pc = "Open" /\ UNCHANGED <<mode, sent, queue, storageError, refused, pending, pendingVideo>>
      /\ parts' = Append(parts, [origin |-> video.pts, content |-> <<>>])
      /\ \/ header' = TRUE /\ pc' = "Video" /\ UNCHANGED <<ready, hr, failure>>
         \/ header' = FALSE
  BY OpenNexts
<1>3. Clean' => Clean
  BY CleanBefore DEF Next, Roll
<1>4. /\ \A k \in 1 .. Len(parts) : parts'[k] = parts[k]
      /\ parts'[Len(parts) + 1] = [origin |-> video.pts, content |-> <<>>]
  <2>1. video.pts \in Int
    BY <1>2, FirstPicture DEF Base, Control, Draining, Rolling
  <2> QED BY <2>1, <1>2, FileOpened DEF Base
<1>5. ASSUME Clean', header'
      PROVE  /\ pc' = "Video"
             /\ \E a \in Kept' : a.stream = "audio" /\ a.pts < segmentOrigin' + SplitAfter
             /\ \E v \in Kept' : v.stream = "video"
  <2>1. pc' = "Video" /\ ready' = ready
    BY <1>2, <1>5
  <2>2. Kept' = Kept
    BY <2>1, <1>2 DEF Kept, Queued, HeldBack, Waiting
  <2>3. \E a \in Kept : a.stream = "audio" /\ a.pts < video.pts + SplitAfter
    BY <1>2, <1>3, <1>5, NextSoundNear
  <2>4. video \in Kept /\ video.stream = "video"
    BY <1>2, FirstPicture DEF Base, Control, Draining, Rolling
  <2> QED BY <2>1, <2>2, <2>3, <2>4, <1>1
<1>6. ASSUME Clean', NEW k \in 1 .. Len(parts'), Sealed(k)'
      PROVE  In(k, "audio")' # {} /\ In(k, "video")' # {}
  <2>1. CASE k = Len(parts) + 1
    <3>1. parts'[k].content = <<>>
      BY <2>1, <1>4
    <3> QED BY <3>1, <1>6 DEF Sealed
  <2>2. CASE k # Len(parts) + 1
    <3>1. k \in 1 .. Len(parts)
      BY <2>2, <1>1
    <3>2. Sealed(k)
      BY <3>1, <1>4, <1>6 DEF Sealed
    <3>3. In(k, "audio") # {} /\ In(k, "video") # {}
      BY <3>1, <3>2, <1>2, <1>3, <1>6 DEF Furnished
    <3> QED BY <3>1, <3>3, <1>1 DEF Streams
  <2> QED BY <2>1, <2>2
<1> QED BY <1>5, <1>6 DEF Furnished, Alive

\* Every step.
LEMMA StepFurnished ==
  ASSUME Base, Base', Order, Order', Ending, Ending', Playing, Timeline', [Next]_vars
  PROVE  Furnished'
<1>1. /\ Timeline /\ Division /\ SoundBound /\ Cut /\ Begins /\ Working /\ Furnished
      /\ Causes /\ Trailing /\ Emptied' /\ NoneLost'
  BY DEF Playing, Ending
<1>2. CASE UNCHANGED vars
  <2>1. /\ UNCHANGED <<mode, sent, queue, pending, pendingVideo, ready, part, segmentOrigin, header,
                       trailerWritten, pc, hr, failure, storageError, shutdown, parts, refused>>
    BY <1>2 DEF vars, input, held, segment, call, ends
  <2>2. Kept' = Kept /\ \A k : \A s : In(k, s)' = In(k, s)
    BY <2>1 DEF Kept, Queued, HeldBack, Waiting, In
  <2>3. Clean' = Clean /\ Alive' = Alive /\ \A k : Sealed(k)' = Sealed(k)
    BY <2>1 DEF Clean, Alive, NoLongGap, Sealed
  <2>4. \A s : Here(s)' = Here(s)
    BY <2>1, <2>2 DEF Here
  <2> QED BY <2>1, <2>2, <2>3, <2>4, <1>1 DEF Furnished
<1>3. CASE \E s \in Streams : Process(s)
  BY <1>1, <1>3, ProcessFurnished
<1>4. CASE OpenNext
  BY <1>1, <1>4, OpenFurnished
<1>5. CASE SamePart /\ Changed /\ Keeps
  <2>1. CASE pc = "crashed"
    BY <2>1, <1>2, CrashedStays
  <2> QED BY <1>1, <1>5, <2>1, SameFurnished
<1> QED BY <1>3, <1>4, <1>5, StepEffect
-----------------------------------------------------------------------------
(* The parts are playable *)

\* Every step keeps all of it.
LEMMA StepPlaying ==
  ASSUME Base, Base', Order, Order', Ending, Ending', Playing, [Next]_vars
  PROVE  Playing'
<1>1. Timeline' /\ Division' /\ SoundBound'
  BY StepDivision DEF Playing
<1>2. Cut'
  BY StepCut DEF Playing, Ending
<1>3. Begins'
  BY StepBegins DEF Playing
<1>4. Working'
  BY StepWorking DEF Playing
<1>5. Furnished'
  BY <1>1, StepFurnished
<1> QED BY <1>1, <1>2, <1>3, <1>4, <1>5 DEF Playing

\* An empty first part.
LEMMA InitPlaying == ASSUME Init PROVE Playing
<1>1. /\ Len(parts) = 1 /\ part = 1 /\ segmentOrigin = 0 /\ parts[1].origin = 0 /\ parts[1].content = <<>>
      /\ sent["video"] = <<>> /\ sent["audio"] = <<>> /\ ~header /\ ~segmentHasVideo /\ pc = "idle"
      /\ ready = <<>> /\ pending = <<>> /\ pendingVideo = <<>>
      /\ queue["video"] = <<>> /\ queue["audio"] = <<>>
  BY DEF Init, Streams
<1>2. Kept = {} /\ Range(sent["video"]) = {} /\ Range(sent["audio"]) = {}
  BY <1>1, RangeEmpty DEF Kept, Queued, HeldBack, Waiting
<1>3. \A s : \A k \in 1 .. Len(parts) : In(k, s) = {} /\ ~Sealed(k)
  BY <1>1, RangeEmpty DEF In, Sealed
<1>4. \A s : Here(s) = {}
  BY <1>1, <1>3 DEF Here
<1>5. Timeline
  BY <1>2 DEF Timeline
<1>6. Division
  BY <1>1, <1>2, <1>3 DEF Division
<1>7. SoundBound /\ Cut
  BY <1>1, <1>4 DEF SoundBound, Cut, Cutting, Rolling
<1>8. Begins
  BY <1>1, <1>3 DEF Begins
<1>9. Working
  BY <1>1 DEF Working, Draining
<1>10. Furnished
  BY <1>1, <1>3 DEF Furnished, Alive
<1> QED BY <1>5, <1>6, <1>7, <1>8, <1>9, <1>10 DEF Playing

\* What a part holds, by its places.
LEMMA InPlaces ==
  ASSUME TypeOK, NEW k \in 1 .. Len(parts), NEW s \in Streams
  PROVE  /\ \A i \in DOMAIN parts[k].content :
              parts[k].content[i].stream = s => parts[k].content[i] \in In(k, s)
         /\ \A x \in In(k, s) : \E i \in DOMAIN parts[k].content : parts[k].content[i] = x /\ x.stream = s
BY DEF In, Range

\* The picture at the first place of a part is the one with the least decode time.
LEMMA FirstPlace ==
  ASSUME Base, Order, NEW k \in 1 .. Len(parts), NEW i \in DOMAIN parts[k].content,
         parts[k].content[i].stream = "video",
         \A j \in DOMAIN parts[k].content : parts[k].content[j].stream = "video" => i <= j,
         NEW u \in In(k, "video")
  PROVE  parts[k].content[i].dts <= u.dts
<1> DEFINE c == parts[k].content
<1>1. c \in Seq(Content) /\ DOMAIN c = 1 .. Len(c) /\ Len(c) \in Nat /\ k \in DOMAIN parts /\ TypeOK
  BY FiledIs DEF Base
<1>2. PICK j \in DOMAIN c : c[j] = u /\ u.stream = "video"
  BY <1>1, InPlaces DEF Streams
<1>3. i <= j
  BY <1>2
<1>4. c[i] \in In(k, "video")
  BY <1>1, InPlaces DEF Streams
<1>5. c[i].dts \in Int /\ u.dts \in Int
  BY <1>4, Known, PacketFields DEF Streams
<1>6. CASE i = j
  BY <1>2, <1>5, <1>6
<1>7. CASE i # j
  <2>1. i \in 1 .. j - 1
    BY <1>1, <1>3, <1>7
  <2>2. c[i].dts < c[j].dts
    <3>1. k \in 1 .. k /\ ~(k < k)
      BY <1>1
    <3>2. \A m \in (IF k < k THEN DOMAIN c ELSE 1 .. j - 1) :
            c[m].stream \in Streams /\ c[m].stream = c[j].stream => c[m].dts < c[j].dts
      BY <1>1, <1>2, <3>1 DEF Order, InOrder
    <3>3. i \in (IF k < k THEN DOMAIN c ELSE 1 .. j - 1)
      BY <2>1, <3>1
    <3>4. c[i].stream \in Streams /\ c[i].stream = c[j].stream
      BY <1>2 DEF Streams
    <3> QED BY <3>2, <3>3, <3>4
  <2> QED BY <2>2, <1>2, <1>5
<1> QED BY <1>6, <1>7

\* What is known of the parts makes them playable.
LEMMA PlayingImplies == ASSUME Base, Order, Ending, Playing PROVE PartsPlayable
<1>1. TypeOK /\ DOMAIN parts = 1 .. Len(parts) /\ Timeline /\ Division /\ Begins /\ Furnished
      /\ part = Len(parts)
  BY FiledIs, Known DEF Base, Playing
<1> SUFFICES ASSUME NEW k \in 1 .. Len(parts)
             PROVE  LET content == parts[k].content
                        Of(s)   == {i \in DOMAIN content : content[i].stream = s}
                    IN /\ \A s \in Streams : \A i \in Of(s) : TakesPartOf(k, content[i].pts)
                       /\ refused = {} =>
                            \A i \in Of("video") : (\A j \in Of("video") : i <= j) =>
                              /\ content[i].key # "no"
                              /\ \A j \in Of("video") : content[i].pts <= content[j].pts
                       /\ /\ Sealed(k) /\ refused = {} /\ mode # "bytes" /\ NoLongGap /\ ~storageError
                          /\ "full" \notin {failure, hr}
                          => \A s \in Streams : Of(s) # {}
  BY <1>1 DEF PartsPlayable
<1> DEFINE content == parts[k].content
           Of(s)   == {i \in DOMAIN content : content[i].stream = s}
<1>2. ASSUME NEW s \in Streams, NEW i \in Of(s) PROVE content[i] \in In(k, s)
  BY <1>1, <1>2, InPlaces
<1>3. ASSUME NEW s \in Streams, NEW i \in Of(s) PROVE TakesPartOf(k, content[i].pts)
  <2>1. content[i] \in In(k, s)
    BY <1>2, <1>3
  <2> QED BY <2>1, <1>1 DEF Division
<1>4. ASSUME refused = {}, NEW i \in Of("video"), \A j \in Of("video") : i <= j
      PROVE  content[i].key # "no" /\ \A j \in Of("video") : content[i].pts <= content[j].pts
  <2>1. content[i] \in In(k, "video") /\ \A u \in In(k, "video") : content[i].dts <= u.dts
    BY <1>2, <1>4, FirstPlace DEF Streams
  <2>2. content[i].key # "no" /\ content[i].pts = parts[k].origin
    BY <2>1, <1>1, <1>4 DEF Begins
  <2>3. ASSUME NEW j \in Of("video") PROVE content[i].pts <= content[j].pts
    <3>1. TakesPartOf(k, content[j].pts)
      BY <1>3 DEF Streams
    <3> QED BY <3>1, <2>2 DEF TakesPartOf
  <2> QED BY <2>2, <2>3
<1>5. ASSUME Sealed(k), refused = {}, mode # "bytes", NoLongGap, ~storageError,
             "full" \notin {failure, hr}, NEW s \in Streams
      PROVE  Of(s) # {}
  <2>1. Clean /\ hr # "full"
    BY <1>5 DEF Clean
  <2>2. In(k, "audio") # {} /\ In(k, "video") # {}
    BY <2>1, <1>1, <1>5 DEF Furnished
  <2>3. PICK x \in In(k, s) : TRUE
    BY <2>2 DEF Streams
  <2>4. PICK i \in DOMAIN content : content[i] = x /\ x.stream = s
    BY <2>3, <1>1, InPlaces
  <2> QED BY <2>4
<1> QED BY <1>3, <1>4, <1>5

\* The parts divide the timeline of both streams; each begins with a key picture that
\* nothing in it is shown before; and those that are sealed hold sound and picture, for
\* splits by time with no gap in the sound longer than a part, unless a packet was
\* refused or the storage or the queue was full (FragmentedMp4Sink.cpp, DrainSegments
\* and RollSegment).
THEOREM PartsPlayableHolds == Spec => []PartsPlayable
<1>1. Init => Base /\ Order /\ Ending /\ Playing
  BY InitBase, InitOrder, InitEnding, InitPlaying
<1>2. Base /\ Order /\ Ending /\ Playing /\ [Next]_vars => (Base /\ Order /\ Ending /\ Playing)'
  BY StepBase, StepOrder, StepEnding, StepPlaying
<1>3. Base /\ Order /\ Ending /\ Playing => PartsPlayable
  BY PlayingImplies
<1> QED BY <1>1, <1>2, <1>3, PTL DEF Spec
=============================================================================
