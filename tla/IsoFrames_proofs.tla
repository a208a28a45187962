-------------------------- MODULE IsoFrames_proofs --------------------------
(***************************************************************************)
(* Frame assembly of IsoFrames for any number of requests, frames and      *)
(* packets per frame: what is handed to the display is a whole frame, and  *)
(* a frame that is dropped was refused by its size, was faulty, or follows *)
(* a faulty one.                                                           *)
(*                                                                         *)
(* The argument follows the packets: the one the thread holds, the ones    *)
(* completed, and the one the camera sends next are a chain in which each  *)
(* link says what may have gone by between two of them.                    *)
(***************************************************************************)
EXTENDS IsoFrames, SequenceTheorems, TLAPS

Tainted == bad \cup unseen
Pieces  == Frames \X (1..MaxParts)

\* The packets on their way, oldest first, and the one the camera sends next.
Q   == IF pc = "packet" THEN <<pkt>> \o done ELSE done
Cam == [kind |-> "good", frame |-> frame, part |-> part, eof |-> FALSE]
At(n) == IF n = Len(Q) + 1 THEN Cam ELSE Q[n]

\* Only packets without payload between the m-th and the n-th.
Silent(m, n) == \A j \in (m + 1)..(n - 1) : Q[j].kind = "empty"

\* What may have gone by between a packet x and the next one with payload, y.
Link(x, y) ==
  /\ x.kind = "good" /\ ~x.eof /\ x.frame \notin unseen =>
       y.kind = "lost" \/ (y.frame = x.frame /\ y.part = x.part + 1)
  /\ y.frame # 0 /\ y.frame \notin unseen /\ y.part > 1 =>
       x.frame = y.frame /\ x.part + 1 = y.part /\ ~x.eof
  /\ \/ y.frame = 0 \/ y.frame - 1 \in Tainted
     \/ x.frame # 0 /\ (x.eof \/ y.frame = x.frame)

\* d is the first k packets of frame f.
IsRun(d, f, k) == Len(d) = k /\ \A n \in 1..k : d[n] = <<f, n>>
Spoiled(d) == \E n \in 1..Len(d) : d[n][1] \in unseen

\* What the thread has made of all packets before y.
Base(y) ==
  /\ skipFrames = 1 => y.frame = 0 \/ y.frame \in Tainted \/ y.frame - 1 \in Tainted
  /\ \/ skipFrames = 1 \/ Spoiled(frameData) \/ y.kind = "lost"
     \/ frameData = <<>> /\ y.frame \in unseen
     \/ y.part > 0 /\ IsRun(frameData, y.frame, y.part - 1)

Chained ==
  \A n \in 1..(Len(Q) + 1) : At(n).kind # "empty" =>
    /\ Silent(0, n) => Base(At(n))
    /\ \A m \in 1..(n - 1) : Q[m].kind # "empty" /\ Silent(m, n) => Link(Q[m], At(n))

\* Each packet by itself.
Formed(p) ==
  /\ p.frame = 0 => p.kind \in {"empty", "lost"} /\ p.part = 0 /\ ~p.eof
  /\ p.kind = "empty" => p.frame = 0
  /\ p.frame # 0 => p.part > 0 /\ p.frame <= frame
  /\ p.frame # 0 /\ p.kind # "good" => p.frame \in bad
  /\ p.kind = "good" /\ p.eof => p.frame < frame /\ p.part = length[p.frame]

Packed == \A n \in 1..Len(Q) : Formed(Q[n])

CamType ==
  /\ frame \in 1..(MaxFrame + 1) /\ part \in 1..MaxParts
  /\ length \in [Frames -> 0..MaxParts]
  /\ frame = MaxFrame + 1 => part = 1
  /\ bad \subseteq Frames /\ unseen \subseteq Frames

ThreadType ==
  /\ pend \in 0..activeUrbs /\ done \in Seq(Packets)
  /\ pc \in {"reap", "packet"} /\ pkt \in Packets
  /\ pend + Len(Q) = activeUrbs
  /\ frameData \in Seq(Pieces) /\ handed \in Seq(Pieces)
  /\ skipFrames \in {0, 1} /\ dropped \in [frame: 0..MaxFrame, size: BOOLEAN]

Handed ==
  \/ handed = <<>> \/ Spoiled(handed)
  \/ \E f \in Frames : f < frame /\ length[f] > 0 /\ handed = Doubled(f)

IInv == CamType /\ ThreadType /\ Packed /\ Chained /\ Handed /\ DroppedForCause

-----------------------------------------------------------------------------
(* Sets of faults only grow, and links and bases only hold more.           *)

LEMMA LinkGrows ==
  ASSUME NEW x, NEW y, Link(x, y), unseen \subseteq unseen', bad \subseteq bad'
  PROVE  Link(x, y)'
BY DEF Link, Tainted

LEMMA BaseGrows ==
  ASSUME NEW y, Base(y), unseen \subseteq unseen', bad \subseteq bad',
         UNCHANGED <<frameData, skipFrames>>
  PROVE  Base(y)'
BY DEF Base, Tainted, Spoiled, IsRun

LEMMA QType ==
  ASSUME ThreadType
  PROVE  Q \in Seq(Packets) /\ Len(Q) \in Nat
BY DEF ThreadType, Q

\* A packet stands where the camera stood, so it has the camera's links.
LEMMA LinkAtCam ==
  ASSUME NEW x, NEW y, y.frame = frame, y.part = part, Link(x, Cam)
  PROVE  Link(x, y)
BY DEF Link, Cam

LEMMA BaseAtCam ==
  ASSUME NEW y, y.frame = frame, y.part = part, Base(Cam)
  PROVE  Base(y)
BY DEF Base, Cam

-----------------------------------------------------------------------------
(* How the chain grows and shrinks *)

\* The same packets in the same state.
LEMMA ChainSame ==
  ASSUME IInv, Q' = Q, UNCHANGED <<frame, part, bad, unseen, frameData, skipFrames>>
  PROVE  Chained'
<1>1. \A n : At(n)' = At(n)
  BY DEF At, Cam
<1>2. \A m, n : Silent(m, n)' = Silent(m, n)
  BY DEF Silent
<1>3. QED
  BY <1>1, <1>2, LinkGrows, BaseGrows DEF IInv, Chained

\* A packet of the camera's position is added.
LEMMA ChainGrows ==
  ASSUME IInv, NEW y, y.kind # "empty", y.frame = frame, y.part = part,
         Q' = Append(Q, y), Link(y, Cam)',
         unseen \subseteq unseen', bad \subseteq bad', UNCHANGED <<frameData, skipFrames>>
  PROVE  Chained'
<1> DEFINE N == Len(Q)
<1>1. /\ N \in Nat /\ Len(Q') = N + 1 /\ Q'[N + 1] = y
      /\ \A j \in 1..N : Q'[j] = Q[j]
  BY QType DEF IInv
<1> SUFFICES ASSUME NEW n \in 1..(N + 2), At(n)'.kind # "empty"
             PROVE  /\ Silent(0, n)' => Base(At(n))'
                    /\ \A m \in 1..(n - 1) :
                         Q'[m].kind # "empty" /\ Silent(m, n)' => Link(Q[m], At(n))'
  BY <1>1 DEF Chained
<1>2. CASE n <= N
  <2>1. At(n)' = Q[n] /\ At(n) = Q[n]
    BY <1>1, <1>2 DEF At
  <2>2. \A m \in 0..(n - 1) : Silent(m, n)' => Silent(m, n)
    BY <1>1, <1>2 DEF Silent
  <2>3. QED
    BY <1>1, <1>2, <2>1, <2>2, LinkGrows, BaseGrows DEF IInv, Chained
<1>3. CASE n = N + 1
  <2>1. At(n)' = y /\ At(n) = Cam /\ Cam.kind # "empty"
    BY <1>1, <1>3 DEF At, Cam
  <2>2. \A m \in 0..(n - 1) : Silent(m, n)' => Silent(m, n)
    BY <1>1, <1>3 DEF Silent
  <2>3. QED
    BY <1>1, <1>3, <2>1, <2>2, LinkGrows, BaseGrows, LinkAtCam, BaseAtCam DEF IInv, Chained
<1>4. CASE n = N + 2
  <2>1. At(n)' = Cam'
    BY <1>1, <1>4 DEF At
  <2>2. \A m \in 0..N : ~Silent(m, n)'
    BY <1>1, <1>4 DEF Silent
  <2>3. \A m \in 0..(n - 1) : Silent(m, n)' => m = N + 1
    BY <1>1, <1>4, <2>2
  <2>4. QED
    BY <1>1, <1>4, <2>1, <2>3
<1>5. QED
  BY <1>1, <1>2, <1>3, <1>4

\* A packet without payload is added: the camera only moves along.
LEMMA ChainGrowsSilently ==
  ASSUME IInv, NEW y, y.kind = "empty", Q' = Append(Q, y),
         UNCHANGED <<frame, part, unseen, bad, frameData, skipFrames>>
  PROVE  Chained'
<1> DEFINE N == Len(Q)
<1>1. /\ N \in Nat /\ Len(Q') = N + 1 /\ Q'[N + 1] = y
      /\ \A j \in 1..N : Q'[j] = Q[j]
  BY QType DEF IInv
<1> SUFFICES ASSUME NEW n \in 1..(N + 2), At(n)'.kind # "empty"
             PROVE  /\ Silent(0, n)' => Base(At(n))'
                    /\ \A m \in 1..(n - 1) :
                         Q'[m].kind # "empty" /\ Silent(m, n)' => Link(Q[m], At(n))'
  BY <1>1 DEF Chained
<1>2. CASE n <= N
  <2>1. At(n)' = Q[n] /\ At(n) = Q[n]
    BY <1>1, <1>2 DEF At
  <2>2. \A m \in 0..(n - 1) : Silent(m, n)' => Silent(m, n)
    BY <1>1, <1>2 DEF Silent
  <2>3. QED
    BY <1>1, <1>2, <2>1, <2>2, LinkGrows, BaseGrows DEF IInv, Chained
<1>3. CASE n = N + 2
  <2>1. At(n)' = Cam /\ At(N + 1) = Cam /\ Cam.kind # "empty"
    BY <1>1, <1>3 DEF At, Cam
  <2>2. \A m \in 0..N : Silent(m, n)' => Silent(m, N + 1)
    BY <1>1, <1>3 DEF Silent
  <2>3. /\ Silent(0, N + 1) => Base(Cam)
        /\ \A m \in 1..N : Q[m].kind # "empty" /\ Silent(m, N + 1) => Link(Q[m], Cam)
    BY <1>1, <2>1 DEF IInv, Chained
  <2>4. QED
    BY <1>1, <1>3, <2>1, <2>2, <2>3, LinkGrows, BaseGrows
<1>4. CASE n = N + 1
  BY <1>1, <1>4 DEF At
<1>5. QED
  BY <1>1, <1>2, <1>3, <1>4

\* The packets stay and the camera moves, past a packet nobody got.
LEMMA ChainStays ==
  ASSUME IInv, Q' = Q, UNCHANGED <<frameData, skipFrames>>,
         frame \in unseen', unseen \subseteq unseen', bad \subseteq bad',
         frame' = frame \/ (frame' = frame + 1 /\ part' = 1)
  PROVE  Chained'
<1> DEFINE N == Len(Q)
<1>1. N \in Nat /\ frame \in Nat /\ frame # 0
  BY QType, FramesAssumption DEF IInv, CamType
<1> SUFFICES ASSUME NEW n \in 1..(N + 1), At(n)'.kind # "empty"
             PROVE  /\ Silent(0, n)' => Base(At(n))'
                    /\ \A m \in 1..(n - 1) :
                         Q'[m].kind # "empty" /\ Silent(m, n)' => Link(Q[m], At(n))'
  BY <1>1 DEF Chained
<1>2. \A m \in 0..(n - 1) : Silent(m, n)' => Silent(m, n)
  BY DEF Silent
<1>3. CASE n <= N
  <2>1. At(n)' = Q[n] /\ At(n) = Q[n]
    BY <1>1, <1>3 DEF At
  <2>2. QED
    BY <1>1, <1>2, <1>3, <2>1, LinkGrows, BaseGrows DEF IInv, Chained
<1>4. CASE n = N + 1
  <2>1. At(n)' = Cam' /\ At(n) = Cam /\ Cam.kind # "empty"
    BY <1>4 DEF At, Cam
  <2>a. /\ Cam.kind = "good" /\ Cam.frame = frame /\ Cam.part = part
        /\ Cam'.kind = "good" /\ Cam'.frame = frame' /\ Cam'.part = part'
    BY DEF Cam
  <2>b. frame' = frame \/ (frame' - 1 = frame /\ part' = 1)
    BY <1>1
  <2>2. ASSUME NEW x, Link(x, Cam) PROVE Link(x, Cam)'
    BY <2>2, <2>a, <2>b DEF Link, Tainted
  <2>3. ASSUME Base(Cam) PROVE Base(Cam)'
    <3>1. \/ Len(frameData) = 0 /\ frameData = <<>>
          \/ Len(frameData) > 0 /\ Len(frameData) \in Nat
      BY EmptySeq, LenProperties DEF IInv, ThreadType
    <3>2. \/ skipFrames = 1 \/ Spoiled(frameData)' \/ frameData = <<>>
      <4>1. CASE Len(frameData) > 0 /\ IsRun(frameData, frame, part - 1)
        <5>1. frameData[1] = <<frame, 1>>
          BY <3>1, <4>1 DEF IsRun
        <5>2. QED
          BY <3>1, <4>1, <5>1 DEF Spoiled
      <4>2. CASE Spoiled(frameData)
        BY <4>2 DEF Spoiled
      <4>3. QED
        BY <2>3, <2>a, <3>1, <4>1, <4>2 DEF Base
    <3>3. frameData = <<>> => IsRun(frameData, frame', 0)
      BY DEF IsRun
    <3>4. QED
      BY <2>3, <2>a, <2>b, <3>2, <3>3 DEF Base, Tainted, Spoiled, IsRun
  <2>4. QED
    BY <1>1, <1>2, <1>4, <2>1, <2>2, <2>3 DEF IInv, Chained
<1>5. QED
  BY <1>1, <1>3, <1>4

\* Errors are added and the camera starts anew.
LEMMA ChainReset ==
  ASSUME IInv, NEW k \in Nat \ {0}, Len(Q') = Len(Q) + k,
         \A j \in 1..Len(Q) : Q'[j] = Q[j],
         \A j \in (Len(Q) + 1)..(Len(Q) + k) : Q'[j] = Nothing("lost"),
         frame' = frame + 1, part' = 1, frame \in bad',
         unseen \subseteq unseen', bad \subseteq bad', UNCHANGED <<frameData, skipFrames>>
  PROVE  Chained'
<1> DEFINE N == Len(Q)
           e == Nothing("lost")
<1>0. e.kind = "lost" /\ e.frame = 0 /\ e.part = 0
  BY DEF Nothing
<1> HIDE DEF e
<1>1. /\ N \in Nat /\ Len(Q') = N + k /\ frame \in Nat /\ frame # 0
      /\ \A j \in 1..N : Q'[j] = Q[j]
      /\ \A j \in (N + 1)..(N + k) : Q'[j] = e
  BY QType, FramesAssumption DEF IInv, CamType, e
<1> SUFFICES ASSUME NEW n \in 1..(N + k + 1), At(n)'.kind # "empty"
             PROVE  /\ Silent(0, n)' => Base(At(n))'
                    /\ \A m \in 1..(n - 1) :
                         Q'[m].kind # "empty" /\ Silent(m, n)' => Link(Q[m], At(n))'
  BY <1>1 DEF Chained
<1>a. k \in Nat /\ k >= 1 /\ n \in Nat /\ n >= 1
  BY <1>1
<1>b. N \in Nat
  BY <1>1
<1>2. CASE n <= N
  <2>1. At(n)' = Q[n] /\ At(n) = Q[n]
    BY <1>1, <1>2, <1>a DEF At
  <2>2. \A m \in 0..(n - 1) : Silent(m, n)' => Silent(m, n)
    BY <1>1, <1>2, <1>a DEF Silent
  <2>3. /\ Silent(0, n) => Base(Q[n])
        /\ \A m \in 1..(n - 1) : Q[m].kind # "empty" /\ Silent(m, n) => Link(Q[m], Q[n])
    BY <1>1, <1>2, <1>a, <2>1 DEF IInv, Chained
  <2>4. \A m \in 1..(n - 1) : Q'[m] = Q[m]
    BY <1>1, <1>2, <1>a
  <2>5. ASSUME Silent(0, n)' PROVE Base(At(n))'
    <3>1. Base(Q[n])
      BY <1>a, <2>2, <2>3, <2>5
    <3>2. QED
      BY <2>1, <3>1, BaseGrows
  <2>6. ASSUME NEW m \in 1..(n - 1), Q'[m].kind # "empty", Silent(m, n)'
        PROVE  Link(Q[m], At(n))'
    <3>1. Silent(m, n) /\ Q'[m] = Q[m]
      BY <1>a, <2>2, <2>4, <2>6
    <3>2. Link(Q[m], Q[n])
      BY <2>3, <2>6, <3>1
    <3>3. QED
      BY <2>1, <3>1, <3>2, LinkGrows
  <2>7. QED
    BY <2>5, <2>6
<1>3. CASE n \in (N + 1)..(N + k)
  <2>1. At(n)' = e
    BY <1>1, <1>3 DEF At
  <2>2. \A x : Link(x, e)'
    BY <1>0 DEF Link
  <2>3. Base(e)'
    BY <1>0 DEF Base
  <2>4. QED
    BY <2>1, <2>2, <2>3
<1>4. CASE n = N + k + 1
  <2>1. At(n)' = Cam'
    BY <1>1, <1>4 DEF At
  <2>2. ASSUME NEW m \in 0..(n - 1), Silent(m, n)' PROVE m = N + k
    <3>1. N + k \in (N + 1)..(N + k) /\ N + k = n - 1
      BY <1>4, <1>a, <1>b
    <3>2. Q'[N + k].kind # "empty"
      BY <1>0, <1>1, <3>1
    <3>3. N + k \notin (m + 1)..(n - 1)
      BY <2>2, <3>2 DEF Silent
    <3>4. QED
      BY <1>a, <1>b, <3>1, <3>3
  <2>3. \A m \in 0..(n - 1) : Silent(m, n)' => m = N + k
    BY <2>2
  <2>4. Link(e, Cam)'
    BY <1>0, <1>1 DEF Link, Cam, Tainted
  <2>5. Q'[N + k] = e /\ N + k # 0
    BY <1>1, <1>a, <1>b
  <2>6. ~Silent(0, n)'
    BY <1>a, <2>3, <2>5
  <2>7. ASSUME NEW m \in 1..(n - 1), Silent(m, n)' PROVE Link(Q[m], At(n))'
    <3>1. m = N + k
      BY <1>a, <2>3, <2>7
    <3>2. QED
      BY <2>1, <2>4, <2>5, <3>1
  <2>8. QED
    BY <2>6, <2>7
<1>5. QED
  BY <1>2, <1>3, <1>4, <1>a, <1>b

\* A packet of a frame, or one that was lost.
Solid(y) == y.part \in Nat /\ (IF y.frame = 0 THEN y.kind = "lost" ELSE y.part > 0)

\* The oldest packet x is taken: what it leads to has a new base.
LEMMA ChainShrinks ==
  ASSUME IInv, NEW x, Q = <<x>> \o Q', Q' \in Seq(Packets),
         UNCHANGED <<frame, part, unseen, bad>>,
         x.kind = "empty" => UNCHANGED <<frameData, skipFrames>>,
         x.kind # "empty" => \A y : Solid(y) /\ Base(x) /\ Link(x, y) => Base(y)'
  PROVE  Chained'
<1> DEFINE N == Len(Q')
<1>1. /\ N \in Nat /\ Len(Q) = N + 1 /\ Q[1] = x
      /\ \A j \in 1..N : Q'[j] = Q[j + 1]
      /\ \A j \in 2..(N + 1) : Q[j] = Q'[j - 1]
  OBVIOUS
<1> SUFFICES ASSUME NEW n \in 1..(N + 1), At(n)'.kind # "empty"
             PROVE  /\ Silent(0, n)' => Base(At(n))'
                    /\ \A m \in 1..(n - 1) :
                         Q'[m].kind # "empty" /\ Silent(m, n)' => Link(Q[m], At(n))'
  BY <1>1 DEF Chained
<1>2. At(n)' = At(n + 1)
  BY <1>1 DEF At, Cam
<1>3. ASSUME NEW m \in 0..(n - 1), Silent(m, n)' PROVE Silent(m + 1, n + 1)
  <2> SUFFICES ASSUME NEW j \in (m + 2)..n PROVE Q[j].kind = "empty"
    BY DEF Silent
  <2>1. j - 1 \in (m + 1)..(n - 1) /\ j \in 2..(N + 1)
    BY <1>1
  <2>2. QED
    BY <1>1, <1>3, <2>1 DEF Silent
<1>4. /\ Silent(0, n + 1) => Base(At(n + 1))
      /\ \A m \in 1..n : Q[m].kind # "empty" /\ Silent(m, n + 1) => Link(Q[m], At(n + 1))
  BY <1>1, <1>2 DEF IInv, Chained
<1>5. ASSUME NEW m \in 1..(n - 1), Q'[m].kind # "empty", Silent(m, n)'
      PROVE  Link(Q[m], At(n))'
  <2>1. Link(Q[m + 1], At(n + 1)) /\ Q'[m] = Q[m + 1]
    BY <1>1, <1>3, <1>4, <1>5
  <2>2. QED
    BY <1>2, <2>1, LinkGrows
<1>6. ASSUME Silent(0, n)' PROVE Base(At(n))'
  <2>1. Silent(1, n + 1)
    BY <1>3, <1>6
  <2>2. CASE x.kind = "empty"
    <3>1. Silent(0, n + 1)
      <4> SUFFICES ASSUME NEW j \in 1..n PROVE Q[j].kind = "empty"
        BY DEF Silent
      <4>1. CASE j = 1
        BY <1>1, <2>2, <4>1
      <4>2. CASE j # 1
        <5>1. j \in 2..n
          BY <4>2
        <5>2. QED
          BY <2>1, <5>1 DEF Silent
      <4>3. QED
        BY <4>1, <4>2
    <3>2. QED
      BY <1>2, <1>4, <2>2, <3>1, BaseGrows
  <2>3. CASE x.kind # "empty"
    <3>1. Link(x, At(n + 1))
      BY <1>1, <1>4, <2>1, <2>3
    <3>2. Base(x)
      <4>1. At(1) = x /\ Silent(0, 1)
        BY <1>1 DEF At, Silent
      <4>2. QED
        BY <1>1, <2>3, <4>1 DEF IInv, Chained
    <3>3. Solid(At(n + 1))
      <4>1. CASE n = N + 1
        BY <1>1, <4>1, FramesAssumption DEF At, Cam, Solid, IInv, CamType
      <4>2. CASE n \in 1..N
        <5>1. At(n + 1) = Q[n + 1] /\ Q[n + 1] \in Packets /\ n + 1 \in 1..Len(Q)
          BY <1>1, <4>2, QType DEF At, IInv
        <5>2. Formed(Q[n + 1]) /\ Q[n + 1].kind # "empty"
          BY <1>2, <5>1 DEF IInv, Packed
        <5>3. QED
          BY <5>1, <5>2 DEF Packets, Formed, Solid
      <4>3. QED
        BY <1>1, <4>1, <4>2
    <3>4. QED
      BY <1>2, <2>3, <3>1, <3>2, <3>3
  <2>4. QED
    BY <2>2, <2>3
<1>7. QED
  BY <1>5, <1>6

-----------------------------------------------------------------------------
(* The camera and the driver *)

LEMMA AdvanceStep ==
  ASSUME CamType, NEW last \in BOOLEAN, Advance(last)
  PROVE  /\ frame \in Frames /\ frame' \in 1..(MaxFrame + 1) /\ part' \in 1..MaxParts
         /\ length' \in [Frames -> 0..MaxParts] /\ (frame' = MaxFrame + 1 => part' = 1)
         /\ \A f \in Frames : f < frame => length'[f] = length[f]
         /\ last => frame' = frame + 1 /\ part' = 1 /\ length'[frame] = part
         /\ ~last => frame' = frame /\ part' = part + 1
<1>1. /\ frame \in Frames /\ part \in 1..MaxParts
      /\ length \in [Frames -> 0..MaxParts] /\ part \in 0..MaxParts
  BY FramesAssumption DEF CamType, Advance, Frames
<1>2. CASE last
  BY <1>1, <1>2, FramesAssumption DEF Advance, Frames
<1>3. CASE ~last
  BY <1>1, <1>3, FramesAssumption DEF Advance, Frames
<1>4. QED
  BY <1>2, <1>3

\* What is known of frames that are over stays true.
LEMMA FormedKept ==
  ASSUME CamType, NEW p \in Packets, Formed(p), bad \subseteq bad',
         frame' = frame \/ frame' = frame + 1,
         \A f \in Frames : f < frame => length'[f] = length[f]
  PROVE  Formed(p)'
<1>1. frame \in Nat /\ frame' \in Nat /\ frame <= frame' /\ frame <= MaxFrame + 1
  BY FramesAssumption DEF CamType
<1>2. p.frame \in 0..MaxFrame /\ p.frame \in Nat
  BY FramesAssumption DEF Packets
<1>3. p.kind = "good" /\ p.eof => p.frame \in Frames /\ p.frame < frame
  BY <1>1, <1>2, FramesAssumption DEF Formed, Frames
<1>4. QED
  BY <1>1, <1>2, <1>3 DEF Formed

LEMMA HandedKept ==
  ASSUME CamType, Handed, unseen \subseteq unseen', handed' = handed,
         frame' = frame \/ frame' = frame + 1,
         \A f \in Frames : f < frame => length'[f] = length[f]
  PROVE  Handed'
<1>1. CASE handed = <<>> \/ Spoiled(handed)
  BY <1>1 DEF Handed, Spoiled
<1>2. ASSUME NEW f \in Frames, f < frame, length[f] > 0, handed = Doubled(f) PROVE Handed'
  <2>1. length'[f] = length[f] /\ f < frame'
    BY <1>2, FramesAssumption DEF CamType, Frames
  <2>2. Doubled(f)' = Doubled(f)
    BY <2>1 DEF Doubled
  <2>3. QED
    BY <1>2, <2>1, <2>2 DEF Handed
<1>3. QED
  BY <1>1, <1>2 DEF Handed

LEMMA DroppedKept ==
  ASSUME DroppedForCause, unseen \subseteq unseen', bad \subseteq bad', dropped' = dropped
  PROVE  DroppedForCause'
BY DEF DroppedForCause

LEMMA NothingType ==
  ASSUME NEW k \in {"lost", "empty"}
  PROVE  Nothing(k) \in Packets /\ Nothing(k).kind = k /\ Formed(Nothing(k))
         /\ Nothing(k).frame = 0 /\ Nothing(k).part = 0 /\ ~Nothing(k).eof
<1>1. 0 \in 0..MaxFrame /\ 0 \in 0..MaxParts
  BY FramesAssumption
<1>2. QED
  BY <1>1 DEF Nothing, Packets, Formed

\* Growing by one packet.
LEMMA Appended ==
  ASSUME IInv, NEW y \in Packets, done' = Append(done, y), UNCHANGED <<pc, pkt>>
  PROVE  /\ Q' = Append(Q, y) /\ Len(Q') = Len(Q) + 1 /\ done' \in Seq(Packets)
         /\ Q'[Len(Q) + 1] = y /\ \A n \in 1..Len(Q) : Q'[n] = Q[n]
<1>1. Q \in Seq(Packets) /\ done \in Seq(Packets) /\ pkt \in Packets
  BY QType DEF IInv, ThreadType
<1>2. Q' = Append(Q, y)
  BY <1>1 DEF Q
<1>3. QED
  BY <1>1, <1>2

LEMMA AppendedPacked ==
  ASSUME IInv, NEW y \in Packets, done' = Append(done, y), UNCHANGED <<pc, pkt>>,
         \A p \in Packets : Formed(p) => Formed(p)', Formed(y)'
  PROVE  Packed'
<1>1. /\ Q \in Seq(Packets) /\ Len(Q) \in Nat /\ Len(Q') = Len(Q) + 1
      /\ Q'[Len(Q) + 1] = y /\ \A n \in 1..Len(Q) : Q'[n] = Q[n]
  BY QType, Appended DEF IInv
<1> SUFFICES ASSUME NEW n \in 1..Len(Q') PROVE Formed(Q[n])'
  BY DEF Packed
<1>2. CASE n \in 1..Len(Q)
  <2>1. Q[n] \in Packets /\ Q'[n] = Q[n]
    BY <1>1, <1>2
  <2>2. Formed(Q[n])
    BY <1>2 DEF IInv, Packed
  <2>3. PICK p \in Packets : p = Q[n]
    BY <2>1
  <2>4. QED
    BY <2>1, <2>2, <2>3
<1>3. CASE n = Len(Q) + 1
  BY <1>1, <1>3
<1>4. QED
  BY <1>1, <1>2, <1>3

LEMMA AppendedType ==
  ASSUME IInv, NEW y \in Packets, done' = Append(done, y), pend > 0, pend' = pend - 1,
         UNCHANGED threadVars
  PROVE  ThreadType'
<1>1. Len(Q) \in Nat /\ Len(Q') = Len(Q) + 1 /\ done' \in Seq(Packets)
  BY QType, Appended DEF threadVars, IInv
<1>2. pend' \in 0..activeUrbs /\ pend' + Len(Q') = activeUrbs
  BY <1>1, FramesAssumption DEF IInv, ThreadType
<1>3. QED
  BY <1>1, <1>2 DEF IInv, ThreadType, threadVars

LEMMA CompleteStep == ASSUME IInv, Complete PROVE IInv'
<1> USE DEF threadVars
<1>1. pend \in Nat /\ pend > 0 /\ pend' = pend - 1 /\ UNCHANGED threadVars
  BY DEF Complete, IInv, ThreadType
<1>2. CASE done' = Append(done, Nothing("empty")) /\ UNCHANGED <<camVars, bad, unseen>>
  <2> DEFINE y == Nothing("empty")
  <2>0. y \in Packets /\ y.kind = "empty" /\ Formed(y)
    BY NothingType
  <2> HIDE DEF y
  <2>a. done' = Append(done, y) /\ UNCHANGED <<frame, part, length, bad, unseen>>
    BY <1>2 DEF y, camVars
  <2>1. CamType'
    BY <2>a DEF IInv, CamType
  <2>2. ThreadType'
    BY <1>1, <2>0, <2>a, AppendedType
  <2>3. Packed'
    <3>1. \A p \in Packets : Formed(p) => Formed(p)'
      BY <2>a DEF Formed
    <3>2. QED
      BY <1>1, <2>0, <2>a, <3>1, AppendedPacked
  <2>4. Chained'
    BY <1>1, <2>0, <2>a, Appended, ChainGrowsSilently
  <2>5. Handed' /\ DroppedForCause'
    BY <1>1, <2>a, HandedKept, DroppedKept DEF IInv
  <2>6. QED
    BY <2>1, <2>2, <2>3, <2>4, <2>5 DEF IInv
<1>3. ASSUME NEW kind \in {"good", "flagged", "garbled", "lost"},
             NEW last \in BOOLEAN, NEW eof \in BOOLEAN,
             /\ Advance(last)
             /\ kind \in {"good", "flagged"} => eof = last
             /\ kind = "lost" => ~eof
             /\ done' = Append(done, [kind |-> kind, frame |-> frame, part |-> part, eof |-> eof])
             /\ bad' = IF kind = "good" THEN bad ELSE bad \cup {frame}
             /\ unseen' = IF eof /\ ~last THEN unseen \cup {frame} ELSE unseen
      PROVE  IInv'
  <2>a. CamType
    BY DEF IInv
  <2>b. /\ frame \in Frames /\ frame' \in 1..(MaxFrame + 1) /\ part' \in 1..MaxParts
        /\ length' \in [Frames -> 0..MaxParts] /\ (frame' = MaxFrame + 1 => part' = 1)
        /\ \A f \in Frames : f < frame => length'[f] = length[f]
        /\ last => frame' = frame + 1 /\ part' = 1 /\ length'[frame] = part
        /\ ~last => frame' = frame /\ part' = part + 1
    BY <1>3, <2>a, AdvanceStep
  <2>c. frame \in Nat /\ frame # 0 /\ part \in Nat /\ part > 0 /\ frame <= MaxFrame
        /\ part <= MaxParts
    BY <2>a, <2>b, FramesAssumption DEF CamType, Frames
  <2>d. unseen \subseteq unseen' /\ bad \subseteq bad'
    BY <1>3
  <2>z. PICK y \in Packets : y = [kind |-> kind, frame |-> frame, part |-> part, eof |-> eof]
    <3>1. frame \in 0..MaxFrame /\ part \in 0..MaxParts
      BY <2>c, FramesAssumption
    <3>2. [kind |-> kind, frame |-> frame, part |-> part, eof |-> eof] \in Packets
      BY <3>1 DEF Packets
    <3>3. QED
      BY <3>2
  <2>0. y.kind = kind /\ y.frame = frame /\ y.part = part /\ y.eof = eof
    BY <2>z
  <2>e. y \in Packets
    OBVIOUS
  <2>f. done' = Append(done, y)
    BY <1>3, <2>z
  <2>1. CamType'
    BY <1>3, <2>a, <2>b DEF CamType
  <2>2. ThreadType'
    BY <1>1, <2>e, <2>f, AppendedType
  <2>3. Packed'
    <3>1. \A p \in Packets : Formed(p) => Formed(p)'
      BY <2>a, <2>b, <2>d, FormedKept
    <3>2. Formed(y)'
      BY <1>3, <2>0, <2>b, <2>c DEF Formed
    <3>3. QED
      BY <1>1, <2>e, <2>f, <3>1, <3>2, AppendedPacked
  <2>4. Chained'
    <3>1. Link(y, Cam)'
      <4>1. Cam'.kind = "good" /\ Cam'.frame = frame' /\ Cam'.part = part'
        BY DEF Cam
      <4>2. QED
        BY <1>3, <2>0, <2>b, <2>c, <4>1 DEF Link, Tainted
    <3>2. QED
      BY <1>1, <1>3, <2>0, <2>d, <2>e, <2>f, <3>1, Appended, ChainGrows
  <2>5. Handed' /\ DroppedForCause'
    BY <1>1, <2>a, <2>b, <2>d, HandedKept, DroppedKept DEF IInv
  <2>6. QED
    BY <2>1, <2>2, <2>3, <2>4, <2>5 DEF IInv
<1>4. QED
  BY <1>2, <1>3 DEF Complete

LEMMA MissStep == ASSUME IInv, Miss PROVE IInv'
<1> USE DEF threadVars
<1>1. PICK last \in BOOLEAN : Advance(last)
  BY DEF Miss
<1>a. /\ CamType /\ unseen' = unseen \cup {frame}
      /\ UNCHANGED <<pend, done, bad, pc, pkt, frameData, skipFrames, handed, dropped>>
  BY DEF Miss, IInv
<1>b. /\ frame \in Frames /\ frame' \in 1..(MaxFrame + 1) /\ part' \in 1..MaxParts
      /\ length' \in [Frames -> 0..MaxParts] /\ (frame' = MaxFrame + 1 => part' = 1)
      /\ \A f \in Frames : f < frame => length'[f] = length[f]
      /\ frame' = frame \/ (frame' = frame + 1 /\ part' = 1)
  BY <1>1, <1>a, AdvanceStep
<1>2. CamType'
  BY <1>a, <1>b DEF CamType
<1>3. Q' = Q
  BY <1>a DEF Q
<1>4. ThreadType'
  BY <1>a, <1>3 DEF IInv, ThreadType
<1>5. Packed'
  <2>1. \A p \in Packets : Formed(p) => Formed(p)'
    BY <1>a, <1>b, FormedKept
  <2>2. QED
    BY <1>3, <2>1, QType DEF IInv, Packed
<1>6. Chained'
  BY <1>a, <1>b, <1>3, ChainStays
<1>7. Handed' /\ DroppedForCause'
  BY <1>a, <1>b, HandedKept, DroppedKept DEF IInv
<1>8. QED
  BY <1>2, <1>4, <1>5, <1>6, <1>7 DEF IInv

LEMMA ResetStep == ASSUME IInv, Reset PROVE IInv'
<1> USE DEF threadVars
<1> DEFINE L == [n \in 1..pend |-> Nothing("lost")]
<1>a. /\ CamType /\ frame <= MaxFrame /\ frame' = frame + 1 /\ part' = 1 /\ pend' = 0
      /\ done' = done \o L
      /\ UNCHANGED <<length, pc, pkt, frameData, skipFrames, handed, dropped>>
  BY DEF Reset, IInv
<1>b. frame \in Frames /\ frame' \in 1..(MaxFrame + 1) /\ part' \in 1..MaxParts
  BY <1>a, FramesAssumption DEF CamType, Frames
<1>c. /\ unseen \subseteq unseen' /\ bad \subseteq bad'
      /\ pend = 0 => frame \in unseen'
      /\ pend # 0 => frame \in bad'
  BY DEF Reset
<1>d. pend \in Nat /\ Nothing("lost") \in Packets
  BY NothingType, FramesAssumption DEF IInv, ThreadType
<1>e. L \in Seq(Packets) /\ Len(L) = pend /\ \A j \in 1..pend : L[j] = Nothing("lost")
  <2>1. L \in [1..pend -> Packets]
    BY <1>d
  <2>2. QED
    BY <1>d, <2>1
<1> HIDE DEF L
<1>2. CamType'
  BY <1>a, <1>b DEF Reset, CamType
<1>3. /\ Q \in Seq(Packets) /\ Q' = Q \o L /\ Len(Q) \in Nat
      /\ done' \in Seq(Packets)
  <2>1. done \in Seq(Packets) /\ <<pkt>> \in Seq(Packets) /\ done' \in Seq(Packets)
    BY <1>a, <1>e, ConcatProperties DEF IInv, ThreadType
  <2>2. <<pkt>> \o (done \o L) = (<<pkt>> \o done) \o L
    <3>1. L \in Seq(Packets)
      BY <1>e
    <3>2. QED
      BY <2>1, <3>1, ConcatAssociative, SMTT(30)
  <2>3. QED
    BY <1>a, <2>1, <2>2, QType DEF Q, IInv
<1>4. /\ Len(Q') = Len(Q) + pend
      /\ \A j \in 1..Len(Q) : Q'[j] = Q[j]
      /\ \A j \in (Len(Q) + 1)..(Len(Q) + pend) : Q'[j] = Nothing("lost")
  <2>1. \A j \in 1..(Len(Q) + pend) : Q'[j] = IF j <= Len(Q) THEN Q[j] ELSE L[j - Len(Q)]
    BY <1>3, <1>e, ConcatProperties
  <2>2. QED
    BY <1>3, <1>d, <1>e, <2>1, ConcatProperties
<1>5. ThreadType'
  <2>1. pend' \in 0..activeUrbs /\ pend' + Len(Q') = activeUrbs
    BY <1>a, <1>3, <1>4, FramesAssumption DEF IInv, ThreadType
  <2>2. QED
    BY <1>a, <1>3, <2>1 DEF IInv, ThreadType
<1>6. Packed'
  <2>1. \A p \in Packets : Formed(p) => Formed(p)'
    BY <1>a, <1>c, FormedKept
  <2>2. \A j \in 1..Len(Q') : Q'[j] \in Packets /\ Formed(Q'[j])
    BY <1>3, <1>4, <1>d, NothingType DEF IInv, Packed
  <2>3. QED
    BY <2>1, <2>2 DEF Packed
<1>7. Chained'
  <2>1. CASE pend = 0
    <3>1. Q' = Q
      BY <1>3, <1>e, <2>1, ConcatEmptySeq, EmptySeq
    <3>2. QED
      BY <1>a, <1>c, <2>1, <3>1, ChainStays
  <2>2. CASE pend # 0
    BY <1>a, <1>c, <1>d, <1>4, <2>2, ChainReset
  <2>3. QED
    BY <2>1, <2>2
<1>8. Handed' /\ DroppedForCause'
  BY <1>a, <1>c, HandedKept, DroppedKept DEF IInv
<1>9. QED
  BY <1>2, <1>5, <1>6, <1>7, <1>8 DEF IInv

-----------------------------------------------------------------------------
(* The thread *)

LEMMA ReapStep == ASSUME IInv, reapRequest PROVE IInv'
<1>a. /\ pc = "reap" /\ done # <<>> /\ pc' = "packet" /\ pkt' = Head(done)
      /\ done' = Tail(done) /\ handed' = <<>> /\ dropped' = NoFrame
      /\ UNCHANGED <<frame, part, length, pend, frameData, skipFrames, bad, unseen>>
  BY DEF reapRequest, camVars
<1>1. done \in Seq(Packets) /\ pkt' \in Packets /\ done' \in Seq(Packets)
  BY <1>a, HeadTailProperties DEF IInv, ThreadType
<1>2. Q' = Q
  BY <1>a, <1>1 DEF Q
<1>3. CamType'
  BY <1>a DEF IInv, CamType
<1>4. ThreadType'
  <2>1. <<>> \in Seq(Pieces) /\ 0 \in 0..MaxFrame
    BY EmptySeq, FramesAssumption
  <2>2. QED
    BY <1>a, <1>1, <1>2, <2>1 DEF IInv, ThreadType, NoFrame
<1>5. Packed'
  BY <1>a, <1>2 DEF IInv, Packed, Formed
<1>6. Chained'
  BY <1>a, <1>2, ChainSame
<1>7. Handed' /\ DroppedForCause'
  BY <1>a DEF Handed, DroppedForCause, NoFrame
<1>8. QED
  BY <1>3, <1>4, <1>5, <1>6, <1>7 DEF IInv

\* The packet the thread holds is the oldest, and all before it is accounted for.
LEMMA Holding ==
  ASSUME IInv, pc = "packet"
  PROVE  /\ pkt \in Packets /\ done \in Seq(Packets) /\ Q = <<pkt>> \o done /\ Formed(pkt)
         /\ Len(Q) = Len(done) + 1 /\ Len(done) \in Nat
         /\ pkt.kind # "empty" => Base(pkt)
         /\ pkt.frame \in 0..MaxFrame /\ pkt.part \in 0..MaxParts
<1>1. pkt \in Packets /\ done \in Seq(Packets) /\ Q = <<pkt>> \o done
  BY DEF IInv, ThreadType, Q
<1>2. Len(Q) = Len(done) + 1 /\ Len(done) \in Nat /\ Q[1] = pkt
  BY <1>1
<1>3. Formed(pkt)
  BY <1>2 DEF IInv, Packed
<1>4. At(1) = pkt /\ Silent(0, 1)
  BY <1>2 DEF At, Silent
<1>5. pkt.kind # "empty" => Base(pkt)
  BY <1>2, <1>4 DEF IInv, Chained
<1>6. QED
  BY <1>1, <1>2, <1>3, <1>5 DEF Packets

\* The k-th packet of a frame after its first k - 1.
LEMMA Extended ==
  ASSUME NEW d, NEW e, NEW f, NEW k \in Nat \ {0}, Len(e) \in Nat, Len(d) = Len(e) + 1,
         \A n \in 1..Len(e) : d[n] = e[n], d[Len(d)] = <<f, k>>
  PROVE  /\ Spoiled(e) \/ f \in unseen => Spoiled(d)
         /\ IsRun(e, f, k - 1) => IsRun(d, f, k)
<1>1. Spoiled(e) => Spoiled(d)
  BY DEF Spoiled
<1>2. f \in unseen => Spoiled(d)
  BY DEF Spoiled
<1>3. IsRun(e, f, k - 1) => IsRun(d, f, k)
  BY DEF IsRun
<1>4. QED
  BY <1>1, <1>2, <1>3

LEMMA IsDoubled ==
  ASSUME NEW h \in Seq(Pieces), NEW f, NEW k \in Nat, Len(h) = k + 1,
         \A n \in 1..k : h[n] = <<f, n>>, h[k + 1] = <<f, k>>
  PROVE  h = [n \in 1..(k + 1) |-> <<f, IF n > k THEN k ELSE n>>]
<1>1. \A n \in 1..(k + 1) : h[n] = <<f, IF n > k THEN k ELSE n>>
  <2> SUFFICES ASSUME NEW n \in 1..(k + 1) PROVE h[n] = <<f, IF n > k THEN k ELSE n>>
    OBVIOUS
  <2>1. CASE n \in 1..k
    BY <2>1
  <2>2. CASE n = k + 1
    BY <2>2
  <2>3. QED
    BY <2>1, <2>2
<1>2. h \in [1..(k + 1) -> Pieces]
  BY LenProperties
<1>3. QED
  BY <1>1, <1>2

\* What a good packet adds to the frame.
LEMMA WrittenFacts ==
  ASSUME IInv, pc = "packet", pkt.kind = "good", skipFrames = 0,
         NEW d, d = frameData \o Piece
  PROVE  /\ d \in Seq(Pieces) /\ <<pkt.frame, pkt.part>> \in Pieces
         /\ Len(d) = Len(frameData) + 1 /\ Len(frameData) \in Nat
         /\ \A n \in 1..Len(frameData) : d[n] = frameData[n]
         /\ d[Len(d)] = <<pkt.frame, pkt.part>>
         /\ Spoiled(d) \/ IsRun(d, pkt.frame, pkt.part)
<1>1. pkt.frame \in Frames /\ pkt.part \in 1..MaxParts
  BY Holding, FramesAssumption DEF Formed, Frames
<1>2. <<pkt.frame, pkt.part>> \in Pieces /\ frameData \in Seq(Pieces)
  BY <1>1 DEF Pieces, IInv, ThreadType
<1>3. d = Append(frameData, <<pkt.frame, pkt.part>>)
  BY <1>2 DEF Piece
<1>4. /\ d \in Seq(Pieces) /\ Len(d) = Len(frameData) + 1 /\ Len(frameData) \in Nat
      /\ \A n \in 1..Len(frameData) : d[n] = frameData[n]
      /\ d[Len(d)] = <<pkt.frame, pkt.part>>
  BY <1>2, <1>3
<1>5. pkt.part \in Nat \ {0}
  BY <1>1, FramesAssumption
<1>6. /\ Spoiled(frameData) \/ pkt.frame \in unseen => Spoiled(d)
      /\ IsRun(frameData, pkt.frame, pkt.part - 1) => IsRun(d, pkt.frame, pkt.part)
  BY <1>4, <1>5, Extended
<1>7. Base(pkt)
  BY Holding
<1>8. Spoiled(d) \/ IsRun(d, pkt.frame, pkt.part)
  BY <1>6, <1>7 DEF Base
<1>9. QED
  BY <1>2, <1>4, <1>8

\* The next packet's base.
LEMMA PacketBase ==
  ASSUME IInv, packet, pkt.kind # "empty", NEW y, Solid(y), Link(pkt, y)
  PROVE  Base(y)'
<1>0. /\ pc = "packet" /\ UNCHANGED <<bad, unseen>>
  BY DEF packet
<1>a. Formed(pkt) /\ Base(pkt) /\ pkt.frame \in Nat /\ pkt.part \in Nat
  BY <1>0, Holding, FramesAssumption
<1>b. skipFrames \in {0, 1}
  BY DEF IInv, ThreadType
<1>1. CASE pkt.eof
  <2>1. frameData' = <<>> /\ skipFrames' = 0
    BY <1>1 DEF packet, Eof
  <2>2. y.kind = "lost" \/ y.frame \in unseen \/ y.part = 1
    BY <1>1 DEF Link, Solid
  <2>3. IsRun(<<>>, y.frame, 0)
    BY DEF IsRun
  <2>4. y.part = 1 => y.part > 0 /\ IsRun(<<>>, y.frame, y.part - 1)
    BY <2>3
  <2>5. QED
    BY <1>0, <2>1, <2>2, <2>4 DEF Base, Spoiled, IsRun
<1>2. CASE ~pkt.eof /\ pkt.kind # "good"
  <2>1. skipFrames' = 1
    BY <1>2 DEF packet, Skip
  <2>2. y.frame = 0 \/ y.frame - 1 \in Tainted \/ y.frame \in Tainted
    BY <1>2, <1>a DEF Link, Formed, Tainted
  <2>3. QED
    BY <1>0, <2>1, <2>2 DEF Base, Tainted
<1>3. CASE ~pkt.eof /\ pkt.kind = "good" /\ skipFrames = 1
  <2>1. skipFrames' = 1
    BY <1>3 DEF packet, Skip
  <2>2. y.frame = 0 \/ y.frame - 1 \in Tainted \/ y.frame \in Tainted
    BY <1>3, <1>a DEF Link, Formed, Base
  <2>3. QED
    BY <1>0, <2>1, <2>2 DEF Base, Tainted
<1>4. CASE ~pkt.eof /\ pkt.kind = "good" /\ skipFrames = 0
  <2>b. skipFrames' = 0
    BY <1>4 DEF packet, Skip
  <2>1. frameData' = frameData \o Piece
    BY <1>4 DEF packet, Written
  <2>2. PICK d : d = frameData \o Piece
    OBVIOUS
  <2>a. frameData' = d
    BY <2>1, <2>2
  <2>3. /\ Len(d) = Len(frameData) + 1 /\ Len(frameData) \in Nat
        /\ d[Len(d)] = <<pkt.frame, pkt.part>>
        /\ Spoiled(d) \/ IsRun(d, pkt.frame, pkt.part)
    BY <1>0, <1>4, <2>2, WrittenFacts
  <2>4. CASE Spoiled(d)
    BY <1>0, <2>a, <2>b, <2>4 DEF Base, Spoiled
  <2>5. CASE pkt.frame \in unseen
    <3>1. Spoiled(d)
      BY <2>3, <2>5 DEF Spoiled
    <3>2. QED
      BY <2>4, <3>1
  <2>6. CASE pkt.frame \notin unseen /\ IsRun(d, pkt.frame, pkt.part)
    <3>1. y.kind = "lost" \/ (y.frame = pkt.frame /\ y.part = pkt.part + 1)
      BY <1>4, <2>6 DEF Link
    <3>2. y.frame = pkt.frame /\ y.part = pkt.part + 1
            => y.part > 0 /\ IsRun(d, y.frame, y.part - 1)
      BY <1>a, <2>6
    <3>3. QED
      BY <1>0, <2>a, <2>b, <3>1, <3>2 DEF Base, IsRun
  <2>7. QED
    BY <2>3, <2>4, <2>5, <2>6
<1>5. QED
  BY <1>1, <1>2, <1>3, <1>4, <1>b

\* A frame that is handed on.
LEMMA HandStep ==
  ASSUME IInv, pc = "packet", pkt.eof, pkt.kind = "good", skipFrames = 0,
         handed' = Written \o Piece, UNCHANGED <<frame, length, unseen>>
  PROVE  handed' \in Seq(Pieces) /\ Handed'
<1> DEFINE p == <<pkt.frame, pkt.part>>
<1>1. PICK d : d = frameData \o Piece
  OBVIOUS
<1>2. /\ d \in Seq(Pieces) /\ p \in Pieces
      /\ Spoiled(d) \/ IsRun(d, pkt.frame, pkt.part)
  BY <1>1, WrittenFacts
<1>3. handed' = Append(d, p)
  <2>1. Written = d
    BY <1>1 DEF Written
  <2>2. QED
    BY <1>2, <2>1 DEF Piece
<1>4. /\ handed' \in Seq(Pieces) /\ Len(handed') = Len(d) + 1 /\ Len(d) \in Nat
      /\ \A n \in 1..Len(d) : handed'[n] = d[n]
      /\ handed'[Len(d) + 1] = p
  BY <1>2, <1>3
<1>5. CASE Spoiled(d)
  <2>1. Spoiled(handed)'
    <3>1. PICK n \in 1..Len(d) : d[n][1] \in unseen
      BY <1>5 DEF Spoiled
    <3>2. n \in 1..Len(handed') /\ handed'[n] = d[n]
      BY <1>4
    <3>3. QED
      BY <3>1, <3>2 DEF Spoiled
  <2>2. QED
    BY <1>4, <2>1 DEF Handed
<1>6. CASE IsRun(d, pkt.frame, pkt.part)
  <2>1. /\ pkt.frame \in Frames /\ pkt.frame < frame /\ pkt.part = length[pkt.frame]
        /\ pkt.part \in Nat /\ pkt.part > 0
    BY Holding, FramesAssumption DEF Formed, Frames
  <2>2. PICK f \in Frames : f = pkt.frame
    BY <2>1
  <2>3. f < frame' /\ length'[f] = pkt.part /\ length'[f] > 0
    BY <2>1, <2>2
  <2>4. handed' = Doubled(f)'
    <3>1. /\ Len(handed') = pkt.part + 1 /\ handed'[pkt.part + 1] = <<f, pkt.part>>
          /\ \A n \in 1..pkt.part : handed'[n] = <<f, n>>
      BY <1>4, <1>6, <2>1, <2>2 DEF IsRun
    <3>2. handed' = [n \in 1..(pkt.part + 1) |-> <<f, IF n > pkt.part THEN pkt.part ELSE n>>]
      <4>1. handed' \in Seq(Pieces) /\ pkt.part \in Nat
        BY <1>4, <2>1
      <4>2. QED
        BY <3>1, <4>1, IsDoubled
    <3>3. QED
      BY <2>3, <3>2 DEF Doubled
  <2>5. QED
    BY <1>4, <2>3, <2>4 DEF Handed
<1>7. QED
  BY <1>2, <1>4, <1>5, <1>6

LEMMA PacketStep == ASSUME IInv, packet PROVE IInv'
<1>a. /\ pc = "packet" /\ pc' = "reap" /\ pkt' = Nothing("empty") /\ pend' = pend + 1
      /\ UNCHANGED <<frame, part, length, done, bad, unseen>>
  BY DEF packet, camVars
<1> USE <1>a
<1>1. CamType'
  BY DEF IInv, CamType
<1>2. Q' = done /\ done \in Seq(Packets) /\ Q = <<pkt>> \o Q'
  BY Holding DEF Q
<1>b. skipFrames \in {0, 1} /\ frameData \in Seq(Pieces) /\ <<>> \in Seq(Pieces)
  BY EmptySeq DEF IInv, ThreadType
<1>3. frameData' \in Seq(Pieces) /\ skipFrames' \in {0, 1}
  <2>1. CASE pkt.eof
    BY <1>b, <2>1 DEF packet, Eof
  <2>2. CASE ~pkt.eof
    <3>1. frameData' = Written /\ skipFrames' = Skip
      BY <2>2 DEF packet
    <3>2. Written \in Seq(Pieces)
      BY <1>b, WrittenFacts DEF Written
    <3>3. QED
      BY <1>b, <3>1, <3>2 DEF Skip
  <2>3. QED
    BY <2>1, <2>2
<1>4. /\ handed' \in Seq(Pieces) /\ Handed'
      /\ dropped' \in [frame: 0..MaxFrame, size: BOOLEAN] /\ DroppedForCause'
  <2>1. CASE ~pkt.eof
    <3>1. UNCHANGED <<handed, dropped>>
      BY <2>1 DEF packet
    <3>2. QED
      BY <3>1, HandedKept, DroppedKept DEF IInv, ThreadType
  <2>2. CASE pkt.eof
    <3>0. 0 \in 0..MaxFrame /\ pkt.frame \in 0..MaxFrame /\ Formed(pkt)
      BY Holding, FramesAssumption
    <3>1. PICK wrongSize \in BOOLEAN : Eof(wrongSize)
      BY <2>2 DEF packet
    <3>2. CASE wrongSize
      <4>1. handed' = <<>> /\ dropped' = [frame |-> pkt.frame, size |-> wrongSize]
        BY <3>1, <3>2 DEF Eof
      <4>2. wrongSize = TRUE
        BY <3>2
      <4>3. dropped' = [frame |-> pkt.frame, size |-> TRUE]
        BY <4>1, <4>2
      <4>4. QED
        BY <1>b, <3>0, <4>1, <4>3 DEF Handed, DroppedForCause
    <3>3. CASE ~wrongSize /\ Skip > 0
      <4>1. handed' = <<>> /\ dropped' = [frame |-> pkt.frame, size |-> FALSE]
        BY <3>1, <3>3 DEF Eof
      <4>2. pkt.frame # 0 /\ pkt.kind # "empty"
        BY <2>2, <3>0 DEF Formed
      <4>3. pkt.frame \in Tainted \/ pkt.frame - 1 \in Tainted
        <5>1. CASE pkt.kind # "good"
          BY <3>0, <4>2, <5>1 DEF Formed, Tainted
        <5>2. CASE pkt.kind = "good"
          BY <1>b, <3>3, <4>2, <5>2, Holding DEF Skip, Base
        <5>3. QED
          BY <5>1, <5>2
      <4>4. QED
        BY <1>b, <3>0, <4>1, <4>3 DEF Handed, DroppedForCause, Tainted
    <3>4. CASE ~wrongSize /\ ~(Skip > 0)
      <4>1. handed' = Written \o Piece /\ dropped' = NoFrame
        BY <3>1, <3>4 DEF Eof
      <4>2. pkt.kind = "good" /\ skipFrames = 0
        BY <1>b, <2>2, <3>0, <3>4 DEF Skip, Formed
      <4>3. QED
        BY <2>2, <3>0, <4>1, <4>2, HandStep DEF DroppedForCause, NoFrame
    <3>5. QED
      BY <3>2, <3>3, <3>4
  <2>3. QED
    BY <2>1, <2>2
<1>5. ThreadType'
  <2>1. pend' \in 0..activeUrbs /\ pend' + Len(Q') = activeUrbs
    BY <1>2, Holding, FramesAssumption DEF IInv, ThreadType
  <2>2. QED
    BY <1>2, <1>3, <1>4, <2>1, NothingType DEF IInv, ThreadType
<1>6. Packed'
  <2>1. \A n \in 1..Len(Q') : n + 1 \in 1..Len(Q) /\ Q'[n] = Q[n + 1]
    BY <1>2, Holding
  <2>2. QED
    BY <2>1 DEF IInv, Packed, Formed
<1>7. Chained'
  <2>1. ASSUME pkt.kind = "empty" PROVE UNCHANGED <<frameData, skipFrames>>
    BY <2>1, Holding DEF Formed, packet, Written, Skip
  <2>2. QED
    BY <1>2, <2>1, PacketBase, ChainShrinks
<1>8. QED
  BY <1>1, <1>4, <1>5, <1>6, <1>7 DEF IInv

-----------------------------------------------------------------------------
LEMMA InitInv == Init => IInv
<1> SUFFICES ASSUME Init PROVE IInv
  OBVIOUS
<1> USE DEF Init
<1>0. activeUrbs \in Nat /\ MaxFrame \in Nat /\ MaxParts \in Nat /\ MaxParts > 0
  BY FramesAssumption
<1>1. CamType
  BY <1>0 DEF CamType
<1>2. Q = <<>> /\ Len(Q) = 0
  BY DEF Q
<1>3. ThreadType
  BY <1>0, <1>2, NothingType, EmptySeq DEF ThreadType, NoFrame
<1>4. Packed
  BY <1>2 DEF Packed
<1>5. Chained
  <2>1. IsRun(<<>>, frame, 0)
    BY DEF IsRun
  <2>2. Base(Cam)
    BY <2>1 DEF Base, Cam
  <2>3. QED
    BY <1>2, <2>2 DEF Chained, At
<1>6. Handed /\ DroppedForCause
  BY DEF Handed, DroppedForCause, NoFrame
<1>7. QED
  BY <1>1, <1>3, <1>4, <1>5, <1>6 DEF IInv

LEMMA SameInv == ASSUME IInv, UNCHANGED vars PROVE IInv'
<1> USE DEF vars, camVars
<1>1. CamType' /\ DroppedForCause'
  BY DEF IInv, CamType, DroppedForCause
<1>2. Q' = Q
  BY DEF Q
<1>3. ThreadType'
  BY <1>2 DEF IInv, ThreadType
<1>4. Packed'
  BY <1>2 DEF IInv, Packed, Formed
<1>5. Chained'
  BY <1>2, ChainSame
<1>6. Handed'
  BY HandedKept DEF IInv
<1>7. QED
  BY <1>1, <1>3, <1>4, <1>5, <1>6 DEF IInv

LEMMA NextInv == IInv /\ [Next]_vars => IInv'
BY CompleteStep, MissStep, ResetStep, ReapStep, PacketStep, SameInv DEF Next

LEMMA Invariant == Spec => []IInv
BY InitInv, NextInv, PTL DEF Spec

-----------------------------------------------------------------------------
(* What follows from it *)

(* The state of IsochronousStream.run keeps its types, and every request   *)
(* is in flight, completed or in the thread's hands.                       *)
THEOREM FrameTypes == Spec => []TypeOK
<1>1. IInv => TypeOK
  <2> SUFFICES ASSUME IInv PROVE TypeOK
    OBVIOUS
  <2>1. pend + Len(done) + (IF pc = "packet" THEN 1 ELSE 0) = activeUrbs
    <3>1. CASE pc = "packet"
      <4>1. Len(Q) = Len(done) + 1 /\ Len(done) \in Nat
        BY <3>1, Holding
      <4>2. pend \in Nat /\ pend + Len(Q) = activeUrbs
        BY FramesAssumption DEF IInv, ThreadType
      <4>3. QED
        BY <3>1, <4>1, <4>2
    <3>2. CASE pc = "reap"
      BY <3>2 DEF IInv, ThreadType, Q
    <3>3. QED
      BY <3>1, <3>2 DEF IInv, ThreadType
  <2>2. /\ \A n \in DOMAIN done : done[n] \in Packets
        /\ \A n \in DOMAIN frameData : frameData[n] \in Pieces
        /\ \A n \in DOMAIN handed : handed[n] \in Pieces
    BY LenProperties DEF IInv, ThreadType
  <2>3. QED
    BY <2>1, <2>2 DEF IInv, CamType, ThreadType, TypeOK, Pieces
<1>2. QED
  BY <1>1, Invariant, PTL

(* A frame handed to the display is one whole camera frame with its last   *)
(* packet twice, unless the thread was not told of a gap in it.            *)
THEOREM WholeFramesHanded == Spec => []WholeFrames
<1>1. IInv => WholeFrames
  <2> SUFFICES ASSUME IInv, handed # <<>> PROVE WholeFrames
    BY DEF WholeFrames
  <2>0. DOMAIN handed = 1..Len(handed)
    BY LenProperties DEF IInv, ThreadType
  <2>1. CASE Spoiled(handed)
    BY <2>0, <2>1 DEF Spoiled, WholeFrames
  <2>2. ASSUME NEW f \in Frames, length[f] > 0, handed = Doubled(f) PROVE WholeFrames
    <3>1. length[f] \in Nat
      BY FramesAssumption DEF IInv, CamType
    <3>2. 1 \in DOMAIN handed /\ handed[1] = <<f, 1>>
      BY <2>2, <3>1 DEF Doubled
    <3>3. handed = Doubled(handed[1][1])
      BY <2>2, <3>2
    <3>4. QED
      BY <3>2, <3>3 DEF WholeFrames
  <2>3. QED
    BY <2>1, <2>2 DEF IInv, Handed
<1>2. QED
  BY <1>1, Invariant, PTL

(* Every frame that IsochronousStream.run drops at its EOF was refused by  *)
(* a size check itself, or it or the frame before it had an error.         *)
THEOREM FaultyFramesDropped == Spec => []DroppedForCause
<1>1. IInv => DroppedForCause
  BY DEF IInv
<1>2. QED
  BY <1>1, Invariant, PTL
=============================================================================
