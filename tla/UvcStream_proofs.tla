-------------------------- MODULE UvcStream_proofs --------------------------
(***************************************************************************)
(* The stream of UvcStream for any number of transfers, frames and any     *)
(* buffer size: types, clean frames, stale frames only after a race,       *)
(* nothing running after an orderly close, and the safety half of the      *)
(* refinement of FrameSource.                                              *)
(***************************************************************************)
EXTENDS UvcStream, FiniteSetTheorems, TLAPS

Parts == {"alloc", "flight", "cancelled", "lost"}

\* The types, group by group.
CtlType ==
  /\ iso \in BOOLEAN /\ closer \in {"app", "callback"}
  /\ handle \in {"none", "live", "freed"}
  /\ start \in {"none", "submit", "done"}
  /\ stop \in {"no", "close", "stop", "cancel", "check", "wait", "join", "free", "done"}
  /\ running \in BOOLEAN
  /\ ev \in {"idle", "packet", "data", "decide", "submit", "delete"}
  /\ fault \subseteq {"gone", "submit", "lost"}
  /\ crashed \in {"no", "overflow", "freed"}

XferType ==
  /\ xfer \in [Parts -> 0..activeUrbs]
  /\ xfer["alloc"] + xfer["flight"] + xfer["cancelled"] + xfer["lost"] + Busy <= activeUrbs
  /\ start = "submit" => xfer["alloc"] > 0

\* Where the assembly of frames stands.  The headers acted on since the
\* first waiting data had one FID bit, the one remembered, and of no camera
\* frame more than two frames are published: one when its FID bit comes in,
\* the other at its EOF.
Assembly ==
  /\ pkt \in Packets
  /\ cam \in 1..(MaxFrame + 1)
  /\ fid \in {0, 1} /\ seq \in 0..2 * MaxFrame
  /\ out \in [fids: SUBSET {0, 1}, bytes: 0..(SizeBuf + 1), err: BOOLEAN]
  /\ out.fids \subseteq {fid}
  /\ out.bytes = 0 => out.fids = {}
  /\ ~iso => out.bytes <= SizeBuf
  /\ seq < 2 * cam
  /\ cam % 2 # fid => seq + 1 < 2 * cam
  /\ ev = "data" => /\ seq < 2 * pkt.no
                    /\ IF pkt.kind = "plain" THEN ~pkt.eof ELSE pkt.no % 2 = fid
                    /\ cam = IF pkt.eof THEN pkt.no + 1 ELSE pkt.no

Fids == {{}, {0}, {1}}

\* The published frame and the one that was copied are of one parity; the
\* copy was never marked bad.
Published ==
  /\ hold \in [fids: Fids, seq: 0..2 * MaxFrame, err: BOOLEAN]
  /\ frame \in [fids: Fids, seq: 0..2 * MaxFrame, bad: BOOLEAN]
  /\ ~frame.bad

\* Sequence numbers grow from the user thread's to the published one to the
\* next one.
Numbered ==
  /\ user \in [pc: {"none", "top", "wait", "test", "cb", "ended"}, last: 0..2 * MaxFrame]
  /\ user.last <= hold.seq
  /\ hold.seq < seq \/ (hold.seq = 0 /\ seq = 0)
  /\ user.pc \in {"test", "cb"} => user.last > 0
  /\ user.pc = "test" => \/ frame.seq = user.last \/ hold.seq > user.last
                         \/ hold.err
  /\ StaleOnlyIfOvertaken

\* Before the start nothing has happened.
Unstarted ==
  /\ handle = "none" => start = "none"
  /\ start = "none" => /\ xfer = NoTransfers /\ ev = "idle" /\ user.pc = "none"
                       /\ hold.seq = 0 /\ seq = 0 /\ out.bytes = 0
                       /\ stop = "no"

Exempt == closer = "callback" \/ fault \cap {"gone", "submit"} # {}

NoneInFlight == xfer["flight"] + xfer["cancelled"] = 0 /\ ev = "idle"

\* An orderly close: running is cleared only by uvc_stream_stop or by a
\* start that created nothing, and the phases leave less and less behind.
Orderly ==
  /\ handle = "freed" => stop = "done"
  /\ ~Exempt =>
       /\ stop # "no" => start = "done"
       /\ stop = "stop" => running
       /\ stop \notin {"no", "stop"} => ~running
       /\ start = "submit" => running
       /\ stop = "no" /\ start = "done" /\ ~running => ~InUse
       /\ stop = "join" => NoneInFlight
       /\ stop \in {"free", "done"} => ~InUse

IInv == CtlType /\ XferType /\ Assembly /\ Published /\ Numbered /\ Unstarted /\ Orderly

-----------------------------------------------------------------------------
(* What does not change keeps its part of the invariant.                   *)

LEMMA XferSame == ASSUME XferType, UNCHANGED <<xfer, start, ev>> PROVE XferType'
BY DEF XferType, Busy

LEMMA AssemblySame ==
  ASSUME Assembly, UNCHANGED <<iso, dataVars>>, ev' = ev \/ "data" \notin {ev, ev'}
  PROVE  Assembly'
BY DEF Assembly, dataVars

LEMMA PublishedSame == ASSUME Published, UNCHANGED <<hold, frame>> PROVE Published'
BY DEF Published

LEMMA NumberedSame ==
  ASSUME Numbered, UNCHANGED <<user, hold, frame, seq>> PROVE Numbered'
BY DEF Numbered, StaleOnlyIfOvertaken

LEMMA UnstartedSame ==
  ASSUME Unstarted, UNCHANGED <<handle, start, xfer, ev, user, hold, seq, out, stop>>
  PROVE  Unstarted'
BY DEF Unstarted

LEMMA OrderlySame ==
  ASSUME Orderly,
         UNCHANGED <<handle, closer, fault, start, stop, running, user, ev, xfer>>
  PROVE  Orderly'
BY DEF Orderly, Exempt, InUse, NoneInFlight

LEMMA Same ==
  ASSUME IInv, UNCHANGED vars PROVE IInv'
<1>1. CtlType'
  BY DEF IInv, CtlType, vars, appVars
<1>2. QED
  BY <1>1, XferSame, AssemblySame, PublishedSame, NumberedSame, UnstartedSame,
     OrderlySame DEF IInv, vars, appVars, dataVars

\* Cancelled or not, the transfers of a handle in use can be counted.
LEMMA Counts ==
  ASSUME XferType
  PROVE  \A s \in Parts : xfer[s] \in Nat
BY StreamAssumption DEF XferType

-----------------------------------------------------------------------------
(* Opening and starting *)

LEMMA OpenStep == ASSUME IInv, uvc_stream_open_ctrl PROVE IInv'
<1> USE DEF uvc_stream_open_ctrl
<1>1. CtlType'
  BY DEF IInv, CtlType
<1>2. Unstarted'
  BY DEF IInv, Unstarted, dataVars
<1>3. Orderly'
  BY DEF IInv, Orderly, Exempt, InUse, NoneInFlight, Unstarted
<1>4. QED
  BY <1>1, <1>2, <1>3, XferSame, AssemblySame, PublishedSame, NumberedSame
     DEF IInv, dataVars

LEMMA StartStep == ASSUME IInv, uvc_stream_start_random PROVE IInv'
<1> USE DEF uvc_stream_start_random, Live
<1>1. CtlType'
  <2>1. running' \in BOOLEAN
    OBVIOUS
  <2>2. QED
    BY <2>1 DEF IInv, CtlType
<1>2. XferType'
  BY StreamAssumption DEF IInv, XferType, Unstarted, NoTransfers, Busy, Parts
<1>3. Assembly'
  <2>1. out' \in [fids: SUBSET {0, 1}, bytes: 0..(SizeBuf + 1), err: BOOLEAN]
        /\ out'.fids = out.fids /\ out'.bytes = out.bytes
    BY DEF IInv, Assembly
  <2>2. out'.bytes = 0 /\ out'.fids = {} /\ ev' # "data"
    BY <2>1 DEF IInv, Assembly, Unstarted
  <2>3. seq' = 0 /\ fid' = 0 /\ UNCHANGED <<pkt, cam, ev>>
    OBVIOUS
  <2>4. QED
    BY <2>1, <2>2, <2>3, StreamAssumption DEF IInv, Assembly
<1>4. Numbered'
  <2>1. user' \in [pc: {"none", "top", "wait", "test", "cb", "ended"}, last: 0..2 * MaxFrame]
        /\ user'.pc \in {"none", "top"} /\ user'.last = user.last
    <3>1. user.last = 0
      BY StreamAssumption DEF IInv, Numbered, Unstarted, Published
    <3>2. QED
      BY <3>1, StreamAssumption DEF IInv, Numbered, Unstarted
  <2>2. QED
    BY <2>1 DEF IInv, Numbered, Unstarted, StaleOnlyIfOvertaken
<1>5. Unstarted'
  BY DEF IInv, Unstarted
<1>6. Orderly'
  BY DEF IInv, Orderly, Exempt, InUse, NoneInFlight, Unstarted, NoTransfers
<1>7. QED
  BY <1>1, <1>2, <1>3, <1>4, <1>5, <1>6, PublishedSame DEF IInv

LEMMA SubmitStep == ASSUME IInv, SubmitTransfer PROVE IInv'
<1> USE DEF SubmitTransfer, Live
<1>1. CtlType'
  <2>1. running' \in BOOLEAN
    BY DEF IInv, CtlType
  <2>2. QED
    BY <2>1 DEF IInv, CtlType
<1>2. XferType'
  BY StreamAssumption DEF IInv, XferType, Busy, Parts
<1>3. Unstarted'
  BY DEF IInv, Unstarted
<1>4. Orderly'
  BY DEF IInv, Orderly, Exempt, InUse, NoneInFlight
<1>5. QED
  BY <1>1, <1>2, <1>3, <1>4, AssemblySame, PublishedSame, NumberedSame DEF IInv, dataVars

-----------------------------------------------------------------------------
(* The event thread *)

LEMMA UnplugStep == ASSUME IInv, Unplug PROVE IInv'
<1> USE DEF Unplug, appVars
<1>1. CtlType'
  BY DEF IInv, CtlType
<1>2. Orderly'
  BY DEF IInv, Orderly, Exempt
<1>3. QED
  BY <1>1, <1>2, XferSame, AssemblySame, PublishedSame, NumberedSame, UnstartedSame
     DEF IInv, dataVars

LEMMA CallbackStep == ASSUME IInv, _uvc_stream_callback PROVE IInv'
<1> USE DEF _uvc_stream_callback, appVars, Live
<1>0. PICK s \in {"flight", "cancelled"} : \E status \in Statuses(s) :
        /\ xfer[s] > 0 /\ xfer' = [xfer EXCEPT ![s] = @ - 1]
        /\ running' = (running /\ status # "no_device")
        /\ ev' = CASE status = "completed" -> "packet"
                   [] status = "timed_out" -> "decide"
                   [] OTHER -> "delete"
  OBVIOUS
<1>a. ev = "idle" /\ ev' \in {"packet", "decide", "delete"}
  BY <1>0
<1>1. CtlType'
  <2>1. running' \in BOOLEAN
    BY <1>0
  <2>2. QED
    BY <1>a, <2>1 DEF IInv, CtlType
<1>2. XferType'
  BY <1>0, <1>a, StreamAssumption DEF IInv, XferType, Busy, Parts
<1>3. Unstarted'
  BY <1>0 DEF IInv, Unstarted, NoTransfers
<1>4. Orderly'
  <2>1. ~Exempt => running' = running
    BY <1>0 DEF IInv, CtlType, Exempt, Statuses
  <2>2. InUse
    BY <1>0, Counts DEF IInv, InUse, Parts
  <2>3. ~NoneInFlight
    BY <1>0, Counts DEF IInv, NoneInFlight, Parts
  <2>4. UNCHANGED <<handle, closer, fault, start, stop>>
    OBVIOUS
  <2>5. QED
    BY <2>1, <2>2, <2>3, <2>4 DEF IInv, Orderly, Exempt
<1>5. QED
  BY <1>1, <1>2, <1>3, <1>4, <1>a, AssemblySame, PublishedSame, NumberedSame
     DEF IInv, dataVars

\* Publishing a frame of one parity: the user thread is behind it.
LEMMA SwapStep ==
  ASSUME IInv, NEW b, b.fids \in Fids, b.err \in BOOLEAN, _uvc_swap_buffers(b),
         frame' = frame
  PROVE  Published' /\ Numbered'
<1> USE DEF _uvc_swap_buffers, Broadcast
<1>1. Published'
  BY DEF IInv, Published, Assembly
<1>2. Numbered'
  <2>1. hold'.seq = seq /\ seq' = seq + 1 /\ seq \in Nat
    BY StreamAssumption DEF IInv, Assembly
  <2>2. /\ user' \in [pc: {"none", "top", "wait", "test", "cb", "ended"}, last: 0..2 * MaxFrame]
        /\ user'.last = user.last /\ (user'.pc \in {"test", "cb"} => user'.pc = user.pc)
    BY DEF IInv, Numbered
  <2>3. QED
    BY <2>1, <2>2 DEF IInv, Numbered, Published, StaleOnlyIfOvertaken
<1>3. QED
  BY <1>1, <1>2

\* A broadcast moves only those who wait.
LEMMA BroadcastStep ==
  ASSUME IInv, Broadcast
  PROVE  /\ stop' \in {stop, "check"} /\ (stop' # stop => stop = "wait")
         /\ user'.last = user.last
         /\ user'.pc \in {user.pc, "top"} /\ (user'.pc # user.pc => user.pc = "wait")
         /\ user' \in [pc: {"none", "top", "wait", "test", "cb", "ended"}, last: 0..2 * MaxFrame]
BY DEF IInv, Numbered, Broadcast

\* While a callback runs, nothing is quiet: an orderly close is not past its wait.
LEMMA OrderlyInCallback ==
  ASSUME IInv, ev # "idle", UNCHANGED <<handle, closer, start, running, fault>>,
         stop' = stop \/ (stop = "wait" /\ stop' = "check")
  PROVE  Orderly'
BY DEF IInv, Orderly, Exempt, InUse, NoneInFlight

\* The waiting data when a packet is put into it: its own parity, and room for it.
LEMMA FilledStep ==
  ASSUME IInv, ev = "data"
  PROVE  /\ Filled(pkt) \in [fids: SUBSET {0, 1}, bytes: 0..(SizeBuf + 1), err: BOOLEAN]
         /\ Filled(pkt).fids \subseteq {fid}
         /\ Filled(pkt).bytes = 0 => Filled(pkt).fids = {}
         /\ ~iso => Filled(pkt).bytes <= SizeBuf
<1> DEFINE k == pkt.kind
<1>1. /\ out.fids \subseteq {fid} /\ fid \in {0, 1} /\ out.bytes \in 0..(SizeBuf + 1)
      /\ k # "plain" => pkt.no % 2 = fid
  BY DEF IInv, Assembly
<1>2. CASE k \in {"head", "bogus"}
  <2> DEFINE e == out.err \/ k = "bogus"
  <2>1. e \in BOOLEAN
    OBVIOUS
  <2>2. Filled(pkt) = [out EXCEPT !.err = e]
    BY <1>2 DEF Filled
  <2> HIDE DEF e, k
  <2>3. QED
    BY <2>1, <2>2 DEF IInv, Assembly
<1>3. CASE k \in {"data", "plain"} /\ (iso \/ out.bytes + 1 <= SizeBuf)
  <2> DEFINE F == IF k = "plain" THEN out.fids ELSE out.fids \cup {pkt.no % 2}
             n == IF out.bytes + 1 <= SizeBuf THEN out.bytes + 1 ELSE SizeBuf + 1
  <2>1. Filled(pkt) = Appended(pkt)
    BY <1>3 DEF Filled
  <2>2. F \in SUBSET {0, 1} /\ F \subseteq {fid}
    BY <1>1
  <2>3. n \in 1..(SizeBuf + 1) /\ (~iso => n <= SizeBuf)
    BY <1>1, <1>3, StreamAssumption
  <2>4. Filled(pkt) = [out EXCEPT !.fids = F, !.bytes = n]
    BY <2>1 DEF Appended
  <2>5. n \in 0..(SizeBuf + 1) /\ n # 0
    BY <2>3, StreamAssumption
  <2> HIDE DEF F, n
  <2>6. QED
    BY <2>2, <2>3, <2>4, <2>5 DEF IInv, Assembly
<1>4. CASE /\ ~(k \in {"head", "bogus"})
           /\ ~(k \in {"data", "plain"} /\ (iso \/ out.bytes + 1 <= SizeBuf))
  <2>1. Filled(pkt) = [out EXCEPT !.err = TRUE]
    BY <1>4 DEF Filled
  <2>2. QED
    BY <2>1 DEF IInv, Assembly
<1>5. QED
  BY <1>2, <1>3, <1>4

LEMMA OneParity ==
  ASSUME NEW F, F \subseteq {fid}, fid \in {0, 1} PROVE F \in Fids
BY DEF Fids

LEMMA HeaderStep ==
  ASSUME IInv, process_header, NEW p \in Packets, Sent(p), Header(p),
         cam' = IF p.eof THEN p.no + 1 ELSE p.no
  PROVE  IInv'
<1> USE DEF process_header, Header, appVars, Live
<1>1. CtlType'
  BY BroadcastStep DEF IInv, CtlType, _uvc_swap_buffers
<1>2. XferType'
  BY DEF IInv, XferType, Busy
<1>3. p.no \in cam..MaxFrame /\ p.no \in Nat /\ cam \in Nat /\ p.no % 2 \in {0, 1}
  BY StreamAssumption DEF Sent, Packets, IInv, Assembly
<1>4. CASE fid # p.no % 2 /\ out.bytes # 0
  <2>1. _uvc_swap_buffers(out)
    BY <1>4
  <2>2. Published' /\ Numbered'
    BY <2>1, OneParity, SwapStep DEF IInv, Assembly
  <2>3. Assembly'
    <3>1. seq + 1 < 2 * p.no
      BY <1>3, <1>4, StreamAssumption DEF IInv, Assembly
    <3>2. out' = Empty /\ seq' = seq + 1
      BY <2>1 DEF _uvc_swap_buffers
    <3>3. fid' = p.no % 2 /\ pkt' = p /\ iso' = iso /\ (p.kind = "plain" => ~p.eof)
      BY DEF Sent
    <3>4. out'.fids = {} /\ out'.bytes = 0
          /\ out' \in [fids: SUBSET {0, 1}, bytes: 0..(SizeBuf + 1), err: BOOLEAN]
      BY <3>2, StreamAssumption DEF Empty
    <3>5. QED
      BY <1>3, <3>1, <3>2, <3>3, <3>4, StreamAssumption DEF IInv, Assembly
  <2>4. Unstarted'
    BY <2>1, BroadcastStep DEF IInv, Unstarted, _uvc_swap_buffers
  <2>5. Orderly'
    BY <2>1, BroadcastStep, OrderlyInCallback DEF _uvc_swap_buffers
  <2>6. QED
    BY <1>1, <1>2, <2>2, <2>3, <2>4, <2>5 DEF IInv
<1>5. CASE ~(fid # p.no % 2 /\ out.bytes # 0)
  <2>1. UNCHANGED <<seq, hold, user, stop>>
    BY <1>5
  <2>2. /\ out' \in [fids: SUBSET {0, 1}, bytes: 0..(SizeBuf + 1), err: BOOLEAN]
        /\ out'.fids \subseteq {p.no % 2} /\ out'.bytes = out.bytes
        /\ out.bytes = 0 => out' = out
    <3>1. CASE out.bytes = 0
      BY <1>3, <1>5, <3>1 DEF IInv, Assembly
    <3>2. CASE out.bytes # 0
      <4> DEFINE F == out.fids \cup {p.no % 2}
      <4>1. F \in SUBSET {0, 1} /\ F \subseteq {p.no % 2}
        BY <1>3, <1>5, <3>2 DEF IInv, Assembly
      <4>2. out' = [out EXCEPT !.fids = F]
        BY <1>5, <3>2
      <4> HIDE DEF F
      <4>3. QED
        BY <4>1, <4>2, <3>2 DEF IInv, Assembly
    <3>3. QED
      BY <3>1, <3>2
  <2>3. Assembly'
    <3>1. seq < 2 * p.no
      BY <1>3, StreamAssumption DEF IInv, Assembly
    <3>2. fid' = p.no % 2 /\ pkt' = p /\ iso' = iso /\ (p.kind = "plain" => ~p.eof)
      BY DEF Sent
    <3>3. QED
      BY <1>3, <2>1, <2>2, <3>1, <3>2, StreamAssumption DEF IInv, Assembly
  <2>4. Unstarted'
    BY <2>1, <2>2 DEF IInv, Unstarted
  <2>5. QED
    BY <1>1, <1>2, <2>1, <2>3, <2>4, PublishedSame, NumberedSame, OrderlyInCallback DEF IInv
<1>6. QED
  BY <1>4, <1>5

LEMMA ProcessHeaderStep == ASSUME IInv, process_header PROVE IInv'
<1> USE DEF process_header, appVars, Live
<1>1. CASE \E p \in Packets :
             /\ Sent(p)
             /\ cam' = IF p.eof THEN p.no + 1 ELSE p.no
             /\ p.kind # "plain" /\ ~Skipped(p) /\ Header(p)
  BY <1>1, HeaderStep
<1>0. CASE \E p \in Packets :
             /\ Sent(p)
             /\ cam' = IF p.eof THEN p.no + 1 ELSE p.no
             /\ p.kind = "plain" /\ NoHeader(p)
  <2>1. PICK p \in Packets :
             /\ Sent(p)
             /\ cam' = IF p.eof THEN p.no + 1 ELSE p.no
             /\ p.kind = "plain" /\ NoHeader(p)
    BY <1>0
  <2>2. CtlType' /\ XferType'
    BY <2>1 DEF IInv, CtlType, XferType, Busy, NoHeader
  <2>3. Assembly'
    <3>1. ~p.eof /\ cam' = p.no /\ p.no \in cam..MaxFrame
      BY <2>1 DEF Sent
    <3>2. pkt' = p /\ ev' = "data" /\ UNCHANGED <<iso, fid, seq, out>>
      BY <2>1 DEF NoHeader
    <3>3. QED
      BY <2>1, <3>1, <3>2, StreamAssumption DEF IInv, Assembly
  <2>4. Unstarted'
    BY <2>1 DEF IInv, Unstarted, NoHeader
  <2>5. QED
    BY <2>1, <2>2, <2>3, <2>4, PublishedSame, NumberedSame, OrderlyInCallback
       DEF IInv, NoHeader
<1>2. CASE \E p \in Packets :
             /\ Sent(p)
             /\ cam' = IF p.eof THEN p.no + 1 ELSE p.no
             /\ out' = [out EXCEPT !.err = @ \/ p.kind \in {"status", "bogus"}]
             /\ ev' \in AfterPacket
             /\ UNCHANGED <<fid, seq, hold, user, stop, pkt>>
  <2>1. PICK p \in Packets :
             /\ Sent(p)
             /\ cam' = IF p.eof THEN p.no + 1 ELSE p.no
             /\ out' = [out EXCEPT !.err = @ \/ p.kind \in {"status", "bogus"}]
             /\ ev' \in AfterPacket
             /\ UNCHANGED <<fid, seq, hold, user, stop, pkt>>
    BY <1>2
  <2>2. ev' \in {"packet", "decide"}
    BY <2>1 DEF AfterPacket
  <2>3. CtlType'
    BY <2>1, <2>2 DEF IInv, CtlType
  <2>4. XferType'
    BY <2>2 DEF IInv, XferType, Busy
  <2>5. Assembly'
    <3> DEFINE e == out.err \/ p.kind \in {"status", "bogus"}
    <3>1. e \in BOOLEAN /\ out' = [out EXCEPT !.err = e]
      BY <2>1
    <3> HIDE DEF e
    <3>2. out' \in [fids: SUBSET {0, 1}, bytes: 0..(SizeBuf + 1), err: BOOLEAN]
          /\ out'.fids = out.fids /\ out'.bytes = out.bytes
      BY <3>1 DEF IInv, Assembly
    <3>3. cam' \in 1..(MaxFrame + 1) /\ cam' >= cam
      BY <2>1, StreamAssumption DEF IInv, Assembly, Sent, Packets
    <3>4. QED
      BY <2>1, <2>2, <3>2, <3>3, StreamAssumption DEF IInv, Assembly
  <2>6. Unstarted'
    BY <2>1 DEF IInv, Unstarted
  <2>7. QED
    BY <2>1, <2>3, <2>4, <2>5, <2>6, PublishedSame, NumberedSame, OrderlyInCallback DEF IInv
<1>3. CASE ev' = "decide" /\ UNCHANGED <<fid, seq, hold, user, stop, pkt, cam, out>>
  <2>1. CtlType' /\ XferType'
    BY <1>3 DEF IInv, CtlType, XferType, Busy
  <2>2. Unstarted'
    BY <1>3 DEF IInv, Unstarted
  <2>3. QED
    BY <1>3, <2>1, <2>2, AssemblySame, PublishedSame, NumberedSame, OrderlyInCallback
       DEF IInv, dataVars
<1>4. QED
  BY <1>0, <1>1, <1>2, <1>3

LEMMA ProcessDataStep == ASSUME IInv, process_data PROVE IInv'
<1> USE DEF process_data, appVars, Live
<1>1. CASE /\ AssertFails(pkt) /\ crashed' = "overflow"
           /\ UNCHANGED <<seq, hold, user, stop, out, ev, pkt>>
  <2>1. crashed' = "overflow" /\ UNCHANGED <<seq, hold, user, stop, out, ev, pkt>>
    BY <1>1
  <2>2. CtlType'
    BY <2>1 DEF IInv, CtlType
  <2>3. QED
    BY <2>1, <2>2, XferSame, AssemblySame, PublishedSame, NumberedSame, UnstartedSame,
       OrderlySame DEF IInv, dataVars
<1>2. CASE /\ UNCHANGED crashed
           /\ ev' \in AfterPacket /\ pkt' = NoPacket
           /\ IF EndsFrame(pkt)
              THEN _uvc_swap_buffers(Filled(pkt))
              ELSE out' = Filled(pkt) /\ UNCHANGED <<seq, hold, user, stop>>
  <2>1. crashed' = crashed /\ ev' \in {"packet", "decide"} /\ pkt' = NoPacket
    BY <1>2 DEF AfterPacket
  <2>2. XferType'
    BY <2>1 DEF IInv, XferType, Busy
  <2>3. pkt' \in Packets
    BY <2>1, StreamAssumption DEF NoPacket, Packets
  <2>a. pkt \in Packets /\ cam \in 1..(MaxFrame + 1)
        /\ seq < 2 * pkt.no /\ (pkt.kind # "plain" => pkt.no % 2 = fid)
        /\ (pkt.kind = "plain" => ~pkt.eof)
        /\ cam = IF pkt.eof THEN pkt.no + 1 ELSE pkt.no
    BY DEF IInv, Assembly
  <2>b. pkt.no \in Nat
    BY <2>a DEF Packets
  <2>4. CASE EndsFrame(pkt)
    <3>1. _uvc_swap_buffers(Filled(pkt))
      BY <1>2, <2>4
    <3>2. Published' /\ Numbered'
      BY <1>2, <3>1, FilledStep, OneParity, SwapStep DEF IInv, Assembly
    <3>3. Assembly'
      <4>1. cam = pkt.no + 1
        BY <2>4, <2>a DEF EndsFrame
      <4>2. out' = Empty /\ seq' = seq + 1
        BY <3>1 DEF _uvc_swap_buffers
      <4>3. QED
        BY <2>1, <2>3, <2>a, <2>b, <4>1, <4>2, StreamAssumption DEF IInv, Assembly, Empty
    <3>4. CtlType'
      BY <2>1, <3>1, BroadcastStep DEF IInv, CtlType, _uvc_swap_buffers
    <3>5. Unstarted'
      BY <3>1, BroadcastStep DEF IInv, Unstarted, _uvc_swap_buffers
    <3>6. Orderly'
      BY <3>1, BroadcastStep, OrderlyInCallback DEF _uvc_swap_buffers
    <3>7. QED
      BY <2>2, <3>2, <3>3, <3>4, <3>5, <3>6 DEF IInv
  <2>5. CASE ~EndsFrame(pkt)
    <3>1. out' = Filled(pkt) /\ UNCHANGED <<seq, hold, user, stop>>
      BY <1>2, <2>5
    <3>2. CtlType'
      BY <2>1, <3>1 DEF IInv, CtlType
    <3>3. Assembly'
      <4>1. out' \in [fids: SUBSET {0, 1}, bytes: 0..(SizeBuf + 1), err: BOOLEAN]
            /\ out'.fids \subseteq {fid} /\ (out'.bytes = 0 => out'.fids = {})
            /\ (~iso => out'.bytes <= SizeBuf)
        BY <1>2, <3>1, FilledStep
      <4>2. QED
        BY <2>1, <2>3, <2>a, <2>b, <3>1, <4>1, StreamAssumption DEF IInv, Assembly
    <3>4. Unstarted'
      BY DEF IInv, Unstarted
    <3>5. QED
      BY <2>2, <3>1, <3>2, <3>3, <3>4, PublishedSame, NumberedSame, OrderlyInCallback
         DEF IInv
  <2>6. QED
    BY <2>4, <2>5
<1>3. QED
  BY <1>1, <1>2

LEMMA DecideStep == ASSUME IInv, Decide PROVE IInv'
<1> USE DEF Decide, appVars, Live
<1>1. CtlType' /\ XferType'
  BY DEF IInv, CtlType, XferType, Busy
<1>2. Unstarted'
  BY DEF IInv, Unstarted
<1>3. QED
  BY <1>1, <1>2, AssemblySame, PublishedSame, NumberedSame, OrderlyInCallback
     DEF IInv, dataVars

LEMMA ResubmitStep == ASSUME IInv, Resubmit PROVE IInv'
<1> USE DEF Resubmit, appVars, Live
<1>1. CtlType'
  <2>1. fault' \subseteq {"gone", "submit", "lost"}
    BY DEF IInv, CtlType
  <2>2. QED
    BY <2>1 DEF IInv, CtlType
<1>2. XferType'
  BY StreamAssumption DEF IInv, XferType, Busy, Parts
<1>3. Unstarted'
  BY DEF IInv, Unstarted
<1>4. Orderly'
  <2>1. Exempt' <=> Exempt
    BY DEF Exempt
  <2>2. InUse /\ ~NoneInFlight /\ UNCHANGED <<handle, start, stop, running>>
    BY DEF InUse, NoneInFlight
  <2>3. QED
    BY <2>1, <2>2 DEF IInv, Orderly
<1>5. QED
  BY <1>1, <1>2, <1>3, <1>4, AssemblySame, PublishedSame, NumberedSame DEF IInv, dataVars

LEMMA DeleteStep == ASSUME IInv, _uvc_delete_transfer PROVE IInv'
<1> USE DEF _uvc_delete_transfer, appVars, Live
<1>1. CtlType'
  BY BroadcastStep DEF IInv, CtlType
<1>2. XferType'
  BY StreamAssumption DEF IInv, XferType, Busy, Parts
<1>3. Numbered'
  BY BroadcastStep DEF IInv, Numbered, StaleOnlyIfOvertaken, dataVars
<1>4. Unstarted'
  BY DEF IInv, Unstarted
<1>5. Orderly'
  BY BroadcastStep, OrderlyInCallback
<1>6. QED
  BY <1>1, <1>2, <1>3, <1>4, <1>5, AssemblySame, PublishedSame DEF IInv

-----------------------------------------------------------------------------
(* The user thread *)

LEMMA UserLockedStep == ASSUME IInv, UserLocked PROVE IInv'
<1> USE DEF UserLocked, appVars, Live
<1>1. CtlType'
  BY DEF IInv, CtlType
<1>2. Published'
  <2>1. CASE UNCHANGED frame
    BY <2>1, PublishedSame DEF IInv
  <2>2. CASE ~hold.err /\ _uvc_populate_frame
    BY <2>2 DEF IInv, Published, _uvc_populate_frame
  <2>3. QED
    BY <2>1, <2>2 DEF TakeFrame
<1>3. Numbered'
  BY DEF IInv, Numbered, Published, StaleOnlyIfOvertaken, TakeFrame, _uvc_populate_frame,
         dataVars
<1>4. Unstarted'
  BY DEF IInv, Unstarted
<1>5. Orderly'
  BY DEF IInv, Orderly, Exempt, InUse, NoneInFlight
<1>6. QED
  BY <1>1, <1>2, <1>3, <1>4, <1>5, XferSame, AssemblySame DEF IInv

LEMMA UserCallbackStep == ASSUME IInv, UserCallback PROVE IInv'
<1> USE DEF UserCallback, appVars, Live
<1>1. CtlType'
  BY DEF IInv, CtlType
<1>2. Numbered'
  BY DEF IInv, Numbered, Published, StaleOnlyIfOvertaken, dataVars
<1>3. Unstarted'
  BY DEF IInv, Unstarted
<1>4. Orderly'
  BY DEF IInv, Orderly, Exempt, InUse, NoneInFlight
<1>5. QED
  BY <1>1, <1>2, <1>3, <1>4, XferSame, AssemblySame, PublishedSame DEF IInv

LEMMA UserReturnStep == ASSUME IInv, UserReturn PROVE IInv'
<1> USE DEF UserReturn, appVars, Live
<1>1. CtlType'
  BY DEF IInv, CtlType
<1>2. Numbered'
  BY DEF IInv, Numbered, StaleOnlyIfOvertaken, dataVars
<1>3. Unstarted'
  BY DEF IInv, Unstarted
<1>4. Orderly'
  BY DEF IInv, Orderly, Exempt, InUse, NoneInFlight
<1>5. QED
  BY <1>1, <1>2, <1>3, <1>4, XferSame, AssemblySame, PublishedSame DEF IInv

-----------------------------------------------------------------------------
(* Stopping and closing *)

LEMMA CloseStep == ASSUME IInv, uvc_stream_close PROVE IInv'
<1> USE DEF uvc_stream_close, Stopping, Live
<1>1. CtlType'
  BY DEF IInv, CtlType
<1>2. Unstarted'
  BY DEF IInv, Unstarted
<1>3. Orderly'
  BY DEF IInv, CtlType, Orderly, Exempt, InUse, NoneInFlight
<1>4. QED
  BY <1>1, <1>2, <1>3, XferSame, AssemblySame, PublishedSame, NumberedSame DEF IInv, dataVars

LEMMA StopStep == ASSUME IInv, uvc_stream_stop PROVE IInv'
<1> USE DEF uvc_stream_stop, Stopping, Live
<1>1. CtlType'
  <2>1. running' \in BOOLEAN
    OBVIOUS
  <2>2. stop' \in {"cancel", "free"}
    OBVIOUS
  <2>3. QED
    BY <2>1, <2>2 DEF IInv, CtlType
<1>2. Unstarted'
  BY DEF IInv, Unstarted
<1>3. Orderly'
  BY DEF IInv, CtlType, Orderly, Exempt, InUse, NoneInFlight
<1>4. QED
  BY <1>1, <1>2, <1>3, XferSame, AssemblySame, PublishedSame, NumberedSame DEF IInv, dataVars

LEMMA CancelStep == ASSUME IInv, CancelTransfers PROVE IInv'
<1> USE DEF CancelTransfers, Stopping, Live
<1>1. CtlType'
  BY DEF IInv, CtlType
<1>2. XferType'
  BY StreamAssumption DEF IInv, XferType, Busy, Parts
<1>3. Unstarted'
  BY DEF IInv, Unstarted
<1>4. Orderly'
  BY DEF IInv, Orderly, Exempt, InUse, NoneInFlight
<1>5. QED
  BY <1>1, <1>2, <1>3, <1>4, AssemblySame, PublishedSame, NumberedSame DEF IInv, dataVars

LEMMA WaitStep == ASSUME IInv, WaitTransfers PROVE IInv'
<1> USE DEF WaitTransfers, Stopping, Live
<1>1. CtlType'
  BY DEF IInv, CtlType
<1>2. Numbered'
  BY DEF IInv, Numbered, StaleOnlyIfOvertaken, dataVars
<1>3. Unstarted'
  BY DEF IInv, Unstarted
<1>4. Orderly'
  BY DEF IInv, Orderly, Exempt, InUse, NoneInFlight, NoTransfers
<1>5. QED
  BY <1>1, <1>2, <1>3, <1>4, XferSame, AssemblySame, PublishedSame DEF IInv

LEMMA JoinStep == ASSUME IInv, JoinUser PROVE IInv'
<1> USE DEF JoinUser, Stopping, Live
<1>1. CtlType'
  BY DEF IInv, CtlType
<1>2. Unstarted'
  BY DEF IInv, Unstarted
<1>3. Orderly'
  BY Counts DEF IInv, Orderly, Exempt, InUse, NoneInFlight, Parts
<1>4. QED
  BY <1>1, <1>2, <1>3, XferSame, AssemblySame, PublishedSame, NumberedSame DEF IInv, dataVars

LEMMA FreeStep == ASSUME IInv, FreeHandle PROVE IInv'
<1> USE DEF FreeHandle, Stopping, Live
<1>1. CtlType'
  BY DEF IInv, CtlType
<1>2. Unstarted'
  BY DEF IInv, Unstarted
<1>3. Orderly'
  BY DEF IInv, Orderly, Exempt, InUse, NoneInFlight
<1>4. QED
  BY <1>1, <1>2, <1>3, XferSame, AssemblySame, PublishedSame, NumberedSame DEF IInv, dataVars

LEMMA UseAfterFreeStep == ASSUME IInv, UseAfterFree PROVE IInv'
<1> USE DEF UseAfterFree, appVars
<1>1. CtlType'
  BY DEF IInv, CtlType
<1>2. QED
  BY <1>1, XferSame, AssemblySame, PublishedSame, NumberedSame, UnstartedSame, OrderlySame
     DEF IInv, dataVars

-----------------------------------------------------------------------------
(* The invariant *)

LEMMA InitInv == Init => IInv
<1> SUFFICES ASSUME Init PROVE IInv
  OBVIOUS
<1> USE StreamAssumption DEF Init
<1>1. CtlType
  <2>1. running \in BOOLEAN
    OBVIOUS
  <2>2. QED
    BY <2>1 DEF CtlType
<1>2. XferType
  BY DEF XferType, NoTransfers, Busy, Parts
<1>3. Assembly
  <2>1. out \in [fids: SUBSET {0, 1}, bytes: 0..(SizeBuf + 1), err: BOOLEAN] /\ out.fids = {}
        /\ out.bytes = 0
    BY DEF Empty
  <2>2. pkt \in Packets
    BY DEF NoPacket, Packets
  <2>3. QED
    BY <2>1, <2>2 DEF Assembly
<1>4. Published
  BY DEF Published, Fids
<1>5. Numbered
  BY DEF Numbered, StaleOnlyIfOvertaken
<1>6. Unstarted
  BY DEF Unstarted, Empty
<1>7. Orderly
  BY DEF Orderly
<1>8. QED
  BY <1>1, <1>2, <1>3, <1>4, <1>5, <1>6, <1>7 DEF IInv

LEMMA NextInv == IInv /\ [Next]_vars => IInv'
BY Same, OpenStep, StartStep, SubmitStep, UnplugStep, CallbackStep, ProcessHeaderStep,
   ProcessDataStep, DecideStep, ResubmitStep, DeleteStep, UserLockedStep,
   UserCallbackStep, UserReturnStep, CloseStep, StopStep, CancelStep, WaitStep,
   JoinStep, FreeStep, UseAfterFreeStep
   DEF Next, EventThread, UserThread, Stopper

LEMMA Invariant == Spec => []IInv
BY InitInv, NextInv, PTL DEF Spec

-----------------------------------------------------------------------------
(* What follows from it *)

(* Every variable of the stream handle keeps its type: the transfers are   *)
(* never more than were allocated, and outbuf is never overrun in bulk     *)
(* mode, where _uvc_process_payload checks its size (in isochronous mode   *)
(* only an assertion stands between the data and the end of the buffer,    *)
(* and the type says how little is left without it).                       *)
THEOREM StreamTypes == Spec => []TypeOK
<1>1. IInv => TypeOK
  <2> SUFFICES ASSUME IInv PROVE TypeOK
    OBVIOUS
  <2>1. \A F \in Fids : F \in SUBSET {0, 1}
    BY DEF Fids
  <2>2. hold \in [fids: SUBSET {0, 1}, seq: 0..2 * MaxFrame, err: BOOLEAN]
    BY <2>1 DEF IInv, Published
  <2>3. frame \in [fids: SUBSET {0, 1}, seq: 0..2 * MaxFrame, bad: BOOLEAN]
    BY <2>1 DEF IInv, Published
  <2>4. QED
    BY <2>2, <2>3 DEF IInv, CtlType, XferType, Assembly, Numbered, Parts, TypeOK
<1>2. QED
  BY <1>1, Invariant, PTL

(* The user callback never gets a frame marked bad, nor one between whose  *)
(* first and last packet _uvc_process_payload(_iso) acted on headers of    *)
(* both FID bits, whatever _uvc_swap_buffers publishes while               *)
(* _uvc_user_caller is between the copy and the call.  (The bit is all the *)
(* code has: frames 1 and 3 are told apart only by a header of frame 2.)   *)
THEOREM CleanFrames == Spec => []CleanFrame
<1>1. \A F \in Fids : Cardinality(F) <= 1
  <2>1. Cardinality({}) = 0
    BY FS_EmptySet
  <2>2. Cardinality({0}) = 1 /\ Cardinality({1}) = 1
    BY FS_Singleton
  <2>3. QED
    BY <2>1, <2>2 DEF Fids
<1>2. IInv => CleanFrame
  BY <1>1 DEF IInv, Published, CleanFrame
<1>3. QED
  BY <1>2, Invariant, PTL

(* An old frame is handed over again only when another was published       *)
(* between the two readings of hold_bfh_err in _uvc_user_caller.           *)
THEOREM StaleFrames == Spec => []StaleOnlyIfOvertaken
<1>1. IInv => StaleOnlyIfOvertaken
  BY DEF IInv, Numbered
<1>2. QED
  BY <1>1, Invariant, PTL

(* uvc_stream_close frees the handle only when no thread and no transfer   *)
(* uses it, but for the exceptions the property names.                     *)
THEOREM QuietClose == Spec => []QuietAfterClose
<1>1. IInv => QuietAfterClose
  BY DEF IInv, Orderly, Exempt, QuietAfterClose
<1>2. QED
  BY <1>1, Invariant, PTL

-----------------------------------------------------------------------------
(* The promise of FrameSource, step by step *)

\* What leaves the handle, its failures and the callback alone is a stutter.
LEMMA Stutters ==
  ASSUME UNCHANGED <<handle, start, closer, fault, crashed>>,
         stop' = "no" <=> stop = "no", user'.pc = "cb" <=> user.pc = "cb"
  PROVE  UNCHANGED FS!vars
BY DEF FS!vars

\* A failure is never taken back.
LEMMA Fails ==
  ASSUME UNCHANGED <<handle, closer>>, start = "none" <=> start' = "none",
         stop' = "no" <=> stop = "no", user'.pc = "cb" <=> user.pc = "cb",
         fault \subseteq fault', crashed # "no" => crashed' # "no"
  PROVE  FS!Fail
BY DEF FS!Fail

LEMMA StartRefines ==
  ASSUME IInv, uvc_stream_start_random PROVE FS!TurnOn
BY DEF uvc_stream_start_random, Live, IInv, Unstarted, FS!TurnOn, FS!Move

LEMMA CloseRefines ==
  ASSUME IInv, uvc_stream_close PROVE FS!AskClose
<1>1. start # "none"
  BY DEF uvc_stream_close, IInv, Unstarted
<1>2. /\ handle = "live" /\ stop = "no" /\ stop' # "no"
      /\ UNCHANGED <<handle, start, closer, fault, crashed, user>>
  BY DEF uvc_stream_close, Stopping, Live
<1>3. QED
  BY <1>1, <1>2 DEF FS!AskClose, FS!Move

LEMMA FreeRefines ==
  ASSUME IInv, FreeHandle PROVE FS!Close
<1>1. user.pc = "cb" => Exempt
  BY DEF IInv, Orderly, InUse, FreeHandle, Stopping
<1>2. /\ handle = "live" /\ handle' = "freed" /\ stop = "free"
      /\ UNCHANGED <<start, closer, fault, crashed, user>>
  BY DEF FreeHandle, Stopping, Live
<1>3. QED
  BY <1>1, <1>2 DEF Exempt, FS!Close, FS!Move

LEMMA CallbackRefines ==
  ASSUME IInv, UserCallback PROVE FS!BeginCallback \/ UNCHANGED FS!vars
<1>1. /\ start # "none" /\ handle = "live" /\ user.pc = "test"
      /\ UNCHANGED <<handle, start, stop, closer, fault, crashed>>
  BY DEF IInv, Unstarted, UserCallback, Live, appVars
<1>2. user'.pc = IF hold.err THEN "top" ELSE "cb"
  BY DEF IInv, Numbered, UserCallback
<1>3. CASE hold.err
  BY <1>1, <1>2, <1>3, Stutters
<1>4. CASE ~hold.err
  BY <1>1, <1>2, <1>4 DEF FS!BeginCallback
<1>5. QED
  BY <1>3, <1>4

LEMMA ReturnRefines ==
  ASSUME IInv, UserReturn PROVE FS!EndCallback
<1>1. user.pc = "cb" /\ user'.pc = "top"
  BY DEF IInv, Numbered, UserReturn
<1>2. QED
  BY <1>1 DEF UserReturn, appVars, FS!EndCallback

\* The steps of the event thread that are none of the application's business.
LEMMA EventRefines ==
  ASSUME IInv, EventThread PROVE FS!Fail \/ UNCHANGED FS!vars
<1> USE DEF EventThread, appVars
<1>1. CASE _uvc_stream_callback
  BY <1>1, Stutters DEF _uvc_stream_callback
<1>2. CASE process_header
  <2>1. Broadcast \/ UNCHANGED <<user, stop>>
    BY <1>2 DEF process_header, Header, NoHeader, _uvc_swap_buffers
  <2>2. QED
    BY <1>2, <2>1, BroadcastStep, Stutters DEF process_header
<1>3. CASE process_data
  <2>1. Broadcast \/ UNCHANGED <<user, stop>>
    BY <1>3 DEF process_data, _uvc_swap_buffers
  <2>2. UNCHANGED <<handle, start, closer, fault>> /\ crashed = "no"
    BY <1>3 DEF process_data, Live
  <2>3. QED
    BY <2>1, <2>2, BroadcastStep, Fails
<1>4. CASE Decide
  BY <1>4, Stutters DEF Decide
<1>5. CASE Resubmit
  <2>1. fault \subseteq fault' /\ UNCHANGED <<handle, start, closer, stop, user, crashed>>
    BY <1>5 DEF Resubmit
  <2>2. QED
    BY <2>1, Fails
<1>6. CASE _uvc_delete_transfer
  BY <1>6, BroadcastStep, Stutters DEF _uvc_delete_transfer
<1>7. QED
  BY <1>1, <1>2, <1>3, <1>4, <1>5, <1>6

LEMMA StopRefines ==
  ASSUME IInv, Stopper PROVE FS!Close \/ UNCHANGED FS!vars
<1> USE DEF Stopper, Stopping, Live
<1>1. CASE uvc_stream_stop
  BY <1>1, Stutters DEF uvc_stream_stop
<1>2. CASE CancelTransfers
  BY <1>2, Stutters DEF CancelTransfers
<1>3. CASE WaitTransfers
  <2>1. user'.pc = "cb" <=> user.pc = "cb"
    BY <1>3 DEF WaitTransfers, IInv, Numbered
  <2>2. QED
    BY <1>3, <2>1, Stutters DEF WaitTransfers
<1>4. CASE JoinUser
  BY <1>4, Stutters DEF JoinUser
<1>5. CASE FreeHandle
  BY <1>5, FreeRefines
<1>6. QED
  BY <1>1, <1>2, <1>3, <1>4, <1>5

LEMMA StepRefines == ASSUME IInv, [Next]_vars PROVE [FS!Next]_(FS!vars)
<1> USE DEF appVars
<1>1. CASE uvc_stream_open_ctrl
  BY <1>1 DEF uvc_stream_open_ctrl, IInv, Unstarted, FS!vars
<1>2. CASE uvc_stream_start_random
  BY <1>2, StartRefines DEF FS!Next
<1>3. CASE SubmitTransfer
  <2>1. /\ fault \subseteq fault' /\ UNCHANGED <<handle, closer, stop, user, crashed>>
        /\ start # "none" /\ start' # "none"
    BY <1>3 DEF SubmitTransfer
  <2>2. QED
    BY <2>1, Fails DEF FS!Next
<1>4. CASE Unplug
  BY <1>4, Fails DEF Unplug, FS!Next
<1>5. CASE EventThread
  BY <1>5, EventRefines DEF FS!Next
<1>6. CASE UserThread
  <2>1. CASE UserLocked
    <3>1. user.pc # "cb" /\ user'.pc # "cb"
      BY <2>1 DEF UserLocked, TakeFrame, IInv, Numbered
    <3>2. QED
      BY <2>1, <3>1, Stutters DEF UserLocked
  <2>2. QED
    BY <1>6, <2>1, CallbackRefines, ReturnRefines DEF UserThread, FS!Next
<1>7. CASE uvc_stream_close
  BY <1>7, CloseRefines DEF FS!Next
<1>8. CASE Stopper
  BY <1>8, StopRefines DEF FS!Next
<1>9. CASE UseAfterFree
  BY <1>9, Fails DEF UseAfterFree, FS!Next
<1>10. CASE UNCHANGED vars
  BY <1>10, Stutters DEF vars
<1>11. QED
  BY <1>1, <1>2, <1>3, <1>4, <1>5, <1>6, <1>7, <1>8, <1>9, <1>10 DEF Next

(* The stream implements FrameSource, but for its liveness: every step of  *)
(* stream.c is a step FrameSource allows or none at all.  The frame        *)
(* callback starts only between uvc_stream_start and the end of            *)
(* uvc_stream_close, one call at a time, and a close that is neither from  *)
(* the callback nor after a vanished device or a refused submission leaves *)
(* no call running.                                                        *)
THEOREM StreamRefinesFrameSource == Spec => FS!Safety
<1>1. Init => FS!Init
  BY DEF Init, FS!Init
<1>2. IInv /\ [Next]_vars => [FS!Next]_(FS!vars)
  BY StepRefines
<1>3. QED
  BY <1>1, <1>2, Invariant, PTL DEF Spec, FS!Safety
=============================================================================
