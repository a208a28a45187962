----------------------------- MODULE IsoFrames -----------------------------
(***************************************************************************)
(* How IsochronousStream.run puts camera frames together from the packets  *)
(* of the requests it reaps: frameData and skipFrames.  The requests       *)
(* themselves, and who else uses them, are in UsbIso; here one thread has  *)
(* activeUrbs of them and the driver never refuses one.  A request carries *)
(* one packet.  The camera and the driver are external.                    *)
(***************************************************************************)
EXTENDS Naturals, Sequences

CONSTANTS activeUrbs,   \* requests of the stream
          MaxFrame,     \* frames the camera sends
          MaxParts      \* packets of the longest frame

ASSUME FramesAssumption == {activeUrbs, MaxFrame, MaxParts} \subseteq Nat \ {0}

VARIABLES
  frame, part,   \* camera: the packet it sends next
  length,        \* camera: the packets of a frame, 0 if it was never finished
  pend, done,    \* driver: how many URBs are in flight; the completed ones
  pc, pkt,       \* the thread, and the packet it looks at
  frameData, skipFrames,
  handed,        \* history: the frame just handed to the display, or <<>>
  dropped,       \* history: the frame just dropped at its EOF, or 0, and
                 \* whether a size check refused it
  bad,           \* history: frames with a packet the thread was told is bad
  unseen         \* history: frames with a packet it was not told about, or
                 \* with a garbled one that claimed to be the last

camVars == <<frame, part, length>>
vars == <<camVars, pend, done, pc, pkt, frameData, skipFrames, handed, dropped, bad, unseen>>

Frames == 1..MaxFrame

(* "empty" has no payload; "lost" has an error status and no payload;      *)
(* "flagged" has an error status or the ERR bit; the header of a "garbled" *)
(* one has an impossible length.  eof is the EOF bit.                      *)
Packets == [kind: {"good", "flagged", "garbled", "lost", "empty"},
            frame: 0..MaxFrame, part: 0..MaxParts, eof: BOOLEAN]
NoFrame == [frame |-> 0, size |-> FALSE]
Nothing(kind) == [kind |-> kind, frame |-> 0, part |-> 0, eof |-> FALSE]

(* The types of the variables; every request is in flight, completed or    *)
(* with the thread.                                                        *)
TypeOK ==
  /\ frame \in 1..(MaxFrame + 1) /\ part \in 1..MaxParts
  /\ length \in [Frames -> 0..MaxParts]
  /\ pend \in 0..activeUrbs
  /\ \A n \in DOMAIN done : done[n] \in Packets
  /\ pc \in {"reap", "packet"} /\ pkt \in Packets
  /\ pend + Len(done) + (IF pc = "packet" THEN 1 ELSE 0) = activeUrbs
  /\ \A n \in DOMAIN frameData : frameData[n] \in Frames \X (1..MaxParts)
  /\ skipFrames \in {0, 1}
  /\ \A n \in DOMAIN handed : handed[n] \in Frames \X (1..MaxParts)
  /\ dropped \in [frame: 0..MaxFrame, size: BOOLEAN]
  /\ bad \subseteq Frames /\ unseen \subseteq Frames

Init ==
  /\ frame = 1 /\ part = 1 /\ length = [f \in Frames |-> 0]
  /\ pend = activeUrbs /\ done = <<>>
  /\ pc = "reap" /\ pkt = Nothing("empty")
  /\ frameData = <<>> /\ skipFrames = 0
  /\ handed = <<>> /\ dropped = NoFrame /\ bad = {} /\ unseen = {}

threadVars == <<pc, pkt, frameData, skipFrames, handed, dropped>>

-----------------------------------------------------------------------------
(* The camera moves on to its next packet: last ends the frame.            *)
Advance(last) ==
  /\ frame <= MaxFrame /\ (part = MaxParts => last)
  /\ IF last THEN frame' = frame + 1 /\ part' = 1 /\ length' = [length EXCEPT ![frame] = part]
             ELSE part' = part + 1 /\ UNCHANGED <<frame, length>>

Complete ==
  /\ pend > 0 /\ pend' = pend - 1
  /\ \/ done' = Append(done, Nothing("empty")) /\ UNCHANGED <<camVars, bad, unseen>>
     \/ \E kind \in {"good", "flagged", "garbled", "lost"}, last, eof \in BOOLEAN :
          /\ Advance(last)
          /\ kind \in {"good", "flagged"} => eof = last
          /\ kind = "lost" => ~eof
          /\ done' = Append(done, [kind |-> kind, frame |-> frame, part |-> part, eof |-> eof])
          /\ bad' = IF kind = "good" THEN bad ELSE bad \cup {frame}
          /\ unseen' = IF eof /\ ~last THEN unseen \cup {frame} ELSE unseen
  /\ UNCHANGED threadVars

(* No URB is in flight: the packet goes nowhere and no one is told.        *)
Miss ==
  /\ pend = 0 /\ \E last \in BOOLEAN : Advance(last)
  /\ unseen' = unseen \cup {frame}
  /\ UNCHANGED <<pend, done, bad, threadVars>>

(* The altsetting is selected again by another stream: the URBs in flight  *)
(* end with an error and the camera starts with a new frame.               *)
Reset ==
  /\ frame <= MaxFrame /\ frame' = frame + 1 /\ part' = 1
  /\ pend' = 0 /\ done' = done \o [n \in 1..pend |-> Nothing("lost")]
  /\ IF pend = 0 THEN unseen' = unseen \cup {frame} /\ UNCHANGED bad
                 ELSE bad' = bad \cup {frame} /\ UNCHANGED unseen
  /\ UNCHANGED <<length, threadVars>>

-----------------------------------------------------------------------------
reapRequest ==
  /\ pc = "reap" /\ done # <<>>
  /\ pc' = "packet" /\ pkt' = Head(done) /\ done' = Tail(done)
  /\ handed' = <<>> /\ dropped' = NoFrame
  /\ UNCHANGED <<camVars, pend, frameData, skipFrames, bad, unseen>>

(* Mutant: an error status alone does not skip.                            *)
SkipUnlessLost == IF pkt.kind \in {"flagged", "garbled"} THEN 1 ELSE skipFrames

(* skipFrames after the packet's status, length, header and ERR bit        *)
Skip == IF pkt.kind \in {"good", "empty"} THEN skipFrames ELSE 1

Piece == <<<<pkt.frame, pkt.part>>>>

(* frameData after the packet's payload                                    *)
Written == IF pkt.kind = "good" /\ skipFrames = 0 THEN frameData \o Piece ELSE frameData

(* Mutant: skipFrames is not counted down.                                 *)
EofKeepsSkipping(wrongSize) ==
  /\ frameData' = <<>>
  /\ IF wrongSize \/ Skip > 0
     THEN skipFrames' = 1 /\ handed' = <<>> /\ dropped' = [frame |-> pkt.frame, size |-> wrongSize]
     ELSE skipFrames' = 0 /\ handed' = Written \o Piece /\ dropped' = NoFrame

(* The EOF bit: a frame that a size check refuses (20000 bytes or less, far *)
(* below the average of the last three, or too many for the format: any    *)
(* frame may be) or that has errors is dropped, any other gets the last    *)
(* packet once more and is handed on.                                      *)
Eof(wrongSize) ==
  /\ frameData' = <<>> /\ skipFrames' = 0
  /\ IF wrongSize \/ Skip > 0
     THEN handed' = <<>> /\ dropped' = [frame |-> pkt.frame, size |-> wrongSize]
     ELSE handed' = Written \o Piece /\ dropped' = NoFrame

(* Mutant: a request whose packet ends a frame is not submitted again.     *)
packetUnsubmitted ==
  /\ pc = "packet" /\ pc' = "reap" /\ pkt' = Nothing("empty")
  /\ pend' = IF pkt.eof THEN pend ELSE pend + 1
  /\ IF pkt.eof THEN \E wrongSize \in BOOLEAN : Eof(wrongSize)
     ELSE frameData' = Written /\ skipFrames' = Skip /\ UNCHANGED <<handed, dropped>>
  /\ UNCHANGED <<camVars, done, bad, unseen>>

(* One packet, and the request is submitted again.                         *)
packet ==
  /\ pc = "packet" /\ pc' = "reap" /\ pkt' = Nothing("empty")
  /\ pend' = pend + 1
  /\ IF pkt.eof THEN \E wrongSize \in BOOLEAN : Eof(wrongSize)
     ELSE frameData' = Written /\ skipFrames' = Skip /\ UNCHANGED <<handed, dropped>>
  /\ UNCHANGED <<camVars, done, bad, unseen>>

Next == Complete \/ Miss \/ Reset \/ reapRequest \/ packet

Spec == Init /\ [][Next]_vars

-----------------------------------------------------------------------------
(* Properties                                                              *)

Doubled(f) == [n \in 1..(length[f] + 1) |-> <<f, IF n > length[f] THEN length[f] ELSE n>>]

(* A frame handed to the display is one whole camera frame, its last       *)
(* packet twice, unless part of it went by while no request was in flight  *)
(* or a garbled header claimed to end it: the header's FID bit, which      *)
(* would tell frames apart, is never looked at.                            *)
WholeFrames ==
  handed = <<>> \/ \E n \in DOMAIN handed :
    \/ handed = Doubled(handed[n][1])
    \/ handed[n][1] \in unseen

(* Every frame that is dropped was refused by a size check itself, or it,  *)
(* or the frame before it, had an error: skipping, whether an error or a   *)
(* size check began it, ends with the next EOF, so that an error never     *)
(* costs more than the frame after its own, and a refusal only the frame   *)
(* refused.                                                                *)
DroppedForCause ==
  LET f == dropped.frame IN
  f # 0 /\ ~dropped.size => {f, f - 1} \cap (bad \cup unseen) # {}
=============================================================================
