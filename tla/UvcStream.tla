----------------------------- MODULE UvcStream -----------------------------
(***************************************************************************)
(* libuvc/src/stream.c: one video stream from uvc_stream_open_ctrl to      *)
(* uvc_stream_close.  Three threads meet in the stream handle: the one     *)
(* that starts and closes it, the libusb event thread that runs            *)
(* _uvc_stream_callback for every completed transfer, and the thread       *)
(* _uvc_user_caller that hands frames to the application.  What cb_mutex   *)
(* protects is one step; what the code reads or writes outside it is a     *)
(* step of its own.                                                        *)
(***************************************************************************)
EXTENDS Naturals, FiniteSets

CONSTANTS activeUrbs,  \* strmh->activeUrbs, the number of transfers
          MaxFrame,    \* frames the camera sends
          SizeBuf      \* strmh->size_buf, in packets

ASSUME StreamAssumption ==
  activeUrbs \in Nat \ {0} /\ MaxFrame \in Nat /\ SizeBuf \in Nat \ {0}

VARIABLES
  iso,      \* the interface has several altsettings: isochronous transfers
  closer,   \* who calls uvc_stop_streaming: "app", or the frame "callback"
  handle,   \* the uvc_stream_handle_t: "none", "live" or "freed"
  start,    \* uvc_stream_start_random: "none", "submit" or "done"
  stop,     \* uvc_stream_close: where it is
  running,  \* strmh->running
  xfer,     \* strmh->transfers_random: how many are allocated and not yet
            \* submitted, in flight, in flight and cancelled, refused on
            \* resubmission; the others are NULL, but for the one below
  ev,       \* the event thread, and the transfer whose callback it runs
  pkt,      \* the packet that callback is looking at
  cam,      \* the camera's current frame; past its EOF, the next one
  fid, seq, out,  \* strmh->fid, seq, and outbuf with got_bytes and bfh_err;
            \* of the image data only the FID bits of the headers that
            \* were acted on since its first packet are kept
  hold,     \* holdbuf with hold_bfh_err and hold_seq
  frame,    \* strmh->frame, what the callback is given
  user,     \* _uvc_user_caller: where it is, and last_seq
  fault,    \* which failures happened (history)
  crashed   \* "no", "overflow" or "freed" memory used: nothing runs after

appVars  == <<iso, closer, handle, start>>
dataVars == <<pkt, cam, fid, seq, out>>
vars == <<appVars, stop, running, xfer, ev, dataVars, hold, frame, user,
          fault, crashed>>

Empty    == [fids |-> {}, bytes |-> 0, err |-> FALSE]
NoPacket == [no |-> 0, kind |-> "head", eof |-> FALSE]

NoTransfers == [s \in {"alloc", "flight", "cancelled", "lost"} |-> 0]
Busy == IF ev = "idle" THEN 0 ELSE 1

(* A packet or bulk payload: image data, a header alone, one whose header  *)
(* is longer than itself, for iso packets one with the ERR bit or a bad    *)
(* status, and for bulk payloads plain image data, the header too short to *)
(* have any bits.  (In a bulk payload the ERR bit is only logged, so such a*)
(* payload is one of the others; an empty one is ignored, as if lost.)     *)
Packets == [no: 0..MaxFrame, eof: BOOLEAN,
            kind: {"data", "plain", "head", "bogus", "err", "status"}]

TypeOK ==
  /\ iso \in BOOLEAN /\ closer \in {"app", "callback"}
  /\ handle \in {"none", "live", "freed"}
  /\ start \in {"none", "submit", "done"}
  /\ stop \in {"no", "close", "stop", "cancel", "check", "wait", "join", "free", "done"}
  /\ running \in BOOLEAN
  /\ xfer \in [{"alloc", "flight", "cancelled", "lost"} -> 0..activeUrbs]
  /\ xfer["alloc"] + xfer["flight"] + xfer["cancelled"] + xfer["lost"] + Busy <= activeUrbs
  /\ ev \in {"idle", "packet", "data", "decide", "submit", "delete"}
  /\ pkt \in Packets
  /\ cam \in 1..(MaxFrame + 1)
  /\ fid \in {0, 1} /\ seq \in 0..2 * MaxFrame
  /\ out \in [fids: SUBSET {0, 1}, bytes: 0..(SizeBuf + 1), err: BOOLEAN]
  /\ ~iso => out.bytes <= SizeBuf
  /\ hold \in [fids: SUBSET {0, 1}, seq: 0..2 * MaxFrame, err: BOOLEAN]
  /\ frame \in [fids: SUBSET {0, 1}, seq: 0..2 * MaxFrame, bad: BOOLEAN]
  /\ user \in [pc: {"none", "top", "wait", "test", "cb", "ended"}, last: 0..2 * MaxFrame]
  /\ fault \subseteq {"gone", "submit", "lost"}
  /\ crashed \in {"no", "overflow", "freed"}

Init ==
  /\ iso \in BOOLEAN /\ closer \in {"app", "callback"}
  /\ handle = "none" /\ start = "none" /\ stop = "no" /\ running = FALSE
  /\ xfer = NoTransfers /\ ev = "idle"
  /\ pkt = NoPacket /\ cam = 1
  /\ fid = 0 /\ seq = 0 /\ out = Empty
  /\ hold = [fids |-> {}, seq |-> 0, err |-> FALSE]
  /\ frame = [fids |-> {}, seq |-> 0, bad |-> FALSE]
  /\ user = [pc |-> "none", last |-> 0]
  /\ fault = {} /\ crashed = "no"

Live == handle = "live" /\ crashed = "no"

(* pthread_cond_broadcast(cb_cond): every waiter tests its condition again. *)
Broadcast ==
  /\ user' = IF user.pc = "wait" THEN [user EXCEPT !.pc = "top"] ELSE user
  /\ stop' = IF stop = "wait" THEN "check" ELSE stop
-----------------------------------------------------------------------------
(* Opening and starting *)

(* A failed open leaves no handle behind and is not a step. *)
uvc_stream_open_ctrl ==
  /\ handle = "none"
  /\ handle' = "live"
  /\ UNCHANGED <<iso, closer, start, stop, running, xfer, ev, dataVars, hold,
                 frame, user, fault, crashed>>

(* Up to the submissions: the transfers are allocated and the user thread  *)
(* exists; or a descriptor, altsetting or size is refused ("fail:").       *)
uvc_stream_start_random ==
  /\ Live /\ start = "none" /\ stop = "no"
  /\ \/ /\ running' = TRUE /\ start' = "submit"
        /\ xfer' = [NoTransfers EXCEPT !["alloc"] = activeUrbs]
        /\ user' = [pc |-> "top", last |-> 0]
     \/ /\ running' = FALSE /\ start' = "done"
        /\ UNCHANGED <<xfer, user>>
  /\ seq' = 0 /\ fid' = 0 /\ out' = [out EXCEPT !.err = FALSE]
  /\ UNCHANGED <<iso, closer, handle, stop, ev, pkt, cam, hold, frame, fault,
                 crashed>>

(* libusb_submit_transfer succeeds. *)
Accepted == "gone" \notin fault

(* The submission loop: the first refusal clears running and returns, with *)
(* the transfers already in flight and the user thread left as they are.   *)
SubmitTransfer ==
  /\ Live /\ start = "submit"
  /\ \/ /\ Accepted
        /\ xfer' = [xfer EXCEPT !["alloc"] = @ - 1, !["flight"] = @ + 1]
        /\ start' = IF xfer["alloc"] = 1 THEN "done" ELSE "submit"
        /\ UNCHANGED <<running, fault>>
     \/ /\ running' = FALSE /\ start' = "done"
        /\ fault' = fault \cup {"submit"}
        /\ UNCHANGED xfer
  /\ UNCHANGED <<iso, closer, handle, stop, ev, dataVars, hold, frame, user,
                 crashed>>
-----------------------------------------------------------------------------
(* The event thread *)

(* The device is unplugged. *)
Unplug ==
  /\ Live /\ "gone" \notin fault
  /\ fault' = fault \cup {"gone"}
  /\ UNCHANGED <<appVars, stop, running, xfer, ev, dataVars, hold, frame,
                 user, crashed>>

(* The statuses a transfer can complete with.  A cancelled one may have    *)
(* completed already; every one completes, at the latest by its timeout.   *)
Statuses(s) ==
  IF "gone" \in fault THEN {"no_device"}
  ELSE {"completed", "error", "timed_out"} \cup (IF s = "cancelled" THEN {s} ELSE {})

(* _uvc_stream_callback, up to the payload or the decision to resubmit. *)
_uvc_stream_callback ==
  /\ Live /\ ev = "idle"
  /\ \E s \in {"flight", "cancelled"} : \E status \in Statuses(s) :
       /\ xfer[s] > 0 /\ xfer' = [xfer EXCEPT ![s] = @ - 1]
       /\ running' = (running /\ status # "no_device")
       /\ ev' = CASE status = "completed" -> "packet"
                  [] status = "timed_out" -> "decide"
                  [] OTHER -> "delete"
  /\ UNCHANGED <<appVars, stop, dataVars, hold, frame, user, fault, crashed>>

(* _uvc_swap_buffers: the assembled frame b is published under cb_mutex. *)
_uvc_swap_buffers(b) ==
  /\ hold' = [fids |-> b.fids, seq |-> seq, err |-> b.err]
  /\ seq' = seq + 1 /\ out' = Empty
  /\ Broadcast

(* What comes next from the camera: more of its frame unless the EOF was   *)
(* sent, or a later frame, any number of frames or EOFs having been lost.  *)
Sent(p) == /\ p.no \in cam..MaxFrame
           /\ p.kind \in {"err", "status"} => iso
           /\ p.kind = "plain" => ~iso /\ ~p.eof

(* Packets whose header is not acted on: in bulk mode the bogus ones, in   *)
(* iso mode those with a bad status or the ERR bit.                        *)
Skipped(p) == p.kind \in (IF iso THEN {"status", "err"} ELSE {"bogus"})

AfterPacket == IF iso THEN {"packet", "decide"} ELSE {"decide"}

(* The FID bit flipped while data of the previous frame is waiting: its    *)
(* EOF was lost, so publish it first.                                      *)
Header(p) ==
  /\ IF fid # p.no % 2 /\ out.bytes # 0
     THEN _uvc_swap_buffers(out)
     ELSE /\ out' = IF out.bytes = 0 THEN out
                    ELSE [out EXCEPT !.fids = @ \cup {p.no % 2}]
          /\ UNCHANGED <<seq, hold, user, stop>>
  /\ fid' = p.no % 2 /\ pkt' = p /\ ev' = "data"

(* Without header bits the image data is taken as it comes. *)
NoHeader(p) ==
  /\ pkt' = p /\ ev' = "data"
  /\ UNCHANGED <<fid, seq, hold, user, stop, out>>

(* One packet of _uvc_process_payload(_iso), up to its image data. *)
process_header ==
  /\ Live /\ ev = "packet"
  /\ \/ \E p \in Packets :
          /\ Sent(p)
          /\ cam' = IF p.eof THEN p.no + 1 ELSE p.no
          /\ \/ p.kind # "plain" /\ ~Skipped(p) /\ Header(p)
             \/ p.kind = "plain" /\ NoHeader(p)
             \/ /\ Skipped(p)
                /\ out' = [out EXCEPT !.err = @ \/ p.kind \in {"status", "bogus"}]
                /\ ev' \in AfterPacket
                /\ UNCHANGED <<fid, seq, hold, user, stop, pkt>>
     \/ ev' = "decide" /\ UNCHANGED <<fid, seq, hold, user, stop, pkt, cam, out>>
  /\ UNCHANGED <<appVars, running, xfer, frame, fault, crashed>>

(* outbuf with the data of p behind its own; got_bytes beyond the buffer is *)
(* SizeBuf + 1.                                                            *)
Appended(p) ==
  [out EXCEPT !.fids  = IF p.kind = "plain" THEN @ ELSE @ \cup {p.no % 2},
              !.bytes = IF @ + 1 <= SizeBuf THEN @ + 1 ELSE SizeBuf + 1]

(* Mutant: the size of the buffer is not checked. *)
FilledAnyway(p) ==
  IF p.kind \in {"data", "plain"} THEN Appended(p)
  ELSE [out EXCEPT !.err = @ \/ p.kind = "bogus"]

(* A bulk payload that does not fit marks the frame instead. *)
Filled(p) ==
  CASE p.kind \in {"head", "bogus"} -> [out EXCEPT !.err = @ \/ p.kind = "bogus"]
    [] p.kind \in {"data", "plain"} /\ (iso \/ out.bytes + 1 <= SizeBuf) -> Appended(p)
    [] OTHER -> [out EXCEPT !.err = TRUE]

(* Room for iso packets (one short of the buffer) is only asserted. *)
AssertFails(p) == iso /\ p.kind = "data" /\ out.bytes + 1 >= SizeBuf

(* The EOF bit publishes the frame: in bulk mode only on a payload with    *)
(* data, in iso mode whenever data is waiting, except on a bogus packet.   *)
EndsFrame(p) ==
  /\ p.eof
  /\ IF iso THEN p.kind # "bogus" /\ Filled(p).bytes # 0 ELSE p.kind # "head"

(* The image data and the EOF bit of that packet.  A failed assertion      *)
(* aborts the process; where it is compiled out (a release build) the data *)
(* is written, past the end of outbuf too, and the code goes on, unless    *)
(* that write is fatal.                                                    *)
process_data ==
  /\ Live /\ ev = "data"
  /\ \/ /\ AssertFails(pkt) /\ crashed' = "overflow"
        /\ UNCHANGED <<seq, hold, user, stop, out, ev, pkt>>
     \/ /\ UNCHANGED crashed
        /\ ev' \in AfterPacket /\ pkt' = NoPacket
        /\ IF EndsFrame(pkt)
           THEN _uvc_swap_buffers(Filled(pkt))
           ELSE out' = Filled(pkt) /\ UNCHANGED <<seq, hold, user, stop>>
  /\ UNCHANGED <<appVars, running, xfer, cam, fid, frame, fault>>

(* "strmh->running && resubmit" is read outside the lock ... *)
Decide ==
  /\ Live /\ ev = "decide"
  /\ ev' = IF running THEN "submit" ELSE "delete"
  /\ UNCHANGED <<appVars, stop, running, xfer, dataVars, hold, frame, user,
                 fault, crashed>>

(* ... before the transfer is submitted again; a refusal is not noticed. *)
Resubmit ==
  /\ Live /\ ev = "submit"
  /\ \/ Accepted /\ xfer' = [xfer EXCEPT !["flight"] = @ + 1] /\ UNCHANGED fault
     \/ xfer' = [xfer EXCEPT !["lost"] = @ + 1] /\ fault' = fault \cup {"lost"}
  /\ ev' = "idle"
  /\ UNCHANGED <<appVars, stop, running, dataVars, hold, frame, user, crashed>>

(* Mutant: nobody is told. *)
DeleteQuietly ==
  /\ Live /\ ev = "delete" /\ ev' = "idle"
  /\ UNCHANGED <<appVars, stop, user, running, xfer, dataVars, hold, frame, fault,
                 crashed>>

_uvc_delete_transfer ==
  /\ Live /\ ev = "delete" /\ ev' = "idle"
  /\ Broadcast
  /\ UNCHANGED <<appVars, running, xfer, dataVars, hold, frame, fault, crashed>>
-----------------------------------------------------------------------------
(* The user thread *)

_uvc_populate_frame ==
  frame' = [fids |-> hold.fids, seq |-> hold.seq, bad |-> hold.err]

(* Mutant: the mark is not looked at. *)
TakeAnyFrame == user' = [pc |-> "test", last |-> hold.seq] /\ _uvc_populate_frame

(* The published frame is copied unless it is marked bad. *)
TakeFrame ==
  /\ user' = [pc |-> "test", last |-> hold.seq]
  /\ IF hold.err THEN UNCHANGED frame ELSE _uvc_populate_frame

(* _uvc_user_caller under the lock: end, wait, or take the published frame. *)
UserLocked ==
  /\ Live /\ user.pc = "top"
  /\ \/ ~running /\ user' = [user EXCEPT !.pc = "ended"] /\ UNCHANGED frame
     \/ /\ running /\ user.last = hold.seq
        /\ user' = [user EXCEPT !.pc = "wait"] /\ UNCHANGED frame
     \/ running /\ user.last # hold.seq /\ TakeFrame
  /\ UNCHANGED <<appVars, stop, running, xfer, ev, dataVars, hold, fault, crashed>>

(* Mutant: the callback is called whatever hold_bfh_err says. *)
UserCallbackAlways ==
  /\ Live /\ user.pc = "test"
  /\ user' = [user EXCEPT !.pc = "cb"]
  /\ UNCHANGED <<appVars, stop, running, xfer, ev, dataVars, hold, frame, fault,
                 crashed>>

(* hold_bfh_err is read again, after the unlock. *)
UserCallback ==
  /\ Live /\ user.pc = "test"
  /\ user' = [user EXCEPT !.pc = IF hold.err THEN "top" ELSE "cb"]
  /\ UNCHANGED <<appVars, stop, running, xfer, ev, dataVars, hold, frame, fault,
                 crashed>>

(* The callback returns; one that closes the stream, only after closing. *)
UserReturn ==
  /\ Live /\ user.pc = "cb"
  /\ closer = "callback" => stop = "no"
  /\ user' = [user EXCEPT !.pc = "top"]
  /\ UNCHANGED <<appVars, stop, running, xfer, ev, dataVars, hold, frame, fault,
                 crashed>>
-----------------------------------------------------------------------------
(* Stopping and closing *)

Stopping(from, to) ==
  /\ Live /\ stop = from /\ stop' = to
  /\ UNCHANGED <<iso, closer, start, ev, dataVars, hold, frame, fault, crashed>>

(* uvc_stop_streaming -> uvc_stream_close: by the application once the     *)
(* start has returned, or by the frame callback itself.                    *)
uvc_stream_close ==
  /\ Stopping("no", IF running THEN "stop" ELSE "free")
  /\ IF closer = "app" THEN start = "done" ELSE user.pc = "cb"
  /\ UNCHANGED <<handle, running, xfer, user>>

(* uvc_stream_stop tests running again and clears it, outside the lock. *)
uvc_stream_stop ==
  /\ Stopping("stop", IF running THEN "cancel" ELSE "free")
  /\ running' = FALSE
  /\ UNCHANGED <<handle, xfer, user>>

(* Cancelling does nothing to a transfer that is not in flight. *)
CancelTransfers ==
  /\ Stopping("cancel", "check")
  /\ xfer' = [xfer EXCEPT !["flight"] = 0, !["cancelled"] = @ + xfer["flight"]]
  /\ UNCHANGED <<handle, running, user>>

WaitTransfers ==
  \/ /\ xfer # NoTransfers \/ ev # "idle"
     /\ Stopping("check", "wait")
     /\ UNCHANGED <<handle, running, xfer, user>>
  \/ /\ xfer = NoTransfers /\ ev = "idle"
     /\ Stopping("check", "join")
     /\ user' = IF user.pc = "wait" THEN [user EXCEPT !.pc = "top"] ELSE user
     /\ UNCHANGED <<handle, running, xfer>>

(* Mutant: the thread is not waited for. *)
JoinNobody ==
  /\ Stopping("join", "free")
  /\ UNCHANGED <<handle, running, xfer, user>>

(* pthread_join(cb_thread): a thread that joins itself is refused at once. *)
JoinUser ==
  /\ Stopping("join", "free")
  /\ user.pc = "ended" \/ closer = "callback"
  /\ UNCHANGED <<handle, running, xfer, user>>

(* The rest of uvc_stream_close: buffers and handle are freed. *)
FreeHandle ==
  /\ Stopping("free", "done")
  /\ handle' = "freed"
  /\ UNCHANGED <<running, xfer, user>>

(* Who still uses the handle: the user thread, a callback that runs or     *)
(* will run for a transfer in flight, the submission loop.                 *)
InUse == \/ user.pc \notin {"none", "ended"}
         \/ ev # "idle"
         \/ xfer["flight"] + xfer["cancelled"] > 0
         \/ start = "submit"

UseAfterFree ==
  /\ handle = "freed" /\ crashed = "no" /\ InUse
  /\ crashed' = "freed"
  /\ UNCHANGED <<appVars, stop, running, xfer, ev, dataVars, hold, frame, user,
                 fault>>
-----------------------------------------------------------------------------
EventThread == \/ _uvc_stream_callback
               \/ process_header \/ process_data
               \/ Decide \/ Resubmit \/ _uvc_delete_transfer
UserThread  == UserLocked \/ UserCallback \/ UserReturn
Stopper     == \/ uvc_stream_stop \/ CancelTransfers \/ WaitTransfers \/ JoinUser
               \/ FreeHandle

Next == \/ uvc_stream_open_ctrl \/ uvc_stream_start_random
        \/ SubmitTransfer \/ Unplug \/ EventThread \/ UserThread
        \/ uvc_stream_close \/ Stopper \/ UseAfterFree

Spec == Init /\ [][Next]_vars

(* Threads are scheduled; a transfer completes by its timeout of 5 s; a    *)
(* packet loop ends with its transfer; the frame callback returns.         *)
Fairness ==
  /\ WF_vars(SubmitTransfer)
  /\ WF_vars(EventThread) /\ SF_vars(process_header /\ ev' = "decide")
  /\ WF_vars(UserThread) /\ WF_vars(Stopper)

FairSpec == Spec /\ Fairness
-----------------------------------------------------------------------------
(* What the user callback is given was never a frame marked bad, whatever  *)
(* the event thread publishes between the copy and the call, and all the   *)
(* headers that were acted on between its first packet and its last had    *)
(* the same FID bit: data of two camera frames is in it only when not one  *)
(* header of the frames with the other FID bit between the two came        *)
(* through (or when it came without a header).                             *)
CleanFrame ==
  user.pc = "cb" => ~frame.bad /\ Cardinality(frame.fids) <= 1

(* The frame handed over is the one just taken; an old one (or none) is    *)
(* handed over again only when another frame was published between the two *)
(* readings of hold_bfh_err.                                               *)
StaleOnlyIfOvertaken ==
  user.pc = "cb" => frame.seq = user.last \/ hold.seq > user.last

(* When the handle is freed nobody uses it any more, unless the device     *)
(* vanished or a submission failed (running was cleared without a stop) or *)
(* the stream was closed from its own callback.                            *)
QuietAfterClose ==
  handle = "freed" /\ InUse => closer = "callback" \/ fault \cap {"gone", "submit"} # {}

(* The stream keeps the promise of FrameSource: callbacks one at a time,   *)
(* only while the stream is started, none left running by a close that is  *)
(* not one of the exceptions of QuietAfterClose; and uvc_stop_streaming    *)
(* returns, unless a resubmission was refused unnoticed (or a submission,  *)
(* while the callback was already closing the stream) or the process died. *)
FS == INSTANCE FrameSource WITH
  phase   <- IF handle = "freed" THEN "closed" ELSE IF stop # "no" THEN "closing"
             ELSE IF start # "none" THEN "on" ELSE "off",
  calling <- user.pc = "cb",
  unsafe  <- closer = "callback" \/ fault \cap {"gone", "submit"} # {},
  stuck   <- \/ crashed # "no" \/ "lost" \in fault
             \/ closer = "callback" /\ "submit" \in fault
KeepsPromise == FS!Spec
=============================================================================
