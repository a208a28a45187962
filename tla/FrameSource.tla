---------------------------- MODULE FrameSource ----------------------------
(***************************************************************************)
(* What libuvc promises the application that starts a stream: the frame    *)
(* callback runs, one call at a time, only between uvc_stream_start and    *)
(* the return of uvc_stop_streaming, which does return.  Failures release  *)
(* it from either half: an unsafe stream may be closed under a running     *)
(* callback, a stuck one may never finish closing.                         *)
(***************************************************************************)
VARIABLES phase,          \* "off", "on", "closing" or "closed"
          calling,        \* the frame callback is running
          unsafe, stuck   \* the promise is void

vars == <<phase, calling, unsafe, stuck>>

Init == phase = "off" /\ ~calling /\ unsafe \in BOOLEAN /\ ~stuck

Move(from, to) == phase = from /\ phase' = to /\ UNCHANGED <<calling, unsafe, stuck>>

TurnOn   == Move("off", "on")
AskClose == Move("on", "closing")
Close    == (calling => unsafe) /\ Move("closing", "closed")

BeginCallback == /\ phase \in {"on", "closing"} /\ ~calling
                 /\ calling' = TRUE
                 /\ UNCHANGED <<phase, unsafe, stuck>>

EndCallback == /\ calling /\ calling' = FALSE
               /\ UNCHANGED <<phase, unsafe, stuck>>

Fail == /\ unsafe => unsafe'
        /\ stuck => stuck'
        /\ UNCHANGED <<phase, calling>>

Next == TurnOn \/ AskClose \/ Close \/ BeginCallback \/ EndCallback \/ Fail

(* Callbacks only while the stream is on, none left running by a close     *)
(* that is not void.                                                       *)
Safety == Init /\ [][Next]_vars

(* A stream that was asked to close closes, unless it is stuck. *)
Closes == (phase = "closing") ~> (phase = "closed" \/ stuck)

Spec == Safety /\ Closes
=============================================================================
