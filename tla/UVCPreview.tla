----------------------------- MODULE UVCPreview -----------------------------
(***************************************************************************)
(* The native preview and capture pipeline of one UVCPreview object        *)
(* (libUvc_Support/UVC_Camera_Saki/UVCPreview.cpp), driven through the JNI *)
(* entry points of uvc_support.cpp.                                        *)
(*                                                                         *)
(* Four threads run the object's code:                                     *)
(*   ui    the Java thread inside a JNI call (start, stop, capture ...);   *)
(*   cb    libuvc's user-callback thread (uvc_preview_frame_callback);     *)
(*   prev  preview_thread (do_preview);                                    *)
(*   cap   capture_thread (do_capture).                                    *)
(* One step of the model is one critical section, one unlocked access to a *)
(* volatile flag, or one call on the frame pool.  A frame's pixels are not *)
(* modelled; what is modelled is who owns each uvc_frame_t.                *)
(***************************************************************************)
EXTENDS Naturals, Sequences, FiniteSets

CONSTANTS
    Frames,          \* the uvc_frame_t blocks the C heap can provide
    NULL,            \* the null frame pointer
    MAX_FRAME,       \* capacity of previewFrames (4 in the code)
    FRAME_POOL_SZ,   \* capacity of mFramePool (MAX_FRAME + 2 in the code)
    Formats,         \* frame formats the camera may be configured for
    UiOps,           \* capture requests the Java side makes
    MaxStarts,       \* bound: calls of startPreview
    MaxUndecodable   \* bound: MJPEG frames that do not decode

ASSUME NullAssumption == NULL \notin Frames
ASSUME SizeAssumption ==
    /\ MAX_FRAME \in Nat \ {0}
    /\ FRAME_POOL_SZ \in Nat \ {0}
    /\ MaxStarts \in Nat
    /\ MaxUndecodable \in Nat
ASSUME FormatAssumption == Formats \subseteq {"MJPEG", "YUY2", "NV21"}

FrameOrNull == Frames \cup {NULL}

Threads == {"ui", "cb", "prev", "cap"}

(***************************************************************************)
(* The local variables that own a frame: copy (uvc_preview_frame_callback),*)
(* raw and yuyv (frame_mjpeg and frame of do_preview; in yuyv mode the     *)
(* camera frame is raw), conv (converted of draw_preview_one), taken and   *)
(* out (frame and callback_frame of do_capture_callback).  A slot is NULL  *)
(* once the thread has given the frame away.                               *)
(***************************************************************************)
Slots == {"copy", "raw", "yuyv", "conv", "taken", "out"}

UiLabels ==
    {"idle", "starting", "enable", "picture", "signalPreview", "signalCapture",
     "joinCapture", "joinPreview", "clearPreview", "clearCapture", "release"}

CbLabels == {"idle", "dup", "add", "recycle"}

PrevLabels ==
    {"none", "prepare", "clear", "create", "loop", "wait", "blocked", "woken",
     "decode", "undecoded", "draw", "convert", "drawn", "keep", "add", "exit",
     "stopStream", "done"}

CapLabels ==
    {"none", "clear", "loop", "wait", "blocked", "woken", "callback",
     "converted", "recycle", "recycleOut", "flags", "uncapture", "done"}

AllLabels == UiLabels \cup CbLabels \cup PrevLabels \cup CapLabels

VARIABLES
    test,               \* 1 = testrun, 0 = stream (fixed by Prepare)
    frameFormat,        \* fixed by Prepare
    mPreviewWindow,     \* TRUE while a Surface is held
    mIsRunning, mIsCapturing, mPictureCapturing, mMovieCapturing,
    streaming,          \* libuvc delivers callbacks
    previewFrames,      \* queue from cb to prev
    captureQueu,        \* the one frame handed from prev to cap
    mFramePool,         \* frames ready for reuse
    allocated,          \* frames obtained from malloc and not freed
    loc,                \* frames owned by local variables
    pc,                 \* where each thread is
    crashed,            \* the process has been killed by a fault
    starts,             \* calls of startPreview so far
    undecodable,        \* MJPEG frames that did not decode so far
    stops,              \* calls of stopPreview that found the preview running
    outdated            \* history: a frame of captureQueu than which a newer
                        \* one has been drawn and recycled

flags == <<mIsRunning, mIsCapturing, mPictureCapturing, mMovieCapturing>>
config == <<test, frameFormat>>
counters == <<starts, undecodable, stops>>
memory == <<mFramePool, allocated>>
vars == <<config, mPreviewWindow, flags, streaming, previewFrames,
          captureQueu, memory, loc, pc, crashed, counters, outdated>>

-----------------------------------------------------------------------------
(* Initial state: PreviewPrepareStream or PreviewPrepareTest has returned. *)

Init ==
    /\ test \in BOOLEAN
    /\ frameFormat \in Formats
    /\ mPreviewWindow = ~test
    /\ mIsRunning = FALSE
    /\ mIsCapturing = FALSE
    /\ mPictureCapturing = FALSE
    /\ mMovieCapturing = FALSE
    /\ streaming = FALSE
    /\ previewFrames = <<>>
    /\ captureQueu = NULL
    /\ mFramePool = {}
    /\ allocated = {}
    /\ loc = [s \in Slots |-> NULL]
    /\ pc = [t \in Threads |-> IF t \in {"ui", "cb"} THEN "idle" ELSE "none"]
    /\ crashed = FALSE
    /\ starts = 0
    /\ undecodable = 0
    /\ stops = 0
    /\ outdated = NULL

-----------------------------------------------------------------------------
(* Steps of a thread, and condition variables.                             *)

At(t, l) == ~crashed /\ pc[t] = l

Goto(t, l) == pc' = [pc EXCEPT ![t] = l]

\* pthread_cond_signal or _broadcast on the condition variable that only
\* thread w waits on, executed by thread t on its way to label l.
GotoAndSignal(t, l, w) ==
    pc' = [pc EXCEPT ![t] = l,
                     ![w] = IF pc[w] = "blocked" THEN "woken" ELSE pc[w]]

-----------------------------------------------------------------------------
(* The frame pool.                                                         *)

\* get_frame: a frame of the pool if there is one, otherwise a newly
\* allocated one; NULL only when the heap is exhausted.
get_frame(f) ==
    \/ /\ mFramePool # {}
       /\ f \in mFramePool
       /\ mFramePool' = mFramePool \ {f}
       /\ UNCHANGED allocated
    \/ /\ mFramePool = {}
       /\ f \in Frames \ allocated
       /\ allocated' = allocated \cup {f}
       /\ UNCHANGED mFramePool
    \/ /\ mFramePool = {}
       /\ Frames \subseteq allocated
       /\ f = NULL
       /\ UNCHANGED memory

\* recycle_frame: back to the pool, or to the heap when the pool is full.
recycle_frame(f) ==
    IF Cardinality(mFramePool) < FRAME_POOL_SZ
    THEN mFramePool' = mFramePool \cup {f} /\ UNCHANGED allocated
    ELSE allocated' = allocated \ {f} /\ UNCHANGED mFramePool

\* recycle_frame applied to every frame of a queue, in order.
recycle_all(q) ==
    LET fits == {j \in DOMAIN q : j <= FRAME_POOL_SZ - Cardinality(mFramePool)}
    IN  /\ mFramePool' = mFramePool \cup {q[i] : i \in fits}
        /\ allocated' = allocated \ {q[i] : i \in DOMAIN q \ fits}

\* The history variable follows frames that are recycled or overwritten.
Forget(f) == outdated' = IF outdated = f THEN NULL ELSE outdated

-----------------------------------------------------------------------------
(* ui: startPreview.                                                       *)

\* The first half of startPreview: nothing happens when already running.
\* Bound: no restart while a capture thread that stopPreview failed to join
\* is still alive.
startPreview ==
    /\ At("ui", "idle") /\ starts < MaxStarts
    /\ ~mIsRunning
    /\ pc["cap"] \in {"none", "done"}
    /\ mIsRunning' = TRUE
    /\ starts' = starts + 1
    /\ Goto("ui", "starting")
    /\ UNCHANGED <<config, mPreviewWindow, mIsCapturing, mPictureCapturing,
                   mMovieCapturing, streaming, previewFrames, captureQueu,
                   memory, loc, crashed, undecodable, stops, outdated>>

\* The second half, under preview_mutex: create preview_thread.
createPreviewThread ==
    /\ At("ui", "starting")
    /\ test \/ mPreviewWindow
    /\ pc' = [pc EXCEPT !["prev"] = "prepare",
                        !["ui"] = IF test THEN "enable" ELSE "idle"]
    /\ UNCHANGED <<config, mPreviewWindow, flags, streaming, previewFrames,
                   captureQueu, memory, loc, crashed, counters, outdated>>

\* No window, or pthread_create failed: mIsRunning is taken back.
startFails ==
    /\ At("ui", "starting")
    /\ mIsRunning' = FALSE
    /\ Goto("ui", "idle")
    /\ UNCHANGED <<config, mPreviewWindow, mIsCapturing, mPictureCapturing,
                   mMovieCapturing, streaming, previewFrames, captureQueu,
                   memory, loc, crashed, counters, outdated>>

\* PreviewStartTest enables capturing after a successful start.
enable_mIsCapturing ==
    /\ At("ui", "enable")
    /\ mIsCapturing' = TRUE
    /\ Goto("ui", "idle")
    /\ UNCHANGED <<config, mPreviewWindow, mIsRunning, mPictureCapturing,
                   mMovieCapturing, streaming, previewFrames, captureQueu,
                   memory, loc, crashed, counters, outdated>>

-----------------------------------------------------------------------------
(* ui: capture requests, none of which takes a lock.                       *)

\* capture_picture sets mIsCapturing first and mPictureCapturing second.
capture_picture ==
    /\ At("ui", "idle") /\ "picture" \in UiOps /\ ~test
    /\ mIsCapturing' = TRUE
    /\ Goto("ui", "picture")
    /\ UNCHANGED <<config, mPreviewWindow, mIsRunning, mPictureCapturing,
                   mMovieCapturing, streaming, previewFrames, captureQueu,
                   memory, loc, crashed, counters, outdated>>

capture_picture_flag ==
    /\ At("ui", "picture")
    /\ mPictureCapturing' = TRUE
    /\ Goto("ui", "idle")
    /\ UNCHANGED <<config, mPreviewWindow, mIsRunning, mIsCapturing,
                   mMovieCapturing, streaming, previewFrames, captureQueu,
                   memory, loc, crashed, counters, outdated>>

\* mMovieCapturing is written here and read nowhere.
capture_movie ==
    /\ At("ui", "idle") /\ "movie" \in UiOps /\ ~test
    /\ mIsCapturing' = TRUE
    /\ mMovieCapturing' = TRUE
    /\ UNCHANGED <<config, mPreviewWindow, mIsRunning, mPictureCapturing,
                   streaming, previewFrames, captureQueu, memory, loc, pc,
                   crashed, counters, outdated>>

exit_capture_movie ==
    /\ At("ui", "idle") /\ "movie" \in UiOps /\ ~test
    /\ mIsCapturing' = FALSE
    /\ mMovieCapturing' = FALSE
    /\ UNCHANGED <<config, mPreviewWindow, mIsRunning, mPictureCapturing,
                   streaming, previewFrames, captureQueu, memory, loc, pc,
                   crashed, counters, outdated>>

-----------------------------------------------------------------------------
(* ui: stopPreview.                                                        *)

stopPreview ==
    /\ At("ui", "idle")
    /\ mIsRunning' = FALSE
    /\ Goto("ui", IF mIsRunning THEN "signalPreview" ELSE "clearPreview")
    /\ stops' = IF mIsRunning THEN stops + 1 ELSE stops
    /\ UNCHANGED <<config, mPreviewWindow, mIsCapturing, mPictureCapturing,
                   mMovieCapturing, streaming, previewFrames, captureQueu,
                   memory, loc, crashed, starts, undecodable, outdated>>

\* Both signals are sent without holding the mutex.
signalPreviewSync ==
    /\ At("ui", "signalPreview")
    /\ GotoAndSignal("ui", "signalCapture", "prev")
    /\ UNCHANGED <<config, mPreviewWindow, flags, streaming, previewFrames,
                   captureQueu, memory, loc, crashed, counters, outdated>>

signalCaptureSync ==
    /\ At("ui", "signalCapture")
    /\ GotoAndSignal("ui", "joinCapture", "cap")
    /\ UNCHANGED <<config, mPreviewWindow, flags, streaming, previewFrames,
                   captureQueu, memory, loc, crashed, counters, outdated>>

joinCaptureThread ==
    /\ At("ui", "joinCapture")
    /\ pc["cap"] = "done"
    /\ pc' = [pc EXCEPT !["cap"] = "none", !["ui"] = "joinPreview"]
    /\ UNCHANGED <<config, mPreviewWindow, flags, streaming, previewFrames,
                   captureQueu, memory, loc, crashed, counters, outdated>>

\* capture_thread names no thread: pthread_join returns an error, which
\* stopPreview logs, or aborts the process (bionic, invalid pthread_t).
joinNoCaptureThread ==
    /\ At("ui", "joinCapture")
    /\ pc["cap"] = "none"
    /\ crashed' \in BOOLEAN
    /\ Goto("ui", "joinPreview")
    /\ UNCHANGED <<config, mPreviewWindow, flags, streaming, previewFrames,
                   captureQueu, memory, loc, counters, outdated>>

\* Mutant: stopPreview does not wait for the preview thread.
joinPreviewThread_early ==
    /\ At("ui", "joinPreview")
    /\ Goto("ui", "clearPreview")
    /\ UNCHANGED <<config, mPreviewWindow, flags, streaming, previewFrames,
                   captureQueu, memory, loc, crashed, counters, outdated>>

joinPreviewThread ==
    /\ At("ui", "joinPreview")
    /\ pc["prev"] = "done"
    /\ pc' = [pc EXCEPT !["prev"] = "none", !["ui"] = "clearPreview"]
    /\ UNCHANGED <<config, mPreviewWindow, flags, streaming, previewFrames,
                   captureQueu, memory, loc, crashed, counters, outdated>>

\* clearPreviewFrame, called by thread t on its way to label l.
clearPreviewFrame(t, l) ==
    /\ recycle_all(previewFrames)
    /\ previewFrames' = <<>>
    /\ Goto(t, l)
    /\ UNCHANGED <<config, mPreviewWindow, flags, streaming, captureQueu,
                   loc, crashed, counters, outdated>>

\* clearCaptureFrame, called by thread t on its way to label l.
clearCaptureFrame(t, l) ==
    /\ IF captureQueu = NULL THEN UNCHANGED memory ELSE recycle_frame(captureQueu)
    /\ Forget(captureQueu)
    /\ captureQueu' = NULL
    /\ Goto(t, l)
    /\ UNCHANGED <<config, mPreviewWindow, flags, streaming, previewFrames,
                   loc, crashed, counters>>

stopClearsPreview == At("ui", "clearPreview") /\ clearPreviewFrame("ui", "clearCapture")

stopClearsCapture == At("ui", "clearCapture") /\ clearCaptureFrame("ui", "release")

releaseWindow ==
    /\ At("ui", "release")
    /\ mPreviewWindow' = FALSE
    /\ Goto("ui", "idle")
    /\ UNCHANGED <<config, flags, streaming, previewFrames, captureQueu,
                   memory, loc, crashed, counters, outdated>>

-----------------------------------------------------------------------------
(* cb: uvc_preview_frame_callback.                                         *)

\* Mutant: the test of get_frame's result is dropped.
uvc_preview_frame_callback_unchecked ==
    /\ At("cb", "idle") /\ streaming /\ mIsRunning
    /\ \E f \in FrameOrNull :
          /\ get_frame(f)
          /\ loc' = [loc EXCEPT !["copy"] = f]
    /\ Goto("cb", "dup")
    /\ UNCHANGED <<config, mPreviewWindow, flags, streaming, previewFrames,
                   captureQueu, crashed, counters, outdated>>

\* A camera frame arrives while the preview runs and a copy is obtained;
\* the callback returns at once when get_frame yields NULL.
uvc_preview_frame_callback ==
    /\ At("cb", "idle") /\ streaming /\ mIsRunning
    /\ \E f \in FrameOrNull :
          /\ get_frame(f)
          /\ loc' = [loc EXCEPT !["copy"] = f]
          /\ Goto("cb", IF f = NULL THEN "idle" ELSE "dup")
    /\ UNCHANGED <<config, mPreviewWindow, flags, streaming, previewFrames,
                   captureQueu, crashed, counters, outdated>>

\* uvc_duplicate_frame succeeds or fails.
uvc_duplicate_frame ==
    /\ At("cb", "dup")
    /\ \E l \in {"add", "recycle"} : Goto("cb", l)
    /\ UNCHANGED <<config, mPreviewWindow, flags, streaming, previewFrames,
                   captureQueu, memory, loc, crashed, counters, outdated>>

\* Mutant: <= in place of <.
addPreviewFrame_offByOne ==
    /\ At("cb", "add")
    /\ IF mIsRunning /\ Len(previewFrames) <= MAX_FRAME
       THEN /\ previewFrames' = Append(previewFrames, loc["copy"])
            /\ loc' = [loc EXCEPT !["copy"] = NULL]
            /\ GotoAndSignal("cb", "idle", "prev")
       ELSE /\ Goto("cb", "recycle")
            /\ UNCHANGED <<previewFrames, loc>>
    /\ UNCHANGED <<config, mPreviewWindow, flags, streaming, captureQueu,
                   memory, crashed, counters, outdated>>

\* Mutant: the frame is put without a signal.
addPreviewFrame_silent ==
    /\ At("cb", "add")
    /\ IF mIsRunning /\ Len(previewFrames) < MAX_FRAME
       THEN /\ previewFrames' = Append(previewFrames, loc["copy"])
            /\ loc' = [loc EXCEPT !["copy"] = NULL]
            /\ Goto("cb", "idle")
       ELSE /\ Goto("cb", "recycle")
            /\ UNCHANGED <<previewFrames, loc>>
    /\ UNCHANGED <<config, mPreviewWindow, flags, streaming, captureQueu,
                   memory, crashed, counters, outdated>>

\* addPreviewFrame, under preview_mutex.
addPreviewFrame ==
    /\ At("cb", "add")
    /\ IF mIsRunning /\ Len(previewFrames) < MAX_FRAME
       THEN /\ previewFrames' = Append(previewFrames, loc["copy"])
            /\ loc' = [loc EXCEPT !["copy"] = NULL]
            /\ GotoAndSignal("cb", "idle", "prev")
       ELSE /\ Goto("cb", "recycle")
            /\ UNCHANGED <<previewFrames, loc>>
    /\ UNCHANGED <<config, mPreviewWindow, flags, streaming, captureQueu,
                   memory, crashed, counters, outdated>>

\* Thread t recycles the frame in slot s and continues at label l.
RecycleSlot(t, s, l) ==
    /\ recycle_frame(loc[s])
    /\ loc' = [loc EXCEPT ![s] = NULL]
    /\ Goto(t, l)
    /\ UNCHANGED <<config, mPreviewWindow, flags, streaming, previewFrames,
                   captureQueu, crashed>>

recycleCopy ==
    /\ At("cb", "recycle")
    /\ RecycleSlot("cb", "copy", "idle")
    /\ UNCHANGED <<counters, outdated>>

-----------------------------------------------------------------------------
(* prev: preview_thread_func and do_preview.                               *)

\* prepare_preview, uvc_stream_open_ctrl and uvc_stream_start_random; when
\* one of them fails the thread ends, and mIsRunning stays as it is.
prepare_preview ==
    /\ At("prev", "prepare")
    /\ \/ streaming' = TRUE /\ Goto("prev", "clear")
       \/ streaming' = FALSE /\ Goto("prev", "done")
    /\ UNCHANGED <<config, mPreviewWindow, flags, previewFrames, captureQueu,
                   memory, loc, crashed, counters, outdated>>

previewClears == At("prev", "clear") /\ clearPreviewFrame("prev", "create")

\* The result of pthread_create is ignored: the thread may not exist.
createCaptureThread ==
    /\ At("prev", "create")
    /\ \E c \in {"clear", "none"} :
          pc' = [pc EXCEPT !["prev"] = "loop", !["cap"] = c]
    /\ UNCHANGED <<config, mPreviewWindow, flags, streaming, previewFrames,
                   captureQueu, memory, loc, crashed, counters, outdated>>

\* for ( ; isRunning() ; ), read without a lock.
do_preview ==
    /\ At("prev", "loop")
    /\ Goto("prev", IF mIsRunning THEN "wait" ELSE "exit")
    /\ UNCHANGED <<config, mPreviewWindow, flags, streaming, previewFrames,
                   captureQueu, memory, loc, crashed, counters, outdated>>

\* Where do_preview goes with the result of waitPreviewFrame.
Dispatch(f) ==
    CASE test /\ (f # NULL \/ frameFormat # "MJPEG") -> "add"
      [] ~test /\ f # NULL /\ frameFormat = "MJPEG"  -> "decode"
      [] ~test /\ f # NULL /\ frameFormat # "MJPEG"  -> "draw"
      [] OTHER                                       -> "loop"

\* waitPreviewFrame up to pthread_cond_wait, whose condition is an if and
\* which does not look at mIsRunning.
waitPreviewFrame ==
    /\ At("prev", "wait") /\ previewFrames = <<>>
    /\ Goto("prev", "blocked")
    /\ UNCHANGED <<config, mPreviewWindow, flags, streaming, previewFrames,
                   captureQueu, memory, loc, crashed, counters, outdated>>

\* The rest of waitPreviewFrame: without waiting, or after being woken.
takePreviewFrame ==
    /\ \/ At("prev", "wait") /\ previewFrames # <<>>
       \/ At("prev", "woken")
    /\ IF mIsRunning /\ previewFrames # <<>>
       THEN /\ loc' = [loc EXCEPT !["raw"] = Head(previewFrames)]
            /\ previewFrames' = Tail(previewFrames)
            /\ Goto("prev", Dispatch(Head(previewFrames)))
       ELSE /\ Goto("prev", Dispatch(NULL))
            /\ UNCHANGED <<loc, previewFrames>>
    /\ UNCHANGED <<config, mPreviewWindow, flags, streaming, captureQueu,
                   memory, crashed, counters, outdated>>

\* frame = get_frame(...); uvc_mjpeg2yuyv(frame_mjpeg, frame).  A NULL frame
\* is dereferenced.
uvc_mjpeg2yuyv ==
    /\ At("prev", "decode")
    /\ \E f \in FrameOrNull :
          /\ get_frame(f)
          /\ loc' = [loc EXCEPT !["yuyv"] = f]
          /\ crashed' = (f = NULL)
    /\ \/ /\ Goto("prev", "draw")
          /\ UNCHANGED undecodable
       \/ /\ undecodable < MaxUndecodable
          /\ Goto("prev", "undecoded")
          /\ undecodable' = undecodable + 1
    /\ UNCHANGED <<config, mPreviewWindow, flags, streaming, previewFrames,
                   captureQueu, starts, stops, outdated>>

\* The failure branch recycles frame and drops frame_mjpeg.
dropUndecoded ==
    /\ At("prev", "undecoded")
    /\ recycle_frame(loc["yuyv"])
    /\ loc' = [loc EXCEPT !["yuyv"] = NULL, !["raw"] = NULL]
    /\ Goto("prev", "loop")
    /\ UNCHANGED <<config, mPreviewWindow, flags, streaming, previewFrames,
                   captureQueu, crashed, counters, outdated>>

\* Mutant: "if LIKELY(converted)" is dropped.
draw_preview_one_unchecked ==
    /\ At("prev", "draw")
    /\ \E f \in FrameOrNull :
          /\ get_frame(f)
          /\ loc' = [loc EXCEPT !["conv"] = f]
    /\ Goto("prev", "convert")
    /\ UNCHANGED <<config, mPreviewWindow, flags, streaming, previewFrames,
                   captureQueu, crashed, counters, outdated>>

\* draw_preview_one: obtain the RGBX frame (the window exists for as long as
\* the preview thread runs in stream mode) ...
draw_preview_one ==
    /\ At("prev", "draw")
    /\ \E f \in FrameOrNull :
          /\ get_frame(f)
          /\ loc' = [loc EXCEPT !["conv"] = f]
          /\ Goto("prev", IF f = NULL THEN "drawn" ELSE "convert")
    /\ UNCHANGED <<config, mPreviewWindow, flags, streaming, previewFrames,
                   captureQueu, crashed, counters, outdated>>

\* ... convert, copyToSurface if that worked, and recycle it.
recycleConverted ==
    /\ At("prev", "convert")
    /\ RecycleSlot("prev", "conv", "drawn")
    /\ UNCHANGED <<counters, outdated>>

recycleDrawn ==
    /\ At("prev", "drawn")
    /\ IF loc["yuyv"] = NULL
       THEN /\ Goto("prev", "keep")
            /\ UNCHANGED <<config, mPreviewWindow, flags, streaming,
                           previewFrames, captureQueu, crashed, memory, loc>>
       ELSE RecycleSlot("prev", "yuyv", "keep")
    /\ UNCHANGED <<counters, outdated>>

\* if (mIsCapturing) addCaptureFrame(...) else recycle_frame(...), the flag
\* being read without a lock.
storeWhenCapturing ==
    /\ At("prev", "keep") /\ mIsCapturing
    /\ Goto("prev", "add")
    /\ UNCHANGED <<config, mPreviewWindow, flags, streaming, previewFrames,
                   captureQueu, memory, loc, crashed, counters, outdated>>

\* Mutant: the branch for a frame nobody wants does nothing.
recycleRaw_dropped ==
    /\ At("prev", "keep") /\ ~mIsCapturing
    /\ loc' = [loc EXCEPT !["raw"] = NULL]
    /\ Goto("prev", "loop")
    /\ UNCHANGED <<config, mPreviewWindow, flags, streaming, previewFrames,
                   captureQueu, memory, crashed, counters, outdated>>

recycleRaw ==
    /\ At("prev", "keep") /\ ~mIsCapturing
    /\ RecycleSlot("prev", "raw", "loop")
    /\ outdated' = IF captureQueu = NULL THEN outdated ELSE captureQueu
    /\ UNCHANGED counters

\* Mutant: the frame is stored without a broadcast.
addCaptureFrame_silent ==
    /\ At("prev", "add")
    /\ IF mIsRunning
       THEN /\ IF captureQueu = NULL
               THEN UNCHANGED memory
               ELSE recycle_frame(captureQueu)
            /\ Forget(captureQueu)
            /\ captureQueu' = loc["raw"]
       ELSE UNCHANGED <<memory, captureQueu, outdated>>
    /\ Goto("prev", "loop")
    /\ loc' = [loc EXCEPT !["raw"] = NULL]
    /\ UNCHANGED <<config, mPreviewWindow, flags, streaming, previewFrames,
                   crashed, counters>>

\* addCaptureFrame, under capture_mutex.  When the preview is no longer
\* running the frame is neither stored nor recycled.
addCaptureFrame ==
    /\ At("prev", "add")
    /\ IF mIsRunning
       THEN /\ IF captureQueu = NULL
               THEN UNCHANGED memory
               ELSE recycle_frame(captureQueu)
            /\ Forget(captureQueu)
            /\ captureQueu' = loc["raw"]
            /\ GotoAndSignal("prev", "loop", "cap")
       ELSE /\ Goto("prev", "loop")
            /\ UNCHANGED <<memory, captureQueu, outdated>>
    /\ loc' = [loc EXCEPT !["raw"] = NULL]
    /\ UNCHANGED <<config, mPreviewWindow, flags, streaming, previewFrames,
                   crashed, counters>>

\* The loop has ended: capture_sync is signalled once more, without the mutex.
previewExit ==
    /\ At("prev", "exit")
    /\ GotoAndSignal("prev", "stopStream", "cap")
    /\ UNCHANGED <<config, mPreviewWindow, flags, streaming, previewFrames,
                   captureQueu, memory, loc, crashed, counters, outdated>>

\* uvc_stop_streaming waits for the user-callback thread; pthread_exit.
uvc_stop_streaming ==
    /\ At("prev", "stopStream")
    /\ pc["cb"] = "idle"
    /\ streaming' = FALSE
    /\ Goto("prev", "done")
    /\ UNCHANGED <<config, mPreviewWindow, flags, previewFrames, captureQueu,
                   memory, loc, crashed, counters, outdated>>

-----------------------------------------------------------------------------
(* cap: capture_thread_func, do_capture and do_capture_idle_loop.          *)

captureClears == At("cap", "clear") /\ clearCaptureFrame("cap", "loop")

\* The two nested loops over isRunning() and isCapturing(); with mIsCapturing
\* off they spin without effect until one of the flags changes.
do_capture ==
    /\ At("cap", "loop")
    /\ \/ mIsRunning /\ mIsCapturing /\ Goto("cap", "wait")
       \/ ~mIsRunning /\ Goto("cap", "done")
    /\ UNCHANGED <<config, mPreviewWindow, flags, streaming, previewFrames,
                   captureQueu, memory, loc, crashed, counters, outdated>>

waitCaptureFrame ==
    /\ At("cap", "wait") /\ captureQueu = NULL
    /\ Goto("cap", "blocked")
    /\ UNCHANGED <<config, mPreviewWindow, flags, streaming, previewFrames,
                   captureQueu, memory, loc, crashed, counters, outdated>>

\* Mutant: captureQueu is not reset when its frame is taken.
takeCaptureFrame_kept ==
    /\ \/ At("cap", "wait") /\ captureQueu # NULL
       \/ At("cap", "woken")
    /\ IF mIsRunning /\ captureQueu # NULL
       THEN /\ loc' = [loc EXCEPT !["taken"] = captureQueu]
            /\ Goto("cap", "callback")
       ELSE /\ Goto("cap", "flags")
            /\ UNCHANGED loc
    /\ UNCHANGED <<config, mPreviewWindow, flags, streaming, previewFrames,
                   captureQueu, memory, crashed, counters, outdated>>

takeCaptureFrame ==
    /\ \/ At("cap", "wait") /\ captureQueu # NULL
       \/ At("cap", "woken")
    /\ IF mIsRunning /\ captureQueu # NULL
       THEN /\ loc' = [loc EXCEPT !["taken"] = captureQueu]
            /\ captureQueu' = NULL
            /\ Goto("cap", "callback")
       ELSE /\ Goto("cap", "flags")
            /\ UNCHANGED <<loc, captureQueu>>
    /\ UNCHANGED <<config, mPreviewWindow, flags, streaming, previewFrames,
                   memory, crashed, counters, outdated>>

\* do_capture_callback: onFrame is called with the frame itself, or, when
\* the pixel format has a conversion (NV21), with a converted copy.
do_capture_callback ==
    /\ At("cap", "callback")
    /\ IF frameFormat = "NV21"
       THEN \E f \in FrameOrNull :
               /\ get_frame(f)
               /\ loc' = [loc EXCEPT !["out"] = f]
               /\ Goto("cap", IF f = NULL THEN "recycle" ELSE "converted")
       ELSE Goto("cap", "recycle") /\ UNCHANGED <<memory, loc>>
    /\ UNCHANGED <<config, mPreviewWindow, flags, streaming, previewFrames,
                   captureQueu, crashed, counters, outdated>>

\* The source frame is recycled whether or not the conversion worked.
recycleSource ==
    /\ At("cap", "converted")
    /\ RecycleSlot("cap", "taken", "recycleOut")
    /\ Forget(loc["taken"])
    /\ UNCHANGED counters

recycleOut ==
    /\ At("cap", "recycleOut")
    /\ RecycleSlot("cap", "out", "flags")
    /\ UNCHANGED <<counters, outdated>>

recycleTaken ==
    /\ At("cap", "recycle")
    /\ RecycleSlot("cap", "taken", "flags")
    /\ Forget(loc["taken"])
    /\ UNCHANGED counters

\* if (mPictureCapturing) { mPictureCapturing = false; mIsCapturing = false; }
pictureDone ==
    /\ At("cap", "flags")
    /\ mPictureCapturing' = FALSE
    /\ Goto("cap", IF mPictureCapturing THEN "uncapture" ELSE "loop")
    /\ UNCHANGED <<config, mPreviewWindow, mIsRunning, mIsCapturing,
                   mMovieCapturing, streaming, previewFrames, captureQueu,
                   memory, loc, crashed, counters, outdated>>

stopCapturing ==
    /\ At("cap", "uncapture")
    /\ mIsCapturing' = FALSE
    /\ Goto("cap", "loop")
    /\ UNCHANGED <<config, mPreviewWindow, mIsRunning, mPictureCapturing,
                   mMovieCapturing, streaming, previewFrames, captureQueu,
                   memory, loc, crashed, counters, outdated>>

\* pthread_cond_wait may return without a signal.
spuriousWakeup(t) ==
    /\ At(t, "blocked")
    /\ Goto(t, "woken")
    /\ UNCHANGED <<config, mPreviewWindow, flags, streaming, previewFrames,
                   captureQueu, memory, loc, crashed, counters, outdated>>

-----------------------------------------------------------------------------
Ui ==
    \/ startPreview \/ createPreviewThread \/ startFails \/ enable_mIsCapturing
    \/ capture_picture \/ capture_picture_flag
    \/ capture_movie \/ exit_capture_movie
    \/ stopPreview \/ signalPreviewSync \/ signalCaptureSync
    \/ joinCaptureThread \/ joinNoCaptureThread \/ joinPreviewThread
    \/ stopClearsPreview \/ stopClearsCapture \/ releaseWindow

Cb ==
    \/ uvc_preview_frame_callback \/ uvc_duplicate_frame
    \/ addPreviewFrame \/ recycleCopy

Prev ==
    \/ prepare_preview \/ previewClears \/ createCaptureThread \/ do_preview
    \/ waitPreviewFrame \/ takePreviewFrame \/ uvc_mjpeg2yuyv \/ dropUndecoded
    \/ draw_preview_one \/ recycleConverted \/ recycleDrawn
    \/ storeWhenCapturing \/ recycleRaw \/ addCaptureFrame
    \/ previewExit \/ uvc_stop_streaming

Cap ==
    \/ captureClears \/ do_capture \/ waitCaptureFrame \/ takeCaptureFrame
    \/ do_capture_callback \/ recycleSource \/ recycleOut \/ recycleTaken
    \/ pictureDone \/ stopCapturing

Next == Ui \/ Cb \/ Prev \/ Cap \/ \E t \in {"prev", "cap"} : spuriousWakeup(t)

Spec == Init /\ [][Next]_vars

-----------------------------------------------------------------------------
(* Who owns a frame.                                                       *)

Held == {loc[s] : s \in Slots} \ {NULL}
Queued == {previewFrames[i] : i \in DOMAIN previewFrames}
Stored == {captureQueu} \ {NULL}
Owned == Held \cup Queued \cup Stored \cup mFramePool
Leaked == allocated \ Owned

\* Every variable has its type.
TypeOK ==
    /\ test \in BOOLEAN
    /\ frameFormat \in Formats
    /\ mPreviewWindow \in BOOLEAN
    /\ mIsRunning \in BOOLEAN
    /\ mIsCapturing \in BOOLEAN
    /\ mPictureCapturing \in BOOLEAN
    /\ mMovieCapturing \in BOOLEAN
    /\ streaming \in BOOLEAN
    /\ previewFrames \in Seq(Frames)
    /\ captureQueu \in FrameOrNull
    /\ mFramePool \subseteq Frames
    /\ allocated \subseteq Frames
    /\ loc \in [Slots -> FrameOrNull]
    /\ pc \in [Threads -> AllLabels]
    /\ pc["ui"] \in UiLabels
    /\ pc["cb"] \in CbLabels
    /\ pc["prev"] \in PrevLabels
    /\ pc["cap"] \in CapLabels
    /\ crashed \in BOOLEAN
    /\ starts \in 0 .. MaxStarts
    /\ undecodable \in 0 .. MaxUndecodable
    /\ stops \in Nat
    /\ outdated \in FrameOrNull

\* No frame has two owners and none is used after it was freed: the pool, the
\* preview queue, captureQueu and the threads' local variables are disjoint
\* and hold allocated frames only (get_frame, recycle_frame and every
\* hand-over between the callback, preview and capture threads).
FrameOwnership ==
    /\ Owned \subseteq allocated
    /\ mFramePool \cap (Held \cup Queued \cup Stored) = {}
    /\ Held \cap (Queued \cup Stored) = {}
    /\ Queued \cap Stored = {}
    /\ \A r, s \in Slots : loc[r] = loc[s] /\ loc[r] # NULL => r = s
    /\ \A i, j \in DOMAIN previewFrames :
          previewFrames[i] = previewFrames[j] => i = j

\* A thread that is about to give a frame away has one: the code between
\* get_frame or a dequeue and the matching recycle or hand-over never runs on
\* a null pointer (only do_preview's decode does, and then the process dies).
SlotsFilled ==
    /\ pc["cb"] \in {"dup", "add", "recycle"} => loc["copy"] # NULL
    /\ pc["prev"] \in {"decode", "undecoded", "draw", "convert", "drawn", "keep"}
          => loc["raw"] # NULL
    /\ pc["prev"] = "undecoded" /\ ~crashed => loc["yuyv"] # NULL
    /\ pc["prev"] = "convert" => loc["conv"] # NULL
    /\ pc["cap"] \in {"callback", "converted", "recycle"} => loc["taken"] # NULL
    /\ pc["cap"] \in {"converted", "recycleOut"} => loc["out"] # NULL

\* The memory the pipeline keeps is bounded: the preview queue and the pool
\* never outgrow MAX_FRAME and FRAME_POOL_SZ (addPreviewFrame, recycle_frame
\* and the two clear functions).
QueueBounds ==
    /\ Len(previewFrames) <= MAX_FRAME
    /\ Cardinality(mFramePool) <= FRAME_POOL_SZ

\* A frame is lost to all owners at most once per stopPreview (the frame
\* addCaptureFrame is handed after mIsRunning went false) and once per MJPEG
\* frame that does not decode (the branch of do_preview that recycles frame
\* but not frame_mjpeg); no other interleaving loses one.
LeakBound == Cardinality(Leaked) <= stops + undecodable

\* When stopPreview has returned nothing of the session is left: the stream
\* is closed, the preview thread is gone, the callback is idle and neither
\* queue holds a frame that a restart could show.
QuietAfterStop ==
    pc["ui"] = "idle" /\ ~mIsRunning =>
        /\ pc["prev"] = "none" /\ pc["cb"] = "idle" /\ ~streaming
        /\ previewFrames = <<>> /\ captureQueu = NULL

-----------------------------------------------------------------------------
(* Liveness.  The kernel schedules every thread (weak fairness); a Java    *)
(* thread inside a JNI call goes on; the camera keeps sending frames, and  *)
(* some of them find memory and are copied (strong fairness).  Nothing is  *)
(* assumed about requests or spurious wakeups.                             *)

InCall == pc["ui"] # "idle"

Fairness ==
    /\ WF_vars(Ui /\ InCall)
    /\ WF_vars(Cb)
    /\ SF_vars(uvc_preview_frame_callback /\ pc'["cb"] = "dup")
    /\ SF_vars(uvc_duplicate_frame /\ pc'["cb"] = "add")
    /\ WF_vars(Prev)
    /\ WF_vars(Cap)

FairSpec == Spec /\ Fairness

\* Every frame put on the preview queue is consumed by the preview thread
\* while the preview runs: no wakeup of waitPreviewFrame is lost between
\* addPreviewFrame's signal and the wait.
QueueDrains ==
    \A f \in Frames : f \in Queued ~> f \notin Queued \/ ~mIsRunning \/ crashed

\* A picture request that is pending while the capture thread has yet to
\* take a frame is answered by a frame: onFrame is called, unless
\* waitCaptureFrame returns without a frame (a spurious wakeup: it does not
\* test again, and do_capture_idle_loop then takes the request for done) or
\* the preview ends.  A request made while the thread is past its frame is
\* no part of this: do_capture_idle_loop clears both flags without looking
\* at whose they are.
PictureServed ==
    (/\ mPictureCapturing /\ mIsCapturing /\ streaming
     /\ pc["cap"] \in {"clear", "loop", "wait", "blocked", "woken"})
        ~> (\/ pc["cap"] = "callback"
            \/ pc["cap"] = "woken" /\ captureQueu = NULL
            \/ ~mIsRunning \/ crashed)

\* capture_thread_func says of do_capture "never return until finish
\* previewing": once the preview has been told to finish, it does return, so
\* that stopPreview can join the thread.
CaptureThreadEnds ==
    (~mIsRunning /\ pc["cap"] # "none") ~> (pc["cap"] \in {"none", "done"} \/ crashed)

\* captureQueu is declared to "keep latest frame": onFrame is never called
\* with a frame that stayed in captureQueu while newer camera frames were
\* drawn and recycled.
NoOutdatedDelivered ==
    pc["cap"] = "callback" => loc["taken"] # outdated
=============================================================================
