---------------------- MODULE UVCPreviewBounds_proofs -----------------------
(***************************************************************************)
(* The memory the preview pipeline keeps and the memory it loses are       *)
(* bounded, and nothing is left running or queued after a stop, for every  *)
(* MAX_FRAME and FRAME_POOL_SZ.                                            *)
(***************************************************************************)
EXTENDS UVCPreview_proofs, FiniteSetTheorems

\* QueueBounds, with the finiteness Cardinality needs.
BoundsInv ==
    /\ Len(previewFrames) <= MAX_FRAME
    /\ IsFiniteSet(mFramePool)
    /\ Cardinality(mFramePool) <= FRAME_POOL_SZ

\* What a step may do to the pool.
PoolStep ==
    \/ UNCHANGED mFramePool
    \/ \E f \in FrameOrNull : get_frame(f)
    \/ \E f \in FrameOrNull : recycle_frame(f)
    \/ recycle_all(previewFrames)

\* What a step may do to the preview queue.
QueueStep ==
    \/ UNCHANGED previewFrames
    \/ previewFrames' = <<>>
    \/ previewFrames # <<>> /\ previewFrames' = Tail(previewFrames)
    \/ Len(previewFrames) < MAX_FRAME
       /\ \E f \in FrameOrNull : previewFrames' = Append(previewFrames, f)

-----------------------------------------------------------------------------
(* Cardinality of the pool under the pool operations.                      *)

\* get_frame does not enlarge the pool.
LEMMA GetFrameBound ==
  ASSUME NEW f, get_frame(f), IsFiniteSet(mFramePool),
         Cardinality(mFramePool) <= FRAME_POOL_SZ
  PROVE  IsFiniteSet(mFramePool)' /\ (Cardinality(mFramePool) <= FRAME_POOL_SZ)'
<1>1. mFramePool' \in SUBSET mFramePool
  BY DEF get_frame, memory
<1>2. IsFiniteSet(mFramePool') /\ Cardinality(mFramePool') <= Cardinality(mFramePool)
  BY <1>1, FS_Subset
<1>3. Cardinality(mFramePool) \in Nat /\ Cardinality(mFramePool') \in Nat
  BY <1>2, FS_CardinalityType
<1>4. QED
  BY <1>2, <1>3, SizeAssumption

\* recycle_frame adds to the pool only below its limit.
LEMMA RecycleBound ==
  ASSUME NEW f, recycle_frame(f), IsFiniteSet(mFramePool),
         Cardinality(mFramePool) <= FRAME_POOL_SZ
  PROVE  IsFiniteSet(mFramePool)' /\ (Cardinality(mFramePool) <= FRAME_POOL_SZ)'
<1>1. Cardinality(mFramePool) \in Nat
  BY FS_CardinalityType
<1>2. /\ IsFiniteSet(mFramePool \cup {f})
      /\ Cardinality(mFramePool \cup {f}) <= Cardinality(mFramePool) + 1
      /\ Cardinality(mFramePool \cup {f}) \in Nat
  BY <1>1, FS_AddElement, FS_CardinalityType
<1>3. QED
  BY <1>1, <1>2, SizeAssumption DEF recycle_frame

\* clearPreviewFrame fills the pool up to its limit and frees the rest.
LEMMA RecycleAllBound ==
  ASSUME MemType, recycle_all(previewFrames), IsFiniteSet(mFramePool),
         Cardinality(mFramePool) <= FRAME_POOL_SZ
  PROVE  IsFiniteSet(mFramePool)' /\ (Cardinality(mFramePool) <= FRAME_POOL_SZ)'
<1> DEFINE room == FRAME_POOL_SZ - Cardinality(mFramePool)
           fits == {j \in DOMAIN previewFrames : j <= room}
           In == {previewFrames[i] : i \in fits}
           g == [i \in fits |-> previewFrames[i]]
<1>1. mFramePool' = mFramePool \cup In
  BY DEF recycle_all
<1>2. Cardinality(mFramePool) \in Nat /\ room \in Nat
  BY FS_CardinalityType, SizeAssumption
<1>3. DOMAIN previewFrames = 1 .. Len(previewFrames) /\ Len(previewFrames) \in Nat
  BY DEF MemType
<1>4. IsFiniteSet(1 .. room) /\ Cardinality(1 .. room) = room
  BY <1>2, FS_Interval
<1>5. fits \in SUBSET (1 .. room)
  BY <1>2, <1>3
<1>6. IsFiniteSet(fits) /\ Cardinality(fits) <= room /\ Cardinality(fits) \in Nat
  BY <1>4, <1>5, FS_Subset, FS_CardinalityType
<1>7. g \in Surjection(fits, In)
  BY DEF Surjection
<1>8. IsFiniteSet(In) /\ Cardinality(In) <= Cardinality(fits)
  BY <1>6, <1>7, FS_Surjection
<1>9. Cardinality(In) \in Nat
  BY <1>8, FS_CardinalityType
<1>10. /\ IsFiniteSet(mFramePool \cup In)
       /\ Cardinality(mFramePool \cup In) =
             Cardinality(mFramePool) + Cardinality(In) - Cardinality(mFramePool \cap In)
  BY <1>8, FS_Union
<1>11. Cardinality(mFramePool \cap In) \in Nat
  BY <1>8, FS_Intersection, FS_CardinalityType
<1> HIDE DEF In, fits, g
<1>12. Cardinality(mFramePool \cup In) <= FRAME_POOL_SZ
  BY <1>2, <1>6, <1>8, <1>9, <1>10, <1>11, SizeAssumption
<1>13. QED
  BY <1>1, <1>10, <1>12

-----------------------------------------------------------------------------
(* Every step of every thread is a PoolStep and a QueueStep.               *)

\* A step of the Java thread changes the pool and the queue only in these ways.
LEMMA UiBounds ==
  ASSUME MemType, Ui
  PROVE  PoolStep /\ QueueStep
<1> USE DEF PoolStep, QueueStep, memory
<1>0. captureQueu \in FrameOrNull /\ \A s \in Slots : loc[s] \in FrameOrNull
  BY DEF MemType
<1>1. CASE startPreview
  BY <1>0, <1>1 DEF startPreview
<1>2. CASE createPreviewThread
  BY <1>0, <1>2 DEF createPreviewThread
<1>3. CASE startFails
  BY <1>0, <1>3 DEF startFails
<1>4. CASE enable_mIsCapturing
  BY <1>0, <1>4 DEF enable_mIsCapturing
<1>5. CASE capture_picture
  BY <1>0, <1>5 DEF capture_picture
<1>6. CASE capture_picture_flag
  BY <1>0, <1>6 DEF capture_picture_flag
<1>7. CASE capture_movie
  BY <1>0, <1>7 DEF capture_movie
<1>8. CASE exit_capture_movie
  BY <1>0, <1>8 DEF exit_capture_movie
<1>9. CASE stopPreview
  BY <1>0, <1>9 DEF stopPreview
<1>10. CASE signalPreviewSync
  BY <1>0, <1>10 DEF signalPreviewSync
<1>11. CASE signalCaptureSync
  BY <1>0, <1>11 DEF signalCaptureSync
<1>12. CASE joinCaptureThread
  BY <1>0, <1>12 DEF joinCaptureThread
<1>13. CASE joinNoCaptureThread
  BY <1>0, <1>13 DEF joinNoCaptureThread
<1>14. CASE joinPreviewThread
  BY <1>0, <1>14 DEF joinPreviewThread
<1>15. CASE stopClearsPreview
  BY <1>0, <1>15 DEF stopClearsPreview, clearPreviewFrame
<1>16. CASE stopClearsCapture
  BY <1>0, <1>16 DEF stopClearsCapture, clearCaptureFrame
<1>17. CASE releaseWindow
  BY <1>0, <1>17 DEF releaseWindow
<1>18. QED
  BY <1>1, <1>2, <1>3, <1>4, <1>5, <1>6, <1>7, <1>8, <1>9, <1>10, <1>11, <1>12,
     <1>13, <1>14, <1>15, <1>16, <1>17 DEF Ui

\* A step of the callback thread changes the pool and the queue only in these ways.
LEMMA CbBounds ==
  ASSUME MemType, Cb
  PROVE  PoolStep /\ QueueStep
<1> USE DEF PoolStep, QueueStep, memory
<1>0. captureQueu \in FrameOrNull /\ \A s \in Slots : loc[s] \in FrameOrNull
  BY DEF MemType
<1>1. CASE uvc_preview_frame_callback
  BY <1>0, <1>1 DEF uvc_preview_frame_callback
<1>2. CASE uvc_duplicate_frame
  BY <1>0, <1>2 DEF uvc_duplicate_frame
<1>3. CASE addPreviewFrame
  BY <1>0, <1>3 DEF addPreviewFrame, Slots
<1>4. CASE recycleCopy
  BY <1>0, <1>4 DEF recycleCopy, RecycleSlot, Slots
<1>5. QED
  BY <1>1, <1>2, <1>3, <1>4 DEF Cb

\* A step of the preview thread changes the pool and the queue only in these ways.
LEMMA PrevBounds ==
  ASSUME MemType, Prev
  PROVE  PoolStep /\ QueueStep
<1> USE DEF PoolStep, QueueStep, memory
<1>0. captureQueu \in FrameOrNull /\ \A s \in Slots : loc[s] \in FrameOrNull
  BY DEF MemType
<1>1. CASE prepare_preview
  BY <1>0, <1>1 DEF prepare_preview
<1>2. CASE previewClears
  BY <1>0, <1>2 DEF previewClears, clearPreviewFrame
<1>3. CASE createCaptureThread
  BY <1>0, <1>3 DEF createCaptureThread
<1>4. CASE do_preview
  BY <1>0, <1>4 DEF do_preview
<1>5. CASE waitPreviewFrame
  BY <1>0, <1>5 DEF waitPreviewFrame
<1>6. CASE takePreviewFrame
  BY <1>0, <1>6 DEF takePreviewFrame
<1>7. CASE uvc_mjpeg2yuyv
  BY <1>0, <1>7 DEF uvc_mjpeg2yuyv
<1>8. CASE dropUndecoded
  BY <1>0, <1>8 DEF dropUndecoded, Slots
<1>9. CASE draw_preview_one
  BY <1>0, <1>9 DEF draw_preview_one
<1>10. CASE recycleConverted
  BY <1>0, <1>10 DEF recycleConverted, RecycleSlot, Slots
<1>11. CASE recycleDrawn
  BY <1>0, <1>11 DEF recycleDrawn, RecycleSlot, Slots
<1>12. CASE storeWhenCapturing
  BY <1>0, <1>12 DEF storeWhenCapturing
<1>13. CASE recycleRaw
  BY <1>0, <1>13 DEF recycleRaw, RecycleSlot, Slots
<1>14. CASE addCaptureFrame
  BY <1>0, <1>14 DEF addCaptureFrame, Slots
<1>15. CASE previewExit
  BY <1>0, <1>15 DEF previewExit
<1>16. CASE uvc_stop_streaming
  BY <1>0, <1>16 DEF uvc_stop_streaming
<1>17. QED
  BY <1>1, <1>2, <1>3, <1>4, <1>5, <1>6, <1>7, <1>8, <1>9, <1>10, <1>11, <1>12,
     <1>13, <1>14, <1>15, <1>16 DEF Prev

\* A step of the capture thread changes the pool and the queue only in these ways.
LEMMA CapBounds ==
  ASSUME MemType, Cap
  PROVE  PoolStep /\ QueueStep
<1> USE DEF PoolStep, QueueStep, memory
<1>0. captureQueu \in FrameOrNull /\ \A s \in Slots : loc[s] \in FrameOrNull
  BY DEF MemType
<1>1. CASE captureClears
  BY <1>0, <1>1 DEF captureClears, clearCaptureFrame
<1>2. CASE do_capture
  BY <1>0, <1>2 DEF do_capture
<1>3. CASE waitCaptureFrame
  BY <1>0, <1>3 DEF waitCaptureFrame
<1>4. CASE takeCaptureFrame
  BY <1>0, <1>4 DEF takeCaptureFrame
<1>5. CASE do_capture_callback
  BY <1>0, <1>5 DEF do_capture_callback
<1>6. CASE recycleSource
  BY <1>0, <1>6 DEF recycleSource, RecycleSlot, Forget, Slots
<1>7. CASE recycleOut
  BY <1>0, <1>7 DEF recycleOut, RecycleSlot, Slots
<1>8. CASE recycleTaken
  BY <1>0, <1>8 DEF recycleTaken, RecycleSlot, Forget, Slots
<1>9. CASE pictureDone
  BY <1>0, <1>9 DEF pictureDone
<1>10. CASE stopCapturing
  BY <1>0, <1>10 DEF stopCapturing
<1>11. QED
  BY <1>1, <1>2, <1>3, <1>4, <1>5, <1>6, <1>7, <1>8, <1>9, <1>10 DEF Cap

-----------------------------------------------------------------------------
\* The bounds are inductive.
LEMMA NextBounds == IInv /\ BoundsInv /\ [Next]_vars => BoundsInv'
<1> SUFFICES ASSUME IInv, BoundsInv, [Next]_vars PROVE BoundsInv'
  OBVIOUS
<1>0. MemType
  BY DEF IInv
<1>1. PoolStep /\ QueueStep
  <2>1. CASE \E t \in {"prev", "cap"} : spuriousWakeup(t)
    BY <2>1 DEF spuriousWakeup, memory, PoolStep, QueueStep
  <2>2. CASE UNCHANGED vars
    BY <2>2 DEF vars, memory, PoolStep, QueueStep
  <2>3. QED
    BY <1>0, <2>1, <2>2, UiBounds, CbBounds, PrevBounds, CapBounds DEF Next
<1>2. IsFiniteSet(mFramePool)' /\ (Cardinality(mFramePool) <= FRAME_POOL_SZ)'
  <2>1. CASE UNCHANGED mFramePool
    BY <2>1 DEF BoundsInv
  <2>2. CASE \E f \in FrameOrNull : get_frame(f)
    BY <2>2, GetFrameBound DEF BoundsInv
  <2>3. CASE \E f \in FrameOrNull : recycle_frame(f)
    BY <2>3, RecycleBound DEF BoundsInv
  <2>4. CASE recycle_all(previewFrames)
    BY <1>0, <2>4, RecycleAllBound DEF BoundsInv
  <2>5. QED
    BY <1>1, <2>1, <2>2, <2>3, <2>4 DEF PoolStep
<1>3. Len(previewFrames') <= MAX_FRAME
  <2>0. /\ previewFrames \in Seq(Frames) /\ Len(previewFrames) \in Nat
        /\ MAX_FRAME \in Nat /\ Len(previewFrames) <= MAX_FRAME
    BY <1>0, SizeAssumption DEF MemType, BoundsInv
  <2>1. CASE UNCHANGED previewFrames
    BY <2>0, <2>1
  <2>2. CASE previewFrames' = <<>>
    BY <2>0, <2>2
  <2>3. CASE previewFrames # <<>> /\ previewFrames' = Tail(previewFrames)
    BY <2>0, <2>3
  <2>4. ASSUME Len(previewFrames) < MAX_FRAME, NEW f \in FrameOrNull,
               previewFrames' = Append(previewFrames, f)
        PROVE  Len(previewFrames') <= MAX_FRAME
    <3>1. previewFrames \in Seq(FrameOrNull)
      BY <2>0 DEF FrameOrNull
    <3>2. QED
      BY <2>0, <2>4, <3>1
  <2>5. QED
    BY <1>1, <2>1, <2>2, <2>3, <2>4 DEF QueueStep
<1>4. QED
  BY <1>2, <1>3 DEF BoundsInv

\* previewFrames and mFramePool never outgrow MAX_FRAME and FRAME_POOL_SZ,
\* for every value of the two sizes and every interleaving.
THEOREM BoundsHold == Spec => []QueueBounds
<1>1. Init => BoundsInv
  BY FS_EmptySet, SizeAssumption DEF Init, BoundsInv
<1>2. BoundsInv => QueueBounds
  BY DEF BoundsInv, QueueBounds
<1>3. QED
  BY <1>1, <1>2, Invariance, NextBounds, PTL DEF Spec
-----------------------------------------------------------------------------
(* The protocol of start and stop: which thread may be where.              *)

\* No session is under way: the preview is being started, or what it left is
\* being cleared, or stopPreview has returned.
Resting ==
    \/ pc["ui"] \in {"starting", "clearPreview", "clearCapture", "release"}
    \/ pc["ui"] \in {"idle", "picture"} /\ ~mIsRunning

\* stopPreview goes on only with the flag down; a resting pipeline has no
\* preview thread; the stream is open only while there is one, and the
\* callback runs only while it is open; from the two clears on the queues
\* stay empty; a capture thread outlives no start.
StopInv ==
    /\ pc["ui"] \in {"signalPreview", "signalCapture", "joinCapture",
                     "joinPreview", "clearPreview", "clearCapture", "release"}
          => ~mIsRunning
    /\ pc["ui"] \in {"starting", "enable"} => mIsRunning
    /\ Resting => pc["prev"] = "none"
    /\ pc["prev"] \in {"none", "prepare", "done"} => ~streaming
    /\ ~streaming => pc["cb"] = "idle"
    /\ Resting /\ pc["ui"] # "clearPreview" => previewFrames = <<>>
    /\ Resting /\ pc["ui"] \notin {"clearPreview", "clearCapture"} => captureQueu = NULL
    /\ pc["ui"] = "starting" \/ pc["prev"] \in {"prepare", "clear", "create"}
          => pc["cap"] \in {"none", "done"}

\* The converse of SlotsFilled: a local variable about to be assigned holds
\* no frame that the assignment would lose.
EmptyInv ==
    /\ pc["cb"] = "idle" => loc["copy"] = NULL
    /\ pc["prev"] \notin {"decode", "undecoded", "draw", "convert", "drawn",
                          "keep", "add"} => loc["raw"] = NULL
    /\ pc["prev"] \notin {"undecoded", "draw", "convert", "drawn"} => loc["yuyv"] = NULL
    /\ pc["prev"] # "convert" => loc["conv"] = NULL
    /\ pc["cap"] \notin {"callback", "converted", "recycle"} => loc["taken"] = NULL
    /\ pc["cap"] \notin {"converted", "recycleOut"} => loc["out"] = NULL

\* The frames a step may still lose: the raw frame of a decoding that failed,
\* and the one the preview thread holds when the preview has been stopped.
Due ==
    (IF pc["prev"] = "undecoded" THEN 1 ELSE 0)
    + (IF ~mIsRunning /\ loc["raw"] # NULL THEN 1 ELSE 0)

\* LeakBound, with what is due and the finiteness Cardinality needs.
LeakInv ==
    /\ IsFiniteSet(Leaked)
    /\ Cardinality(Leaked) + Due <= stops + undecodable

\* A step of the Java thread keeps the protocol of start and stop.
LEMMA UiStops ==
  ASSUME IInv, StopInv, EmptyInv, Ui
  PROVE  StopInv' /\ EmptyInv'
<1> USE DEF At, Goto, GotoAndSignal, flags, Resting
<1>0. pc \in [Threads -> AllLabels] /\ loc \in [Slots -> FrameOrNull]
  BY DEF IInv, MemType, CtlType
<1>1. CASE startPreview
  <2>1. StopInv'
    BY <1>0, <1>1 DEF startPreview, StopInv, Threads, Slots
  <2>2. EmptyInv'
    BY <1>0, <1>1 DEF startPreview, StopInv, EmptyInv, Threads, Slots
  <2>3. QED
    BY <2>1, <2>2
<1>2. CASE createPreviewThread
  <2>1. StopInv'
    BY <1>0, <1>2 DEF createPreviewThread, StopInv, Threads, Slots
  <2>2. EmptyInv'
    BY <1>0, <1>2 DEF createPreviewThread, StopInv, EmptyInv, Threads, Slots
  <2>3. QED
    BY <2>1, <2>2
<1>3. CASE startFails
  <2>1. StopInv'
    BY <1>0, <1>3 DEF startFails, StopInv, Threads, Slots
  <2>2. EmptyInv'
    BY <1>0, <1>3 DEF startFails, StopInv, EmptyInv, Threads, Slots
  <2>3. QED
    BY <2>1, <2>2
<1>4. CASE enable_mIsCapturing
  <2>1. StopInv'
    BY <1>0, <1>4 DEF enable_mIsCapturing, StopInv, Threads, Slots
  <2>2. EmptyInv'
    BY <1>0, <1>4 DEF enable_mIsCapturing, StopInv, EmptyInv, Threads, Slots
  <2>3. QED
    BY <2>1, <2>2
<1>5. CASE capture_picture
  <2>1. StopInv'
    BY <1>0, <1>5 DEF capture_picture, StopInv, Threads, Slots
  <2>2. EmptyInv'
    BY <1>0, <1>5 DEF capture_picture, StopInv, EmptyInv, Threads, Slots
  <2>3. QED
    BY <2>1, <2>2
<1>6. CASE capture_picture_flag
  <2>1. StopInv'
    BY <1>0, <1>6 DEF capture_picture_flag, StopInv, Threads, Slots
  <2>2. EmptyInv'
    BY <1>0, <1>6 DEF capture_picture_flag, StopInv, EmptyInv, Threads, Slots
  <2>3. QED
    BY <2>1, <2>2
<1>7. CASE capture_movie
  <2>1. StopInv'
    BY <1>0, <1>7 DEF capture_movie, StopInv, Threads, Slots
  <2>2. EmptyInv'
    BY <1>0, <1>7 DEF capture_movie, StopInv, EmptyInv, Threads, Slots
  <2>3. QED
    BY <2>1, <2>2
<1>8. CASE exit_capture_movie
  <2>1. StopInv'
    BY <1>0, <1>8 DEF exit_capture_movie, StopInv, Threads, Slots
  <2>2. EmptyInv'
    BY <1>0, <1>8 DEF exit_capture_movie, StopInv, EmptyInv, Threads, Slots
  <2>3. QED
    BY <2>1, <2>2
<1>9. CASE stopPreview
  <2>1. StopInv'
    BY <1>0, <1>9 DEF stopPreview, StopInv, Threads, Slots
  <2>2. EmptyInv'
    BY <1>0, <1>9 DEF stopPreview, StopInv, EmptyInv, Threads, Slots
  <2>3. QED
    BY <2>1, <2>2
<1>10. CASE signalPreviewSync
  <2>1. StopInv'
    BY <1>0, <1>10 DEF signalPreviewSync, StopInv, Threads, Slots
  <2>2. EmptyInv'
    BY <1>0, <1>10 DEF signalPreviewSync, StopInv, EmptyInv, Threads, Slots
  <2>3. QED
    BY <2>1, <2>2
<1>11. CASE signalCaptureSync
  <2>1. StopInv'
    BY <1>0, <1>11 DEF signalCaptureSync, StopInv, Threads, Slots
  <2>2. EmptyInv'
    BY <1>0, <1>11 DEF signalCaptureSync, StopInv, EmptyInv, Threads, Slots
  <2>3. QED
    BY <2>1, <2>2
<1>12. CASE joinCaptureThread
  <2>1. StopInv'
    BY <1>0, <1>12 DEF joinCaptureThread, StopInv, Threads, Slots
  <2>2. EmptyInv'
    BY <1>0, <1>12 DEF joinCaptureThread, StopInv, EmptyInv, Threads, Slots
  <2>3. QED
    BY <2>1, <2>2
<1>13. CASE joinNoCaptureThread
  <2>1. StopInv'
    BY <1>0, <1>13 DEF joinNoCaptureThread, StopInv, Threads, Slots
  <2>2. EmptyInv'
    BY <1>0, <1>13 DEF joinNoCaptureThread, StopInv, EmptyInv, Threads, Slots
  <2>3. QED
    BY <2>1, <2>2
<1>14. CASE joinPreviewThread
  <2>1. StopInv'
    BY <1>0, <1>14 DEF joinPreviewThread, StopInv, Threads, Slots
  <2>2. EmptyInv'
    BY <1>0, <1>14 DEF joinPreviewThread, StopInv, EmptyInv, Threads, Slots
  <2>3. QED
    BY <2>1, <2>2
<1>15. CASE stopClearsPreview
  <2>1. StopInv'
    BY <1>0, <1>15 DEF stopClearsPreview, clearPreviewFrame, StopInv, Threads,
       Slots
  <2>2. EmptyInv'
    BY <1>0, <1>15 DEF stopClearsPreview, clearPreviewFrame, StopInv, EmptyInv,
       Threads, Slots
  <2>3. QED
    BY <2>1, <2>2
<1>16. CASE stopClearsCapture
  <2>1. StopInv'
    BY <1>0, <1>16 DEF stopClearsCapture, clearCaptureFrame, StopInv, Threads,
       Slots
  <2>2. EmptyInv'
    BY <1>0, <1>16 DEF stopClearsCapture, clearCaptureFrame, StopInv, EmptyInv,
       Threads, Slots
  <2>3. QED
    BY <2>1, <2>2
<1>17. CASE releaseWindow
  <2>1. StopInv'
    BY <1>0, <1>17 DEF releaseWindow, StopInv, Threads, Slots
  <2>2. EmptyInv'
    BY <1>0, <1>17 DEF releaseWindow, StopInv, EmptyInv, Threads, Slots
  <2>3. QED
    BY <2>1, <2>2
<1>18. QED
  BY <1>1, <1>2, <1>3, <1>4, <1>5, <1>6, <1>7, <1>8, <1>9, <1>10, <1>11, <1>12,
     <1>13, <1>14, <1>15, <1>16, <1>17 DEF Ui

\* A step of the callback thread keeps it.
LEMMA CbStops ==
  ASSUME IInv, StopInv, EmptyInv, Cb
  PROVE  StopInv' /\ EmptyInv'
<1> USE DEF At, Goto, GotoAndSignal, flags, Resting
<1>0. pc \in [Threads -> AllLabels] /\ loc \in [Slots -> FrameOrNull]
  BY DEF IInv, MemType, CtlType
<1>1. CASE uvc_preview_frame_callback
  <2>1. StopInv'
    BY <1>0, <1>1 DEF uvc_preview_frame_callback, StopInv, Threads, Slots
  <2>2. EmptyInv'
    BY <1>0, <1>1 DEF uvc_preview_frame_callback, StopInv, EmptyInv, Threads,
       Slots
  <2>3. QED
    BY <2>1, <2>2
<1>2. CASE uvc_duplicate_frame
  <2>1. StopInv'
    BY <1>0, <1>2 DEF uvc_duplicate_frame, StopInv, Threads, Slots
  <2>2. EmptyInv'
    BY <1>0, <1>2 DEF uvc_duplicate_frame, StopInv, EmptyInv, Threads, Slots
  <2>3. QED
    BY <2>1, <2>2
<1>3. CASE addPreviewFrame
  <2>1. StopInv'
    BY <1>0, <1>3 DEF addPreviewFrame, StopInv, Threads, Slots
  <2>2. EmptyInv'
    BY <1>0, <1>3 DEF addPreviewFrame, StopInv, EmptyInv, Threads, Slots
  <2>3. QED
    BY <2>1, <2>2
<1>4. CASE recycleCopy
  <2>1. StopInv'
    BY <1>0, <1>4 DEF recycleCopy, RecycleSlot, StopInv, Threads, Slots
  <2>2. EmptyInv'
    BY <1>0, <1>4 DEF recycleCopy, RecycleSlot, StopInv, EmptyInv, Threads,
       Slots
  <2>3. QED
    BY <2>1, <2>2
<1>5. QED
  BY <1>1, <1>2, <1>3, <1>4 DEF Cb

\* A step of the preview thread keeps it.
LEMMA PrevStops ==
  ASSUME IInv, StopInv, EmptyInv, Prev
  PROVE  StopInv' /\ EmptyInv'
<1> USE DEF At, Goto, GotoAndSignal, flags, Resting
<1>0. pc \in [Threads -> AllLabels] /\ loc \in [Slots -> FrameOrNull]
  BY DEF IInv, MemType, CtlType
<1>1. CASE prepare_preview
  <2>1. StopInv'
    BY <1>0, <1>1 DEF prepare_preview, StopInv, Threads, Slots
  <2>2. EmptyInv'
    BY <1>0, <1>1 DEF prepare_preview, StopInv, EmptyInv, Threads, Slots
  <2>3. QED
    BY <2>1, <2>2
<1>2. CASE previewClears
  <2>1. StopInv'
    BY <1>0, <1>2 DEF previewClears, clearPreviewFrame, StopInv, Threads, Slots
  <2>2. EmptyInv'
    BY <1>0, <1>2 DEF previewClears, clearPreviewFrame, StopInv, EmptyInv,
       Threads, Slots
  <2>3. QED
    BY <2>1, <2>2
<1>3. CASE createCaptureThread
  <2>1. StopInv'
    BY <1>0, <1>3 DEF createCaptureThread, StopInv, Threads, Slots
  <2>2. EmptyInv'
    BY <1>0, <1>3 DEF createCaptureThread, StopInv, EmptyInv, Threads, Slots
  <2>3. QED
    BY <2>1, <2>2
<1>4. CASE do_preview
  <2>1. StopInv'
    BY <1>0, <1>4 DEF do_preview, StopInv, Threads, Slots
  <2>2. EmptyInv'
    BY <1>0, <1>4 DEF do_preview, StopInv, EmptyInv, Threads, Slots
  <2>3. QED
    BY <2>1, <2>2
<1>5. CASE waitPreviewFrame
  <2>1. StopInv'
    BY <1>0, <1>5 DEF waitPreviewFrame, StopInv, Threads, Slots
  <2>2. EmptyInv'
    BY <1>0, <1>5 DEF waitPreviewFrame, StopInv, EmptyInv, Threads, Slots
  <2>3. QED
    BY <2>1, <2>2
<1>6. CASE takePreviewFrame
  <2>1. StopInv'
    BY <1>0, <1>6 DEF takePreviewFrame, Dispatch, StopInv, Threads, Slots
  <2>2. EmptyInv'
    BY <1>0, <1>6 DEF takePreviewFrame, Dispatch, StopInv, EmptyInv, Threads,
       Slots
  <2>3. QED
    BY <2>1, <2>2
<1>7. CASE uvc_mjpeg2yuyv
  <2>1. StopInv'
    BY <1>0, <1>7 DEF uvc_mjpeg2yuyv, StopInv, Threads, Slots
  <2>2. EmptyInv'
    BY <1>0, <1>7 DEF uvc_mjpeg2yuyv, StopInv, EmptyInv, Threads, Slots
  <2>3. QED
    BY <2>1, <2>2
<1>8. CASE dropUndecoded
  <2>1. StopInv'
    BY <1>0, <1>8 DEF dropUndecoded, StopInv, Threads, Slots
  <2>2. EmptyInv'
    BY <1>0, <1>8 DEF dropUndecoded, StopInv, EmptyInv, Threads, Slots
  <2>3. QED
    BY <2>1, <2>2
<1>9. CASE draw_preview_one
  <2>1. StopInv'
    BY <1>0, <1>9 DEF draw_preview_one, StopInv, Threads, Slots
  <2>2. EmptyInv'
    BY <1>0, <1>9 DEF draw_preview_one, StopInv, EmptyInv, Threads, Slots
  <2>3. QED
    BY <2>1, <2>2
<1>10. CASE recycleConverted
  <2>1. StopInv'
    BY <1>0, <1>10 DEF recycleConverted, RecycleSlot, StopInv, Threads, Slots
  <2>2. EmptyInv'
    BY <1>0, <1>10 DEF recycleConverted, RecycleSlot, StopInv, EmptyInv,
       Threads, Slots
  <2>3. QED
    BY <2>1, <2>2
<1>11. CASE recycleDrawn
  <2>1. StopInv'
    BY <1>0, <1>11 DEF recycleDrawn, RecycleSlot, StopInv, Threads, Slots
  <2>2. EmptyInv'
    BY <1>0, <1>11 DEF recycleDrawn, RecycleSlot, StopInv, EmptyInv, Threads,
       Slots
  <2>3. QED
    BY <2>1, <2>2
<1>12. CASE storeWhenCapturing
  <2>1. StopInv'
    BY <1>0, <1>12 DEF storeWhenCapturing, StopInv, Threads, Slots
  <2>2. EmptyInv'
    BY <1>0, <1>12 DEF storeWhenCapturing, StopInv, EmptyInv, Threads, Slots
  <2>3. QED
    BY <2>1, <2>2
<1>13. CASE recycleRaw
  <2>1. StopInv'
    BY <1>0, <1>13 DEF recycleRaw, RecycleSlot, StopInv, Threads, Slots
  <2>2. EmptyInv'
    BY <1>0, <1>13 DEF recycleRaw, RecycleSlot, StopInv, EmptyInv, Threads,
       Slots
  <2>3. QED
    BY <2>1, <2>2
<1>14. CASE addCaptureFrame
  <2>1. StopInv'
    BY <1>0, <1>14 DEF addCaptureFrame, StopInv, Threads, Slots
  <2>2. EmptyInv'
    BY <1>0, <1>14 DEF addCaptureFrame, StopInv, EmptyInv, Threads, Slots
  <2>3. QED
    BY <2>1, <2>2
<1>15. CASE previewExit
  <2>1. StopInv'
    BY <1>0, <1>15 DEF previewExit, StopInv, Threads, Slots
  <2>2. EmptyInv'
    BY <1>0, <1>15 DEF previewExit, StopInv, EmptyInv, Threads, Slots
  <2>3. QED
    BY <2>1, <2>2
<1>16. CASE uvc_stop_streaming
  <2>1. StopInv'
    BY <1>0, <1>16 DEF uvc_stop_streaming, StopInv, Threads, Slots
  <2>2. EmptyInv'
    BY <1>0, <1>16 DEF uvc_stop_streaming, StopInv, EmptyInv, Threads, Slots
  <2>3. QED
    BY <2>1, <2>2
<1>17. QED
  BY <1>1, <1>2, <1>3, <1>4, <1>5, <1>6, <1>7, <1>8, <1>9, <1>10, <1>11, <1>12,
     <1>13, <1>14, <1>15, <1>16 DEF Prev

\* A step of the capture thread keeps it.
LEMMA CapStops ==
  ASSUME IInv, StopInv, EmptyInv, Cap
  PROVE  StopInv' /\ EmptyInv'
<1> USE DEF At, Goto, GotoAndSignal, flags, Resting
<1>0. pc \in [Threads -> AllLabels] /\ loc \in [Slots -> FrameOrNull]
  BY DEF IInv, MemType, CtlType
<1>1. CASE captureClears
  <2>1. StopInv'
    BY <1>0, <1>1 DEF captureClears, clearCaptureFrame, StopInv, Threads, Slots
  <2>2. EmptyInv'
    BY <1>0, <1>1 DEF captureClears, clearCaptureFrame, StopInv, EmptyInv,
       Threads, Slots
  <2>3. QED
    BY <2>1, <2>2
<1>2. CASE do_capture
  <2>1. StopInv'
    BY <1>0, <1>2 DEF do_capture, StopInv, Threads, Slots
  <2>2. EmptyInv'
    BY <1>0, <1>2 DEF do_capture, StopInv, EmptyInv, Threads, Slots
  <2>3. QED
    BY <2>1, <2>2
<1>3. CASE waitCaptureFrame
  <2>1. StopInv'
    BY <1>0, <1>3 DEF waitCaptureFrame, StopInv, Threads, Slots
  <2>2. EmptyInv'
    BY <1>0, <1>3 DEF waitCaptureFrame, StopInv, EmptyInv, Threads, Slots
  <2>3. QED
    BY <2>1, <2>2
<1>4. CASE takeCaptureFrame
  <2>1. StopInv'
    BY <1>0, <1>4 DEF takeCaptureFrame, StopInv, Threads, Slots
  <2>2. EmptyInv'
    BY <1>0, <1>4 DEF takeCaptureFrame, StopInv, EmptyInv, Threads, Slots
  <2>3. QED
    BY <2>1, <2>2
<1>5. CASE do_capture_callback
  <2>1. StopInv'
    BY <1>0, <1>5 DEF do_capture_callback, StopInv, Threads, Slots
  <2>2. EmptyInv'
    BY <1>0, <1>5 DEF do_capture_callback, StopInv, EmptyInv, Threads, Slots
  <2>3. QED
    BY <2>1, <2>2
<1>6. CASE recycleSource
  <2>1. StopInv'
    BY <1>0, <1>6 DEF recycleSource, RecycleSlot, StopInv, Threads, Slots
  <2>2. EmptyInv'
    BY <1>0, <1>6 DEF recycleSource, RecycleSlot, StopInv, EmptyInv, Threads,
       Slots
  <2>3. QED
    BY <2>1, <2>2
<1>7. CASE recycleOut
  <2>1. StopInv'
    BY <1>0, <1>7 DEF recycleOut, RecycleSlot, StopInv, Threads, Slots
  <2>2. EmptyInv'
    BY <1>0, <1>7 DEF recycleOut, RecycleSlot, StopInv, EmptyInv, Threads,
       Slots
  <2>3. QED
    BY <2>1, <2>2
<1>8. CASE recycleTaken
  <2>1. StopInv'
    BY <1>0, <1>8 DEF recycleTaken, RecycleSlot, StopInv, Threads, Slots
  <2>2. EmptyInv'
    BY <1>0, <1>8 DEF recycleTaken, RecycleSlot, StopInv, EmptyInv, Threads,
       Slots
  <2>3. QED
    BY <2>1, <2>2
<1>9. CASE pictureDone
  <2>1. StopInv'
    BY <1>0, <1>9 DEF pictureDone, StopInv, Threads, Slots
  <2>2. EmptyInv'
    BY <1>0, <1>9 DEF pictureDone, StopInv, EmptyInv, Threads, Slots
  <2>3. QED
    BY <2>1, <2>2
<1>10. CASE stopCapturing
  <2>1. StopInv'
    BY <1>0, <1>10 DEF stopCapturing, StopInv, Threads, Slots
  <2>2. EmptyInv'
    BY <1>0, <1>10 DEF stopCapturing, StopInv, EmptyInv, Threads, Slots
  <2>3. QED
    BY <2>1, <2>2
<1>11. QED
  BY <1>1, <1>2, <1>3, <1>4, <1>5, <1>6, <1>7, <1>8, <1>9, <1>10 DEF Cap

-----------------------------------------------------------------------------
(* What the operations on frames do to the set of leaked ones.             *)

\* No owner has the frame x, which was not freed either.
Lost(x) ==
    /\ x \in allocated
    /\ x \notin mFramePool
    /\ x # captureQueu
    /\ \A s \in Slots : loc[s] # x
    /\ \A i \in 1 .. Len(previewFrames) : previewFrames[i] # x

\* The frames of Leaked are the ones the pool, the queues and the local
\* variables of the pipeline have lost.
LEMMA LeakedIsLost == MemType => \A x : x \in Leaked <=> Lost(x)
<1> SUFFICES ASSUME MemType, NEW x PROVE x \in Leaked <=> Lost(x)
  OBVIOUS
<1>1. DOMAIN previewFrames = 1 .. Len(previewFrames)
  BY DEF MemType
<1>2. x \in allocated => x # NULL
  BY NullAssumption DEF MemType
<1>3. x # NULL => (x \in Held <=> \E s \in Slots : loc[s] = x)
  BY DEF Held
<1>4. x \in Queued <=> \E i \in 1 .. Len(previewFrames) : previewFrames[i] = x
  BY <1>1 DEF Queued
<1>5. x # NULL => (x \in Stored <=> x = captureQueu)
  BY DEF Stored
<1>6. QED
  BY <1>2, <1>3, <1>4, <1>5 DEF Leaked, Owned, Lost

\* The same after a step.
LEMMA LeakedIsLostNext == ASSUME MemType' PROVE \A x : x \in Leaked' <=> Lost(x)'
<1>1. (MemType => \A x : x \in Leaked <=> Lost(x))'
  BY LeakedIsLost, PTL
<1>2. QED
  BY <1>1

\* A step that touches no frame leaks none.
LEMMA StutterLeak ==
  ASSUME MemType, MemType', UNCHANGED <<memory, loc, previewFrames, captureQueu>>
  PROVE  Leaked' \subseteq Leaked
<1>1. \A x : Lost(x)' => Lost(x)
  BY DEF Lost, memory
<1>2. QED
  BY <1>1, LeakedIsLost, LeakedIsLostNext

\* get_frame into a local variable that holds no frame leaks none.
LEMMA GetFrameLeak ==
  ASSUME MemType, MemType', NEW s \in Slots, NEW f \in FrameOrNull, get_frame(f),
         loc[s] = NULL, loc' = [loc EXCEPT ![s] = f],
         UNCHANGED <<previewFrames, captureQueu>>
  PROVE  Leaked' \subseteq Leaked
<1>1. \A r \in Slots : loc'[r] = IF r = s THEN f ELSE loc[r]
  BY DEF MemType
<1>2. \A x \in allocated' : x # f => x \in allocated /\ (x \in mFramePool => x \in mFramePool')
  BY DEF get_frame, memory
<1>3. \A x \in allocated' : x # NULL
  BY NullAssumption DEF MemType
<1>4. \A x : Lost(x)' => Lost(x)
  BY <1>1, <1>2, <1>3 DEF Lost
<1>5. QED
  BY <1>4, LeakedIsLost, LeakedIsLostNext

\* recycle_frame of a local variable's frame leaks none.
LEMMA RecycleLeak ==
  ASSUME MemType, MemType', NEW s \in Slots, recycle_frame(loc[s]),
         loc' = [loc EXCEPT ![s] = NULL], UNCHANGED <<previewFrames, captureQueu>>
  PROVE  Leaked' \subseteq Leaked
<1>1. \A r \in Slots : loc'[r] = IF r = s THEN NULL ELSE loc[r]
  BY DEF MemType
<1>2. loc[s] \notin allocated' \/ loc[s] \in mFramePool'
  BY DEF recycle_frame
<1>3. mFramePool \subseteq mFramePool' /\ allocated' \subseteq allocated
  BY DEF recycle_frame
<1>4. \A x : Lost(x)' => Lost(x)
  BY <1>1, <1>2, <1>3 DEF Lost
<1>5. QED
  BY <1>4, LeakedIsLost, LeakedIsLostNext

\* A local variable that forgets its frame leaks that one at most.
LEMMA DropLeak ==
  ASSUME MemType, MemType', NEW s \in Slots, loc' = [loc EXCEPT ![s] = NULL],
         UNCHANGED <<memory, previewFrames, captureQueu>>
  PROVE  Leaked' \subseteq Leaked \cup ({loc[s]} \ {NULL})
<1>1. \A r \in Slots : loc'[r] = IF r = s THEN NULL ELSE loc[r]
  BY DEF MemType
<1>2. \A x \in allocated' : x # NULL
  BY NullAssumption DEF MemType
<1>3. \A x : Lost(x)' => Lost(x) \/ x = loc[s]
  BY <1>1 DEF Lost, memory
<1>4. \A x : Lost(x)' => x # NULL
  BY <1>2 DEF Lost
<1>5. QED
  BY <1>3, <1>4, LeakedIsLost, LeakedIsLostNext

\* dropUndecoded leaks the raw frame at most.
LEMMA UndecodedLeak ==
  ASSUME MemType, MemType', recycle_frame(loc["yuyv"]),
         loc' = [loc EXCEPT !["yuyv"] = NULL, !["raw"] = NULL],
         UNCHANGED <<previewFrames, captureQueu>>
  PROVE  Leaked' \subseteq Leaked \cup {loc["raw"]}
<1>1. \A r \in Slots : loc'[r] = IF r \in {"yuyv", "raw"} THEN NULL ELSE loc[r]
  BY DEF MemType
<1>2. loc["yuyv"] \notin allocated' \/ loc["yuyv"] \in mFramePool'
  BY DEF recycle_frame
<1>3. mFramePool \subseteq mFramePool' /\ allocated' \subseteq allocated
  BY DEF recycle_frame
<1>4. \A x : Lost(x)' => Lost(x) \/ x = loc["raw"]
  BY <1>1, <1>2, <1>3 DEF Lost, Slots
<1>5. QED
  BY <1>4, LeakedIsLost, LeakedIsLostNext

\* addPreviewFrame's hand-over leaks none.
LEMMA EnqueueLeak ==
  ASSUME MemType, MemType', loc["copy"] \in Frames,
         previewFrames' = Append(previewFrames, loc["copy"]),
         loc' = [loc EXCEPT !["copy"] = NULL], UNCHANGED <<memory, captureQueu>>
  PROVE  Leaked' \subseteq Leaked
<1>1. \A r \in Slots : loc'[r] = IF r = "copy" THEN NULL ELSE loc[r]
  BY DEF MemType
<1>2. /\ Len(previewFrames) \in Nat
      /\ Len(previewFrames') = Len(previewFrames) + 1
      /\ previewFrames'[Len(previewFrames) + 1] = loc["copy"]
      /\ \A i \in 1 .. Len(previewFrames) : previewFrames'[i] = previewFrames[i]
  BY DEF MemType
<1>3. 1 .. Len(previewFrames) \subseteq 1 .. Len(previewFrames')
      /\ Len(previewFrames) + 1 \in 1 .. Len(previewFrames')
  BY <1>2
<1>4. \A x : Lost(x)' => x # loc["copy"]
  BY <1>2, <1>3 DEF Lost
<1>5. \A x : Lost(x)' => \A i \in 1 .. Len(previewFrames) : previewFrames[i] # x
  BY <1>2, <1>3 DEF Lost
<1>6. \A x : Lost(x)' => Lost(x)
  BY <1>1, <1>4, <1>5 DEF Lost, memory
<1>7. QED
  BY <1>6, LeakedIsLost, LeakedIsLostNext

\* waitPreviewFrame's hand-over to an empty local variable leaks none.
LEMMA DequeueLeak ==
  ASSUME MemType, MemType', previewFrames # <<>>, loc["raw"] = NULL,
         loc' = [loc EXCEPT !["raw"] = Head(previewFrames)],
         previewFrames' = Tail(previewFrames), UNCHANGED <<memory, captureQueu>>
  PROVE  Leaked' \subseteq Leaked
<1>1. \A r \in Slots : loc'[r] = IF r = "raw" THEN Head(previewFrames) ELSE loc[r]
  BY DEF MemType
<1>2. /\ Len(previewFrames) \in Nat
      /\ Len(previewFrames') = Len(previewFrames) - 1
      /\ Head(previewFrames) = previewFrames[1]
      /\ \A i \in 1 .. Len(previewFrames') : previewFrames'[i] = previewFrames[i + 1]
  BY DEF MemType
<1>3. \A i \in 1 .. Len(previewFrames) : i = 1 \/ i - 1 \in 1 .. Len(previewFrames')
  BY <1>2
<1>4. \A i \in 1 .. Len(previewFrames) :
         previewFrames[i] = IF i = 1 THEN Head(previewFrames) ELSE previewFrames'[i - 1]
  BY <1>2, <1>3
<1>5. \A x \in allocated' : x # NULL
  BY NullAssumption DEF MemType
<1>6. \A x : Lost(x)' => x # Head(previewFrames) /\ x # NULL
  BY <1>1, <1>5 DEF Lost, Slots
<1>7. ASSUME NEW x, Lost(x)', NEW i \in 1 .. Len(previewFrames)
      PROVE  previewFrames[i] # x
  <2>1. CASE i = 1
    BY <1>2, <1>6, <1>7, <2>1
  <2>2. CASE i # 1
    <3>1. i - 1 \in 1 .. Len(previewFrames') /\ previewFrames[i] = previewFrames'[i - 1]
      BY <1>3, <1>4, <2>2
    <3>2. \A j \in 1 .. Len(previewFrames') : previewFrames'[j] # x
      BY <1>7 DEF Lost
    <3>3. QED
      BY <3>1, <3>2
  <2>3. QED
    BY <2>1, <2>2
<1>8. \A x : Lost(x)' => Lost(x)
  BY <1>1, <1>6, <1>7 DEF Lost, memory
<1>9. QED
  BY <1>8, LeakedIsLost, LeakedIsLostNext

\* clearPreviewFrame leaks none.
LEMMA ClearPreviewLeak ==
  ASSUME MemType, MemType', recycle_all(previewFrames), UNCHANGED <<loc, captureQueu>>
  PROVE  Leaked' \subseteq Leaked
<1> DEFINE fits == {j \in DOMAIN previewFrames : j <= FRAME_POOL_SZ - Cardinality(mFramePool)}
           In == {previewFrames[i] : i \in fits}
           Out == {previewFrames[i] : i \in DOMAIN previewFrames \ fits}
<1>1. mFramePool' = mFramePool \cup In /\ allocated' = allocated \ Out
  BY DEF recycle_all
<1>2. DOMAIN previewFrames = 1 .. Len(previewFrames)
  BY DEF MemType
<1>3. \A i \in 1 .. Len(previewFrames) : previewFrames[i] \in In \cup Out
  BY <1>2
<1> HIDE DEF fits, In, Out
<1>4. \A x : Lost(x)' => Lost(x)
  BY <1>1, <1>3 DEF Lost
<1>5. QED
  BY <1>4, LeakedIsLost, LeakedIsLostNext

\* clearCaptureFrame leaks none.
LEMMA ClearCaptureLeak ==
  ASSUME MemType, MemType', captureQueu' = NULL, UNCHANGED <<loc, previewFrames>>,
         IF captureQueu = NULL THEN UNCHANGED memory ELSE recycle_frame(captureQueu)
  PROVE  Leaked' \subseteq Leaked
<1>1. captureQueu = NULL \/ captureQueu \notin allocated' \/ captureQueu \in mFramePool'
  BY DEF recycle_frame
<1>2. mFramePool \subseteq mFramePool' /\ allocated' \subseteq allocated
  BY DEF recycle_frame, memory
<1>3. \A x \in allocated' : x # NULL
  BY NullAssumption DEF MemType
<1>4. \A x : Lost(x)' => Lost(x)
  BY <1>1, <1>2, <1>3 DEF Lost
<1>5. QED
  BY <1>4, LeakedIsLost, LeakedIsLostNext

\* addCaptureFrame leaks none while the preview runs.
LEMMA StoreLeak ==
  ASSUME MemType, MemType', captureQueu' = loc["raw"],
         loc' = [loc EXCEPT !["raw"] = NULL], UNCHANGED previewFrames,
         IF captureQueu = NULL THEN UNCHANGED memory ELSE recycle_frame(captureQueu)
  PROVE  Leaked' \subseteq Leaked
<1>1. captureQueu = NULL \/ captureQueu \notin allocated' \/ captureQueu \in mFramePool'
  BY DEF recycle_frame
<1>2. mFramePool \subseteq mFramePool' /\ allocated' \subseteq allocated
  BY DEF recycle_frame, memory
<1>3. \A x \in allocated' : x # NULL
  BY NullAssumption DEF MemType
<1>4. \A r \in Slots : loc'[r] = IF r = "raw" THEN NULL ELSE loc[r]
  BY DEF MemType
<1>5. \A x : Lost(x)' => Lost(x)
  BY <1>1, <1>2, <1>3, <1>4 DEF Lost
<1>6. QED
  BY <1>5, LeakedIsLost, LeakedIsLostNext

\* waitCaptureFrame's hand-over to an empty local variable leaks none.
LEMMA TakeLeak ==
  ASSUME MemType, MemType', loc["taken"] = NULL,
         loc' = [loc EXCEPT !["taken"] = captureQueu],
         captureQueu' = NULL, UNCHANGED <<memory, previewFrames>>
  PROVE  Leaked' \subseteq Leaked
<1>1. \A r \in Slots : loc'[r] = IF r = "taken" THEN captureQueu ELSE loc[r]
  BY DEF MemType
<1>2. "taken" \in Slots
  BY DEF Slots
<1>3. \A x \in allocated' : x # NULL
  BY NullAssumption DEF MemType
<1>4. \A x : Lost(x)' => Lost(x)
  BY <1>1, <1>2, <1>3 DEF Lost, memory
<1>5. QED
  BY <1>4, LeakedIsLost, LeakedIsLostNext

-----------------------------------------------------------------------------
(* Every step leaks nothing, or one frame that was due.                    *)

LeakStep ==
    \/ /\ Leaked' \subseteq Leaked
       /\ Due' + stops + undecodable <= Due + stops' + undecodable'
    \/ /\ \E x : Leaked' \subseteq Leaked \cup {x}
       /\ Due' + 1 <= Due
       /\ UNCHANGED <<stops, undecodable>>

\* A step of the Java thread leaks no frame.
LEMMA UiLeaks ==
  ASSUME IInv, IInv', StopInv, EmptyInv, Ui
  PROVE  LeakStep
<1> USE DEF At, Goto, GotoAndSignal, flags, counters, LeakStep
<1>0. /\ MemType /\ MemType' /\ SlotsFilled /\ StopInv /\ EmptyInv
      /\ pc \in [Threads -> AllLabels] /\ loc \in [Slots -> FrameOrNull]
      /\ stops \in Nat /\ undecodable \in Nat
  BY SizeAssumption DEF IInv, MemType, CtlType
<1>1. CASE startPreview
  <2>1. Leaked' \subseteq Leaked
    BY <1>0, <1>1, StutterLeak DEF startPreview
  <2>2. Due' + stops + undecodable <= Due + stops' + undecodable'
    BY <1>0, <1>1 DEF startPreview, Due, Threads, Slots
  <2>3. QED
    BY <2>1, <2>2
<1>2. CASE createPreviewThread
  <2>1. Leaked' \subseteq Leaked
    BY <1>0, <1>2, StutterLeak DEF createPreviewThread
  <2>2. Due' + stops + undecodable <= Due + stops' + undecodable'
    BY <1>0, <1>2 DEF createPreviewThread, Due, Threads, Slots, StopInv,
       EmptyInv, Resting
  <2>3. QED
    BY <2>1, <2>2
<1>3. CASE startFails
  <2>1. Leaked' \subseteq Leaked
    BY <1>0, <1>3, StutterLeak DEF startFails
  <2>2. Due' + stops + undecodable <= Due + stops' + undecodable'
    BY <1>0, <1>3 DEF startFails, Due, Threads, Slots, StopInv, EmptyInv,
       Resting
  <2>3. QED
    BY <2>1, <2>2
<1>4. CASE enable_mIsCapturing
  <2>1. Leaked' \subseteq Leaked
    BY <1>0, <1>4, StutterLeak DEF enable_mIsCapturing
  <2>2. Due' + stops + undecodable <= Due + stops' + undecodable'
    BY <1>0, <1>4 DEF enable_mIsCapturing, Due, Threads, Slots
  <2>3. QED
    BY <2>1, <2>2
<1>5. CASE capture_picture
  <2>1. Leaked' \subseteq Leaked
    BY <1>0, <1>5, StutterLeak DEF capture_picture
  <2>2. Due' + stops + undecodable <= Due + stops' + undecodable'
    BY <1>0, <1>5 DEF capture_picture, Due, Threads, Slots
  <2>3. QED
    BY <2>1, <2>2
<1>6. CASE capture_picture_flag
  <2>1. Leaked' \subseteq Leaked
    BY <1>0, <1>6, StutterLeak DEF capture_picture_flag
  <2>2. Due' + stops + undecodable <= Due + stops' + undecodable'
    BY <1>0, <1>6 DEF capture_picture_flag, Due, Threads, Slots
  <2>3. QED
    BY <2>1, <2>2
<1>7. CASE capture_movie
  <2>1. Leaked' \subseteq Leaked
    BY <1>0, <1>7, StutterLeak DEF capture_movie
  <2>2. Due' + stops + undecodable <= Due + stops' + undecodable'
    BY <1>0, <1>7 DEF capture_movie, Due, Threads, Slots
  <2>3. QED
    BY <2>1, <2>2
<1>8. CASE exit_capture_movie
  <2>1. Leaked' \subseteq Leaked
    BY <1>0, <1>8, StutterLeak DEF exit_capture_movie
  <2>2. Due' + stops + undecodable <= Due + stops' + undecodable'
    BY <1>0, <1>8 DEF exit_capture_movie, Due, Threads, Slots
  <2>3. QED
    BY <2>1, <2>2
<1>9. CASE stopPreview
  <2>1. Leaked' \subseteq Leaked
    BY <1>0, <1>9, StutterLeak DEF stopPreview
  <2>2. Due' + stops + undecodable <= Due + stops' + undecodable'
    BY <1>0, <1>9 DEF stopPreview, Due, Threads, Slots
  <2>3. QED
    BY <2>1, <2>2
<1>10. CASE signalPreviewSync
  <2>1. Leaked' \subseteq Leaked
    BY <1>0, <1>10, StutterLeak DEF signalPreviewSync
  <2>2. Due' + stops + undecodable <= Due + stops' + undecodable'
    BY <1>0, <1>10 DEF signalPreviewSync, Due, Threads, Slots
  <2>3. QED
    BY <2>1, <2>2
<1>11. CASE signalCaptureSync
  <2>1. Leaked' \subseteq Leaked
    BY <1>0, <1>11, StutterLeak DEF signalCaptureSync
  <2>2. Due' + stops + undecodable <= Due + stops' + undecodable'
    BY <1>0, <1>11 DEF signalCaptureSync, Due, Threads, Slots
  <2>3. QED
    BY <2>1, <2>2
<1>12. CASE joinCaptureThread
  <2>1. Leaked' \subseteq Leaked
    BY <1>0, <1>12, StutterLeak DEF joinCaptureThread
  <2>2. Due' + stops + undecodable <= Due + stops' + undecodable'
    BY <1>0, <1>12 DEF joinCaptureThread, Due, Threads, Slots
  <2>3. QED
    BY <2>1, <2>2
<1>13. CASE joinNoCaptureThread
  <2>1. Leaked' \subseteq Leaked
    BY <1>0, <1>13, StutterLeak DEF joinNoCaptureThread
  <2>2. Due' + stops + undecodable <= Due + stops' + undecodable'
    BY <1>0, <1>13 DEF joinNoCaptureThread, Due, Threads, Slots
  <2>3. QED
    BY <2>1, <2>2
<1>14. CASE joinPreviewThread
  <2>1. Leaked' \subseteq Leaked
    BY <1>0, <1>14, StutterLeak DEF joinPreviewThread
  <2>2. Due' + stops + undecodable <= Due + stops' + undecodable'
    BY <1>0, <1>14 DEF joinPreviewThread, Due, Threads, Slots
  <2>3. QED
    BY <2>1, <2>2
<1>15. CASE stopClearsPreview
  <2>1. Leaked' \subseteq Leaked
    BY <1>0, <1>15, ClearPreviewLeak DEF stopClearsPreview, clearPreviewFrame
  <2>2. Due' + stops + undecodable <= Due + stops' + undecodable'
    BY <1>0, <1>15 DEF stopClearsPreview, clearPreviewFrame, Due, Threads,
       Slots
  <2>3. QED
    BY <2>1, <2>2
<1>16. CASE stopClearsCapture
  <2>1. Leaked' \subseteq Leaked
    BY <1>0, <1>16, ClearCaptureLeak DEF stopClearsCapture, clearCaptureFrame
  <2>2. Due' + stops + undecodable <= Due + stops' + undecodable'
    BY <1>0, <1>16 DEF stopClearsCapture, clearCaptureFrame, Due, Threads,
       Slots
  <2>3. QED
    BY <2>1, <2>2
<1>17. CASE releaseWindow
  <2>1. Leaked' \subseteq Leaked
    BY <1>0, <1>17, StutterLeak DEF releaseWindow
  <2>2. Due' + stops + undecodable <= Due + stops' + undecodable'
    BY <1>0, <1>17 DEF releaseWindow, Due, Threads, Slots
  <2>3. QED
    BY <2>1, <2>2
<1>18. QED
  BY <1>1, <1>2, <1>3, <1>4, <1>5, <1>6, <1>7, <1>8, <1>9, <1>10, <1>11, <1>12,
     <1>13, <1>14, <1>15, <1>16, <1>17 DEF Ui

\* A step of the callback thread leaks no frame.
LEMMA CbLeaks ==
  ASSUME IInv, IInv', StopInv, EmptyInv, Cb
  PROVE  LeakStep
<1> USE DEF At, Goto, GotoAndSignal, flags, counters, LeakStep
<1>0. /\ MemType /\ MemType' /\ SlotsFilled /\ StopInv /\ EmptyInv
      /\ pc \in [Threads -> AllLabels] /\ loc \in [Slots -> FrameOrNull]
      /\ stops \in Nat /\ undecodable \in Nat
  BY SizeAssumption DEF IInv, MemType, CtlType
<1>1. CASE uvc_preview_frame_callback
  <2>1. PICK f \in FrameOrNull : get_frame(f) /\ loc' = [loc EXCEPT !["copy"] = f]
    BY <1>1 DEF uvc_preview_frame_callback
  <2>2. "copy" \in Slots /\ loc["copy"] = NULL /\ UNCHANGED <<previewFrames, captureQueu>>
    BY <1>0, <1>1 DEF uvc_preview_frame_callback, EmptyInv, Slots
  <2>3. Leaked' \subseteq Leaked
    BY <1>0, <2>1, <2>2, GetFrameLeak
  <2>4. Due' + stops + undecodable <= Due + stops' + undecodable'
    BY <1>0, <1>1 DEF uvc_preview_frame_callback, Due, Threads, Slots
  <2>5. QED
    BY <2>3, <2>4
<1>2. CASE uvc_duplicate_frame
  <2>1. Leaked' \subseteq Leaked
    BY <1>0, <1>2, StutterLeak DEF uvc_duplicate_frame
  <2>2. Due' + stops + undecodable <= Due + stops' + undecodable'
    BY <1>0, <1>2 DEF uvc_duplicate_frame, Due, Threads, Slots
  <2>3. QED
    BY <2>1, <2>2
<1>3. CASE addPreviewFrame
  <2>1. loc["copy"] \in Frames
    BY <1>0, <1>3 DEF addPreviewFrame, SlotsFilled, MemType, FrameOrNull, Slots
  <2>2. Leaked' \subseteq Leaked
    <3>1. CASE mIsRunning /\ Len(previewFrames) < MAX_FRAME
      BY <1>0, <1>3, <2>1, <3>1, EnqueueLeak DEF addPreviewFrame
    <3>2. CASE ~(mIsRunning /\ Len(previewFrames) < MAX_FRAME)
      BY <1>0, <1>3, <3>2, StutterLeak DEF addPreviewFrame
    <3>3. QED
      BY <3>1, <3>2
  <2>3. Due' + stops + undecodable <= Due + stops' + undecodable'
    BY <1>0, <1>3 DEF addPreviewFrame, Due, Threads, Slots
  <2>4. QED
    BY <2>2, <2>3
<1>4. CASE recycleCopy
  <2>1. Leaked' \subseteq Leaked
    BY <1>0, <1>4, RecycleLeak DEF recycleCopy, RecycleSlot, Slots
  <2>2. Due' + stops + undecodable <= Due + stops' + undecodable'
    BY <1>0, <1>4 DEF recycleCopy, RecycleSlot, Due, Threads, Slots
  <2>3. QED
    BY <2>1, <2>2
<1>5. QED
  BY <1>1, <1>2, <1>3, <1>4 DEF Cb

\* A step of the preview thread leaks a frame only in dropUndecoded and in
\* addCaptureFrame after a stop.
LEMMA PrevLeaks ==
  ASSUME IInv, IInv', StopInv, EmptyInv, Prev
  PROVE  LeakStep
<1> USE DEF At, Goto, GotoAndSignal, flags, counters, LeakStep
<1>0. /\ MemType /\ MemType' /\ SlotsFilled /\ StopInv /\ EmptyInv
      /\ pc \in [Threads -> AllLabels] /\ loc \in [Slots -> FrameOrNull]
      /\ stops \in Nat /\ undecodable \in Nat
  BY SizeAssumption DEF IInv, MemType, CtlType
<1>1. CASE prepare_preview
  <2>1. Leaked' \subseteq Leaked
    BY <1>0, <1>1, StutterLeak DEF prepare_preview
  <2>2. Due' + stops + undecodable <= Due + stops' + undecodable'
    BY <1>0, <1>1 DEF prepare_preview, Due, Threads, Slots
  <2>3. QED
    BY <2>1, <2>2
<1>2. CASE previewClears
  <2>1. Leaked' \subseteq Leaked
    BY <1>0, <1>2, ClearPreviewLeak DEF previewClears, clearPreviewFrame
  <2>2. Due' + stops + undecodable <= Due + stops' + undecodable'
    BY <1>0, <1>2 DEF previewClears, clearPreviewFrame, Due, Threads, Slots
  <2>3. QED
    BY <2>1, <2>2
<1>3. CASE createCaptureThread
  <2>1. Leaked' \subseteq Leaked
    BY <1>0, <1>3, StutterLeak DEF createCaptureThread
  <2>2. Due' + stops + undecodable <= Due + stops' + undecodable'
    BY <1>0, <1>3 DEF createCaptureThread, Due, Threads, Slots
  <2>3. QED
    BY <2>1, <2>2
<1>4. CASE do_preview
  <2>1. Leaked' \subseteq Leaked
    BY <1>0, <1>4, StutterLeak DEF do_preview
  <2>2. Due' + stops + undecodable <= Due + stops' + undecodable'
    BY <1>0, <1>4 DEF do_preview, Due, Threads, Slots
  <2>3. QED
    BY <2>1, <2>2
<1>5. CASE waitPreviewFrame
  <2>1. Leaked' \subseteq Leaked
    BY <1>0, <1>5, StutterLeak DEF waitPreviewFrame
  <2>2. Due' + stops + undecodable <= Due + stops' + undecodable'
    BY <1>0, <1>5 DEF waitPreviewFrame, Due, Threads, Slots
  <2>3. QED
    BY <2>1, <2>2
<1>6. CASE takePreviewFrame
  <2>1. loc["raw"] = NULL
    BY <1>0, <1>6 DEF takePreviewFrame, EmptyInv
  <2>2. Leaked' \subseteq Leaked
    <3>1. CASE mIsRunning /\ previewFrames # <<>>
      BY <1>0, <1>6, <2>1, <3>1, DequeueLeak DEF takePreviewFrame
    <3>2. CASE ~(mIsRunning /\ previewFrames # <<>>)
      BY <1>0, <1>6, <3>2, StutterLeak DEF takePreviewFrame
    <3>3. QED
      BY <3>1, <3>2
  <2>3. Due' + stops + undecodable <= Due + stops' + undecodable'
    BY <1>0, <1>6 DEF takePreviewFrame, Dispatch, Due, Threads, Slots, StopInv,
       EmptyInv, Resting
  <2>4. QED
    BY <2>2, <2>3
<1>7. CASE uvc_mjpeg2yuyv
  <2>1. PICK f \in FrameOrNull : get_frame(f) /\ loc' = [loc EXCEPT !["yuyv"] = f]
    BY <1>7 DEF uvc_mjpeg2yuyv
  <2>2. "yuyv" \in Slots /\ loc["yuyv"] = NULL /\ UNCHANGED <<previewFrames, captureQueu>>
    BY <1>0, <1>7 DEF uvc_mjpeg2yuyv, EmptyInv, Slots
  <2>3. Leaked' \subseteq Leaked
    BY <1>0, <2>1, <2>2, GetFrameLeak
  <2>4. Due' + stops + undecodable <= Due + stops' + undecodable'
    BY <1>0, <1>7 DEF uvc_mjpeg2yuyv, Due, Threads, Slots
  <2>5. QED
    BY <2>3, <2>4
<1>8. CASE dropUndecoded
  <2>1. Leaked' \subseteq Leaked \cup {loc["raw"]}
    BY <1>0, <1>8, UndecodedLeak DEF dropUndecoded
  <2>2. Due' + 1 <= Due /\ UNCHANGED <<stops, undecodable>>
    BY <1>0, <1>8 DEF dropUndecoded, Due, Threads, Slots, EmptyInv
  <2>3. QED
    BY <2>1, <2>2
<1>9. CASE draw_preview_one
  <2>1. PICK f \in FrameOrNull : get_frame(f) /\ loc' = [loc EXCEPT !["conv"] = f]
    BY <1>9 DEF draw_preview_one
  <2>2. "conv" \in Slots /\ loc["conv"] = NULL /\ UNCHANGED <<previewFrames, captureQueu>>
    BY <1>0, <1>9 DEF draw_preview_one, EmptyInv, Slots
  <2>3. Leaked' \subseteq Leaked
    BY <1>0, <2>1, <2>2, GetFrameLeak
  <2>4. Due' + stops + undecodable <= Due + stops' + undecodable'
    BY <1>0, <1>9 DEF draw_preview_one, Due, Threads, Slots
  <2>5. QED
    BY <2>3, <2>4
<1>10. CASE recycleConverted
  <2>1. Leaked' \subseteq Leaked
    BY <1>0, <1>10, RecycleLeak DEF recycleConverted, RecycleSlot, Slots
  <2>2. Due' + stops + undecodable <= Due + stops' + undecodable'
    BY <1>0, <1>10 DEF recycleConverted, RecycleSlot, Due, Threads, Slots
  <2>3. QED
    BY <2>1, <2>2
<1>11. CASE recycleDrawn
  <2>1. Leaked' \subseteq Leaked
    <3>1. CASE loc["yuyv"] = NULL
      BY <1>0, <1>11, <3>1, StutterLeak DEF recycleDrawn
    <3>2. CASE loc["yuyv"] # NULL
      BY <1>0, <1>11, <3>2, RecycleLeak DEF recycleDrawn, RecycleSlot, Slots
    <3>3. QED
      BY <3>1, <3>2
  <2>2. Due' + stops + undecodable <= Due + stops' + undecodable'
    BY <1>0, <1>11 DEF recycleDrawn, RecycleSlot, Due, Threads, Slots
  <2>3. QED
    BY <2>1, <2>2
<1>12. CASE storeWhenCapturing
  <2>1. Leaked' \subseteq Leaked
    BY <1>0, <1>12, StutterLeak DEF storeWhenCapturing
  <2>2. Due' + stops + undecodable <= Due + stops' + undecodable'
    BY <1>0, <1>12 DEF storeWhenCapturing, Due, Threads, Slots
  <2>3. QED
    BY <2>1, <2>2
<1>13. CASE recycleRaw
  <2>1. Leaked' \subseteq Leaked
    BY <1>0, <1>13, RecycleLeak DEF recycleRaw, RecycleSlot, Slots
  <2>2. Due' + stops + undecodable <= Due + stops' + undecodable'
    BY <1>0, <1>13 DEF recycleRaw, RecycleSlot, Due, Threads, Slots, StopInv,
       EmptyInv, Resting
  <2>3. QED
    BY <2>1, <2>2
<1>14. CASE addCaptureFrame
  <2>1. CASE mIsRunning \/ loc["raw"] = NULL
    <3>1. Leaked' \subseteq Leaked
      <4>1. CASE mIsRunning
        BY <1>0, <1>14, <4>1, StoreLeak DEF addCaptureFrame
      <4>2. CASE ~mIsRunning
        <5>1. Leaked' \subseteq Leaked \cup ({loc["raw"]} \ {NULL})
          BY <1>0, <1>14, <4>2, DropLeak DEF addCaptureFrame, Slots
        <5>2. QED
          BY <2>1, <4>2, <5>1
      <4>3. QED
        BY <4>1, <4>2
    <3>2. Due' <= Due /\ UNCHANGED <<stops, undecodable>>
      BY <1>0, <1>14 DEF addCaptureFrame, Due, Threads, Slots
    <3>3. QED
      BY <1>0, <3>1, <3>2 DEF Due
  <2>2. CASE ~mIsRunning /\ loc["raw"] # NULL
    <3>1. Leaked' \subseteq Leaked \cup {loc["raw"]}
      BY <1>0, <1>14, <2>2, DropLeak DEF addCaptureFrame, Slots
    <3>2. Due' + 1 <= Due /\ UNCHANGED <<stops, undecodable>>
      BY <1>0, <1>14, <2>2 DEF addCaptureFrame, Due, Threads, Slots
    <3>3. QED
      BY <3>1, <3>2
  <2>3. QED
    BY <2>1, <2>2
<1>15. CASE previewExit
  <2>1. Leaked' \subseteq Leaked
    BY <1>0, <1>15, StutterLeak DEF previewExit
  <2>2. Due' + stops + undecodable <= Due + stops' + undecodable'
    BY <1>0, <1>15 DEF previewExit, Due, Threads, Slots
  <2>3. QED
    BY <2>1, <2>2
<1>16. CASE uvc_stop_streaming
  <2>1. Leaked' \subseteq Leaked
    BY <1>0, <1>16, StutterLeak DEF uvc_stop_streaming
  <2>2. Due' + stops + undecodable <= Due + stops' + undecodable'
    BY <1>0, <1>16 DEF uvc_stop_streaming, Due, Threads, Slots
  <2>3. QED
    BY <2>1, <2>2
<1>17. QED
  BY <1>1, <1>2, <1>3, <1>4, <1>5, <1>6, <1>7, <1>8, <1>9, <1>10, <1>11, <1>12,
     <1>13, <1>14, <1>15, <1>16 DEF Prev

\* A step of the capture thread leaks no frame.
LEMMA CapLeaks ==
  ASSUME IInv, IInv', StopInv, EmptyInv, Cap
  PROVE  LeakStep
<1> USE DEF At, Goto, GotoAndSignal, flags, counters, LeakStep
<1>0. /\ MemType /\ MemType' /\ SlotsFilled /\ StopInv /\ EmptyInv
      /\ pc \in [Threads -> AllLabels] /\ loc \in [Slots -> FrameOrNull]
      /\ stops \in Nat /\ undecodable \in Nat
  BY SizeAssumption DEF IInv, MemType, CtlType
<1>1. CASE captureClears
  <2>1. Leaked' \subseteq Leaked
    BY <1>0, <1>1, ClearCaptureLeak DEF captureClears, clearCaptureFrame
  <2>2. Due' + stops + undecodable <= Due + stops' + undecodable'
    BY <1>0, <1>1 DEF captureClears, clearCaptureFrame, Due, Threads, Slots
  <2>3. QED
    BY <2>1, <2>2
<1>2. CASE do_capture
  <2>1. Leaked' \subseteq Leaked
    BY <1>0, <1>2, StutterLeak DEF do_capture
  <2>2. Due' + stops + undecodable <= Due + stops' + undecodable'
    BY <1>0, <1>2 DEF do_capture, Due, Threads, Slots
  <2>3. QED
    BY <2>1, <2>2
<1>3. CASE waitCaptureFrame
  <2>1. Leaked' \subseteq Leaked
    BY <1>0, <1>3, StutterLeak DEF waitCaptureFrame
  <2>2. Due' + stops + undecodable <= Due + stops' + undecodable'
    BY <1>0, <1>3 DEF waitCaptureFrame, Due, Threads, Slots
  <2>3. QED
    BY <2>1, <2>2
<1>4. CASE takeCaptureFrame
  <2>1. loc["taken"] = NULL
    BY <1>0, <1>4 DEF takeCaptureFrame, EmptyInv
  <2>2. Leaked' \subseteq Leaked
    <3>1. CASE mIsRunning /\ captureQueu # NULL
      BY <1>0, <1>4, <2>1, <3>1, TakeLeak DEF takeCaptureFrame
    <3>2. CASE ~(mIsRunning /\ captureQueu # NULL)
      BY <1>0, <1>4, <3>2, StutterLeak DEF takeCaptureFrame
    <3>3. QED
      BY <3>1, <3>2
  <2>3. Due' + stops + undecodable <= Due + stops' + undecodable'
    BY <1>0, <1>4 DEF takeCaptureFrame, Due, Threads, Slots
  <2>4. QED
    BY <2>2, <2>3
<1>5. CASE do_capture_callback
  <2>1. Leaked' \subseteq Leaked
    <3>1. CASE frameFormat = "NV21"
      <4>1. PICK f \in FrameOrNull : get_frame(f) /\ loc' = [loc EXCEPT !["out"] = f]
        BY <1>5, <3>1 DEF do_capture_callback
      <4>2. /\ "out" \in Slots /\ loc["out"] = NULL
            /\ UNCHANGED <<previewFrames, captureQueu>>
        BY <1>0, <1>5 DEF do_capture_callback, EmptyInv, Slots
      <4>3. QED
        BY <1>0, <4>1, <4>2, GetFrameLeak
    <3>2. CASE frameFormat # "NV21"
      BY <1>0, <1>5, <3>2, StutterLeak DEF do_capture_callback
    <3>3. QED
      BY <3>1, <3>2
  <2>2. Due' + stops + undecodable <= Due + stops' + undecodable'
    BY <1>0, <1>5 DEF do_capture_callback, Due, Threads, Slots
  <2>3. QED
    BY <2>1, <2>2
<1>6. CASE recycleSource
  <2>1. Leaked' \subseteq Leaked
    BY <1>0, <1>6, RecycleLeak DEF recycleSource, RecycleSlot, Forget, Slots
  <2>2. Due' + stops + undecodable <= Due + stops' + undecodable'
    BY <1>0, <1>6 DEF recycleSource, RecycleSlot, Due, Threads, Slots
  <2>3. QED
    BY <2>1, <2>2
<1>7. CASE recycleOut
  <2>1. Leaked' \subseteq Leaked
    BY <1>0, <1>7, RecycleLeak DEF recycleOut, RecycleSlot, Slots
  <2>2. Due' + stops + undecodable <= Due + stops' + undecodable'
    BY <1>0, <1>7 DEF recycleOut, RecycleSlot, Due, Threads, Slots
  <2>3. QED
    BY <2>1, <2>2
<1>8. CASE recycleTaken
  <2>1. Leaked' \subseteq Leaked
    BY <1>0, <1>8, RecycleLeak DEF recycleTaken, RecycleSlot, Forget, Slots
  <2>2. Due' + stops + undecodable <= Due + stops' + undecodable'
    BY <1>0, <1>8 DEF recycleTaken, RecycleSlot, Due, Threads, Slots
  <2>3. QED
    BY <2>1, <2>2
<1>9. CASE pictureDone
  <2>1. Leaked' \subseteq Leaked
    BY <1>0, <1>9, StutterLeak DEF pictureDone
  <2>2. Due' + stops + undecodable <= Due + stops' + undecodable'
    BY <1>0, <1>9 DEF pictureDone, Due, Threads, Slots
  <2>3. QED
    BY <2>1, <2>2
<1>10. CASE stopCapturing
  <2>1. Leaked' \subseteq Leaked
    BY <1>0, <1>10, StutterLeak DEF stopCapturing
  <2>2. Due' + stops + undecodable <= Due + stops' + undecodable'
    BY <1>0, <1>10 DEF stopCapturing, Due, Threads, Slots
  <2>3. QED
    BY <2>1, <2>2
<1>11. QED
  BY <1>1, <1>2, <1>3, <1>4, <1>5, <1>6, <1>7, <1>8, <1>9, <1>10 DEF Cap

-----------------------------------------------------------------------------
\* The protocol of start and stop, and the emptiness of the local variables,
\* are inductive together with the ownership of frames.
LEMMA NextStops == IInv /\ StopInv /\ EmptyInv /\ [Next]_vars => StopInv' /\ EmptyInv'
<1> SUFFICES ASSUME IInv, StopInv, EmptyInv, [Next]_vars PROVE StopInv' /\ EmptyInv'
  OBVIOUS
<1>1. ASSUME NEW t \in {"prev", "cap"}, spuriousWakeup(t) PROVE StopInv' /\ EmptyInv'
  <2>1. pc \in [Threads -> AllLabels]
    BY DEF IInv, CtlType
  <2>2. StopInv'
    BY <1>1, <2>1 DEF spuriousWakeup, At, Goto, flags, StopInv, Resting, Threads
  <2>3. EmptyInv'
    BY <1>1, <2>1 DEF spuriousWakeup, At, Goto, EmptyInv, Threads
  <2>4. QED
    BY <2>2, <2>3
<1>2. CASE UNCHANGED vars
  BY <1>2 DEF vars, flags, StopInv, Resting, EmptyInv
<1>3. QED
  BY <1>1, <1>2, UiStops, CbStops, PrevStops, CapStops DEF Next

\* One more element makes a finite set at most one larger.
LEMMA OneMoreFrame ==
  ASSUME NEW S, IsFiniteSet(S), NEW x
  PROVE  /\ IsFiniteSet(S \cup {x})
         /\ Cardinality(S \cup {x}) <= Cardinality(S) + 1
         /\ Cardinality(S \cup {x}) \in Nat
<1>1. Cardinality(S) \in Nat
  BY FS_CardinalityType
<1>2. QED
  BY <1>1, FS_AddElement, FS_CardinalityType

\* The arithmetic of a step that leaks a frame that was due.
LEMMA SumsLost ==
  \A c, d, s, u, c1, d1 \in Nat :
      c + d <= s + u /\ c1 <= c + 1 /\ d1 + 1 <= d => c1 + d1 <= s + u
OBVIOUS

\* The leak is bounded by what was due.
LEMMA NextLeaks ==
  IInv /\ IInv' /\ StopInv /\ EmptyInv /\ LeakInv /\ [Next]_vars => LeakInv'
<1> SUFFICES ASSUME IInv, IInv', StopInv, EmptyInv, LeakInv, [Next]_vars PROVE LeakInv'
  OBVIOUS
<1>1. /\ stops \in Nat /\ undecodable \in Nat /\ stops' \in Nat /\ undecodable' \in Nat
      /\ MemType /\ MemType'
  BY SizeAssumption DEF IInv, CtlType
<1>2. LeakStep
  <2>1. ASSUME NEW t \in {"prev", "cap"}, spuriousWakeup(t) PROVE LeakStep
    <3>1. Leaked' \subseteq Leaked
      BY <1>1, <2>1, StutterLeak DEF spuriousWakeup
    <3>2. Due' + stops + undecodable <= Due + stops' + undecodable'
      BY <1>1, <2>1 DEF spuriousWakeup, At, Goto, flags, counters, Due, IInv, CtlType,
         Threads
    <3>3. QED
      BY <3>1, <3>2 DEF LeakStep
  <2>2. CASE UNCHANGED vars
    <3>1. Leaked' \subseteq Leaked
      BY <1>1, <2>2, StutterLeak DEF vars
    <3>2. Due' + stops + undecodable <= Due + stops' + undecodable'
      BY <1>1, <2>2 DEF vars, flags, counters, Due
    <3>3. QED
      BY <3>1, <3>2 DEF LeakStep
  <2>3. QED
    BY <2>1, <2>2, UiLeaks, CbLeaks, PrevLeaks, CapLeaks DEF Next
<1>3. IsFiniteSet(Leaked) /\ Cardinality(Leaked) \in Nat
      /\ Cardinality(Leaked) + Due <= stops + undecodable
  BY FS_CardinalityType DEF LeakInv
<1>4. Due \in Nat /\ Due' \in Nat
  BY DEF Due
<1>5. CASE /\ Leaked' \subseteq Leaked
           /\ Due' + stops + undecodable <= Due + stops' + undecodable'
  <2>1. IsFiniteSet(Leaked') /\ Cardinality(Leaked') <= Cardinality(Leaked)
    BY <1>3, <1>5, FS_Subset
  <2>2. Cardinality(Leaked') \in Nat
    BY <2>1, FS_CardinalityType
  <2>3. Cardinality(Leaked') + Due' <= stops' + undecodable'
    <3> DEFINE c == Cardinality(Leaked)  c1 == Cardinality(Leaked')
               d == Due  d1 == Due'  s1 == stops'  u1 == undecodable'
    <3>1. /\ c \in Nat /\ c1 \in Nat /\ d \in Nat /\ d1 \in Nat
          /\ stops \in Nat /\ undecodable \in Nat /\ s1 \in Nat /\ u1 \in Nat
      BY <1>1, <1>3, <1>4, <2>2
    <3>2. /\ c + d <= stops + undecodable
          /\ c1 <= c
          /\ d1 + stops + undecodable <= d + s1 + u1
      BY <1>3, <1>5, <2>1
    <3> HIDE DEF c, c1, d, d1, s1, u1
    <3>3. c1 + d1 <= s1 + u1
      BY <3>1, <3>2
    <3>4. QED
      BY <3>3 DEF c1, d1, s1, u1
  <2>4. QED
    BY <2>1, <2>3 DEF LeakInv
<1>6. ASSUME NEW x, Leaked' \subseteq Leaked \cup {x}, Due' + 1 <= Due,
             UNCHANGED <<stops, undecodable>>
      PROVE  LeakInv'
  <2>1. /\ IsFiniteSet(Leaked \cup {x})
        /\ Cardinality(Leaked \cup {x}) <= Cardinality(Leaked) + 1
        /\ Cardinality(Leaked \cup {x}) \in Nat
    BY <1>3, OneMoreFrame
  <2>2. IsFiniteSet(Leaked') /\ Cardinality(Leaked') <= Cardinality(Leaked \cup {x})
    BY <1>6, <2>1, FS_Subset
  <2>3. Cardinality(Leaked') \in Nat /\ Cardinality(Leaked') <= Cardinality(Leaked) + 1
    <3>1. Cardinality(Leaked') \in Nat
      BY <2>2, FS_CardinalityType
    <3>2. QED
      BY <1>3, <2>1, <2>2, <3>1
  <2>4. Cardinality(Leaked') + Due' <= stops' + undecodable'
    BY <1>1, <1>3, <1>4, <1>6, <2>1, <2>2, <2>3, SumsLost
  <2>5. QED
    BY <2>2, <2>4 DEF LeakInv
<1>7. QED
  BY <1>2, <1>5, <1>6 DEF LeakStep

\* The state after PreviewPrepare satisfies the protocol, and nothing is lost.
LEMMA InitStops == Init => StopInv /\ EmptyInv /\ LeakInv
<1> SUFFICES ASSUME Init PROVE StopInv /\ EmptyInv /\ LeakInv
  OBVIOUS
<1>1. StopInv /\ EmptyInv
  BY DEF Init, StopInv, EmptyInv, Resting, Threads, Slots
<1>2. Leaked = {}
  BY DEF Init, Leaked
<1>3. Due = 0
  BY DEF Init, Due, Threads, Slots
<1>4. IsFiniteSet({}) /\ Cardinality({}) = 0
  BY FS_EmptySet
<1>5. LeakInv
  BY <1>2, <1>3, <1>4 DEF Init, LeakInv
<1>6. QED
  BY <1>1, <1>5

\* When stopPreview has returned, the stream is closed, the preview thread is
\* gone, the callback is idle and neither queue holds a frame, for every
\* interleaving of the stop with the callback, preview and capture threads.
THEOREM QuietStop == Spec => []QuietAfterStop
<1>1. StopInv => QuietAfterStop
  BY DEF StopInv, Resting, QuietAfterStop
<1>2. QED
  BY <1>1, InitStops, Invariance, NextStops, PTL DEF Spec

\* The pipeline loses at most one frame for each stop (addCaptureFrame) and
\* one for each MJPEG frame that does not decode (dropUndecoded), for every
\* number of frames, starts and stops.
THEOREM BoundedLeak == Spec => []LeakBound
<1>1. IInv /\ LeakInv => LeakBound
  <2> SUFFICES ASSUME IInv, LeakInv PROVE LeakBound
    OBVIOUS
  <2>1. stops \in Nat /\ undecodable \in Nat /\ Due \in Nat
    BY SizeAssumption DEF IInv, CtlType, Due
  <2>2. Cardinality(Leaked) \in Nat
    BY FS_CardinalityType DEF LeakInv
  <2>3. QED
    BY <2>1, <2>2 DEF LeakInv, LeakBound
<1>2. QED
  BY <1>1, InitStops, Invariance, NextStops, NextLeaks, PTL DEF Spec
=============================================================================
