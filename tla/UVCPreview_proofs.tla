------------------------- MODULE UVCPreview_proofs --------------------------
(***************************************************************************)
(* Frame ownership in the preview pipeline, for every number of frames,    *)
(* every queue and pool size and every set of formats.                     *)
(***************************************************************************)
EXTENDS UVCPreview, TLAPS

\* The types of the variables that hold frames.
MemType ==
    /\ previewFrames \in Seq(Frames)
    /\ captureQueu \in FrameOrNull
    /\ mFramePool \subseteq Frames
    /\ allocated \subseteq Frames
    /\ loc \in [Slots -> FrameOrNull]

\* FrameOwnership, stated owner by owner.
Own ==
    /\ mFramePool \subseteq allocated
    /\ \A s \in Slots : loc[s] # NULL =>
          /\ loc[s] \in allocated
          /\ loc[s] \notin mFramePool
          /\ loc[s] # captureQueu
    /\ \A r, s \in Slots : loc[r] = loc[s] /\ loc[r] # NULL => r = s
    /\ captureQueu # NULL => captureQueu \in allocated /\ captureQueu \notin mFramePool
    /\ \A i \in 1 .. Len(previewFrames) :
          /\ previewFrames[i] \in allocated
          /\ previewFrames[i] \notin mFramePool
          /\ previewFrames[i] # captureQueu
          /\ \A s \in Slots : previewFrames[i] # loc[s]
    /\ \A i, j \in 1 .. Len(previewFrames) :
          previewFrames[i] = previewFrames[j] => i = j

\* The owner-by-owner form says exactly what FrameOwnership says about the
\* pool, the queues and the local variables of the pipeline.
LEMMA OwnIsOwnership ==
  ASSUME MemType
  PROVE  Own <=> FrameOwnership
<1>0. DOMAIN previewFrames = 1 .. Len(previewFrames)
  BY DEF MemType
<1>1. \A i \in 1 .. Len(previewFrames) : previewFrames[i] \in Frames
  BY DEF MemType
<1>2. ASSUME Own PROVE FrameOwnership
  BY <1>0, <1>1, <1>2, NullAssumption DEF Own, FrameOwnership, Owned, Held, Queued,
     Stored, MemType, FrameOrNull
<1>3. ASSUME FrameOwnership PROVE Own
  <2> USE DEF FrameOwnership, Owned, Held, Queued, Stored
  <2>1. mFramePool \subseteq allocated
    BY <1>3
  <2>2. \A s \in Slots : loc[s] # NULL => loc[s] \in Held
    OBVIOUS
  <2>3. \A i \in 1 .. Len(previewFrames) : previewFrames[i] \in Queued
    BY <1>0
  <2>4. captureQueu # NULL => captureQueu \in Stored
    OBVIOUS
  <2>5. \A i \in 1 .. Len(previewFrames) : previewFrames[i] # NULL
    BY <1>1, NullAssumption
  <2> HIDE DEF Held, Queued, Stored
  <2>6. QED
    BY <1>0, <1>3, <2>1, <2>2, <2>3, <2>4, <2>5 DEF Own
<1>4. QED
  BY <1>2, <1>3

-----------------------------------------------------------------------------
(* What the pool operations do to ownership.                               *)

\* A step that touches no frame keeps ownership.
LEMMA OwnStutter ==
  ASSUME MemType, Own, UNCHANGED <<memory, loc, previewFrames, captureQueu>>
  PROVE  MemType' /\ Own'
BY DEF MemType, Own, memory

\* get_frame into a local variable: the frame had no owner.
LEMMA GetFrameOwn ==
  ASSUME MemType, Own, NEW s \in Slots, NEW f \in FrameOrNull, get_frame(f),
         loc' = [loc EXCEPT ![s] = f], UNCHANGED <<previewFrames, captureQueu>>
  PROVE  MemType' /\ Own'
<1>1. f # NULL => f \in Frames
  BY DEF FrameOrNull
<1>2. f # NULL => f \in allocated' /\ f \notin mFramePool'
  BY NullAssumption DEF get_frame, Own, MemType
<1>3. f # NULL =>
        /\ \A r \in Slots : loc[r] # f
        /\ captureQueu # f
        /\ \A i \in 1 .. Len(previewFrames) : previewFrames[i] # f
  BY NullAssumption DEF get_frame, Own, MemType, memory
<1>4. mFramePool' \subseteq mFramePool /\ allocated \subseteq allocated'
      /\ mFramePool' \subseteq allocated' /\ allocated' \subseteq Frames
  BY NullAssumption DEF get_frame, Own, MemType, memory
<1>5. MemType'
  BY <1>4 DEF MemType
<1>6. \A r \in Slots : loc'[r] = IF r = s THEN f ELSE loc[r]
  BY DEF MemType
<1>7. \A i \in 1 .. Len(previewFrames) : previewFrames[i] # NULL
  BY NullAssumption DEF MemType
<1>8. QED
  BY <1>2, <1>3, <1>4, <1>5, <1>6, <1>7 DEF Own

\* recycle_frame of a local variable that owns a frame, which is then given up.
LEMMA RecycleOwn ==
  ASSUME MemType, Own, NEW s \in Slots, loc[s] # NULL, recycle_frame(loc[s]),
         loc' = [loc EXCEPT ![s] = NULL], UNCHANGED <<previewFrames, captureQueu>>
  PROVE  MemType' /\ Own'
<1>1. loc[s] \in Frames
  BY DEF MemType, FrameOrNull
<1>2. /\ mFramePool' \subseteq mFramePool \cup {loc[s]}
      /\ allocated \ {loc[s]} \subseteq allocated'
      /\ allocated' \subseteq allocated
      /\ mFramePool' \subseteq allocated'
  BY DEF recycle_frame, Own
<1>3. MemType'
  BY <1>1, <1>2 DEF MemType, FrameOrNull
<1>4. \A r \in Slots : loc'[r] = IF r = s THEN NULL ELSE loc[r]
  BY DEF MemType
<1>5. \A i \in 1 .. Len(previewFrames) : previewFrames[i] # loc[s]
  BY DEF Own
<1>6. \A i \in 1 .. Len(previewFrames) : previewFrames[i] # NULL
  BY NullAssumption DEF MemType
<1>7. QED
  BY <1>2, <1>3, <1>4, <1>5, <1>6 DEF Own

\* A local variable forgets its frame.
LEMMA DropOwn ==
  ASSUME MemType, Own, NEW s \in Slots,
         loc' = [loc EXCEPT ![s] = NULL], UNCHANGED <<memory, previewFrames, captureQueu>>
  PROVE  MemType' /\ Own'
<1>1. MemType'
  BY DEF MemType, FrameOrNull, memory
<1>2. \A r \in Slots : loc'[r] = IF r = s THEN NULL ELSE loc[r]
  BY DEF MemType
<1>3. \A i \in 1 .. Len(previewFrames) : previewFrames[i] # NULL
  BY NullAssumption DEF MemType
<1>4. QED
  BY <1>1, <1>2, <1>3 DEF Own, memory

\* addPreviewFrame hands the callback's copy to the preview queue.
LEMMA EnqueueOwn ==
  ASSUME MemType, Own, loc["copy"] # NULL,
         previewFrames' = Append(previewFrames, loc["copy"]),
         loc' = [loc EXCEPT !["copy"] = NULL], UNCHANGED <<memory, captureQueu>>
  PROVE  MemType' /\ Own'
<1>1. loc["copy"] \in Frames /\ "copy" \in Slots
  BY DEF MemType, FrameOrNull, Slots
<1>2. MemType'
  BY <1>1 DEF MemType, FrameOrNull, memory
<1>3. \A r \in Slots : loc'[r] = IF r = "copy" THEN NULL ELSE loc[r]
  BY DEF MemType
<1>4. /\ Len(previewFrames') = Len(previewFrames) + 1
      /\ Len(previewFrames) \in Nat
      /\ \A i \in 1 .. Len(previewFrames') :
            previewFrames'[i] = IF i = Len(previewFrames) + 1
                                THEN loc["copy"] ELSE previewFrames[i]
  BY <1>1 DEF MemType
<1>5. \A i \in 1 .. Len(previewFrames') :
         i # Len(previewFrames) + 1 => i \in 1 .. Len(previewFrames)
  BY <1>4
<1>6. \A i \in 1 .. Len(previewFrames) : previewFrames[i] # NULL
  BY NullAssumption DEF MemType
<1>7. \A i, j \in 1 .. Len(previewFrames') : previewFrames'[i] = previewFrames'[j] => i = j
  BY <1>1, <1>4, <1>5 DEF Own
<1>8. \A i \in 1 .. Len(previewFrames') :
          /\ previewFrames'[i] \in allocated
          /\ previewFrames'[i] \notin mFramePool
          /\ previewFrames'[i] # captureQueu
          /\ \A s \in Slots : previewFrames'[i] # loc'[s]
  BY <1>1, <1>3, <1>4, <1>5, <1>6 DEF Own
<1>9. QED
  BY <1>2, <1>3, <1>7, <1>8 DEF Own, memory

\* waitPreviewFrame takes the head of the queue into a local variable.
LEMMA DequeueOwn ==
  ASSUME MemType, Own, previewFrames # <<>>,
         loc' = [loc EXCEPT !["raw"] = Head(previewFrames)],
         previewFrames' = Tail(previewFrames), UNCHANGED <<memory, captureQueu>>
  PROVE  MemType' /\ Own' /\ loc'["raw"] # NULL
<1>1. /\ Len(previewFrames) \in Nat /\ Len(previewFrames) >= 1
      /\ Head(previewFrames) = previewFrames[1]
      /\ Head(previewFrames) \in Frames
      /\ "raw" \in Slots
  BY DEF MemType, Slots
<1>2. MemType'
  BY <1>1 DEF MemType, FrameOrNull, memory
<1>3. \A r \in Slots : loc'[r] = IF r = "raw" THEN previewFrames[1] ELSE loc[r]
  BY <1>1 DEF MemType
<1>4. /\ Len(previewFrames') = Len(previewFrames) - 1
      /\ \A i \in 1 .. Len(previewFrames') : previewFrames'[i] = previewFrames[i + 1]
  BY DEF MemType
<1>5. \A i \in 1 .. Len(previewFrames') : i + 1 \in 1 .. Len(previewFrames) /\ i + 1 # 1
  BY <1>1, <1>4
<1>6. 1 \in 1 .. Len(previewFrames)
  BY <1>1
<1>7. \A i \in 1 .. Len(previewFrames') :
          /\ previewFrames'[i] \in allocated
          /\ previewFrames'[i] \notin mFramePool
          /\ previewFrames'[i] # captureQueu
          /\ \A s \in Slots : previewFrames'[i] # loc'[s]
  BY <1>3, <1>4, <1>5, <1>6 DEF Own
<1>8. \A i, j \in 1 .. Len(previewFrames') : previewFrames'[i] = previewFrames'[j] => i = j
  BY <1>4, <1>5 DEF Own
<1>9. \A s \in Slots : loc'[s] # NULL =>
          loc'[s] \in allocated /\ loc'[s] \notin mFramePool /\ loc'[s] # captureQueu
  BY <1>3, <1>6 DEF Own
<1>10. \A r, s \in Slots : loc'[r] = loc'[s] /\ loc'[r] # NULL => r = s
  BY <1>3, <1>6 DEF Own
<1>11. loc'["raw"] # NULL
  BY <1>1, <1>3, NullAssumption
<1>12. QED
  BY <1>2, <1>7, <1>8, <1>9, <1>10, <1>11 DEF Own, memory

\* clearPreviewFrame gives every queued frame to the pool or to the heap.
LEMMA ClearPreviewOwn ==
  ASSUME MemType, Own, recycle_all(previewFrames), previewFrames' = <<>>,
         UNCHANGED <<loc, captureQueu>>
  PROVE  MemType' /\ Own'
<1> DEFINE fits == {j \in DOMAIN previewFrames : j <= FRAME_POOL_SZ - Cardinality(mFramePool)}
           In == {previewFrames[i] : i \in fits}
           Out == {previewFrames[i] : i \in DOMAIN previewFrames \ fits}
<1>1. mFramePool' = mFramePool \cup In /\ allocated' = allocated \ Out
  BY DEF recycle_all
<1>2. DOMAIN previewFrames = 1 .. Len(previewFrames)
      /\ \A i \in 1 .. Len(previewFrames) : previewFrames[i] \in Frames
  BY DEF MemType
<1>3. \A f \in In \cup Out : \E i \in 1 .. Len(previewFrames) : f = previewFrames[i]
  BY <1>2
<1>4. In \cap Out = {}
  <2> SUFFICES ASSUME NEW i \in fits, NEW j \in DOMAIN previewFrames \ fits,
                      previewFrames[i] = previewFrames[j]
               PROVE  FALSE
    OBVIOUS
  <2>1. i \in DOMAIN previewFrames /\ j \in DOMAIN previewFrames
    OBVIOUS
  <2>2. i = j
    BY <1>2, <2>1 DEF Own
  <2>3. QED
    BY <2>2
<1> HIDE DEF fits, In, Out
<1>5. MemType'
  BY <1>1, <1>2, <1>3 DEF MemType
<1>6. \A s \in Slots : loc[s] # NULL => loc[s] \notin In \cup Out
  BY <1>3 DEF Own
<1>7. captureQueu # NULL => captureQueu \notin In \cup Out
  BY <1>3 DEF Own
<1>8. mFramePool' \subseteq allocated'
  BY <1>1, <1>3, <1>4 DEF Own
<1>9. Len(previewFrames') = 0
  OBVIOUS
<1>10. 1 .. Len(previewFrames') = {}
  BY <1>9
<1>11. QED
  BY <1>1, <1>5, <1>6, <1>7, <1>8, <1>10 DEF Own

\* clearCaptureFrame gives the stored frame to the pool or to the heap.
LEMMA ClearCaptureOwn ==
  ASSUME MemType, Own,
         IF captureQueu = NULL THEN UNCHANGED memory ELSE recycle_frame(captureQueu),
         captureQueu' = NULL, UNCHANGED <<loc, previewFrames>>
  PROVE  MemType' /\ Own'
<1>1. CASE captureQueu = NULL
  BY <1>1 DEF MemType, Own, memory
<1>2. CASE captureQueu # NULL
  <2>1. captureQueu \in Frames /\ recycle_frame(captureQueu)
    BY <1>2 DEF MemType, FrameOrNull
  <2>2. /\ mFramePool' \subseteq mFramePool \cup {captureQueu}
        /\ allocated \ {captureQueu} \subseteq allocated'
        /\ allocated' \subseteq allocated
        /\ mFramePool' \subseteq allocated'
    BY <1>2, <2>1 DEF recycle_frame, Own
  <2>3. MemType'
    BY <2>1, <2>2 DEF MemType, FrameOrNull
  <2>4. \A i \in 1 .. Len(previewFrames) : previewFrames[i] # NULL
    BY NullAssumption DEF MemType
  <2>5. QED
    BY <2>2, <2>3, <2>4 DEF Own
<1>3. QED
  BY <1>1, <1>2

\* addCaptureFrame replaces the stored frame by the preview thread's.
LEMMA StoreOwn ==
  ASSUME MemType, Own,
         IF captureQueu = NULL THEN UNCHANGED memory ELSE recycle_frame(captureQueu),
         captureQueu' = loc["raw"], loc' = [loc EXCEPT !["raw"] = NULL],
         UNCHANGED previewFrames
  PROVE  MemType' /\ Own'
<1>0. "raw" \in Slots /\ loc["raw"] \in FrameOrNull
  BY DEF MemType, Slots
<1>1. /\ mFramePool' \subseteq mFramePool \cup ({captureQueu} \ {NULL})
      /\ allocated \ {captureQueu} \subseteq allocated'
      /\ allocated' \subseteq allocated
      /\ mFramePool' \subseteq allocated'
  BY DEF recycle_frame, Own, memory
<1>2. \A r \in Slots : loc'[r] = IF r = "raw" THEN NULL ELSE loc[r]
  BY DEF MemType
<1>3. captureQueu = NULL \/ captureQueu \in Frames
  BY DEF MemType, FrameOrNull
<1>4. captureQueu = NULL => allocated' = allocated
  BY DEF memory
<1>5. MemType'
  BY <1>0, <1>1, <1>3 DEF MemType, FrameOrNull
<1>6. \A i \in 1 .. Len(previewFrames) : previewFrames[i] # NULL
  BY NullAssumption DEF MemType
<1>7. QED
  BY <1>0, <1>1, <1>2, <1>4, <1>5, <1>6 DEF Own

\* waitCaptureFrame moves the stored frame to the capture thread.
LEMMA TakeOwn ==
  ASSUME MemType, Own, captureQueu # NULL,
         loc' = [loc EXCEPT !["taken"] = captureQueu],
         captureQueu' = NULL, UNCHANGED <<memory, previewFrames>>
  PROVE  MemType' /\ Own' /\ loc'["taken"] # NULL
<1>1. "taken" \in Slots
  BY DEF Slots
<1>2. \A r \in Slots : loc'[r] = IF r = "taken" THEN captureQueu ELSE loc[r]
  BY DEF MemType
<1>3. MemType'
  BY DEF MemType, FrameOrNull, memory
<1>4. \A i \in 1 .. Len(previewFrames) : previewFrames[i] # NULL
  BY NullAssumption DEF MemType
<1>5. QED
  BY <1>1, <1>2, <1>3, <1>4 DEF Own, memory

-----------------------------------------------------------------------------
(* The inductive invariant.                                                *)

\* The types of the Boolean variables.
FlagType ==
    /\ test \in BOOLEAN
    /\ mPreviewWindow \in BOOLEAN
    /\ mIsRunning \in BOOLEAN
    /\ mIsCapturing \in BOOLEAN
    /\ mPictureCapturing \in BOOLEAN
    /\ mMovieCapturing \in BOOLEAN
    /\ streaming \in BOOLEAN
    /\ crashed \in BOOLEAN

\* The types of the other variables that own no frame.
CtlType ==
    /\ frameFormat \in Formats
    /\ pc \in [Threads -> AllLabels]
    /\ pc["ui"] \in UiLabels
    /\ pc["cb"] \in CbLabels
    /\ pc["prev"] \in PrevLabels
    /\ pc["cap"] \in CapLabels
    /\ starts \in 0 .. MaxStarts
    /\ undecodable \in 0 .. MaxUndecodable
    /\ stops \in Nat
    /\ outdated \in FrameOrNull

IInv == MemType /\ FlagType /\ CtlType /\ Own /\ SlotsFilled

LEMMA TypeOKParts == TypeOK <=> MemType /\ FlagType /\ CtlType
BY DEF TypeOK, MemType, FlagType, CtlType

\* The state after PreviewPrepare satisfies the invariant.
LEMMA InitIInv == Init => IInv
<1> SUFFICES ASSUME Init PROVE IInv
  OBVIOUS
<1>1. MemType
  BY DEF Init, MemType, FrameOrNull
<1>2. FlagType
  <2>1. mPreviewWindow \in BOOLEAN
    BY DEF Init
  <2>2. QED
    BY <2>1 DEF Init, FlagType
<1>3. CtlType
  BY SizeAssumption DEF Init, CtlType, Threads, AllLabels, UiLabels, CbLabels,
     PrevLabels, CapLabels, FrameOrNull
<1>4. Own
  <2>1. 1 .. Len(previewFrames) = {}
    BY DEF Init
  <2>2. QED
    BY <2>1 DEF Init, Own
<1>5. SlotsFilled
  BY DEF Init, SlotsFilled, Threads
<1>6. QED
  BY <1>1, <1>2, <1>3, <1>4, <1>5 DEF IInv

\* A step of the Java thread keeps the invariant.
LEMMA UiStep ==
  ASSUME IInv, Ui
  PROVE  IInv'
<1> USE DEF At, Goto, GotoAndSignal
<1>0. MemType /\ FlagType /\ CtlType /\ Own /\ SlotsFilled
  BY DEF IInv
<1>1. CASE startPreview
  <2>1. FlagType'
    BY <1>0, <1>1 DEF startPreview, FlagType, config, flags
  <2>2. CtlType' /\ SlotsFilled'
    BY <1>0, <1>1, SizeAssumption DEF startPreview, CtlType, SlotsFilled, config,
       counters, Threads, AllLabels, UiLabels
  <2>3. MemType' /\ Own'
    BY <1>0, <1>1, OwnStutter DEF startPreview
  <2>4. QED
    BY <2>1, <2>2, <2>3 DEF IInv
<1>2. CASE createPreviewThread
  <2>1. FlagType'
    BY <1>0, <1>2 DEF createPreviewThread, FlagType, config, flags
  <2>2. CtlType' /\ SlotsFilled'
    BY <1>0, <1>2 DEF createPreviewThread, CtlType, SlotsFilled, config, counters,
       Threads, AllLabels, UiLabels, PrevLabels
  <2>3. MemType' /\ Own'
    BY <1>0, <1>2, OwnStutter DEF createPreviewThread
  <2>4. QED
    BY <2>1, <2>2, <2>3 DEF IInv
<1>3. CASE startFails
  <2>1. FlagType'
    BY <1>0, <1>3 DEF startFails, FlagType, config, flags
  <2>2. CtlType' /\ SlotsFilled'
    BY <1>0, <1>3 DEF startFails, CtlType, SlotsFilled, config, counters, Threads,
       AllLabels, UiLabels
  <2>3. MemType' /\ Own'
    BY <1>0, <1>3, OwnStutter DEF startFails
  <2>4. QED
    BY <2>1, <2>2, <2>3 DEF IInv
<1>4. CASE enable_mIsCapturing
  <2>1. FlagType'
    BY <1>0, <1>4 DEF enable_mIsCapturing, FlagType, config, flags
  <2>2. CtlType' /\ SlotsFilled'
    BY <1>0, <1>4 DEF enable_mIsCapturing, CtlType, SlotsFilled, config, counters,
       Threads, AllLabels, UiLabels
  <2>3. MemType' /\ Own'
    BY <1>0, <1>4, OwnStutter DEF enable_mIsCapturing
  <2>4. QED
    BY <2>1, <2>2, <2>3 DEF IInv
<1>5. CASE capture_picture
  <2>1. FlagType'
    BY <1>0, <1>5 DEF capture_picture, FlagType, config, flags
  <2>2. CtlType' /\ SlotsFilled'
    BY <1>0, <1>5 DEF capture_picture, CtlType, SlotsFilled, config, counters,
       Threads, AllLabels, UiLabels
  <2>3. MemType' /\ Own'
    BY <1>0, <1>5, OwnStutter DEF capture_picture
  <2>4. QED
    BY <2>1, <2>2, <2>3 DEF IInv
<1>6. CASE capture_picture_flag
  <2>1. FlagType'
    BY <1>0, <1>6 DEF capture_picture_flag, FlagType, config, flags
  <2>2. CtlType' /\ SlotsFilled'
    BY <1>0, <1>6 DEF capture_picture_flag, CtlType, SlotsFilled, config,
       counters, Threads, AllLabels, UiLabels
  <2>3. MemType' /\ Own'
    BY <1>0, <1>6, OwnStutter DEF capture_picture_flag
  <2>4. QED
    BY <2>1, <2>2, <2>3 DEF IInv
<1>7. CASE capture_movie
  <2>1. FlagType'
    BY <1>0, <1>7 DEF capture_movie, FlagType, config, flags
  <2>2. CtlType' /\ SlotsFilled'
    BY <1>0, <1>7 DEF capture_movie, CtlType, SlotsFilled, config, counters,
       Threads, AllLabels, UiLabels
  <2>3. MemType' /\ Own'
    BY <1>0, <1>7, OwnStutter DEF capture_movie
  <2>4. QED
    BY <2>1, <2>2, <2>3 DEF IInv
<1>8. CASE exit_capture_movie
  <2>1. FlagType'
    BY <1>0, <1>8 DEF exit_capture_movie, FlagType, config, flags
  <2>2. CtlType' /\ SlotsFilled'
    BY <1>0, <1>8 DEF exit_capture_movie, CtlType, SlotsFilled, config, counters,
       Threads, AllLabels, UiLabels
  <2>3. MemType' /\ Own'
    BY <1>0, <1>8, OwnStutter DEF exit_capture_movie
  <2>4. QED
    BY <2>1, <2>2, <2>3 DEF IInv
<1>9. CASE stopPreview
  <2>1. FlagType'
    BY <1>0, <1>9 DEF stopPreview, FlagType, config, flags
  <2>2. CtlType' /\ SlotsFilled'
    BY <1>0, <1>9 DEF stopPreview, CtlType, SlotsFilled, config, counters,
       Threads, AllLabels, UiLabels
  <2>3. MemType' /\ Own'
    BY <1>0, <1>9, OwnStutter DEF stopPreview
  <2>4. QED
    BY <2>1, <2>2, <2>3 DEF IInv
<1>10. CASE signalPreviewSync
  <2>1. FlagType'
    BY <1>0, <1>10 DEF signalPreviewSync, FlagType, config, flags
  <2>2. CtlType' /\ SlotsFilled'
    BY <1>0, <1>10 DEF signalPreviewSync, CtlType, SlotsFilled, config, counters,
       Threads, AllLabels, UiLabels, PrevLabels
  <2>3. MemType' /\ Own'
    BY <1>0, <1>10, OwnStutter DEF signalPreviewSync
  <2>4. QED
    BY <2>1, <2>2, <2>3 DEF IInv
<1>11. CASE signalCaptureSync
  <2>1. FlagType'
    BY <1>0, <1>11 DEF signalCaptureSync, FlagType, config, flags
  <2>2. CtlType' /\ SlotsFilled'
    BY <1>0, <1>11 DEF signalCaptureSync, CtlType, SlotsFilled, config, counters,
       Threads, AllLabels, UiLabels, CapLabels
  <2>3. MemType' /\ Own'
    BY <1>0, <1>11, OwnStutter DEF signalCaptureSync
  <2>4. QED
    BY <2>1, <2>2, <2>3 DEF IInv
<1>12. CASE joinCaptureThread
  <2>1. FlagType'
    BY <1>0, <1>12 DEF joinCaptureThread, FlagType, config, flags
  <2>2. CtlType' /\ SlotsFilled'
    BY <1>0, <1>12 DEF joinCaptureThread, CtlType, SlotsFilled, config, counters,
       Threads, AllLabels, UiLabels, CapLabels
  <2>3. MemType' /\ Own'
    BY <1>0, <1>12, OwnStutter DEF joinCaptureThread
  <2>4. QED
    BY <2>1, <2>2, <2>3 DEF IInv
<1>13. CASE joinNoCaptureThread
  <2>1. FlagType'
    BY <1>0, <1>13 DEF joinNoCaptureThread, FlagType, config, flags
  <2>2. CtlType' /\ SlotsFilled'
    BY <1>0, <1>13 DEF joinNoCaptureThread, CtlType, SlotsFilled, config,
       counters, Threads, AllLabels, UiLabels
  <2>3. MemType' /\ Own'
    BY <1>0, <1>13, OwnStutter DEF joinNoCaptureThread
  <2>4. QED
    BY <2>1, <2>2, <2>3 DEF IInv
<1>14. CASE joinPreviewThread
  <2>1. FlagType'
    BY <1>0, <1>14 DEF joinPreviewThread, FlagType, config, flags
  <2>2. CtlType' /\ SlotsFilled'
    BY <1>0, <1>14 DEF joinPreviewThread, CtlType, SlotsFilled, config, counters,
       Threads, AllLabels, UiLabels, PrevLabels
  <2>3. MemType' /\ Own'
    BY <1>0, <1>14, OwnStutter DEF joinPreviewThread
  <2>4. QED
    BY <2>1, <2>2, <2>3 DEF IInv
<1>15. CASE stopClearsPreview
  <2>1. FlagType'
    BY <1>0, <1>15 DEF stopClearsPreview, clearPreviewFrame, FlagType, config, flags
  <2>2. CtlType' /\ SlotsFilled'
    BY <1>0, <1>15 DEF stopClearsPreview, clearPreviewFrame, CtlType, SlotsFilled,
       config, counters, Threads, AllLabels, UiLabels, MemType, Slots
  <2>3. MemType' /\ Own'
    BY <1>0, <1>15, ClearPreviewOwn DEF stopClearsPreview, clearPreviewFrame
  <2>4. QED
    BY <2>1, <2>2, <2>3 DEF IInv
<1>16. CASE stopClearsCapture
  <2>1. FlagType'
    BY <1>0, <1>16 DEF stopClearsCapture, clearCaptureFrame, FlagType, config, flags
  <2>2. CtlType' /\ SlotsFilled'
    BY <1>0, <1>16 DEF stopClearsCapture, clearCaptureFrame, Forget, CtlType,
       SlotsFilled, config, counters, Threads, AllLabels, UiLabels, MemType,
       Slots, FrameOrNull
  <2>3. MemType' /\ Own'
    BY <1>0, <1>16, ClearCaptureOwn DEF stopClearsCapture, clearCaptureFrame
  <2>4. QED
    BY <2>1, <2>2, <2>3 DEF IInv
<1>17. CASE releaseWindow
  <2>1. FlagType'
    BY <1>0, <1>17 DEF releaseWindow, FlagType, config, flags
  <2>2. CtlType' /\ SlotsFilled'
    BY <1>0, <1>17 DEF releaseWindow, CtlType, SlotsFilled, config, counters,
       Threads, AllLabels, UiLabels
  <2>3. MemType' /\ Own'
    BY <1>0, <1>17, OwnStutter DEF releaseWindow
  <2>4. QED
    BY <2>1, <2>2, <2>3 DEF IInv
<1>18. QED
  BY <1>1, <1>2, <1>3, <1>4, <1>5, <1>6, <1>7, <1>8, <1>9, <1>10, <1>11, <1>12,
     <1>13, <1>14, <1>15, <1>16, <1>17 DEF Ui

\* A step of libuvc's callback thread keeps the invariant.
LEMMA CbStep ==
  ASSUME IInv, Cb
  PROVE  IInv'
<1> USE DEF At, Goto, GotoAndSignal
<1>0. MemType /\ FlagType /\ CtlType /\ Own /\ SlotsFilled
  BY DEF IInv
<1>1. CASE uvc_preview_frame_callback
  <2>0. PICK f \in FrameOrNull :
          /\ get_frame(f)
          /\ loc' = [loc EXCEPT !["copy"] = f]
          /\ pc' = [pc EXCEPT !["cb"] = IF f = NULL THEN "idle" ELSE "dup"]
    BY <1>1 DEF uvc_preview_frame_callback
  <2>1. FlagType'
    BY <1>0, <1>1 DEF uvc_preview_frame_callback, FlagType, config, flags
  <2>2. CtlType' /\ SlotsFilled'
    BY <1>0, <1>1, <2>0 DEF uvc_preview_frame_callback, CtlType, SlotsFilled,
       config, counters, Threads, AllLabels, CbLabels, MemType, Slots
  <2>3. MemType' /\ Own'
    BY <1>0, <1>1, <2>0, GetFrameOwn DEF uvc_preview_frame_callback, Slots
  <2>4. QED
    BY <2>1, <2>2, <2>3 DEF IInv
<1>2. CASE uvc_duplicate_frame
  <2>1. FlagType'
    BY <1>0, <1>2 DEF uvc_duplicate_frame, FlagType, config, flags
  <2>2. CtlType' /\ SlotsFilled'
    BY <1>0, <1>2 DEF uvc_duplicate_frame, CtlType, SlotsFilled, config, counters,
       Threads, AllLabels, CbLabels
  <2>3. MemType' /\ Own'
    BY <1>0, <1>2, OwnStutter DEF uvc_duplicate_frame
  <2>4. QED
    BY <2>1, <2>2, <2>3 DEF IInv
<1>3. CASE addPreviewFrame
  <2>1. FlagType'
    BY <1>0, <1>3 DEF addPreviewFrame, FlagType, config, flags
  <2>2. CtlType' /\ SlotsFilled'
    BY <1>0, <1>3 DEF addPreviewFrame, CtlType, SlotsFilled, config, counters, Threads,
       AllLabels, CbLabels, PrevLabels, MemType, Slots
  <2>3. MemType' /\ Own'
    <3>1. loc["copy"] # NULL
      BY <1>0, <1>3 DEF addPreviewFrame, SlotsFilled
    <3>2. CASE mIsRunning /\ Len(previewFrames) < MAX_FRAME
      BY <1>0, <1>3, <3>1, <3>2, EnqueueOwn DEF addPreviewFrame
    <3>3. CASE ~(mIsRunning /\ Len(previewFrames) < MAX_FRAME)
      BY <1>0, <1>3, <3>3, OwnStutter DEF addPreviewFrame
    <3>4. QED
      BY <3>2, <3>3
  <2>4. QED
    BY <2>1, <2>2, <2>3 DEF IInv
<1>4. CASE recycleCopy
  <2>1. FlagType'
    BY <1>0, <1>4 DEF recycleCopy, RecycleSlot, FlagType, config, flags
  <2>2. CtlType' /\ SlotsFilled'
    BY <1>0, <1>4 DEF recycleCopy, RecycleSlot, CtlType, SlotsFilled, config,
       counters, Threads, AllLabels, CbLabels, MemType, Slots
  <2>3. MemType' /\ Own'
    BY <1>0, <1>4, RecycleOwn DEF recycleCopy, RecycleSlot, SlotsFilled, Slots
  <2>4. QED
    BY <2>1, <2>2, <2>3 DEF IInv
<1>5. QED
  BY <1>1, <1>2, <1>3, <1>4 DEF Cb

\* A step of the preview thread keeps the invariant.
LEMMA PrevStep ==
  ASSUME IInv, Prev
  PROVE  IInv'
<1> USE DEF At, Goto, GotoAndSignal
<1>0. MemType /\ FlagType /\ CtlType /\ Own /\ SlotsFilled
  BY DEF IInv
<1>1. CASE prepare_preview
  <2>1. FlagType'
    BY <1>0, <1>1 DEF prepare_preview, FlagType, config, flags
  <2>2. CtlType' /\ SlotsFilled'
    BY <1>0, <1>1 DEF prepare_preview, CtlType, SlotsFilled, config, counters,
       Threads, AllLabels, PrevLabels
  <2>3. MemType' /\ Own'
    BY <1>0, <1>1, OwnStutter DEF prepare_preview
  <2>4. QED
    BY <2>1, <2>2, <2>3 DEF IInv
<1>2. CASE previewClears
  <2>1. FlagType'
    BY <1>0, <1>2 DEF previewClears, clearPreviewFrame, FlagType, config, flags
  <2>2. CtlType' /\ SlotsFilled'
    BY <1>0, <1>2 DEF previewClears, clearPreviewFrame, CtlType, SlotsFilled,
       config, counters, Threads, AllLabels, PrevLabels, MemType, Slots
  <2>3. MemType' /\ Own'
    BY <1>0, <1>2, ClearPreviewOwn DEF previewClears, clearPreviewFrame
  <2>4. QED
    BY <2>1, <2>2, <2>3 DEF IInv
<1>3. CASE createCaptureThread
  <2>1. FlagType'
    BY <1>0, <1>3 DEF createCaptureThread, FlagType, config, flags
  <2>2. CtlType' /\ SlotsFilled'
    BY <1>0, <1>3 DEF createCaptureThread, CtlType, SlotsFilled, config, counters,
       Threads, AllLabels, PrevLabels, CapLabels
  <2>3. MemType' /\ Own'
    BY <1>0, <1>3, OwnStutter DEF createCaptureThread
  <2>4. QED
    BY <2>1, <2>2, <2>3 DEF IInv
<1>4. CASE do_preview
  <2>1. FlagType'
    BY <1>0, <1>4 DEF do_preview, FlagType, config, flags
  <2>2. CtlType' /\ SlotsFilled'
    BY <1>0, <1>4 DEF do_preview, CtlType, SlotsFilled, config, counters, Threads,
       AllLabels, PrevLabels
  <2>3. MemType' /\ Own'
    BY <1>0, <1>4, OwnStutter DEF do_preview
  <2>4. QED
    BY <2>1, <2>2, <2>3 DEF IInv
<1>5. CASE waitPreviewFrame
  <2>1. FlagType'
    BY <1>0, <1>5 DEF waitPreviewFrame, FlagType, config, flags
  <2>2. CtlType' /\ SlotsFilled'
    BY <1>0, <1>5 DEF waitPreviewFrame, CtlType, SlotsFilled, config, counters,
       Threads, AllLabels, PrevLabels
  <2>3. MemType' /\ Own'
    BY <1>0, <1>5, OwnStutter DEF waitPreviewFrame
  <2>4. QED
    BY <2>1, <2>2, <2>3 DEF IInv
<1>6. CASE takePreviewFrame
  <2>1. FlagType'
    BY <1>0, <1>6 DEF takePreviewFrame, FlagType, config, flags
  <2>2. CASE mIsRunning /\ previewFrames # <<>>
    <3>1. MemType' /\ Own' /\ loc'["raw"] # NULL
      BY <1>0, <1>6, <2>2, DequeueOwn DEF takePreviewFrame
    <3>2. Dispatch(Head(previewFrames)) \in {"add", "decode", "draw", "loop"}
      BY DEF Dispatch
    <3>3. CtlType' /\ SlotsFilled'
      BY <1>0, <1>6, <2>2, <3>1, <3>2 DEF takePreviewFrame, CtlType,
         SlotsFilled, config,
         counters, Threads, AllLabels, PrevLabels, MemType, Slots
    <3>4. QED
      BY <2>1, <3>1, <3>3 DEF IInv
  <2>3. CASE ~(mIsRunning /\ previewFrames # <<>>)
    <3>1. Dispatch(NULL) \in {"add", "loop"}
      BY DEF Dispatch
    <3>2. CtlType' /\ SlotsFilled'
      BY <1>0, <1>6, <2>3, <3>1 DEF takePreviewFrame, CtlType, SlotsFilled, config,
         counters, Threads, AllLabels, PrevLabels
    <3>3. MemType' /\ Own'
      BY <1>0, <1>6, <2>3, OwnStutter DEF takePreviewFrame
    <3>4. QED
      BY <2>1, <3>2, <3>3 DEF IInv
  <2>4. QED
    BY <2>2, <2>3
<1>7. CASE uvc_mjpeg2yuyv
  <2>0. PICK f \in FrameOrNull :
          /\ get_frame(f)
          /\ loc' = [loc EXCEPT !["yuyv"] = f]
          /\ crashed' = (f = NULL)
    BY <1>7 DEF uvc_mjpeg2yuyv
  <2>1. FlagType'
    BY <1>0, <1>7, <2>0 DEF uvc_mjpeg2yuyv, FlagType, config, flags
  <2>2. CtlType'
    BY <1>0, <1>7, SizeAssumption DEF uvc_mjpeg2yuyv, CtlType, config, counters,
       Threads,
       AllLabels, PrevLabels
  <2>3. SlotsFilled'
    BY <1>0, <1>7, <2>0 DEF uvc_mjpeg2yuyv, CtlType, SlotsFilled, Threads,
       MemType, Slots
  <2>4. MemType' /\ Own'
    BY <1>0, <1>7, <2>0, GetFrameOwn DEF uvc_mjpeg2yuyv, Slots
  <2>5. QED
    BY <2>1, <2>2, <2>3, <2>4 DEF IInv
<1>8. CASE dropUndecoded
  <2>1. FlagType'
    BY <1>0, <1>8 DEF dropUndecoded, FlagType, config, flags
  <2>2. CtlType' /\ SlotsFilled'
    BY <1>0, <1>8 DEF dropUndecoded, CtlType, SlotsFilled, config, counters, Threads,
       AllLabels, PrevLabels, MemType, Slots
  <2>3. MemType' /\ Own'
    <3>1. loc["yuyv"] # NULL /\ "yuyv" \in Slots /\ "raw" \in Slots
      BY <1>0, <1>8 DEF dropUndecoded, SlotsFilled, Slots
    <3>2. loc["yuyv"] \in Frames
      BY <1>0, <3>1 DEF MemType, FrameOrNull
    <3>3. /\ mFramePool' \subseteq mFramePool \cup {loc["yuyv"]}
          /\ allocated \ {loc["yuyv"]} \subseteq allocated'
          /\ allocated' \subseteq allocated
          /\ mFramePool' \subseteq allocated'
      BY <1>0, <1>8, <3>1 DEF dropUndecoded, recycle_frame, Own
    <3>4. UNCHANGED <<previewFrames, captureQueu>>
      BY <1>8 DEF dropUndecoded
    <3>5. MemType'
      BY <1>0, <1>8, <3>2, <3>3, <3>4 DEF dropUndecoded, MemType, FrameOrNull
    <3>6. \A r \in Slots : loc'[r] = IF r \in {"yuyv", "raw"} THEN NULL ELSE loc[r]
      BY <1>0, <1>8 DEF dropUndecoded, MemType
    <3>7. \A i \in 1 .. Len(previewFrames) : previewFrames[i] # NULL
      BY <1>0, NullAssumption DEF MemType
    <3>8. QED
      BY <1>0, <3>1, <3>3, <3>4, <3>5, <3>6, <3>7 DEF Own
  <2>4. QED
    BY <2>1, <2>2, <2>3 DEF IInv
<1>9. CASE draw_preview_one
  <2>0. PICK f \in FrameOrNull :
          /\ get_frame(f)
          /\ loc' = [loc EXCEPT !["conv"] = f]
          /\ pc' = [pc EXCEPT !["prev"] = IF f = NULL THEN "drawn" ELSE "convert"]
    BY <1>9 DEF draw_preview_one
  <2>1. FlagType'
    BY <1>0, <1>9 DEF draw_preview_one, FlagType, config, flags
  <2>2. CtlType' /\ SlotsFilled'
    BY <1>0, <1>9, <2>0 DEF draw_preview_one, CtlType, SlotsFilled, config,
       counters, Threads, AllLabels, PrevLabels, MemType, Slots
  <2>3. MemType' /\ Own'
    BY <1>0, <1>9, <2>0, GetFrameOwn DEF draw_preview_one, Slots
  <2>4. QED
    BY <2>1, <2>2, <2>3 DEF IInv
<1>10. CASE recycleConverted
  <2>1. FlagType'
    BY <1>0, <1>10 DEF recycleConverted, RecycleSlot, FlagType, config, flags
  <2>2. CtlType' /\ SlotsFilled'
    BY <1>0, <1>10 DEF recycleConverted, RecycleSlot, CtlType, SlotsFilled,
       config, counters, Threads, AllLabels, PrevLabels, MemType, Slots
  <2>3. MemType' /\ Own'
    BY <1>0, <1>10, RecycleOwn DEF recycleConverted, RecycleSlot, SlotsFilled, Slots
  <2>4. QED
    BY <2>1, <2>2, <2>3 DEF IInv
<1>11. CASE recycleDrawn
  <2>1. FlagType'
    BY <1>0, <1>11 DEF recycleDrawn, RecycleSlot, FlagType, config, flags
  <2>2. CtlType' /\ SlotsFilled'
    BY <1>0, <1>11 DEF recycleDrawn, RecycleSlot, CtlType, SlotsFilled, config,
       counters,
       Threads, AllLabels, PrevLabels, MemType, Slots
  <2>3. MemType' /\ Own'
    <3>1. CASE loc["yuyv"] = NULL
      BY <1>0, <1>11, <3>1, OwnStutter DEF recycleDrawn
    <3>2. CASE loc["yuyv"] # NULL
      BY <1>0, <1>11, <3>2, RecycleOwn DEF recycleDrawn, RecycleSlot, Slots
    <3>3. QED
      BY <3>1, <3>2
  <2>4. QED
    BY <2>1, <2>2, <2>3 DEF IInv
<1>12. CASE storeWhenCapturing
  <2>1. FlagType'
    BY <1>0, <1>12 DEF storeWhenCapturing, FlagType, config, flags
  <2>2. CtlType' /\ SlotsFilled'
    BY <1>0, <1>12 DEF storeWhenCapturing, CtlType, SlotsFilled, config, counters,
       Threads, AllLabels, PrevLabels
  <2>3. MemType' /\ Own'
    BY <1>0, <1>12, OwnStutter DEF storeWhenCapturing
  <2>4. QED
    BY <2>1, <2>2, <2>3 DEF IInv
<1>13. CASE recycleRaw
  <2>1. FlagType'
    BY <1>0, <1>13 DEF recycleRaw, RecycleSlot, FlagType, config, flags
  <2>2. CtlType' /\ SlotsFilled'
    BY <1>0, <1>13 DEF recycleRaw, RecycleSlot, CtlType, SlotsFilled, config,
       counters, Threads, AllLabels, PrevLabels, MemType, Slots, FrameOrNull
  <2>3. MemType' /\ Own'
    BY <1>0, <1>13, RecycleOwn DEF recycleRaw, RecycleSlot, SlotsFilled, Slots
  <2>4. QED
    BY <2>1, <2>2, <2>3 DEF IInv
<1>14. CASE addCaptureFrame
  <2>1. FlagType'
    BY <1>0, <1>14 DEF addCaptureFrame, FlagType, config, flags
  <2>2. CtlType' /\ SlotsFilled'
    BY <1>0, <1>14 DEF addCaptureFrame, Forget, CtlType, SlotsFilled, config, counters,
       Threads, AllLabels, PrevLabels, CapLabels, MemType, Slots, FrameOrNull
  <2>3. MemType' /\ Own'
    <3>1. CASE mIsRunning
      BY <1>0, <1>14, <3>1, StoreOwn DEF addCaptureFrame
    <3>2. CASE ~mIsRunning
      BY <1>0, <1>14, <3>2, DropOwn DEF addCaptureFrame, Slots
    <3>3. QED
      BY <3>1, <3>2
  <2>4. QED
    BY <2>1, <2>2, <2>3 DEF IInv
<1>15. CASE previewExit
  <2>1. FlagType'
    BY <1>0, <1>15 DEF previewExit, FlagType, config, flags
  <2>2. CtlType' /\ SlotsFilled'
    BY <1>0, <1>15 DEF previewExit, CtlType, SlotsFilled, config, counters,
       Threads, AllLabels, PrevLabels, CapLabels
  <2>3. MemType' /\ Own'
    BY <1>0, <1>15, OwnStutter DEF previewExit
  <2>4. QED
    BY <2>1, <2>2, <2>3 DEF IInv
<1>16. CASE uvc_stop_streaming
  <2>1. FlagType'
    BY <1>0, <1>16 DEF uvc_stop_streaming, FlagType, config, flags
  <2>2. CtlType' /\ SlotsFilled'
    BY <1>0, <1>16 DEF uvc_stop_streaming, CtlType, SlotsFilled, config, counters,
       Threads, AllLabels, PrevLabels
  <2>3. MemType' /\ Own'
    BY <1>0, <1>16, OwnStutter DEF uvc_stop_streaming
  <2>4. QED
    BY <2>1, <2>2, <2>3 DEF IInv
<1>17. QED
  BY <1>1, <1>2, <1>3, <1>4, <1>5, <1>6, <1>7, <1>8, <1>9, <1>10, <1>11, <1>12,
     <1>13, <1>14, <1>15, <1>16 DEF Prev

\* A step of the capture thread keeps the invariant.
LEMMA CapStep ==
  ASSUME IInv, Cap
  PROVE  IInv'
<1> USE DEF At, Goto, GotoAndSignal
<1>0. MemType /\ FlagType /\ CtlType /\ Own /\ SlotsFilled
  BY DEF IInv
<1>1. CASE captureClears
  <2>1. FlagType'
    BY <1>0, <1>1 DEF captureClears, clearCaptureFrame, FlagType, config, flags
  <2>2. CtlType' /\ SlotsFilled'
    BY <1>0, <1>1 DEF captureClears, clearCaptureFrame, Forget, CtlType,
       SlotsFilled, config, counters, Threads, AllLabels, CapLabels, MemType,
       Slots, FrameOrNull
  <2>3. MemType' /\ Own'
    BY <1>0, <1>1, ClearCaptureOwn DEF captureClears, clearCaptureFrame
  <2>4. QED
    BY <2>1, <2>2, <2>3 DEF IInv
<1>2. CASE do_capture
  <2>1. FlagType'
    BY <1>0, <1>2 DEF do_capture, FlagType, config, flags
  <2>2. CtlType' /\ SlotsFilled'
    BY <1>0, <1>2 DEF do_capture, CtlType, SlotsFilled, config, counters, Threads,
       AllLabels, CapLabels
  <2>3. MemType' /\ Own'
    BY <1>0, <1>2, OwnStutter DEF do_capture
  <2>4. QED
    BY <2>1, <2>2, <2>3 DEF IInv
<1>3. CASE waitCaptureFrame
  <2>1. FlagType'
    BY <1>0, <1>3 DEF waitCaptureFrame, FlagType, config, flags
  <2>2. CtlType' /\ SlotsFilled'
    BY <1>0, <1>3 DEF waitCaptureFrame, CtlType, SlotsFilled, config, counters,
       Threads, AllLabels, CapLabels
  <2>3. MemType' /\ Own'
    BY <1>0, <1>3, OwnStutter DEF waitCaptureFrame
  <2>4. QED
    BY <2>1, <2>2, <2>3 DEF IInv
<1>4. CASE takeCaptureFrame
  <2>1. FlagType'
    BY <1>0, <1>4 DEF takeCaptureFrame, FlagType, config, flags
  <2>2. CASE mIsRunning /\ captureQueu # NULL
    <3>1. MemType' /\ Own' /\ loc'["taken"] # NULL
      BY <1>0, <1>4, <2>2, TakeOwn DEF takeCaptureFrame
    <3>2. CtlType' /\ SlotsFilled'
      BY <1>0, <1>4, <2>2, <3>1 DEF takeCaptureFrame, CtlType, SlotsFilled, config,
         counters, Threads, AllLabels, CapLabels, MemType, Slots
    <3>3. QED
      BY <2>1, <3>1, <3>2 DEF IInv
  <2>3. CASE ~(mIsRunning /\ captureQueu # NULL)
    <3>1. CtlType' /\ SlotsFilled'
      BY <1>0, <1>4, <2>3 DEF takeCaptureFrame, CtlType, SlotsFilled, config, counters,
         Threads, AllLabels, CapLabels
    <3>2. MemType' /\ Own'
      BY <1>0, <1>4, <2>3, OwnStutter DEF takeCaptureFrame
    <3>3. QED
      BY <2>1, <3>1, <3>2 DEF IInv
  <2>4. QED
    BY <2>2, <2>3
<1>5. CASE do_capture_callback
  <2>1. FlagType'
    BY <1>0, <1>5 DEF do_capture_callback, FlagType, config, flags
  <2>2. CASE frameFormat = "NV21"
    <3>0. PICK f \in FrameOrNull :
            /\ get_frame(f)
            /\ loc' = [loc EXCEPT !["out"] = f]
            /\ pc' = [pc EXCEPT !["cap"] = IF f = NULL THEN "recycle" ELSE "converted"]
      BY <1>5, <2>2 DEF do_capture_callback
    <3>1. CtlType' /\ SlotsFilled'
      BY <1>0, <1>5, <3>0 DEF do_capture_callback, CtlType, SlotsFilled, config,
         counters,
         Threads, AllLabels, CapLabels, MemType, Slots
    <3>2. MemType' /\ Own'
      BY <1>0, <1>5, <3>0, GetFrameOwn DEF do_capture_callback, Slots
    <3>3. QED
      BY <2>1, <3>1, <3>2 DEF IInv
  <2>3. CASE frameFormat # "NV21"
    <3>1. CtlType' /\ SlotsFilled'
      BY <1>0, <1>5, <2>3 DEF do_capture_callback, CtlType, SlotsFilled, config,
         counters,
         Threads, AllLabels, CapLabels
    <3>2. MemType' /\ Own'
      BY <1>0, <1>5, <2>3, OwnStutter DEF do_capture_callback
    <3>3. QED
      BY <2>1, <3>1, <3>2 DEF IInv
  <2>4. QED
    BY <2>2, <2>3
<1>6. CASE recycleSource
  <2>1. FlagType'
    BY <1>0, <1>6 DEF recycleSource, RecycleSlot, Forget, FlagType, config, flags
  <2>2. CtlType' /\ SlotsFilled'
    BY <1>0, <1>6 DEF recycleSource, RecycleSlot, Forget, CtlType, SlotsFilled,
       config, counters, Threads, AllLabels, CapLabels, MemType, Slots,
       FrameOrNull
  <2>3. MemType' /\ Own'
    BY <1>0, <1>6, RecycleOwn DEF recycleSource, RecycleSlot, Forget, SlotsFilled, Slots
  <2>4. QED
    BY <2>1, <2>2, <2>3 DEF IInv
<1>7. CASE recycleOut
  <2>1. FlagType'
    BY <1>0, <1>7 DEF recycleOut, RecycleSlot, FlagType, config, flags
  <2>2. CtlType' /\ SlotsFilled'
    BY <1>0, <1>7 DEF recycleOut, RecycleSlot, CtlType, SlotsFilled, config,
       counters, Threads, AllLabels, CapLabels, MemType, Slots
  <2>3. MemType' /\ Own'
    BY <1>0, <1>7, RecycleOwn DEF recycleOut, RecycleSlot, SlotsFilled, Slots
  <2>4. QED
    BY <2>1, <2>2, <2>3 DEF IInv
<1>8. CASE recycleTaken
  <2>1. FlagType'
    BY <1>0, <1>8 DEF recycleTaken, RecycleSlot, Forget, FlagType, config, flags
  <2>2. CtlType' /\ SlotsFilled'
    BY <1>0, <1>8 DEF recycleTaken, RecycleSlot, Forget, CtlType, SlotsFilled,
       config, counters, Threads, AllLabels, CapLabels, MemType, Slots,
       FrameOrNull
  <2>3. MemType' /\ Own'
    BY <1>0, <1>8, RecycleOwn DEF recycleTaken, RecycleSlot, Forget, SlotsFilled, Slots
  <2>4. QED
    BY <2>1, <2>2, <2>3 DEF IInv
<1>9. CASE pictureDone
  <2>1. FlagType'
    BY <1>0, <1>9 DEF pictureDone, FlagType, config, flags
  <2>2. CtlType' /\ SlotsFilled'
    BY <1>0, <1>9 DEF pictureDone, CtlType, SlotsFilled, config, counters,
       Threads, AllLabels, CapLabels
  <2>3. MemType' /\ Own'
    BY <1>0, <1>9, OwnStutter DEF pictureDone
  <2>4. QED
    BY <2>1, <2>2, <2>3 DEF IInv
<1>10. CASE stopCapturing
  <2>1. FlagType'
    BY <1>0, <1>10 DEF stopCapturing, FlagType, config, flags
  <2>2. CtlType' /\ SlotsFilled'
    BY <1>0, <1>10 DEF stopCapturing, CtlType, SlotsFilled, config, counters,
       Threads, AllLabels, CapLabels
  <2>3. MemType' /\ Own'
    BY <1>0, <1>10, OwnStutter DEF stopCapturing
  <2>4. QED
    BY <2>1, <2>2, <2>3 DEF IInv
<1>11. QED
  BY <1>1, <1>2, <1>3, <1>4, <1>5, <1>6, <1>7, <1>8, <1>9, <1>10 DEF Cap

\* Every step of the pipeline keeps the invariant.
LEMMA NextIInv == IInv /\ [Next]_vars => IInv'
<1> SUFFICES ASSUME IInv, [Next]_vars PROVE IInv'
  OBVIOUS
<1>0. MemType /\ FlagType /\ CtlType /\ Own /\ SlotsFilled
  BY DEF IInv
<1>1. CASE Ui
  BY <1>1, UiStep
<1>2. CASE Cb
  BY <1>2, CbStep
<1>3. CASE Prev
  BY <1>3, PrevStep
<1>4. CASE Cap
  BY <1>4, CapStep
<1>5. ASSUME NEW t \in {"prev", "cap"}, spuriousWakeup(t) PROVE IInv'
  <2>1. FlagType'
    BY <1>0, <1>5 DEF spuriousWakeup, FlagType, config, flags
  <2>2. CtlType' /\ SlotsFilled'
    BY <1>0, <1>5 DEF spuriousWakeup, At, Goto, CtlType, SlotsFilled, config, counters,
       Threads, AllLabels, PrevLabels, CapLabels
  <2>3. MemType' /\ Own'
    BY <1>0, <1>5, OwnStutter DEF spuriousWakeup
  <2>4. QED
    BY <2>1, <2>2, <2>3 DEF IInv
<1>6. CASE UNCHANGED vars
  <2>1. FlagType'
    BY <1>0, <1>6 DEF vars, FlagType, config, flags
  <2>2. CtlType' /\ SlotsFilled'
    BY <1>0, <1>6 DEF vars, CtlType, SlotsFilled, config, counters
  <2>3. MemType' /\ Own'
    BY <1>0, <1>6, OwnStutter DEF vars
  <2>4. QED
    BY <2>1, <2>2, <2>3 DEF IInv
<1>7. QED
  BY <1>1, <1>2, <1>3, <1>4, <1>5, <1>6 DEF Next

\* The invariant holds in every reachable state of the pipeline.
LEMMA Invariance == Spec => []IInv
BY InitIInv, NextIInv, PTL DEF Spec

\* Type correctness of the pipeline, for every heap, queue and pool size:
\* in particular no null pointer ever enters previewFrames or mFramePool.
THEOREM TypeCorrect == Spec => []TypeOK
<1>1. IInv => TypeOK
  BY TypeOKParts DEF IInv
<1>2. QED
  BY <1>1, Invariance, PTL

\* No uvc_frame_t ever has two owners or is used after it was freed,
\* whatever the interleaving of the four threads.
THEOREM OwnershipSafe == Spec => []FrameOwnership
<1>1. IInv => FrameOwnership
  BY OwnIsOwnership DEF IInv
<1>2. QED
  BY <1>1, Invariance, PTL

\* No thread recycles or hands over a null frame.
THEOREM SlotsAlwaysFilled == Spec => []SlotsFilled
<1>1. IInv => SlotsFilled
  BY DEF IInv
<1>2. QED
  BY <1>1, Invariance, PTL
=============================================================================
