# Verification of the F&F Tothem kiosk

This directory holds TLA+ models of the F&F Tothem kiosk application, an Android
app (Kotlin, Java) built on Android-UVC-Camera with a native preview pipeline
(C++) and a modified libuvc (C). Five parts are modelled:

- the native **frame pipeline** (`UVCPreview`), where four threads hand frames to
  each other;
- the **libuvc stream** under it (`UvcStream`), shown to implement what the
  pipeline relies on (`FrameSource`);
- the **camera screen** of the Java part: its stream threads and USB requests
  (`UsbIso`) and how they put frames together (`IsoFrames`);
- the **Athena credentials** (`AthenaAuth`), where coroutines and OkHttp threads
  share a configuration cache, a mutex and persisted preferences;
- the **product list** (`ProductListing`), where page loads, filters and visual
  search overlap on one UI state.

TLC checks all of them on small instances. TLAPS proves every invariant that a
run checks, one action property and the safety half of the refinement, for every
value of the constants: 27 theorems (section 5).

`U` below is `src/app/src/main/cpp/libUvc_Support/UVC_Camera_Saki/UVCPreview.cpp`,
`S` is `src/app/src/main/cpp/libuvc/src/stream.c`, `A` is
`src/app/src/main/java/humer/UvcCamera/StartIsoStreamActivityUsbIso.java`, `I` is
`src/app/src/main/java/humer/UvcCamera/UsbIso64/USBIso.java`, `K` is
`src/app/src/main/java/com/fashiontothem/ff`.

## 1. The system

| Component | State | Operations | Talks to | Hard behaviour | What makes it correct |
|---|---|---|---|---|---|
| Native preview pipeline (`U`, `UVCPreview.h`, `uvc_support.cpp`) | run/capture flags, preview queue, `captureQueu`, frame pool | start, stop, picture, movie, frame callback, preview and capture loops | Java over JNI, libuvc's callback thread | 4 threads, 3 mutexes, unlocked flags and signals, allocation failure | one owner per frame, bounded memory, no lost wakeup, quiet after stop |
| Athena credentials, store configuration, environment (`K/data/...`, see section 3) | DataStore preferences, configuration cache, token mutex, JWT cache, cached Retrofit service | select store, refresh at launch, change environment, 401 refresh | Magento backend, Athena backend, every product call | overlapping coroutines, late responses, process death, expiry | URL, wtoken and token of one environment; cache age; mutex released |
| Product listing (`K/presentation/products/ProductListingViewModel.kt`, `ProductRepositoryImpl.kt`) | one UI state, page counters, filters, brand cache | load, load more, apply filters, visual search | Athena | loads overlap in `viewModelScope` | no page of old filters in a new list, loading flags fall |
| Product details (`ProductDetailsViewModel.kt`) | one UI state | load, change colour or size | Athena | as the listing | as the listing |
| Connectivity and navigation (`MainActivity.kt`, `NetworkConnectivityObserver.kt`, `FFNavGraph.kt`) | network status, back stack | status changes, navigation, inactivity | Android callbacks | callbacks against navigation in progress | the no-internet screen is shown exactly while offline |
| Java isochronous streaming (`A`, `I`) | connection, static and instance flags, a pool of USB requests per thread, the frame being assembled | start (on every surface change), stop, leave; submit, reap, resubmit | usbfs ioctls on a descriptor number | threads outlive their screen, descriptor numbers are reused, refusals are swallowed, packets are lost | requests accounted for, one stream per visit, threads end, whole frames |
| Native camera control (`libuvc_support.c`) | camera handle | open, probe, commit, close | libuvc, JNI | order of calls, failure half way | no use of a closed handle |
| libuvc streaming (`S`, vendored, modified) | double buffer, transfers, `running` | open, start, transfer callback, user thread, stop, close | libusb's event thread, the pipeline's callback | transfers complete during stop, flags read outside the lock, unplugging, close from the callback | no bad frame handed over, stop returns, nothing runs after close |
| Others: analytics, image pagination, click debouncing, barcode events, encoders, Compose screens, DTOs, libusb, libyuv, libjpeg | - | - | - | little or none of their own, or third-party code | not modelled |

`PROJECT.json` lists the hazards of this code at their lines, with the property
that covers each, and a note where none does.

## 2. Modules

| Module | What it is |
|---|---|
| `UVCPreview` | the frame pipeline: specification, safety and liveness properties |
| `MCUVCPreview` | its TLC instance: symmetry of frames |
| `UVCPreview_proofs` | proofs of types, frame ownership, filled slots |
| `UVCPreviewBounds_proofs` | proofs of the queue and pool bounds, of the quiet stop and of the bounded leak |
| `FrameSource` | abstract: what a started stream promises its application |
| `UvcStream` | the libuvc stream: specification, properties, refinement of `FrameSource` |
| `UvcStream_proofs` | proofs of its invariants and of the step simulation of `FrameSource` |
| `UsbIso` | the camera screen, its stream threads and USB requests |
| `UsbIso_proofs` | proofs of its invariants |
| `IsoFrames` | frames put together from isochronous packets |
| `IsoFrames_proofs` | proofs of its invariants |
| `ProductListing` | the product list, its loads and the brand-image cache |
| `ProductListing_proofs` | proofs of its invariants and of the single initial load |
| `AthenaAuth` | the credentials: specification and properties |
| `MCAthenaAuth` | its TLC instances: token kinds, symmetry of coroutines |
| `AthenaAuth_proofs` | proof about the token mutex |
| `AthenaAuthTypes_proofs` | proofs of types, of the cache's age and of consistent credentials |

A definition whose comment begins with "Mutant:" is a plausible mistake in the
definition that follows it. It is used by no specification: it documents which
mistake each property catches.

## 3. Correspondence with the code

### UVCPreview

One variable per field of the class, plus `loc` (which local variable of which
function owns a frame), `pc` (where each thread is), `streaming` (libuvc delivers
callbacks), `allocated` (frames obtained from the heap and not freed) and
`crashed`. A step is one critical section, one access to a `volatile` flag
without a lock, or one call on the frame pool; a frame's pixels are not modelled.

- `ui` actions are the JNI calls: `startPreview` (three steps), `stopPreview`
  (clear the flag, two unlocked signals, two joins, two clears, release the
  window), `capture_picture` (two unlocked writes), movies.
  `mMovieCapturing` is read by nobody, so the movie calls are one step each.
- `cb` actions are `uvc_preview_frame_callback`: get a frame, duplicate it, queue
  it or recycle it. A frame the callback rejects as broken changes nothing.
- `prev` actions are `preview_thread_func`/`do_preview` for both MJPEG and raw
  formats, in stream and in test mode, with failing negotiation, failing
  `pthread_create`, undecodable MJPEG and exhausted memory (a null frame is
  dereferenced by the decoder: `crashed`).
- `cap` actions are `do_capture_idle_loop`, `waitCaptureFrame`,
  `do_capture_callback`.
- `pthread_cond_wait` may wake spuriously (`spuriousWakeup`); a signal wakes the
  one thread that waits on that condition variable, if it waits. A join of a
  thread that was never created returns an error or kills the process.
- `outdated` and `stops` are history variables. `outdated` names the frame of
  `captureQueu` that a newer frame has overtaken.

Not modelled here: `do_preview_automatic` (the probe mode), `do_capture_surface`
(`setCaptureDisplay` has no caller), the destructor, and a start while a capture
thread that `stopPreview` could not join is still alive.

### AthenaAuth

The code of `StoreRepositoryImpl`, `AthenaTokenManager`, `AthenaAuthInterceptor`,
`DynamicAthenaApiService`, `DynamicBaseUrlInterceptor`, `AthenaPreferences`,
`StorePreferences`, `EnvironmentPreferences`, `StoreSelectionViewModel`,
`SettingsViewModel` and the launch effect of `LoadingScreen`.

A step is what a coroutine does between two suspension points. The two fields of
the configuration cache are the exception: loads, switches and selections use them
on the main thread, a request's refresh on its OkHttp thread (`runBlocking`), and
no lock protects them, so each read and write of a field is a step
(`getStoreConfigs`, `cacheIsFresh`, `useCache`; `receiveStoreConfigs`, `dateCache`;
`clearCache`, `clearCacheDate`), between which only another thread gets in
(`Scheduled`). Several reads of the preferences in a row are one step: configuration and token are never removed
once stored, so the sequence of reads is equivalent to one read at the point
where the decision falls. A store configuration is represented by the environment
that served it, the expiry of its token and the time it left the server; the
website URL and the wtoken always come from the same record and are saved in one
`edit`, so `athenaConfig` is one value.

- The store is chosen once: the selection screen is reached only without a store
  and its buttons are disabled while saving; the debug screen that would clear
  the store is not reachable. `clearToken`, `clearSelectedStore` and
  `clearAthenaData` therefore have no caller in the model.
- Before the first screen is reached (`launched` false) a launch refresh runs
  alone. Afterwards loads (`LocationRepositoryImpl.getStoreLocations`), switches
  and requests overlap freely.
- Loads and switches live in a `viewModelScope` and can be cancelled at every
  suspension point. A request's refresh runs in `runBlocking` on an OkHttp thread
  and is not cancelled.
- The server (token kinds, rotation, which requests it rejects), the clock and
  process death are external. The server answers 401 only to an expired token.
- `alone`, `standing`, `writer`, `torn`, `storedAt` and `loc[p].base` are history:
  they record that a switch or launch was overlapped by nothing, that it succeeded,
  whether configuration and date in the cache were written by one coroutine and
  when the configuration was, and which base URL a request was built with while
  the settings were settled.

### UvcStream

A stream handle from `uvc_stream_open_ctrl` to `uvc_stream_close`. What
`cb_mutex` protects is one step; each access outside it is a step of its own
(`running` at `S:1134`, `S:2513`; `hold_bfh_err` at `S:2359`). The threads are
the starter and closer, the libusb event thread (`ev`) and `_uvc_user_caller`
(`user`). `iso` chooses between `_uvc_process_payload` and `_uvc_process_payload_iso`;
`closer` says who calls `uvc_stop_streaming`: the application (`U:788`) or the
frame callback itself (`libuvc_support.c:1370`).

- Transfers are counted by state, not named: none of the code tells them apart.
- Of a frame's data only its length in packets and the FID bits of the headers
  that were acted on are kept; `bfh_err`, `hold_bfh_err` and the sequence numbers
  are kept whole.
- A packet has data, a header only, a header longer than itself, the ERR bit or a
  bad status; a bulk payload may also be image data with a header too short to have
  any bits (`plain`, `S:839`). Any number of packets or frames may be lost between
  two.
- A bulk frame that would outgrow its buffer is marked bad. An isochronous one is
  only asserted to fit (`S:1061`): the assertion stops the process, or, compiled out
  as in a Release build (the default of `libuvc/CMakeLists.txt:4-6`), the data is
  written past the buffer and the code goes on (`process_data` has both outcomes).
- Out of scope: iSight headers, which Android never sees, and isochronous packets
  whose header length byte is below 2.
- A freed handle is not modelled further: `UseAfterFree` marks the step a thread
  would take on it.

`FrameSource` is the promise: callbacks one at a time, only between start and the
return of the close, and a close that ends. The mapping takes `phase` from
`start`, `stop` and `handle`, and `calling` from the user thread. Its `unsafe` and
`stuck` say which failures void the promise, so the refinement states precisely
when libuvc keeps it.

### UsbIso and IsoFrames

The UI thread of the activity (open, start, stop, leave) and up to `MaxStreams`
threads `IsochronousStream`. Opening the device, claiming its interfaces, starting
a stream, releasing the interfaces and closing the connection are steps of the UI
thread, every ioctl of a stream thread is one of its own; only the release and the
close of an `openCam` that fails are one (`openCamFails`). `conn` and `th[t].fd` are
descriptor *numbers*; `fds` maps a number to the file behind it, if any, so that a
thread which outlives its connection works on whatever the number means later. JNA
turns a failing ioctl into `LastErrorException`: in `reapRequest` it ends the
thread, in `submit` it is caught and logged (`I:366`) and the request is marked
queued. Any other exception out of the packet loop (a packet longer than
`maxPacketSize`, `A:2470`; a YUV conversion, `A:2521`) ends the thread without
resubmission (`packetFails`). `returnToConfigScreen` sets the flag and drops the
registration; the release of the camera (`beenden`) follows some time later.
`moveToNative` is only set for a device without a streaming interface, which never
gets a connection, so its branch in `closeCameraDevice` changes nothing here. `camIsOpen` is static and never reset; a failing second start then uses a
null connection and the process dies (`ui = "crashed"`). The activity has no USB
detach handler of its own, so unplugging only changes what the ioctls return.

A file has two sequences of URBs, those in flight (`pend`) and the completed ones
(`done`); an URB is the pair of a thread and the index of one of its requests. A
completion moves the head of one to the end of the other, a submission appends, a
reap takes the head of `done`, and a reset, a release or unplugging completes all
that are in flight.

`gone`, `stops` and `strays` are history: requests no reap will return, visits on
which stop or return was pressed, threads that began only after they had been
replaced, that a request of another thread ended, or that died of an exception while
`isoStream` had opened the camera again and not yet looked at `runningStream`.

`IsoFrames` looks inside the step that `UsbIso` calls `resubmit`: one packet per
request, with `skipFrames`, the header checks, the size checks (a free choice) and
the second write of the last packet (`A:2512`). A slow thread, or one held by
`pauseCamera`, is one that lets all requests complete: `Miss`.

### ProductListing

Everything runs on the main thread, so a step is what happens between two
suspensions: reading the token, the page request, the brand-image mutex, the
brand-image request. Each load is one element of `load`. A product is
`<<filters, page>>`. A cancelled load-more runs its `catch` and `finally` at once
(`Dispatchers.Main.immediate`), before the new load begins; a cancellation during
the brand-image request is swallowed by its `catch` (`ProductRepositoryImpl.kt:103`)
and the page is appended. `Home` stands for the other users of the brand-image
mutex. `gen`, `late` and `noToken` are history: which change of filters a load
belongs to, whether one of an earlier change has altered the list, whether a load
found no token.

The server may leave `image_cache` out of a visual page; without it
`loadMoreProducts` has nothing to ask with and the list ends there.

The 300 ms debounce of `loadMoreProducts` is not a guard: any time may pass.

## 4. Runs

| Run | Bounds | Shows |
|---|---|---|
| `uvc_safety` | 4 frames, queue 2, pool 2, 2 sessions, MJPEG and NV21, pictures and movies, 1 undecodable frame | `TypeOK`, `FrameOwnership`, `SlotsFilled`, `QueueBounds`, `LeakBound`, `QuietAfterStop` |
| `uvc_liveness` | 3 frames, queue 1, pool 2, 1 session, YUY2, pictures | `QueueDrains`, `PictureServed` |
| `uvc_stop` (violation) | as above | `CaptureThreadEnds` fails |
| `uvc_outdated` (violation) | as above | `NoOutdatedDelivered` fails |
| `athena_safety` | 2 environments, one of them without a token or without the store; 1 selection, 1 load, 1 switch, 2 requests, times 1..2, 5 starts or restarts | `TypeOK`, `ConfigConsistent`, `CacheAgeSound`, `RefreshSerialised` |
| `athena_switch` (violation) | both environments complete, 2 switches | `SwitchTakesEffect` fails |
| `athena_expired` (violation) | 1 switch, 1 request | `NoExpiredTokenSent` fails |
| `athena_401` (violation) | as above, the cache lives 2 units | `RefreshedAfter401` fails |
| `uvc_stream` | 2 transfers, 2 frames, a buffer of 3 packets, bulk and isochronous, both closers | `TypeOK`, `CleanFrame`, `StaleOnlyIfOvertaken`, `QuietAfterClose`, `KeepsPromise` (`UvcStream` implements `FrameSource`) |
| `usb_iso` | 2 requests, 2 visits, 2 threads, 2 successful opens, 2 descriptor numbers | `TypeOK`, `Accounted`, `OwnRequestsOnly`, `OneStream`, `StreamEnds` |
| `iso_frames` | 2 requests, 4 frames of 1 or 2 packets | `TypeOK`, `WholeFrames`, `DroppedForCause` |
| `listing` | 4 loads, 3 pages, filters on or off, screen entered twice | `TypeOK`, `ListSound`, `OneMore`, `BrandImagesOnce`, `OneInitialLoad`, `WaitingEnds` |

**Why the bounds are enough.** Four frames exceed what the pool and the queue can
hold while two threads own one, so the pool overflows, runs empty and the heap is
exhausted; two sessions show what one leaves to the next. In the liveness run a
queue of one makes every frame meet a full and an empty queue. In `athena_safety`
a token expires (lifetime 1) and the cache goes stale (duration 1) within the two
units of time, five starts cover a selection, launches, a restart, a switch and
requests in every order they can occur, and two requests contend for the mutex.
In `uvc_stream` the second of two transfers completes while the first one's
callback runs or is being deleted. Two camera frames are published up to four times
(at a flipped FID bit, and at each packet with the EOF bit), so the
race on `hold_bfh_err`, which takes three publications (the first, numbered 0, is
never delivered: `last_seq` starts at 0), is reached, and a buffer of three packets
overflows within one. In `usb_iso` two visits with two opens make
the second visit's connection take the number an old thread still uses, and two
opens on one visit leave the first connection open, with a thread that may stop,
fail or begin at any point of the second `isoStream`. Four frames in `iso_frames`
let one be merged, one be skipped and one be whole after a fault. In `listing`
four loads allow first page, load-more, new filters and a second load-more, which
is the shortest sequence that reaches the cancellation.

**Deadlock** is not checked: a stopped preview, a closed stream, a crashed process
and an idle kiosk may rest.

**Fairness** (`FairSpec`). In the pipeline's liveness runs: The kernel schedules
every thread: weak fairness of `cb`, `prev`, `cap` and of `ui` inside a JNI call.
The camera keeps sending, and not every allocation and copy fails: strong
fairness of a callback that obtains a frame and of a copy that succeeds. Nothing
is assumed of Java's calls or of spurious wakeups. Both liveness properties allow
for a stop and for a crash.
`uvc_stream`: the three threads are scheduled (weak fairness); a transfer completes
by its timeout of five seconds; the packet loop of a transfer is finite (strong
fairness of its last step); the application's callback returns. Nothing is assumed
of the closer's start. `usb_iso`: every stream thread runs (a `pauseCamera` set by a dialog is taken
back), the UI thread finishes
a handler it began, and a streaming camera fills the requests it is given; no press
of a button is assumed. `listing`: a request ends, by a response or by OkHttp's
timeout; a coroutine `Mutex` serves its waiters in order (strong fairness of taking
it). Nothing is assumed of the user.

### Where the code does not do what it says

1. `CaptureThreadEnds`. `stopPreview` clears `mIsRunning` and signals
   `capture_sync` without holding the mutex (`U:456-458`), and `waitCaptureFrame`
   does not look at the flag before it waits (`U:1040`). The capture thread tests
   the flag, both signals pass, it waits; `pthread_join` never returns.
2. `NoOutdatedDelivered`. A frame stored in `captureQueu` just as a picture
   completes stays there while the preview goes on, and is the next picture.
3. `SwitchTakesEffect`. A response requested before the change fills the cache
   after `clearCache()`; the refresh then stops at the stored token and that
   cache, and reports success with the old environment's configuration.
4. `NoExpiredTokenSent`. The interceptor attaches the stored token unseen; the
   documentation has it call `getValidToken`.
5. `RefreshedAfter401`. `forceRefreshToken` reads the five-minute cache and
   returns the rejected token, so the request is not retried.

`LeakBound` states exactly how far the pipeline leaks: one frame for each stop and
one for each MJPEG frame that does not decode, and no more.

The properties of the other components likewise say how far the code goes:

- `PictureServed`. A picture request is answered if the capture thread finds it
  before it takes a frame. One made after the thread has reset `mPictureCapturing`
  (`U:1120`) and before it clears `mIsCapturing` (`U:1121`) is lost, and so is one
  whose wait ends spuriously: `waitCaptureFrame` does not test again.
- `CacheAgeSound`. Configuration and date are two writes without a lock
  (`K/data/repository/StoreRepositoryImpl.kt:66-67`). R stores a new response, L an
  older one, L dates the cache, R dates it: the older configuration passes for as
  fresh as the newer. What is left, and holds however fetches and clears interleave,
  is that a configuration reached the app no earlier than its date says; that it
  also left the server no earlier holds while both fields are of one coroutine.
- `TypeOK` of `UvcStream` bounds `outbuf` for bulk frames only (section 3).
- `CleanFrame`. The FID bit is all the code has: frames 1 and 3 are told apart only
  by a header of frame 2 that came through.
- `QuietAfterClose`, `KeepsPromise`. `uvc_stream_close` stops a stream only while
  `running` is set. After `LIBUSB_TRANSFER_NO_DEVICE` (`S:1117`) or a refused
  submission (`S:2312`) it frees the handle with the user thread alive. A close
  from the callback joins itself. A refused resubmission (`S:1135`) is unnoticed
  and the stop waits for ever. In all other cases the promise is kept, whatever
  the order of completions.
- `StreamEnds`, `OwnRequestsOnly`. A thread that has been told to end may instead
  wait for ever when a second `isoStream` took its interface, or live on with the
  next visit's connection when that got its number. Two streams of one visit share
  a connection only after one of that visit has strayed (`strays`): began after it was
  replaced, was ended by another's request, or died of an exception inside a second
  `isoStream`, whose own stream then takes over the connection with the dead one's
  requests. The second of these came from the proof and lies beyond the run's bounds: a stream
  ended by an earlier visit's request takes back the registration of another
  (`runningStream` of the visit), after which the next one does not replace it.
  TLC shows this with four threads over two visits.
- `ListSound`. A load-more or first page started before new filters were applied
  is not cancelled and may end in the new list (`late`).
- `WaitingEnds`. Without a token `isLoadingFilters` stays on.
- `WholeFrames`. Packets that pass while no request is in flight leave no trace,
  and two frames become one.
- `DroppedForCause`. A frame can be dropped by a size check alone (`A:2488-2496`,
  in particular every frame of 20000 bytes or less).

## 5. Theorems

All assumptions are the named ASSUMEs on the constants: sizes, times and bounds are
natural numbers, positive where the code has at least one (`SizeAssumption`,
`TimeAssumption`, `StreamAssumption`, `UsbIsoAssumption`, `FramesAssumption`,
`ListingAssumption`); the null values differ from the values they stand in for
(`NullAssumption`, in `UVCPreview` and in `AthenaAuth`); the formats and token kinds
are the code's (`FormatAssumption`, `KindAssumption`); the kinds of coroutines are
disjoint (`ProcAssumption`). TLC evaluates each of them in the runs of its module.
A theorem is about `Spec`, without fairness, so it holds of `FairSpec` as well.

| Module | Theorem | Statement | Inductive invariant |
|---|---|---|---|
| pipeline | `TypeCorrect`, `OwnershipSafe`, `SlotsAlwaysFilled` | `TypeOK`, `FrameOwnership`, `SlotsFilled` | `IInv` |
| | `BoundsHold` | `QueueBounds` | `IInv`, `BoundsInv` |
| | `QuietStop` | `QuietAfterStop` | `IInv`, `StopInv`, `EmptyInv` |
| | `BoundedLeak` | `LeakBound` | these and `LeakInv` |
| credentials | `MutexSafe` | `RefreshSerialised` | `CtlInv` |
| | `AthenaTypes` | `TypeOK` | `CtlInv`, `DataInv` |
| | `CacheAge` | `CacheAgeSound` | these and `AgeInv` |
| | `Consistent` | `ConfigConsistent` | these and `KeepInv` |
| libuvc stream | `StreamTypes`, `CleanFrames`, `StaleFrames`, `QuietClose` | `TypeOK`, `CleanFrame`, `StaleOnlyIfOvertaken`, `QuietAfterClose` | `IInv` |
| | `StreamRefinesFrameSource` | `Spec => FS!Safety` | `IInv` |
| camera screen | `UsbIsoTypes`, `RequestsAccounted`, `SingleStream`, `StreamsApart` | `TypeOK`, `Accounted`, `OneStream`, `OwnRequestsOnly` | `IInv` |
| packets | `FrameTypes`, `WholeFramesHanded`, `FaultyFramesDropped` | `TypeOK`, `WholeFrames`, `DroppedForCause` | `IInv` |
| product list | `ListingTypes`, `SoundList`, `SingleLoadMore`, `SingleBrandRequest` | `TypeOK`, `ListSound`, `OneMore`, `BrandImagesOnce` | `IInv` |
| | `SingleInitialLoad` | `OneInitialLoad` (an action property) | `IInv` |

*Pipeline: ownership.* `IInv` joins types, `SlotsFilled` and `Own`, which says owner by
owner what `FrameOwnership` says with sets: pool, queue, `captureQueu` and local
variables hold allocated frames, no two the same. Ownership needs `SlotsFilled`:
`recycle_frame` of a null pointer would put it in the pool. There is one lemma per
operation on frames (obtain, recycle, queue, dequeue, store, take, clear); every
action uses one of them. The bounds need finiteness of the pool and the fact that
clearing a queue puts no more frames in the pool than fit.

*Pipeline: stop.* That nothing is left after `stopPreview` is a statement about which
thread may be where while it runs. `StopInv` says it: the flag is down for the whole
of the stop, no preview thread exists once the join has returned, the stream is open
only while there is one, the callback runs only while the stream is open. From the
clears on nobody can fill a queue again: the callback and the preview thread are gone,
and the capture thread only takes.

*Pipeline: leaks.* A frame is lost when a local variable that holds it is overwritten or
dies. `EmptyInv`, the converse of `SlotsFilled`, says that a local about to be
assigned is null, so that only two steps lose a frame. Counting alone is not
inductive: `Due` adds the frames a step may still lose, the raw frame of a decoding
that failed and the one the preview thread holds after a stop, and
`Cardinality(Leaked) + Due` never exceeds the stops plus the undecodable frames.

*Mutex.* `RefreshSerialised` is not inductive: that a selector takes the mutex
only with a store selected is what keeps `saveSelectedStore` from running under
it. `CtlInv` says for each coroutine which labels its kind can be at, given the
mutex and the selection. `Moves` shows once that a coroutine which goes where it
fits disturbs no other.

*Cache age.* The date is not too late because `currentTime` is read before the
request. `DataInv` carries this through the fetch: a coroutine about to send knows a
start not after now, one that waits for the response has a configuration issued not
before its start. `AgeInv` adds the two writes: between them `writer` is the one who
still has to date what is stored, and a date written by it ends `torn`; whoever else
dates the cache does so with a start not after the last time it was written
(`storedAt`).

*Consistent credentials.* While the settings are settled, everything in the cache or in a
coroutine's hands came from the selected environment, so whoever stores something
stores what is there. The hard part is how a launch gets there: it may stop at a
stored configuration, a stored token and a full cache without looking at any of them
(`reuse`). `KeepInv` shows that this is harmless in a lone launch: the cache is empty in
a new process, only a selection can have filled it before, and a selection runs only
while nothing of another environment is stored (`LaunchInv`, `Virgin`). A lone switch
empties the cache before it comes to that point (`AloneInv`).

*libuvc stream.* The published frame and its copy are of one FID parity because the data
that waits in `outbuf` is (`Assembly`), and what is copied was not marked bad
(`Published`). Sequence numbers grow from the user thread's to the published to the
next (`Numbered`). An orderly close leaves less behind in each of its phases
(`Orderly`): `running` falls, no transfer is in flight, the user thread has ended, the
handle is freed. The refinement takes the same facts action by action: each maps to
a start, a callback, its return, a close, or to a stutter.

*Camera screen.* A file's URBs are taken as one sequence, the completed ones first. A
completion and a reset leave it as it is, a submission adds to its end, a reap takes its
head, so that "no URB twice" and "queued exactly if with the driver or gone" (`Reqs`)
are facts about injective sequences. `ReqStep` says which requests a thread can have
queued at which point, so that none is submitted twice. `StreamsApart` needs that
streams of one calm visit hold different numbers (`Numbers`), that a number or a file in
which a thread waits has no URB of another stream of the visit (`Apart`), and that the
connection a new stream is going to read is unused by the others (`Fresh`).

*Packets.* The packets on their way, the one in the thread's hands, those completed, and
the one the camera sends next form a chain. `Chained` says of any two neighbours with
payload what may have gone by between them (`Link`), and of the first what the thread
has made of all before it (`Base`). A step of the camera lengthens the chain, a step of
the thread replaces the base by what the first link says.

*Product list.* At most one load that is not late exists at a time. `Sound` says that it
brings the page after the last one shown, and that without it either the page counter
is at the end of the list or no load-more can start; `Asked` says that such a load asked
for the filters in force.

### Only model-checked

Liveness under fairness is beyond the prover: `QueueDrains`, `PictureServed`,
`StreamEnds`, `WaitingEnds`, and of `KeepsPromise` the part `FS!Closes` (a close ends).
The properties of the violation runs (`CaptureThreadEnds`, `NoOutdatedDelivered`,
`SwitchTakesEffect`, `NoExpiredTokenSent`, `RefreshedAfter401`) are false of the code.

## 6. Not modelled

- `libyuv`, `libjpeg`, `libusb`, `JNA` and most of `libuvc` are vendored. They are
  over nine tenths of the repository's lines (hand-written SIMD rows, DCTs, other
  platforms' back ends) and hold pure arithmetic or I/O. The application's own
  concurrent logic is what the modules cover.
- The polling API of libuvc, its other start functions, the automatic probe mode
  of the pipeline, the libusb variant of the Java stream: no reachable caller in the
  kiosk, or the same algorithm again.
- Camera negotiation (probe and commit), encoders, picture files, barcode input:
  sequential I/O.
- Connectivity and navigation, product details, analytics, Compose screens, DTOs:
  see the notes in `PROJECT.json`.
- Memory visibility of `stopKamera`, which is not `volatile`: the thread makes a
  JNA call in every round, after which the field is read again.

## 7. Plan

1. A credential store with atomic changes, which `AthenaAuth` implements as long
   as no refresh overlaps a change, and the proof of that refinement.
2. What a stop of the pipeline does give: `CaptureThreadEnds` fails only when both
   signals pass before the wait; an invariant that says so.
