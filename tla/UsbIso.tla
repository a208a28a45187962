------------------------------- MODULE UsbIso -------------------------------
(***************************************************************************)
(* The camera screen StartIsoStreamActivityUsbIso and the isochronous      *)
(* requests of USBIso: the UI thread opens the camera, starts a thread     *)
(* IsochronousStream, stops it and leaves the screen; each such thread     *)
(* owns a pool of requests and moves them to and from the USB device       *)
(* driver with ioctls on a file descriptor NUMBER it read when it began.   *)
(* Every ioctl that matters to a stream is a step of its own; those of an  *)
(* openCam that fails are one.  The driver (usbfs) and the camera are      *)
(* external: they are modelled by what those ioctls rely on.               *)
(***************************************************************************)
EXTENDS Naturals, Sequences, FiniteSets, Functions

CONSTANTS activeUrbs,     \* requests of a stream
          MaxScreens,     \* how often the camera screen is opened
          MaxStreams,     \* stream threads started
          MaxOpens,       \* successful UsbManager.openDevice calls
          MaxFds          \* file descriptor numbers

ASSUME UsbIsoAssumption ==
  {activeUrbs, MaxScreens, MaxStreams, MaxOpens, MaxFds} \subseteq Nat \ {0}

VARIABLES
  screen,      \* the number of the activity instance
  ui,          \* what its UI thread is doing
  found,       \* camDevice is not null
  conn,        \* camDeviceConnection: its file descriptor number, 0 for null
  camIsOpen,   \* static, as the process' other instances left it
  stopKamera, runningStream,   \* of every instance
  started,     \* how many stream threads exist
  th,          \* the stream threads
  queued,      \* Request.queued of every request of every thread
  opened, fds, \* driver: files opened so far, the file behind a number or 0
  owner, alt,  \* driver: the file that claimed the streaming interface, and
               \* whether its streaming altsetting is selected
  pend, done,  \* driver: each file's URBs in flight, and its completed ones
  plugged,     \* the camera is connected
  gone,        \* history: requests marked queued that no reap will return
  stops,       \* history: screens on which stop (or return) was pressed
  strays       \* history: threads that began after they had been replaced, that
               \* a request of another thread ended, or an exception while
               \* isoStream was about to start another

uiVars  == <<screen, ui, found, conn, camIsOpen, stopKamera, runningStream, started>>
drvVars == <<opened, fds, owner, alt, pend, done, plugged>>
vars == <<uiVars, th, queued, drvVars, gone, stops, strays>>

Screens == 1..MaxScreens
Streams == 1..MaxStreams
Index   == 1..activeUrbs
Files   == 1..MaxOpens
Fds     == 1..MaxFds
Urb     == Streams \X Index   \* one per request of a thread, the thread its first part

(* fd is the number, own the file behind it when it was read, file the    *)
(* one a reap resolved it to.                                              *)
Idle == [pc |-> "none", screen |-> 1, fd |-> 0, own |-> 0, file |-> 0, req |-> 1]

(* The types of the variables                                              *)
TypeOK ==
  /\ screen \in 0..MaxScreens
  /\ ui \in {"away", "idle", "opening", "starting", "stopping", "closing", "crashed"}
  /\ found \in BOOLEAN /\ conn \in 0..MaxFds /\ camIsOpen \in BOOLEAN
  /\ stopKamera \in [Screens -> BOOLEAN]
  /\ runningStream \in [Screens -> 0..MaxStreams]
  /\ started \in 0..MaxStreams
  /\ th \in [Streams ->
       [pc: {"none", "run", "enable", "submit", "loop", "reap", "packet", "check", "ended"},
        screen: Screens, fd: 0..MaxFds, own: 0..MaxOpens, file: 0..MaxOpens, req: Index]]
  /\ queued \in [Streams -> [Index -> BOOLEAN]]
  /\ opened \in 0..MaxOpens /\ fds \in [Fds -> 0..MaxOpens]
  /\ owner \in 0..MaxOpens /\ alt \in BOOLEAN /\ plugged \in BOOLEAN
  /\ DOMAIN pend = Files /\ DOMAIN done = Files
  /\ \A f \in Files : Range(pend[f]) \subseteq Urb /\ Range(done[f]) \subseteq Urb
  /\ stops \subseteq Screens /\ strays \subseteq Streams /\ gone \subseteq Urb

Init ==
  /\ screen = 0 /\ ui = "away" /\ found = FALSE /\ conn = 0 /\ camIsOpen = FALSE
  /\ stopKamera = [s \in Screens |-> FALSE]
  /\ runningStream = [s \in Screens |-> 0]
  /\ started = 0 /\ th = [t \in Streams |-> Idle]
  /\ queued = [t \in Streams |-> [i \in Index |-> FALSE]]
  /\ opened = 0 /\ fds = [n \in Fds |-> 0] /\ owner = 0 /\ alt = FALSE
  /\ pend = [f \in Files |-> <<>>] /\ done = pend /\ plugged = TRUE
  /\ gone = {} /\ stops = {} /\ strays = {}

Live(t) == th[t].pc \notin {"none", "ended"}
Go(t, pc) == th' = [th EXCEPT ![t].pc = pc]

-----------------------------------------------------------------------------
(* The driver.                                                             *)

Urbs(f) == Range(pend[f]) \cup Range(done[f])

(* The interface is reset or released, or the camera unplugged: every URB  *)
(* in flight completes with an error; those of the file dead (0: none),    *)
(* which nothing refers to any more, are dropped.                          *)
KillUrbs(dead) ==
  /\ pend' = [f \in Files |-> <<>>]
  /\ done' = [f \in Files |-> IF f = dead THEN <<>> ELSE done[f] \o pend[f]]
  /\ gone' = IF dead = 0 THEN gone ELSE gone \cup Urbs(dead)

KeepUrbs == UNCHANGED <<pend, done, gone>>

(* The camera fills the URB at the head of a file's queue.                 *)
Complete ==
  /\ ui # "crashed" /\ alt /\ plugged
  /\ \E f \in Files :
       /\ pend[f] # <<>>
       /\ pend' = [pend EXCEPT ![f] = Tail(@)]
       /\ done' = [done EXCEPT ![f] = Append(@, Head(pend[f]))]
  /\ UNCHANGED <<uiVars, th, queued, opened, fds, owner, alt, plugged, gone, stops, strays>>

Unplug ==
  /\ ui # "crashed" /\ plugged /\ plugged' = FALSE /\ alt' = FALSE /\ KillUrbs(0)
  /\ UNCHANGED <<uiVars, th, queued, opened, fds, owner, stops, strays>>

-----------------------------------------------------------------------------
(* The UI thread.                                                          *)

OpenScreen ==
  /\ ui = "away" /\ screen < MaxScreens
  /\ screen' = screen + 1 /\ ui' = "idle" /\ found' = FALSE
  /\ UNCHANGED <<conn, camIsOpen, stopKamera, runningStream, started, th, queued,
                 drvVars, gone, stops, strays>>

LowestFree == CHOOSE m \in Fds : fds[m] = 0 /\ \A k \in Fds : fds[k] = 0 => m <= k

(* Mutant: a connection that is still there is used again.                 *)
openOnlyOnce ==
  IF conn # 0 THEN UNCHANGED <<opened, fds, conn>>
  ELSE /\ opened' = opened + 1 /\ fds' = [fds EXCEPT ![LowestFree] = opened + 1]
       /\ conn' = LowestFree

(* openDevice always makes a new file, on the lowest free number.          *)
openCameraDevice ==
  /\ opened' = opened + 1 /\ fds' = [fds EXCEPT ![LowestFree] = opened + 1]
  /\ conn' = LowestFree

(* isoStream up to the device being open.  The connection of an earlier    *)
(* call is dropped, not closed.                                            *)
isoStream ==
  /\ ui = "idle" /\ plugged /\ opened < MaxOpens /\ started < MaxStreams
  /\ \E m \in Fds : fds[m] = 0
  /\ ui' = "opening" /\ found' = TRUE
  /\ stopKamera' = [stopKamera EXCEPT ![screen] = FALSE]
  /\ openCameraDevice
  /\ UNCHANGED <<screen, camIsOpen, runningStream, started, th, queued, owner, alt, pend,
                 done, plugged, gone, stops, strays>>

(* Claiming the streaming interface with force takes it from the file that *)
(* had it; the camera is probed.                                           *)
claimInterface ==
  /\ ui = "opening" /\ plugged
  /\ ui' = "starting" /\ camIsOpen' = TRUE
  /\ owner' = fds[conn] /\ alt' = FALSE /\ KillUrbs(0)
  /\ UNCHANGED <<screen, found, conn, stopKamera, runningStream, started, th, queued,
                 opened, fds, plugged, stops, strays>>

(* Mutant: the registered stream is not looked at.                         *)
startAnyway ==
  /\ ui = "starting" /\ ui' = "idle"
  /\ started' = started + 1
  /\ runningStream' = [runningStream EXCEPT ![screen] = started + 1]
  /\ th' = [th EXCEPT ![started + 1] = [Idle EXCEPT !.pc = "run", !.screen = screen]]
  /\ UNCHANGED <<screen, found, conn, camIsOpen, stopKamera, queued, drvVars, gone, stops, strays>>

(* ... and the rest: a stream is started unless one is registered.         *)
startStream ==
  /\ ui = "starting" /\ ui' = "idle"
  /\ IF runningStream[screen] # 0 THEN UNCHANGED <<runningStream, started, th>>
     ELSE /\ started' = started + 1
          /\ runningStream' = [runningStream EXCEPT ![screen] = started + 1]
          /\ th' = [th EXCEPT ![started + 1] = [Idle EXCEPT !.pc = "run", !.screen = screen]]
  /\ UNCHANGED <<screen, found, conn, camIsOpen, stopKamera, queued, drvVars, gone, stops, strays>>

(* isoStream after openCam threw: camIsOpen still says what an earlier     *)
(* call said, and then the null connection is used and the process dies.   *)
AfterFailure ==
  IF camIsOpen
  THEN ui' = "crashed" /\ th' = [t \in Streams |-> IF Live(t) THEN [th[t] EXCEPT !.pc = "ended"] ELSE th[t]]
  ELSE ui' = "idle" /\ UNCHANGED th

(* openDevice returns null: the device is gone, or not permitted.          *)
isoStreamFails ==
  /\ ui = "idle" /\ (plugged \/ found)
  /\ found' = TRUE /\ conn' = 0
  /\ stopKamera' = [stopKamera EXCEPT ![screen] = FALSE]
  /\ AfterFailure
  /\ UNCHANGED <<screen, camIsOpen, runningStream, started, queued, drvVars, gone, stops, strays>>

(* the threads inside an ioctl on a file                                   *)
Inside(f) == {t \in Streams : th[t].pc = "reap" /\ th[t].file = f}

(* close: the number is free again, and nothing is claimed or in flight.   *)
(* A thread inside an ioctl keeps the file until it returns.               *)
Close ==
  /\ conn' = 0 /\ fds' = [fds EXCEPT ![conn] = 0] /\ owner' = 0 /\ alt' = FALSE
  /\ KillUrbs(IF Inside(fds[conn]) = {} THEN fds[conn] ELSE 0)

(* The claim is refused because the device is gone, or the probing fails   *)
(* after it: openCam closes what it opened.                                *)
openCamFails ==
  /\ ui = "opening"
  /\ Close /\ AfterFailure
  /\ UNCHANGED <<screen, found, camIsOpen, stopKamera, runningStream, started, queued, opened,
                 plugged, stops, strays>>

(* stopTheCameraStreamClickEvent: the flag, a sleep, then altsetting 0     *)
(* and the registration dropped, whatever the thread is doing.             *)
stopTheCameraStream ==
  /\ ui = "idle" /\ ui' = "stopping"
  /\ stopKamera' = [stopKamera EXCEPT ![screen] = TRUE]
  /\ stops' = stops \cup {screen}
  /\ UNCHANGED <<screen, found, conn, camIsOpen, runningStream, started, th, queued,
                 drvVars, gone, strays>>

disableStreaming ==
  /\ ui = "stopping" /\ ui' = "idle"
  /\ IF conn # 0 /\ plugged THEN alt' = FALSE /\ KillUrbs(0) ELSE KeepUrbs /\ UNCHANGED alt
  /\ runningStream' = [runningStream EXCEPT ![screen] = 0]
  /\ UNCHANGED <<screen, found, conn, camIsOpen, stopKamera, started, th, queued,
                 opened, fds, owner, plugged, stops, strays>>

(* The screen is asked to go; onPause comes some time later.               *)
returnToConfigScreen ==
  /\ ui = "idle"
  /\ stopKamera' = [stopKamera EXCEPT ![screen] = TRUE]
  /\ runningStream' = [runningStream EXCEPT ![screen] = 0]
  /\ stops' = stops \cup {screen}
  /\ UNCHANGED <<screen, ui, found, conn, camIsOpen, started, th, queued, drvVars, gone, strays>>

(* onPause and beenden, also after the countdown took its picture.  First  *)
(* closeCameraDevice releases the interfaces.  (Its moveToNative branch is *)
(* for devices without a streaming interface: they never get a connection.)*)
beenden ==
  /\ ui = "idle" /\ ui' = "closing"
  /\ IF conn # 0 THEN owner' = 0 /\ alt' = FALSE /\ KillUrbs(0)
                 ELSE KeepUrbs /\ UNCHANGED <<owner, alt>>
  /\ UNCHANGED <<screen, found, conn, camIsOpen, stopKamera, runningStream, started, th,
                 queued, opened, fds, plugged, stops, strays>>

(* ... then it closes the connection, and the screen is gone.              *)
closeCameraDevice ==
  /\ ui = "closing" /\ ui' = "away"
  /\ IF conn # 0 THEN Close ELSE KeepUrbs /\ UNCHANGED <<conn, fds, owner, alt>>
  /\ runningStream' = [runningStream EXCEPT ![screen] = 0]
  /\ UNCHANGED <<screen, found, camIsOpen, stopKamera, started, th, queued, opened, plugged,
                 stops, strays>>

-----------------------------------------------------------------------------
(* IsochronousStream.run.                                                  *)

(* camDeviceConnection of the thread's activity, as it is now              *)
Connection(t) == IF th[t].screen = screen /\ ui # "away" THEN conn ELSE 0

End(t) ==
  /\ th' = [th EXCEPT ![t] = [Idle EXCEPT !.pc = "ended", !.screen = th[t].screen]]
  /\ runningStream' = [runningStream EXCEPT ![th[t].screen] = 0]

StayUi == UNCHANGED <<screen, ui, found, conn, camIsOpen, stopKamera, started>>

(* An exception ends the thread; recorded when isoStream has opened the    *)
(* camera again and is about to look for a registered stream.              *)
GiveUp(t) ==
  /\ End(t)
  /\ strays' = IF th[t].screen = screen /\ ui \in {"opening", "starting"}
               THEN strays \cup {t} ELSE strays

run(t) ==
  /\ th[t].pc = "run"
  /\ IF Connection(t) = 0 THEN End(t)
     ELSE /\ th' = [th EXCEPT ![t].pc = "enable", ![t].fd = Connection(t),
                            ![t].own = fds[Connection(t)]]
          /\ UNCHANGED runningStream
  /\ strays' = IF runningStream[th[t].screen] = t THEN strays ELSE strays \cup {t}
  /\ StayUi /\ UNCHANGED <<queued, drvVars, gone, stops>>

(* The connection is looked up again: it may be another one.  An interface *)
(* that no file has claimed is claimed by selecting its altsetting.        *)
enableStreaming(t) ==
  LET c == Connection(t) IN
  /\ th[t].pc = "enable"
  /\ IF c # 0 /\ plugged /\ owner \in {0, fds[c]}
     THEN /\ Go(t, "submit") /\ owner' = fds[c] /\ alt' = TRUE /\ KillUrbs(0)
          /\ UNCHANGED runningStream
          /\ UNCHANGED strays
     ELSE GiveUp(t) /\ KeepUrbs /\ UNCHANGED <<owner, alt>>
  /\ StayUi /\ UNCHANGED <<queued, opened, fds, plugged, stops>>

(* Request.initialize and submit: what the driver refuses raises an        *)
(* exception that is logged, and the request is marked queued all the same *)
Taken(t) == /\ fds[th[t].fd] # 0 /\ fds[th[t].fd] = owner
            /\ alt /\ plugged
submit(t, i) ==
  /\ queued' = [queued EXCEPT ![t][i] = TRUE]
  /\ IF Taken(t)
     THEN pend' = [pend EXCEPT ![fds[th[t].fd]] = Append(@, <<t, i>>)] /\ UNCHANGED gone
     ELSE gone' = gone \cup {<<t, i>>} /\ UNCHANGED pend

(* Mutant: one request too many.                                           *)
submitOnePast(t) ==
  /\ th[t].pc = "submit"
  /\ submit(t, th[t].req)
  /\ th' = IF th[t].req <= activeUrbs THEN [th EXCEPT ![t].req = @ + 1]
                                      ELSE [th EXCEPT ![t].pc = "loop"]
  /\ StayUi /\ UNCHANGED <<runningStream, opened, fds, owner, alt, done, plugged, stops, strays>>

submitUrbs(t) ==
  /\ th[t].pc = "submit"
  /\ submit(t, th[t].req)
  /\ th' = IF th[t].req < activeUrbs THEN [th EXCEPT ![t].req = @ + 1]
                                     ELSE [th EXCEPT ![t].pc = "loop", ![t].req = 1]
  /\ StayUi /\ UNCHANGED <<runningStream, opened, fds, owner, alt, done, plugged, stops, strays>>

(* The loop enters ioctl(USBDEVFS_REAPURB): the number is resolved now.    *)
reap(t) ==
  /\ th[t].pc = "loop"
  /\ IF fds[th[t].fd] = 0 THEN End(t)
     ELSE /\ th' = [th EXCEPT ![t].pc = "reap", ![t].file = fds[th[t].fd]]
          /\ UNCHANGED runningStream
  /\ StayUi /\ UNCHANGED <<queued, drvVars, gone, stops, strays>>

(* Mutant: Request.queued is not cleared.                                  *)
reapUnmarked(t) ==
  /\ th[t].pc = "reap" /\ done[th[t].file] # <<>>
  /\ LET u == Head(done[th[t].file])
     IN /\ done' = [done EXCEPT ![th[t].file] = Tail(@)]
        /\ IF u[1] = t THEN /\ th' = [th EXCEPT ![t].pc = "packet", ![t].req = u[2]]
                           /\ UNCHANGED runningStream
                      ELSE End(t)
  /\ StayUi /\ UNCHANGED <<queued, gone, opened, fds, owner, alt, pend, plugged, stops, strays>>

(* ... and returns with the oldest completed URB of that file.  One that   *)
(* is not this pool's ends the thread.                                     *)
reapRequest(t) ==
  /\ th[t].pc = "reap"
  /\ LET f == th[t].file
         u == Head(done[f])
         dying == Inside(f) = {t} /\ \A n \in Fds : fds[n] # f
     IN IF done[f] = <<>>
        THEN ~plugged /\ End(t) /\ UNCHANGED <<done, queued, gone, strays>>
        ELSE /\ done' = [done EXCEPT ![f] = IF dying THEN <<>> ELSE Tail(@)]
             /\ gone' = gone \cup (IF dying THEN Urbs(f) \ {u} ELSE {})
                              \cup (IF u[1] = t THEN {} ELSE {u})
             /\ IF u[1] = t
                THEN /\ th' = [th EXCEPT ![t].pc = "packet", ![t].req = u[2]]
                     /\ queued' = [queued EXCEPT ![t][u[2]] = FALSE]
                     /\ UNCHANGED <<runningStream, strays>>
                ELSE End(t) /\ strays' = strays \cup {t} /\ UNCHANGED queued
  /\ StayUi /\ UNCHANGED <<opened, fds, owner, alt, pend, plugged, stops>>

(* The packets are looked at (IsoFrames), and the request is initialised   *)
(* and submitted again.                                                    *)
resubmit(t) ==
  /\ th[t].pc = "packet" /\ th' = [th EXCEPT ![t].pc = "check", ![t].req = 1]
  /\ submit(t, th[t].req)
  /\ StayUi /\ UNCHANGED <<runningStream, opened, fds, owner, alt, done, plugged, stops, strays>>

(* The exception comes out of the packet loop: a packet too long, or an    *)
(* image that fails to convert.  The requests stay with the driver.        *)
packetFails(t) ==
  /\ th[t].pc = "packet" /\ GiveUp(t)
  /\ StayUi /\ UNCHANGED <<queued, drvVars, gone, stops>>

(* Mutant: only the registered stream obeys the flag.                      *)
checkOwnStop(t) ==
  /\ th[t].pc = "check"
  /\ IF stopKamera[th[t].screen] /\ runningStream[th[t].screen] = t THEN End(t)
     ELSE Go(t, "loop") /\ UNCHANGED runningStream
  /\ StayUi /\ UNCHANGED <<queued, drvVars, gone, stops, strays>>

checkStop(t) ==
  /\ th[t].pc = "check"
  /\ IF stopKamera[th[t].screen] THEN End(t) ELSE Go(t, "loop") /\ UNCHANGED runningStream
  /\ StayUi /\ UNCHANGED <<queued, drvVars, gone, stops, strays>>

-----------------------------------------------------------------------------
Stream(t) == \/ run(t) \/ enableStreaming(t) \/ submitUrbs(t) \/ reap(t)
             \/ reapRequest(t) \/ resubmit(t) \/ packetFails(t) \/ checkStop(t)

Next ==
  \/ OpenScreen \/ isoStream \/ claimInterface \/ startStream
  \/ isoStreamFails \/ openCamFails
  \/ stopTheCameraStream \/ disableStreaming
  \/ returnToConfigScreen \/ beenden \/ closeCameraDevice
  \/ \E t \in Streams : Stream(t)
  \/ Complete  \/ Unplug

Spec == Init /\ [][Next]_vars

(* The threads run, the UI thread finishes a handler it began, and a       *)
(* streaming camera fills the URBs it is given.                            *)
FairSpec == /\ Spec
            /\ \A t \in Streams : WF_vars(Stream(t))
            /\ WF_vars(claimInterface \/ openCamFails) /\ WF_vars(startStream)
            /\ WF_vars(disableStreaming) /\ WF_vars(closeCameraDevice)
            /\ WF_vars(Complete)

-----------------------------------------------------------------------------
(* Properties                                                              *)

InDriver(t, i) == \E f \in Files : <<t, i>> \in Urbs(f)

(* Request.queued is what initialize and submit rely on: no request is     *)
(* with the driver twice, one that is there is marked queued, so that it   *)
(* is not written to, and one marked queued is there or will never come    *)
(* back: refused, taken by another thread, or dropped with its file.       *)
Accounted ==
  /\ \A t \in Streams, i \in Index :
       queued[t][i] <=> (InDriver(t, i) \/ <<t, i>> \in gone)
  /\ \A f \in Files : Cardinality(Urbs(f)) = Len(done[f]) + Len(pend[f])
  /\ \A f, g \in Files : f # g => Urbs(f) \cap Urbs(g) = {}
  /\ \A f \in Files : Urbs(f) \cap gone = {}

(* Two streams of one visit to the screen never wait for each other's      *)
(* requests, unless a stream of that visit read camDeviceConnection only   *)
(* after it had been replaced, or was ended by a request that was not its  *)
(* own, or by an exception while isoStream had opened the camera again and *)
(* not yet looked for a registered stream.  (Streams of two visits do wait *)
(* for each other's requests: the number is used again.)                   *)
OwnRequestsOnly ==
  \A t \in Streams : th[t].pc = "reap" =>
    \A u \in Urbs(th[t].file) :
      u[1] # t /\ th[u[1]].screen = th[t].screen =>
        \E v \in strays : th[v].screen = th[t].screen

(* Until stop (or return) is pressed, a visit to the screen has one stream *)
(* thread and it is the registered one, however often isoStream is called. *)
OneStream ==
  \A t \in Streams : Live(t) /\ th[t].screen = screen /\ ui # "away" /\ screen \notin stops
                       => runningStream[screen] = t

(* A thread waits in the driver for a file that has no request left.       *)
Deserted(t) == th[t].pc = "reap" /\ Urbs(th[t].file) = {}

(* A thread has been told to end by the flag, or its screen is gone.       *)
Told(t) == stopKamera[th[t].screen] \/ th[t].screen # screen \/ ui = "away"

(* A stream thread told to end does, unless the flag is taken back before  *)
(* it looks, all its requests are gone, or the number of its closed        *)
(* connection now stands for another one.                                  *)
StreamEnds ==
  \A t \in Streams :
    Live(t) /\ Told(t) ~> \/ ~Live(t) \/ ~Told(t) \/ Deserted(t)
                          \/ th[t].fd # 0 /\ fds[th[t].fd] \notin {0, th[t].own}
=============================================================================
