---------------------------- MODULE UsbIso_proofs ----------------------------
(***************************************************************************)
(* The camera screen and its stream threads (UsbIso) for any number of     *)
(* requests, visits, threads, files and descriptor numbers: every request  *)
(* is accounted for, a visit has one stream until stop is pressed, and two *)
(* streams of a visit do not wait for each other's requests.               *)
(*                                                                         *)
(* A file's URBs are taken as one sequence, the completed ones before the  *)
(* ones in flight: a completion or a reset of the interface leaves it as   *)
(* it is, a submission adds to its end and a reap takes its head.          *)
(***************************************************************************)
EXTENDS UsbIso, FiniteSetTheorems, SequenceTheorems, WellFoundedInduction, TLAPS

Q(f) == done[f] \o pend[f]

\* The thread has read a descriptor number; it may come to use it.
Past(t)  == th[t].pc \in {"enable", "submit", "loop", "reap", "packet", "check"}
Begun(t) == Past(t) /\ (th[t].pc = "enable" => plugged)

\* The thread submits to f or waits in it.
Uses(t, f) == /\ Begun(t)
              /\ fds[th[t].fd] = f \/ (th[t].pc = "reap" /\ th[t].file = f)

\* No thread of visit s strayed.
Calm(s) == \A v \in strays : th[v].screen # s

UiType ==
  /\ screen \in 0..MaxScreens
  /\ ui \in {"away", "idle", "opening", "starting", "stopping", "closing", "crashed"}
  /\ found \in BOOLEAN /\ conn \in 0..MaxFds /\ camIsOpen \in BOOLEAN
  /\ stopKamera \in [Screens -> BOOLEAN]
  /\ runningStream \in [Screens -> 0..MaxStreams]
  /\ started \in 0..MaxStreams /\ stops \subseteq Screens

\* isoStream has opened the camera and not yet looked for a stream.
Starting == ui \in {"opening", "starting"}

UiStep ==
  /\ ui # "away" => screen \in Screens
  /\ ui = "stopping" => screen \in stops
  /\ Starting => started < MaxStreams /\ conn # 0 /\ ~stopKamera[screen]
  /\ ui = "starting" \/ started # 0 => camIsOpen

Thread ==
  [pc: {"none", "run", "enable", "submit", "loop", "reap", "packet", "check", "ended"},
   screen: Screens, fd: 0..MaxFds, own: 0..MaxOpens, file: 0..MaxOpens, req: Index]

ThType ==
  /\ th \in [Streams -> Thread]
  /\ strays \subseteq Streams

ThStep ==
  /\ \A t \in Streams : t > started => th[t].pc = "none"
  /\ \A t \in Streams : th[t].pc # "none" => th[t].screen <= screen
  /\ \A t \in Streams : Past(t) => th[t].fd \in Fds
  /\ \A t \in Streams : th[t].pc = "reap" => th[t].file \in Files /\ th[t].file <= opened
  /\ \A t \in strays : th[t].pc # "none"

DrvType ==
  /\ queued \in [Streams -> [Index -> BOOLEAN]]
  /\ opened \in 0..MaxOpens /\ fds \in [Fds -> 0..MaxOpens]
  /\ owner \in 0..MaxOpens /\ alt \in BOOLEAN /\ plugged \in BOOLEAN
  /\ pend \in [Files -> Seq(Urb)] /\ done \in [Files -> Seq(Urb)]
  /\ gone \subseteq Urb

\* Numbers and files
FdStep ==
  /\ \A n \in Fds : fds[n] <= opened
  /\ \A m, n \in Fds : fds[m] # 0 /\ fds[m] = fds[n] => m = n
  /\ conn # 0 => fds[conn] # 0
  /\ \A f \in Files : f > opened => Q(f) = <<>>
  /\ \A f \in Files : pend[f] # <<>> => \E n \in Fds : fds[n] = f

\* Requests
Reqs ==
  /\ \A f \in Files : IsInjective(Q(f))
  /\ \A f, g \in Files : f # g => Range(Q(f)) \cap Range(Q(g)) = {}
  /\ \A f \in Files : Range(Q(f)) \cap gone = {}
  /\ \A t \in Streams, i \in Index :
       queued[t][i] <=> (\E f \in Files : <<t, i>> \in Range(Q(f))) \/ <<t, i>> \in gone

ReqStep ==
  \A t \in Streams, i \in Index :
    queued[t][i] => /\ th[t].pc \notin {"none", "run", "enable"}
                    /\ th[t].pc = "submit" => i < th[t].req
                    /\ th[t].pc = "packet" => i # th[t].req

\* Threads of one visit
Numbers ==
  /\ \A t, s \in Streams :
       t # s /\ Begun(t) /\ Begun(s) /\ th[t].screen = th[s].screen /\ Calm(th[t].screen)
         => th[t].fd # th[s].fd
  /\ \A t \in Streams : Past(t) /\ th[t].screen = screen /\ ui # "away" => fds[th[t].fd] # 0
  /\ \A t \in Streams, n \in Fds : th[t].pc = "reap" /\ fds[n] = th[t].file => n = th[t].fd

Apart ==
  \A t \in Streams, f \in Files : Uses(t, f) /\ Calm(th[t].screen) =>
    \A u \in Range(Q(f)) : u[1] # t => th[u[1]].screen # th[t].screen

\* The connection a stream that is about to begin will read is used by no
\* other stream of the visit.
Fresh ==
  /\ plugged /\ ui # "away" /\ conn # 0 /\ Calm(screen)
  /\ \/ Starting
     \/ runningStream[screen] # 0 /\ th[runningStream[screen]].pc = "run"
  => \A t \in Streams : th[t].screen = screen /\ t # runningStream[screen] =>
       /\ ~(Begun(t) /\ th[t].fd = conn)
       /\ \A u \in Range(Q(fds[conn])) : u[1] # t

Base == UiType /\ UiStep /\ ThType /\ ThStep /\ DrvType /\ FdStep

IInv == /\ Base
        /\ Reqs /\ ReqStep /\ OneStream /\ Numbers /\ Apart /\ Fresh

-----------------------------------------------------------------------------
(* Sequences without repetition *)

LEMMA InjectiveSeq ==
  ASSUME NEW S, NEW q \in Seq(S)
  PROVE  /\ IsInjective(q) <=> \A m, n \in 1..Len(q) : q[m] = q[n] => m = n
         /\ \A x : x \in Range(q) <=> \E n \in 1..Len(q) : q[n] = x
BY DEF IsInjective, Range

LEMMA AppendNew ==
  ASSUME NEW S, NEW q \in Seq(S), NEW e \in S, IsInjective(q), e \notin Range(q)
  PROVE  IsInjective(Append(q, e)) /\ Range(Append(q, e)) = Range(q) \cup {e}
<1> DEFINE r == Append(q, e)
<1>1. /\ r \in Seq(S) /\ Len(q) \in Nat /\ Len(r) = Len(q) + 1
      /\ \A n \in 1..Len(q) : r[n] = q[n]
      /\ r[Len(q) + 1] = e
  BY AppendProperties, LenProperties
<1>2. \A n \in 1..Len(r) : n \in 1..Len(q) \/ n = Len(q) + 1
  BY <1>1
<1>3. 1..Len(q) \subseteq 1..Len(r) /\ Len(q) + 1 \in 1..Len(r)
  BY <1>1
<1> HIDE DEF r
<1>4. IsInjective(r)
  BY <1>1, <1>2, InjectiveSeq
<1>5. Range(r) = Range(q) \cup {e}
  BY <1>1, <1>2, <1>3, InjectiveSeq
<1>6. QED
  BY <1>4, <1>5 DEF r

LEMMA TailRest ==
  ASSUME NEW S, NEW q \in Seq(S), q # <<>>, IsInjective(q)
  PROVE  /\ Head(q) \in Range(q)
         /\ IsInjective(Tail(q)) /\ Range(Tail(q)) = Range(q) \ {Head(q)}
<1> DEFINE r == Tail(q)
<1>1. /\ r \in Seq(S) /\ Len(q) \in Nat \ {0} /\ Len(r) = Len(q) - 1
      /\ \A n \in 1..Len(r) : r[n] = q[n + 1]
      /\ Head(q) = q[1]
  BY HeadTailProperties, EmptySeq
<1>2. /\ 1 \in 1..Len(q)
      /\ \A n \in 1..Len(r) : n + 1 \in 1..Len(q) /\ n + 1 # 1
      /\ \A n \in 1..Len(q) : n # 1 => n - 1 \in 1..Len(r) /\ (n - 1) + 1 = n
  BY <1>1
<1> HIDE DEF r
<1>3. IsInjective(r)
  <2> SUFFICES ASSUME NEW m \in 1..Len(r), NEW n \in 1..Len(r), r[m] = r[n]
               PROVE  m = n
    BY <1>1, InjectiveSeq
  <2>1. m + 1 = n + 1
    BY <1>1, <1>2, InjectiveSeq
  <2>2. QED
    BY <2>1
<1>4. Range(r) = Range(q) \ {Head(q)}
  <2>1. ASSUME NEW x \in Range(r) PROVE x \in Range(q) \ {Head(q)}
    <3>1. PICK n \in 1..Len(r) : r[n] = x
      BY <1>1, InjectiveSeq
    <3>2. q[n + 1] = x /\ n + 1 \in 1..Len(q) /\ n + 1 # 1
      BY <1>1, <1>2, <3>1
    <3>3. QED
      BY <1>1, <1>2, <3>2, InjectiveSeq
  <2>2. ASSUME NEW x \in Range(q) \ {Head(q)} PROVE x \in Range(r)
    <3>1. PICK n \in 1..Len(q) : q[n] = x
      BY InjectiveSeq
    <3>2. n # 1
      BY <1>1, <3>1
    <3>3. n - 1 \in 1..Len(r) /\ r[n - 1] = x
      BY <1>1, <1>2, <3>1, <3>2
    <3>4. QED
      BY <1>1, <3>3, InjectiveSeq
  <2>3. QED
    BY <2>1, <2>2
<1>5. Head(q) \in Range(q)
  BY <1>1, <1>2, InjectiveSeq
<1>6. QED
  BY <1>3, <1>4, <1>5 DEF r

LEMMA InjectiveCount ==
  ASSUME NEW S, NEW q \in Seq(S), IsInjective(q)
  PROVE  Cardinality(Range(q)) = Len(q)
<1>1. Len(q) \in Nat /\ DOMAIN q = 1..Len(q) /\ q \in [1..Len(q) -> S]
  BY LenProperties
<1>2. IsFiniteSet(1..Len(q)) /\ Cardinality(1..Len(q)) = Len(q)
  BY <1>1, FS_Interval
<1>3. q \in Surjection(1..Len(q), Range(q)) /\ q \in Injection(1..Len(q), Range(q))
  BY <1>1 DEF Surjection, Injection, IsInjective, Range
<1>4. QED
  BY <1>2, <1>3, FS_Surjection

-----------------------------------------------------------------------------
(* Completed URBs followed by URBs in flight *)

LEMMA MoveHead ==
  ASSUME NEW S, NEW a \in Seq(S), NEW b \in Seq(S), b # <<>>
  PROVE  /\ Append(a, Head(b)) \o Tail(b) = a \o b
         /\ Append(a, Head(b)) \in Seq(S) /\ Tail(b) \in Seq(S)
<1>1. Head(b) \in S /\ Tail(b) \in Seq(S) /\ b \in Seq(S)
  BY HeadTailProperties
<1>2. Append(a, Head(b)) \in Seq(S)
  BY <1>1, AppendProperties
<1>3. QED
  BY <1>1, <1>2

LEMMA TailOfConcat ==
  ASSUME NEW S, NEW a \in Seq(S), NEW b \in Seq(S), a # <<>>
  PROVE  /\ Head(a \o b) = Head(a) /\ Tail(a \o b) = Tail(a) \o b
         /\ a \o b # <<>> /\ Tail(a) \in Seq(S) /\ Head(a) \in S
<1>1. Head(a) \in S /\ Tail(a) \in Seq(S)
  BY HeadTailProperties
<1>2. QED
  BY <1>1

LEMMA AppendToConcat ==
  ASSUME NEW S, NEW a \in Seq(S), NEW b \in Seq(S), NEW e \in S
  PROVE  a \o Append(b, e) = Append(a \o b, e) /\ Append(b, e) \in Seq(S)
BY AppendProperties

LEMMA OneSequence ==
  ASSUME DrvType, NEW f \in Files
  PROVE  /\ Q(f) \in Seq(Urb) /\ Urbs(f) = Range(Q(f))
         /\ Len(Q(f)) = Len(done[f]) + Len(pend[f])
<1>1. pend[f] \in Seq(Urb) /\ done[f] \in Seq(Urb)
  BY DEF DrvType
<1>2. Range(Q(f)) = Range(done[f]) \cup Range(pend[f])
  BY <1>1, RangeConcatenation DEF Q
<1>3. Q(f) \in Seq(Urb) /\ Len(Q(f)) = Len(done[f]) + Len(pend[f])
  BY <1>1, ConcatProperties DEF Q
<1>4. QED
  BY <1>2, <1>3 DEF Urbs

LEMMA HeadOfQ ==
  ASSUME DrvType, NEW f \in Files, done[f] # <<>>
  PROVE  /\ Head(Q(f)) = Head(done[f]) /\ Tail(Q(f)) = Tail(done[f]) \o pend[f]
         /\ Q(f) # <<>> /\ Tail(done[f]) \in Seq(Urb) /\ Head(done[f]) \in Urb
<1>1. pend[f] \in Seq(Urb) /\ done[f] \in Seq(Urb)
  BY DEF DrvType
<1>2. QED
  BY <1>1, TailOfConcat DEF Q

LEMMA SameUrbs ==
  ASSUME UNCHANGED <<pend, done>>
  PROVE  \A f : Q(f)' = Q(f)
BY DEF Q

\* A reset completes what is in flight, and drops what a closed file held.
LEMMA KillEffect ==
  ASSUME DrvType, NEW dead \in 0..MaxOpens, KillUrbs(dead)
  PROVE  /\ pend' \in [Files -> Seq(Urb)] /\ done' \in [Files -> Seq(Urb)]
         /\ \A f \in Files : pend'[f] = <<>> /\ Q(f)' = IF f = dead THEN <<>> ELSE Q(f)
         /\ gone' = IF dead = 0 THEN gone ELSE gone \cup Range(Q(dead))
         /\ gone' \subseteq Urb
<1>1. pend' = [f \in Files |-> <<>>] /\ <<>> \in Seq(Urb)
  BY DEF KillUrbs
<1>2. ASSUME NEW f \in Files
      PROVE  pend[f] \in Seq(Urb) /\ done[f] \in Seq(Urb) /\ done[f] \o pend[f] \in Seq(Urb)
  BY DEF DrvType
<1>3. done' = [f \in Files |-> IF f = dead THEN <<>> ELSE done[f] \o pend[f]]
  BY DEF KillUrbs
<1>4. ASSUME NEW f \in Files PROVE Q(f)' = IF f = dead THEN <<>> ELSE Q(f)
  <2>1. Q(f)' = done'[f] \o <<>>
    BY <1>1 DEF Q
  <2>2. done'[f] = IF f = dead THEN <<>> ELSE Q(f)
    BY <1>3 DEF Q
  <2>3. done'[f] \in Seq(Urb)
    BY <1>1, <1>2, <2>2 DEF Q
  <2>4. QED
    BY <2>1, <2>2, <2>3, ConcatEmptySeq
<1>5. pend' \in [Files -> Seq(Urb)]
  BY <1>1
<1>6. done' \in [Files -> Seq(Urb)]
  BY <1>1, <1>2, <1>3
<1>0. dead # 0 => dead \in Files
  BY UsbIsoAssumption DEF Files
<1>7. gone' = IF dead = 0 THEN gone ELSE gone \cup Range(Q(dead))
  BY <1>0, OneSequence DEF KillUrbs
<1>8. dead # 0 => Range(Q(dead)) \subseteq Urb
  BY <1>0, OneSequence, RangeOfSeq
<1>9. gone' \subseteq Urb
  BY <1>7, <1>8 DEF DrvType
<1>10. QED
  BY <1>1, <1>4, <1>5, <1>6, <1>7, <1>9

LEMMA CompleteEffect ==
  ASSUME DrvType, Complete
  PROVE  /\ pend' \in [Files -> Seq(Urb)] /\ done' \in [Files -> Seq(Urb)]
         /\ \A f \in Files : Q(f)' = Q(f) /\ (pend'[f] # <<>> => pend[f] # <<>>)
<1>1. PICK g \in Files : /\ pend[g] # <<>> /\ pend' = [pend EXCEPT ![g] = Tail(@)]
                         /\ done' = [done EXCEPT ![g] = Append(@, Head(pend[g]))]
  BY DEF Complete
<1>2. pend[g] \in Seq(Urb) /\ done[g] \in Seq(Urb)
  BY DEF DrvType
<1>3. /\ Append(done[g], Head(pend[g])) \o Tail(pend[g]) = done[g] \o pend[g]
      /\ Append(done[g], Head(pend[g])) \in Seq(Urb) /\ Tail(pend[g]) \in Seq(Urb)
  BY <1>1, <1>2, MoveHead
<1>4. pend' \in [Files -> Seq(Urb)] /\ done' \in [Files -> Seq(Urb)]
  BY <1>1, <1>3 DEF DrvType
<1>5. /\ \A f \in Files : f # g => pend'[f] = pend[f] /\ done'[f] = done[f]
      /\ pend'[g] = Tail(pend[g]) /\ done'[g] = Append(done[g], Head(pend[g]))
  BY <1>1 DEF DrvType
<1>6. QED
  BY <1>1, <1>3, <1>4, <1>5 DEF Q

\* A submission of u to file g that is taken adds to the file's sequence, one
\* that is refused is gone.
Submitted(u, g) ==
  \/ /\ g \in Files /\ gone' = gone /\ Q(g)' = Append(Q(g), u)
     /\ \A f \in Files : f # g => Q(f)' = Q(f) /\ pend'[f] = pend[f]
  \/ gone' = gone \cup {u} /\ pend' = pend /\ \A f \in Files : Q(f)' = Q(f)

LEMMA SubmitEffect ==
  ASSUME DrvType, NEW t \in Streams, NEW i \in Index, th[t].fd \in Fds,
         submit(t, i), UNCHANGED done, NEW g, g = fds[th[t].fd]
  PROVE  /\ queued' \in [Streams -> [Index -> BOOLEAN]]
         /\ pend' \in [Files -> Seq(Urb)] /\ done' \in [Files -> Seq(Urb)]
         /\ gone' \subseteq Urb
         /\ Submitted(<<t, i>>, g)
<1>1. queued' \in [Streams -> [Index -> BOOLEAN]]
  BY DEF DrvType, submit
<1>2. <<t, i>> \in Urb /\ done' \in [Files -> Seq(Urb)]
  BY DEF Urb, DrvType
<1>3. CASE Taken(t)
  <2>1. g \in Files
    BY <1>3 DEF Taken, DrvType, Files
  <2>2. pend[g] \in Seq(Urb) /\ done[g] \in Seq(Urb)
    BY <2>1 DEF DrvType
  <2>3. /\ done[g] \o Append(pend[g], <<t, i>>) = Append(done[g] \o pend[g], <<t, i>>)
        /\ Append(pend[g], <<t, i>>) \in Seq(Urb)
    BY <1>2, <2>2, AppendToConcat
  <2>4. pend' = [pend EXCEPT ![g] = Append(@, <<t, i>>)] /\ gone' = gone
    BY <1>3 DEF submit
  <2>5. pend' \in [Files -> Seq(Urb)]
    BY <2>1, <2>3, <2>4 DEF DrvType
  <2>6. pend'[g] = Append(pend[g], <<t, i>>) /\ \A f \in Files : f # g => pend'[f] = pend[f]
    BY <2>1, <2>4 DEF DrvType
  <2>7. Q(g)' = Append(Q(g), <<t, i>>)
    BY <2>3, <2>6 DEF Q
  <2>8. \A f \in Files : f # g => Q(f)' = Q(f)
    BY <2>6 DEF Q
  <2>9. QED
    BY <1>1, <1>2, <2>1, <2>4, <2>5, <2>6, <2>7, <2>8 DEF DrvType, Submitted
<1>4. CASE ~Taken(t)
  <2>1. gone' = gone \cup {<<t, i>>} /\ pend' = pend
    BY <1>4 DEF submit
  <2>2. QED
    BY <1>1, <1>2, <2>1, SameUrbs DEF DrvType, Submitted
<1>5. QED
  BY <1>3, <1>4

LEMMA LowestFreeIsFree ==
  ASSUME DrvType, NEW n \in Fds, fds[n] = 0
  PROVE  LowestFree \in Fds /\ fds[LowestFree] = 0
<1> DEFINE T == {m \in Fds : fds[m] = 0}
<1>1. T \subseteq Nat /\ T # {}
  BY UsbIsoAssumption DEF Fds
<1>2. PICK x \in T : \A y \in T : ~(<<y, x>> \in OpToRel(<, Nat))
  BY <1>1, NatLessThanWellFounded, WFMin
<1>3. ASSUME NEW y \in T PROVE x <= y
  <2>1. y \in Nat /\ x \in Nat
    BY <1>1
  <2>2. y < x => <<y, x>> \in OpToRel(<, Nat)
    BY <2>1, Zenon DEF OpToRel
  <2>3. ~(y < x)
    BY <1>2, <2>2, Zenon
  <2>4. QED
    BY <2>1, <2>3
<1>4. QED
  BY <1>3 DEF LowestFree

-----------------------------------------------------------------------------
(* A step of a stream thread moves that thread and leaves the screen, the  *)
(* numbers and the other threads as they are.                              *)

Moved(t) ==
  /\ th' \in [Streams -> Thread] /\ runningStream' \in [Screens -> 0..MaxStreams]
  /\ \A s \in Streams : s # t => th'[s] = th[s]
  /\ th'[t].screen = th[t].screen /\ th[t].pc # "none" /\ th'[t].pc \notin {"none", "run"}
  /\ Past(t)' => /\ th'[t].fd \in Fds
                 /\ IF th[t].pc = "run" THEN th'[t].pc = "enable" ELSE th'[t].fd = th[t].fd
  /\ th'[t].pc = "reap" => th'[t].file = fds[th[t].fd] /\ fds[th[t].fd] # 0
  /\ StayUi /\ UNCHANGED <<opened, fds, plugged, stops>> /\ owner' \in 0..MaxOpens
  /\ strays \subseteq strays' /\ strays' \subseteq strays \cup {t}

LEMMA EndEffect ==
  ASSUME UiType, ThType, NEW t \in Streams, End(t)
  PROVE  /\ th' \in [Streams -> Thread] /\ runningStream' \in [Screens -> 0..MaxStreams]
         /\ \A s \in Streams : s # t => th'[s] = th[s]
         /\ th'[t].screen = th[t].screen /\ th'[t].pc = "ended"
         /\ runningStream'[th[t].screen] = 0
         /\ \A s \in Screens : s # th[t].screen => runningStream'[s] = runningStream[s]
<1> DEFINE e == [Idle EXCEPT !.pc = "ended", !.screen = th[t].screen]
<1>1. th[t].screen \in Screens
  BY DEF ThType, Thread
<1>2. 1 \in Index /\ 0 \in 0..MaxFds /\ 0 \in 0..MaxOpens /\ 0 \in 0..MaxStreams
  BY UsbIsoAssumption DEF Index
<1>3. e \in Thread /\ e.pc = "ended" /\ e.screen = th[t].screen
  BY <1>1, <1>2 DEF Idle, Thread
<1>4. th' = [th EXCEPT ![t] = e]
  BY DEF End
<1> HIDE DEF e
<1>5. th' \in [Streams -> Thread] /\ th'[t] = e /\ \A s \in Streams : s # t => th'[s] = th[s]
  BY <1>3, <1>4 DEF ThType
<1>6. /\ runningStream' \in [Screens -> 0..MaxStreams] /\ runningStream'[th[t].screen] = 0
      /\ \A s \in Screens : s # th[t].screen => runningStream'[s] = runningStream[s]
  BY <1>1, <1>2 DEF End, UiType
<1>7. QED
  BY <1>3, <1>5, <1>6

LEMMA EndMoves ==
  ASSUME UiType, ThType, NEW t \in Streams, th[t].pc # "none", End(t), StayUi,
         UNCHANGED <<opened, fds, plugged, stops>>, owner' \in 0..MaxOpens,
         strays \subseteq strays', strays' \subseteq strays \cup {t}
  PROVE  Moved(t)
BY EndEffect DEF Moved, Past

LEMMA RunMoves ==
  ASSUME Base, NEW t \in Streams, run(t)
  PROVE  Moved(t)
<1>1. /\ StayUi /\ UNCHANGED <<opened, fds, plugged, stops>> /\ th[t].pc = "run"
      /\ owner' \in 0..MaxOpens
  BY DEF run, drvVars, Base, DrvType
<1>2. strays \subseteq strays' /\ strays' \subseteq strays \cup {t}
  BY DEF run
<1>3. CASE Connection(t) = 0
  BY <1>1, <1>2, <1>3, EndMoves DEF run, Base
<1>4. CASE Connection(t) # 0
  <2>1. Connection(t) \in Fds /\ Connection(t) \in 0..MaxFds
    BY <1>4, UsbIsoAssumption DEF Connection, Base, UiType, Fds
  <2>2. fds[Connection(t)] \in 0..MaxOpens
    BY <2>1 DEF Base, DrvType
  <2>3. /\ th' = [th EXCEPT ![t].pc = "enable", ![t].fd = Connection(t),
                            ![t].own = fds[Connection(t)]]
        /\ runningStream' = runningStream
    BY <1>4 DEF run
  <2>4. /\ th' \in [Streams -> Thread]
        /\ \A s \in Streams : s # t => th'[s] = th[s]
        /\ th'[t].screen = th[t].screen /\ th'[t].pc = "enable" /\ th'[t].fd = Connection(t)
    <3> DEFINE r == [th[t] EXCEPT !.pc = "enable", !.fd = Connection(t),
                                  !.own = fds[Connection(t)]]
    <3>1. th \in [Streams -> Thread]
      BY DEF Base, ThType
    <3>2. /\ r \in Thread /\ r.screen = th[t].screen
          /\ r.pc = "enable" /\ r.fd = Connection(t)
      BY <2>1, <2>2, <3>1 DEF Thread
    <3>3. th' = [th EXCEPT ![t] = r]
      BY <2>3, <3>1
    <3> HIDE DEF r
    <3>4. QED
      BY <3>1, <3>2, <3>3
  <2>5. QED
    BY <1>1, <1>2, <2>1, <2>3, <2>4 DEF Moved, Past, Base, UiType
<1>5. QED
  BY <1>3, <1>4

\* Steps that only change where the thread is and which request it is at.
LEMMA PcMoves ==
  ASSUME Base, NEW t \in Streams, Past(t), StayUi,
         NEW p \in {"submit", "loop", "packet", "check"}, NEW i \in Index,
         th' = [th EXCEPT ![t].pc = p, ![t].req = i], owner' \in 0..MaxOpens,
         UNCHANGED <<runningStream, opened, fds, plugged, stops, strays>>
  PROVE  Moved(t) /\ th'[t].pc = p /\ th'[t].req = i
<1>1. /\ th' \in [Streams -> Thread]
      /\ \A s \in Streams : s # t => th'[s] = th[s]
      /\ th'[t].screen = th[t].screen /\ th'[t].pc = p /\ th'[t].req = i
      /\ th'[t].fd = th[t].fd
  BY DEF Base, ThType, Thread
<1>2. th[t].fd \in Fds /\ th[t].pc \notin {"none", "run"}
  BY DEF Base, ThStep, Past
<1>3. QED
  BY <1>1, <1>2 DEF Moved, Base, UiType

LEMMA EnableMoves ==
  ASSUME Base, NEW t \in Streams, enableStreaming(t)
  PROVE  /\ Moved(t) /\ th[t].pc = "enable" /\ UNCHANGED queued
         /\ \/ GiveUp(t) /\ KeepUrbs /\ UNCHANGED <<owner, alt>>
            \/ th'[t].pc = "submit" /\ UNCHANGED runningStream /\ alt' = TRUE /\ KillUrbs(0)
               /\ plugged /\ th'[t].req = th[t].req /\ UNCHANGED strays
<1> DEFINE ok == Connection(t) # 0 /\ plugged /\ owner \in {0, fds[Connection(t)]}
<1>1. /\ th[t].pc = "enable" /\ StayUi
      /\ UNCHANGED <<queued, opened, fds, plugged, stops>>
  BY DEF enableStreaming
<1>2. CASE ~ok
  <2>1. GiveUp(t) /\ KeepUrbs /\ UNCHANGED <<owner, alt>>
    BY <1>2 DEF enableStreaming
  <2>2. owner' \in 0..MaxOpens /\ th[t].pc # "none"
    BY <1>1, <2>1 DEF Base, DrvType
  <2>3. End(t) /\ strays \subseteq strays' /\ strays' \subseteq strays \cup {t}
    BY <2>1 DEF GiveUp
  <2>4. Moved(t)
    BY <1>1, <2>2, <2>3, EndMoves DEF Base
  <2>5. QED
    BY <1>1, <2>1, <2>4
<1>3. CASE ok
  <2>0. owner' = fds[Connection(t)] /\ owner' \in 0..MaxOpens
    <3>1. Connection(t) \in Fds
      BY <1>3, UsbIsoAssumption DEF Connection, Base, UiType, Fds
    <3>2. fds[Connection(t)] \in 0..MaxOpens
      BY <3>1 DEF Base, DrvType
    <3>3. owner' = fds[Connection(t)]
      BY <1>3 DEF enableStreaming
    <3>4. QED
      BY <3>2, <3>3
  <2>1. /\ th' = [th EXCEPT ![t].pc = "submit"] /\ alt' = TRUE /\ KillUrbs(0)
        /\ UNCHANGED <<runningStream, strays>>
    BY <1>3 DEF enableStreaming, Go
  <2>2. th[t].req \in Index /\ th' = [th EXCEPT ![t].pc = "submit", ![t].req = th[t].req]
    BY <2>1 DEF Base, ThType, Thread
  <2>3. Past(t)
    BY <1>1 DEF Past
  <2>4. QED
    BY <1>1, <1>3, <2>0, <2>1, <2>2, <2>3, PcMoves
<1>4. QED
  BY <1>2, <1>3

LEMMA SubmitMoves ==
  ASSUME Base, NEW t \in Streams, submitUrbs(t)
  PROVE  /\ Moved(t) /\ th[t].pc = "submit" /\ submit(t, th[t].req)
         /\ UNCHANGED <<runningStream, alt, done, strays>>
         /\ \/ th'[t].pc = "submit" /\ th'[t].req = th[t].req + 1
            \/ th'[t].pc = "loop"
<1>1. /\ th[t].pc = "submit" /\ submit(t, th[t].req) /\ StayUi
      /\ UNCHANGED <<runningStream, opened, fds, alt, done, plugged, stops, strays>>
      /\ owner' \in 0..MaxOpens
  BY DEF submitUrbs, Base, DrvType
<1>2. Past(t)
  BY <1>1 DEF Past
<1>3. th[t].req \in Index
  BY DEF Base, ThType, Thread
<1>4. CASE th[t].req < activeUrbs
  <2>1. th' = [th EXCEPT ![t].req = th[t].req + 1]
    BY <1>4 DEF submitUrbs
  <2>2. th[t].req + 1 \in Index
    BY <1>3, <1>4, UsbIsoAssumption DEF Index
  <2>3. th' = [th EXCEPT ![t].pc = "submit", ![t].req = th[t].req + 1]
    BY <1>1, <2>1 DEF Base, ThType, Thread
  <2>4. QED
    BY <1>1, <1>2, <2>2, <2>3, PcMoves
<1>5. CASE ~(th[t].req < activeUrbs)
  <2>1. th' = [th EXCEPT ![t].pc = "loop", ![t].req = 1] /\ 1 \in Index
    BY <1>5, UsbIsoAssumption DEF submitUrbs, Index
  <2>2. QED
    BY <1>1, <1>2, <2>1, PcMoves
<1>6. QED
  BY <1>4, <1>5

LEMMA ReapMoves ==
  ASSUME Base, NEW t \in Streams, reap(t)
  PROVE  /\ Moved(t) /\ th[t].pc = "loop" /\ UNCHANGED <<queued, alt, pend, done, gone, strays>>
         /\ \/ End(t) /\ fds[th[t].fd] = 0
            \/ th'[t].pc = "reap" /\ UNCHANGED runningStream
<1>1. /\ th[t].pc = "loop" /\ StayUi
      /\ UNCHANGED <<queued, opened, fds, alt, pend, done, plugged, gone, stops, strays>>
      /\ owner' \in 0..MaxOpens
  BY DEF reap, drvVars, Base, DrvType
<1>2. CASE fds[th[t].fd] = 0
  BY <1>1, <1>2, EndMoves DEF reap, Base
<1>3. CASE fds[th[t].fd] # 0
  <2>1. th[t].fd \in Fds
    BY <1>1 DEF Base, ThStep, Past
  <2>2. fds[th[t].fd] \in 0..MaxOpens
    BY <2>1 DEF Base, DrvType
  <2>3. /\ th' = [th EXCEPT ![t].pc = "reap", ![t].file = fds[th[t].fd]]
        /\ runningStream' = runningStream
    BY <1>3 DEF reap
  <2>4. /\ th' \in [Streams -> Thread]
        /\ \A s \in Streams : s # t => th'[s] = th[s]
        /\ th'[t].screen = th[t].screen /\ th'[t].pc = "reap" /\ th'[t].fd = th[t].fd
        /\ th'[t].file = fds[th[t].fd]
    BY <2>2, <2>3 DEF Base, ThType, Thread
  <2>5. QED
    BY <1>1, <1>3, <2>1, <2>3, <2>4 DEF Moved, Past, Base, UiType
<1>4. QED
  BY <1>2, <1>3

LEMMA ResubmitMoves ==
  ASSUME Base, NEW t \in Streams, resubmit(t)
  PROVE  /\ Moved(t) /\ th[t].pc = "packet" /\ th'[t].pc = "check" /\ submit(t, th[t].req)
         /\ UNCHANGED <<runningStream, alt, done, strays>>
<1>1. /\ th[t].pc = "packet" /\ submit(t, th[t].req) /\ StayUi
      /\ UNCHANGED <<runningStream, opened, fds, alt, done, plugged, stops, strays>>
      /\ th' = [th EXCEPT ![t].pc = "check", ![t].req = 1] /\ owner' \in 0..MaxOpens
  BY DEF resubmit, Base, DrvType
<1>2. 1 \in Index
  BY UsbIsoAssumption DEF Index
<1>3. Past(t)
  BY <1>1 DEF Past
<1>4. QED
  BY <1>1, <1>2, <1>3, PcMoves

LEMMA CheckMoves ==
  ASSUME Base, NEW t \in Streams, checkStop(t)
  PROVE  /\ Moved(t) /\ th[t].pc = "check" /\ UNCHANGED <<queued, alt, pend, done, gone, strays>>
         /\ \/ End(t) /\ stopKamera[th[t].screen]
            \/ th'[t].pc = "loop" /\ UNCHANGED runningStream
<1>1. /\ th[t].pc = "check" /\ StayUi
      /\ UNCHANGED <<queued, opened, fds, alt, pend, done, plugged, gone, stops, strays>>
      /\ owner' \in 0..MaxOpens
  BY DEF checkStop, drvVars, Base, DrvType
<1>2. CASE stopKamera[th[t].screen]
  BY <1>1, <1>2, EndMoves DEF checkStop, Base
<1>3. CASE ~stopKamera[th[t].screen]
  <2>1. th' = [th EXCEPT ![t].pc = "loop"] /\ UNCHANGED runningStream
    BY <1>3 DEF checkStop, Go
  <2>2. th[t].req \in Index /\ th' = [th EXCEPT ![t].pc = "loop", ![t].req = th[t].req]
    BY <2>1 DEF Base, ThType, Thread
  <2>3. Past(t)
    BY <1>1 DEF Past
  <2>4. QED
    BY <1>1, <2>1, <2>2, <2>3, PcMoves
<1>4. QED
  BY <1>2, <1>3

LEMMA FailMoves ==
  ASSUME Base, NEW t \in Streams, packetFails(t)
  PROVE  /\ Moved(t) /\ th[t].pc = "packet" /\ GiveUp(t) /\ End(t)
         /\ UNCHANGED <<queued, alt, pend, done, gone>>
<1>1. /\ th[t].pc = "packet" /\ StayUi /\ GiveUp(t) /\ End(t)
      /\ UNCHANGED <<queued, opened, fds, alt, pend, done, plugged, gone, stops>>
      /\ owner' \in 0..MaxOpens
  BY DEF packetFails, GiveUp, drvVars, Base, DrvType
<1>2. strays \subseteq strays' /\ strays' \subseteq strays \cup {t}
  BY <1>1 DEF GiveUp
<1>3. QED
  BY <1>1, <1>2, EndMoves DEF Base

\* The URB u is taken from the head of f's sequence: what the thread does with it
Reaped(t, u) ==
  \/ /\ u[1] = t /\ th'[t].pc = "packet" /\ th'[t].req = u[2]
     /\ queued' = [queued EXCEPT ![t][u[2]] = FALSE]
     /\ UNCHANGED <<runningStream, strays>>
  \/ u[1] # t /\ End(t) /\ strays' = strays \cup {t} /\ UNCHANGED queued

\* ... and what is left in the file, and gone.
Left(t, f, u) ==
  /\ Q(f) # <<>> /\ u = Head(Q(f)) /\ u \in Urb
  /\ \A g \in Files : g # f => Q(g)' = Q(g)
  /\ \/ Q(f)' = Tail(Q(f)) /\ gone' = gone \cup (IF u[1] = t THEN {} ELSE {u})
     \/ /\ Q(f)' = <<>>
        /\ gone' = gone \cup (Range(Q(f)) \ {u}) \cup (IF u[1] = t THEN {} ELSE {u})

LEMMA ReapRequestMoves ==
  ASSUME Base, NEW t \in Streams, reapRequest(t), NEW f, f = th[t].file
  PROVE  /\ Moved(t) /\ th[t].pc = "reap" /\ f \in Files /\ UNCHANGED <<alt, pend>>
         /\ done' \in [Files -> Seq(Urb)]
         /\ \/ ~plugged /\ End(t) /\ UNCHANGED <<done, queued, gone, strays>>
            \/ \E u \in Urb : Left(t, f, u) /\ Reaped(t, u)
<1>1. /\ th[t].pc = "reap" /\ StayUi
      /\ UNCHANGED <<opened, fds, alt, pend, plugged, stops>> /\ owner' \in 0..MaxOpens
  BY DEF reapRequest, Base, DrvType
<1>2. f \in Files /\ Past(t)
  BY <1>1 DEF Base, ThStep, Past
<1>3. done[f] \in Seq(Urb) /\ pend[f] \in Seq(Urb)
  BY <1>2 DEF Base, DrvType
<1>4. CASE done[f] = <<>>
  <2>1. ~plugged /\ End(t) /\ UNCHANGED <<done, queued, gone, strays>>
    BY <1>4 DEF reapRequest
  <2>2. Moved(t)
    BY <1>1, <2>1, EndMoves DEF Base
  <2>3. QED
    BY <1>1, <1>2, <2>1, <2>2 DEF Base, DrvType
<1>5. CASE done[f] # <<>>
  <2> DEFINE dying == Inside(f) = {t} /\ \A n \in Fds : fds[n] # f
             other(u) == IF u[1] = t THEN {} ELSE {u}
  <2>1. PICK u : u = Head(done[f])
    OBVIOUS
  <2>2. /\ done' = [done EXCEPT ![f] = IF dying THEN <<>> ELSE Tail(@)]
        /\ gone' = gone \cup (IF dying THEN Urbs(f) \ {u} ELSE {}) \cup other(u)
        /\ IF u[1] = t
           THEN /\ th' = [th EXCEPT ![t].pc = "packet", ![t].req = u[2]]
                /\ queued' = [queued EXCEPT ![t][u[2]] = FALSE]
                /\ UNCHANGED <<runningStream, strays>>
           ELSE End(t) /\ strays' = strays \cup {t} /\ UNCHANGED queued
    BY <1>5, <2>1 DEF reapRequest
  <2>3. /\ u \in Urb /\ Tail(done[f]) \in Seq(Urb) /\ u = Head(Q(f)) /\ Q(f) # <<>>
        /\ Tail(Q(f)) = Tail(done[f]) \o pend[f]
    BY <1>2, <1>5, <2>1, HeadOfQ DEF Base
  <2>4. Moved(t) /\ Reaped(t, u)
    <3>1. CASE u[1] = t
      <4>1. u[2] \in Index
        BY <2>3 DEF Urb
      <4>2. /\ th' = [th EXCEPT ![t].pc = "packet", ![t].req = u[2]]
            /\ queued' = [queued EXCEPT ![t][u[2]] = FALSE]
            /\ UNCHANGED <<runningStream, strays>>
        BY <2>2, <3>1
      <4>3. Moved(t) /\ th'[t].pc = "packet" /\ th'[t].req = u[2]
        BY <1>1, <1>2, <4>1, <4>2, PcMoves
      <4>4. QED
        BY <3>1, <4>2, <4>3 DEF Reaped
    <3>2. CASE u[1] # t
      BY <1>1, <2>2, <3>2, EndMoves DEF Reaped, Base
    <3>3. QED
      BY <3>1, <3>2
  <2>5. done' \in [Files -> Seq(Urb)]
    <3>1. (IF dying THEN <<>> ELSE Tail(done[f])) \in Seq(Urb)
      BY <2>3, EmptySeq
    <3>2. QED
      BY <2>2, <3>1 DEF Base, DrvType
  <2>6. /\ done'[f] = IF dying THEN <<>> ELSE Tail(done[f])
        /\ \A g \in Files : g # f => done'[g] = done[g]
    BY <1>2, <2>2 DEF Base, DrvType
  <2>7. \A g \in Files : g # f => Q(g)' = Q(g)
    BY <1>1, <2>6 DEF Q
  <2>8. Urbs(f) = Range(Q(f))
    BY <1>2, OneSequence DEF Base
  <2>9. Left(t, f, u)
    <3>1. CASE dying
      <4>1. pend[f] = <<>>
        BY <1>2, <3>1 DEF Base, FdStep
      <4>2. Q(f)' = <<>>
        BY <1>1, <2>6, <3>1, <4>1 DEF Q
      <4>3. gone' = gone \cup (Range(Q(f)) \ {u}) \cup other(u)
        BY <2>2, <2>8, <3>1
      <4>4. QED
        BY <2>3, <2>7, <4>2, <4>3 DEF Left
    <3>2. CASE ~dying
      <4>1. Q(f)' = Tail(Q(f))
        BY <1>1, <2>3, <2>6, <3>2 DEF Q
      <4>2. gone' = gone \cup other(u)
        BY <2>2, <3>2
      <4>3. QED
        BY <2>3, <2>7, <4>1, <4>2 DEF Left
    <3>3. QED
      BY <3>1, <3>2
  <2>10. QED
    BY <1>1, <1>2, <2>3, <2>4, <2>5, <2>9
<1>6. QED
  BY <1>4, <1>5

-----------------------------------------------------------------------------
(* Types, where everyone is, numbers and files: the stream threads *)

LEMMA MovedBase ==
  ASSUME Base, NEW t \in Streams, Moved(t)
  PROVE  (UiType /\ UiStep /\ ThType /\ ThStep)'
<1>1. UiType' /\ UiStep'
  BY DEF Base, UiType, UiStep, Starting, Moved, StayUi
<1>2. ThType'
  BY DEF Base, ThType, Moved
<1>3. /\ screen' = screen /\ started' = started /\ opened' = opened
      /\ th[t].pc # "none" /\ th'[t].pc # "none" /\ th'[t].screen = th[t].screen
      /\ \A s \in Streams : s # t => th'[s] = th[s]
  BY DEF Moved, StayUi
<1>4. Past(t)' => th'[t].fd \in Fds
  BY DEF Moved
<1>5. th'[t].pc = "reap" => th'[t].file \in Files /\ th'[t].file <= opened
  <2> SUFFICES ASSUME th'[t].pc = "reap"
               PROVE  th'[t].file \in Files /\ th'[t].file <= opened
    OBVIOUS
  <2>1. th'[t].file = fds[th[t].fd] /\ fds[th[t].fd] # 0
    BY DEF Moved
  <2>2. th[t].fd \in Fds
    <3>1. Past(t)'
      BY DEF Past
    <3>2. QED
      BY <3>1 DEF Moved
  <2>3. fds[th[t].fd] \in 0..MaxOpens /\ fds[th[t].fd] <= opened
    BY <2>2 DEF Base, DrvType, FdStep
  <2>4. QED
    BY <2>1, <2>3, UsbIsoAssumption DEF Files
<1>6. \A s \in strays' : th'[s].pc # "none"
  BY <1>3 DEF Base, ThType, ThStep, Moved
<1>7. ThStep'
  <2>1. \A s \in Streams : s # t => (Past(s)' <=> Past(s))
    BY <1>3 DEF Past
  <2>2. \A s \in Streams : s > started' => th'[s].pc = "none"
    BY <1>3 DEF Base, ThStep
  <2>3. \A s \in Streams : th'[s].pc # "none" => th'[s].screen <= screen'
    BY <1>3 DEF Base, ThStep
  <2>4. \A s \in Streams : Past(s)' => th'[s].fd \in Fds
    BY <1>3, <1>4, <2>1 DEF Base, ThStep
  <2>5. \A s \in Streams : th'[s].pc = "reap" => th'[s].file \in Files /\ th'[s].file <= opened'
    BY <1>3, <1>5 DEF Base, ThStep
  <2>6. QED
    BY <1>6, <2>2, <2>3, <2>4, <2>5 DEF ThStep
<1>8. QED
  BY <1>1, <1>2, <1>7

LEMMA FilesKept ==
  ASSUME FdStep, UNCHANGED <<opened, fds, conn>>,
         \A f \in Files : /\ Q(f) = <<>> /\ f > opened => Q(f)' = <<>>
                          /\ pend'[f] # <<>> => pend[f] # <<>> \/ \E n \in Fds : fds[n] = f
  PROVE  FdStep'
BY DEF FdStep

LEMMA SubmitBase ==
  ASSUME Base, NEW t \in Streams, NEW i \in Index, Past(t), Moved(t),
         submit(t, i), UNCHANGED <<alt, done>>
  PROVE  Base'
<1>1. PICK g : g = fds[th[t].fd]
  OBVIOUS
<1>2. th[t].fd \in Fds /\ g <= opened /\ g \in 0..MaxOpens
  BY <1>1 DEF Base, ThStep, FdStep, DrvType
<1>3. /\ queued' \in [Streams -> [Index -> BOOLEAN]]
      /\ pend' \in [Files -> Seq(Urb)] /\ done' \in [Files -> Seq(Urb)]
      /\ gone' \subseteq Urb
      /\ \A f \in Files : f # g => Q(f)' = Q(f) /\ pend'[f] = pend[f]
      /\ g \in Files \/ (pend' = pend /\ \A f \in Files : Q(f)' = Q(f))
  <2>1. DrvType
    BY DEF Base
  <2>2. /\ queued' \in [Streams -> [Index -> BOOLEAN]]
        /\ pend' \in [Files -> Seq(Urb)] /\ done' \in [Files -> Seq(Urb)]
        /\ gone' \subseteq Urb /\ Submitted(<<t, i>>, g)
    BY <1>1, <1>2, <2>1, SubmitEffect
  <2>3. QED
    BY <2>2 DEF Submitted
<1>4. UNCHANGED <<opened, fds, conn, plugged>> /\ owner' \in 0..MaxOpens
  BY DEF Moved, StayUi
<1>5. DrvType'
  BY <1>3, <1>4 DEF DrvType, Base
<1>6. FdStep'
  <2>1. ASSUME NEW f \in Files
        PROVE  /\ Q(f) = <<>> /\ f > opened => Q(f)' = <<>>
               /\ pend'[f] # <<>> => pend[f] # <<>> \/ \E n \in Fds : fds[n] = f
    <3>1. CASE f # g
      BY <1>3, <3>1
    <3>2. CASE f = g
      <4>1. f <= opened /\ f \in Nat /\ opened \in Nat
        BY <1>2, <3>2, UsbIsoAssumption DEF Base, DrvType
      <4>2. QED
        BY <1>1, <1>2, <3>2, <4>1
    <3>3. QED
      BY <3>1, <3>2
  <2>2. QED
    BY <1>4, <2>1, FilesKept DEF Base
<1>7. QED
  BY <1>5, <1>6, MovedBase DEF Base

LEMMA QuietBase ==
  ASSUME Base, NEW t \in Streams, Moved(t), UNCHANGED <<queued, alt, pend, done, gone>>
  PROVE  Base'
<1>1. UNCHANGED <<opened, fds, conn, plugged>> /\ owner' \in 0..MaxOpens
  BY DEF Moved, StayUi
<1>2. DrvType'
  BY <1>1 DEF DrvType, Base
<1>3. FdStep'
  BY <1>1, SameUrbs, FilesKept DEF Base
<1>4. QED
  BY <1>2, <1>3, MovedBase DEF Base

LEMMA StreamBase ==
  ASSUME Base, NEW t \in Streams, Stream(t)
  PROVE  Base'
<1>1. CASE run(t)
  <2>1. UNCHANGED <<queued, alt, pend, done, gone>>
    BY <1>1 DEF run, drvVars
  <2>2. QED
    BY <1>1, <2>1, RunMoves, QuietBase
<1>2. CASE enableStreaming(t)
  <2>1. Moved(t) /\ UNCHANGED queued
    BY <1>2, EnableMoves
  <2>2. CASE KeepUrbs /\ UNCHANGED <<owner, alt>>
    BY <2>1, <2>2, QuietBase DEF KeepUrbs
  <2>3. CASE alt' = TRUE /\ KillUrbs(0)
    <3>1. 0 \in 0..MaxOpens
      BY UsbIsoAssumption
    <3>2. /\ pend' \in [Files -> Seq(Urb)] /\ done' \in [Files -> Seq(Urb)]
          /\ \A f \in Files : pend'[f] = <<>> /\ Q(f)' = IF f = 0 THEN <<>> ELSE Q(f)
          /\ gone' \subseteq Urb
      BY <2>3, <3>1, KillEffect DEF Base
    <3>3. UNCHANGED <<opened, fds, conn, plugged>> /\ owner' \in 0..MaxOpens
      BY <2>1 DEF Moved, StayUi
    <3>4. DrvType'
      BY <2>1, <2>3, <3>2, <3>3 DEF DrvType, Base
    <3>5. FdStep'
      BY <3>2, <3>3, FilesKept DEF Base
    <3>6. QED
      BY <2>1, <3>4, <3>5, MovedBase DEF Base
  <2>4. QED
    BY <1>2, <2>2, <2>3, EnableMoves
<1>3. CASE submitUrbs(t)
  <2>1. Moved(t) /\ submit(t, th[t].req) /\ UNCHANGED <<alt, done>> /\ th[t].pc = "submit"
    BY <1>3, SubmitMoves
  <2>2. th[t].req \in Index /\ Past(t)
    BY <2>1 DEF Base, ThType, Thread, Past
  <2>3. QED
    BY <2>1, <2>2, SubmitBase
<1>4. CASE reap(t)
  BY <1>4, ReapMoves, QuietBase
<1>5. CASE reapRequest(t)
  <2>1. PICK f : f = th[t].file
    OBVIOUS
  <2>2. /\ Moved(t) /\ f \in Files /\ UNCHANGED <<alt, pend>> /\ done' \in [Files -> Seq(Urb)]
        /\ \/ ~plugged /\ End(t) /\ UNCHANGED <<done, queued, gone, strays>>
           \/ \E u \in Urb : Left(t, f, u) /\ Reaped(t, u)
    BY <1>5, <2>1, ReapRequestMoves
  <2>3. CASE UNCHANGED <<done, queued, gone>>
    BY <2>2, <2>3, QuietBase
  <2>4. ASSUME NEW u \in Urb, Left(t, f, u), Reaped(t, u) PROVE Base'
    <3>1. UNCHANGED <<opened, fds, conn, plugged>> /\ owner' \in 0..MaxOpens
      BY <2>2 DEF Moved, StayUi
    <3>2. queued' \in [Streams -> [Index -> BOOLEAN]]
      <4>1. PICK i \in Index : i = u[2]
        BY DEF Urb
      <4>2. queued' = [queued EXCEPT ![t][i] = FALSE] \/ queued' = queued
        BY <2>4, <4>1 DEF Reaped
      <4>3. queued \in [Streams -> [Index -> BOOLEAN]]
        BY DEF Base, DrvType
      <4>4. [queued EXCEPT ![t][i] = FALSE] \in [Streams -> [Index -> BOOLEAN]]
        BY <4>3
      <4>5. QED
        BY <4>2, <4>3, <4>4
    <3>3. Range(Q(f)) \subseteq Urb
      BY <2>2, OneSequence, RangeOfSeq DEF Base
    <3>4. gone' \subseteq Urb
      BY <2>4, <3>3 DEF Base, DrvType, Left
    <3>5. DrvType'
      BY <2>2, <3>1, <3>2, <3>4 DEF DrvType, Base
    <3>6. \A g \in Files : Q(g) = <<>> => Q(g)' = <<>>
      BY <2>4 DEF Left
    <3>7. FdStep'
      BY <2>2, <3>1, <3>6, FilesKept DEF Base
    <3>8. QED
      BY <2>2, <3>5, <3>7, MovedBase DEF Base
  <2>5. QED
    BY <2>2, <2>3, <2>4
<1>6. CASE resubmit(t)
  <2>1. Moved(t) /\ submit(t, th[t].req) /\ UNCHANGED <<alt, done>> /\ th[t].pc = "packet"
    BY <1>6, ResubmitMoves
  <2>2. th[t].req \in Index /\ Past(t)
    BY <2>1 DEF Base, ThType, Thread, Past
  <2>3. QED
    BY <2>1, <2>2, SubmitBase
<1>7. CASE checkStop(t)
  BY <1>7, CheckMoves, QuietBase
<1>8. CASE packetFails(t)
  BY <1>8, FailMoves, QuietBase
<1>9. QED
  BY <1>1, <1>2, <1>3, <1>4, <1>5, <1>6, <1>7, <1>8 DEF Stream

-----------------------------------------------------------------------------
(* ... the screen and the driver *)

LEMMA ThreadsKept ==
  ASSUME Base, UNCHANGED <<th, strays, started>>, opened' \in Nat, opened <= opened',
         screen' \in Nat, screen <= screen'
  PROVE  ThType' /\ ThStep'
<1>1. ThType'
  BY DEF Base, ThType
<1>2. /\ opened \in Nat /\ screen \in Nat
      /\ \A t \in Streams : th[t].screen \in Nat /\ th[t].file \in Nat
  <2>1. opened \in Nat /\ screen \in Nat
    BY UsbIsoAssumption DEF Base, UiType, DrvType
  <2>2. ASSUME NEW t \in Streams PROVE th[t].screen \in Nat /\ th[t].file \in Nat
    <3>1. th[t] \in Thread
      BY DEF Base, ThType
    <3>2. QED
      BY <3>1, UsbIsoAssumption DEF Thread, Screens
  <2>3. QED
    BY <2>1, <2>2
<1>3. \A t : Past(t)' <=> Past(t)
  BY DEF Past
<1>4. \A t \in Streams : th[t].pc # "none" => th[t].screen <= screen'
  BY <1>2 DEF Base, ThStep
<1>5. \A t \in Streams : th[t].pc = "reap" => th[t].file \in Files /\ th[t].file <= opened'
  BY <1>2 DEF Base, ThStep
<1>6. ThStep'
  BY <1>3, <1>4, <1>5 DEF Base, ThStep
<1>7. QED
  BY <1>1, <1>6

LEMMA KilledFiles ==
  ASSUME Base, NEW dead \in 0..MaxOpens, KillUrbs(dead),
         opened' \in Nat, opened <= opened', \A n \in Fds : fds'[n] <= opened',
         \A m, n \in Fds : fds'[m] # 0 /\ fds'[m] = fds'[n] => m = n,
         conn' # 0 => fds'[conn'] # 0
  PROVE  FdStep'
<1>1. \A f \in Files : pend'[f] = <<>> /\ Q(f)' = IF f = dead THEN <<>> ELSE Q(f)
  BY KillEffect DEF Base
<1>2. \A f \in Files : f > opened' => f > opened
  BY UsbIsoAssumption DEF Files, Base, DrvType
<1>3. \A f \in Files : f > opened' => Q(f)' = <<>>
  BY <1>1, <1>2 DEF Base, FdStep
<1>4. QED
  BY <1>1, <1>3 DEF FdStep

LEMMA OpenScreenBase ==
  ASSUME Base, OpenScreen
  PROVE  Base'
<1>1. screen \in Nat /\ screen' = screen + 1 /\ screen' \in Screens /\ screen' \in 0..MaxScreens
      /\ opened \in Nat
  BY UsbIsoAssumption DEF OpenScreen, Base, UiType, DrvType, Screens
<1>2. UiType' /\ UiStep'
  BY <1>1 DEF OpenScreen, Base, UiType, UiStep, Starting
<1>3. ThType' /\ ThStep'
  BY <1>1, ThreadsKept DEF OpenScreen, drvVars
<1>4. DrvType'
  BY DEF OpenScreen, Base, DrvType, drvVars
<1>5. FdStep'
  BY SameUrbs, FilesKept DEF OpenScreen, Base, drvVars
<1>6. QED
  BY <1>2, <1>3, <1>4, <1>5 DEF Base

\* What isoStream does to numbers and files: c is the new number.
LEMMA OpenEffect ==
  ASSUME Base, isoStream
  PROVE  \E c \in Fds : /\ fds[c] = 0 /\ fds' = [fds EXCEPT ![c] = opened + 1]
                        /\ conn' = c /\ opened' = opened + 1 /\ opened + 1 \in Files
<1>1. LowestFree \in Fds /\ fds[LowestFree] = 0
  BY LowestFreeIsFree DEF isoStream, Base
<1>2. opened + 1 \in Files
  BY UsbIsoAssumption DEF isoStream, Base, DrvType, Files
<1>3. QED
  BY <1>1, <1>2 DEF isoStream, openCameraDevice

LEMMA isoStreamBase ==
  ASSUME Base, isoStream
  PROVE  Base'
<1>1. PICK c \in Fds : /\ fds[c] = 0 /\ fds' = [fds EXCEPT ![c] = opened + 1]
                       /\ conn' = c /\ opened' = opened + 1 /\ opened + 1 \in Files
  BY OpenEffect
<1>2. /\ ui = "idle" /\ ui' = "opening" /\ found' = TRUE
      /\ started < MaxStreams /\ stopKamera' = [stopKamera EXCEPT ![screen] = FALSE]
      /\ UNCHANGED <<screen, camIsOpen, runningStream, started, th, queued, owner, alt, pend,
                     done, plugged, gone, stops, strays>>
  BY DEF isoStream
<1>3. /\ c \in 0..MaxFds /\ c # 0 /\ opened + 1 \in 0..MaxOpens /\ opened \in Nat
      /\ opened + 1 # 0 /\ screen \in Nat
  BY <1>1, UsbIsoAssumption DEF Fds, Files, Base, DrvType, UiType
<1>4. screen \in Screens
  BY <1>2 DEF Base, UiStep
<1>5. stopKamera' \in [Screens -> BOOLEAN] /\ ~stopKamera'[screen]
  BY <1>2, <1>4 DEF Base, UiType
<1>6. UiType'
  BY <1>1, <1>2, <1>3, <1>5 DEF Base, UiType
<1>7. UiStep'
  BY <1>1, <1>2, <1>3, <1>4, <1>5 DEF Base, UiStep
<1>8. ThType' /\ ThStep'
  BY <1>1, <1>2, <1>3, ThreadsKept
<1>9. fds' \in [Fds -> 0..MaxOpens]
  BY <1>1, <1>3 DEF Base, DrvType
<1>10. DrvType'
  BY <1>1, <1>2, <1>3, <1>9 DEF Base, DrvType
<1>11. FdStep'
  <2>1. /\ fds'[c] = opened + 1 /\ \A n \in Fds : n # c => fds'[n] = fds[n]
        /\ \A n \in Fds : fds[n] \in Nat /\ fds[n] <= opened
    BY <1>1, UsbIsoAssumption DEF Base, DrvType, FdStep
  <2>2. \A n \in Fds : fds'[n] <= opened'
    BY <1>1, <1>3, <2>1
  <2>3. \A m, n \in Fds : fds'[m] # 0 /\ fds'[m] = fds'[n] => m = n
    <3>1. \A n \in Fds : n # c => fds'[n] # fds'[c]
      BY <1>3, <2>1
    <3>2. QED
      BY <2>1, <3>1 DEF Base, FdStep
  <2>4. \A f \in Files : f > opened' => Q(f)' = <<>>
    <3>1. \A f \in Files : f > opened' => f > opened
      BY <1>1, <1>3, UsbIsoAssumption DEF Files
    <3>2. \A f \in Files : Q(f)' = Q(f)
      BY <1>2, SameUrbs
    <3>3. QED
      BY <3>1, <3>2 DEF Base, FdStep
  <2>5. ASSUME NEW f \in Files, pend'[f] # <<>> PROVE \E n \in Fds : fds'[n] = f
    <3>1. PICK n \in Fds : fds[n] = f
      BY <1>2, <2>5 DEF Base, FdStep
    <3>2. n # c
      BY <1>1, <3>1 DEF Files
    <3>3. QED
      BY <2>1, <3>1, <3>2
  <2>6. QED
    BY <1>1, <1>3, <2>1, <2>2, <2>3, <2>4, <2>5 DEF FdStep
<1>12. QED
  BY <1>6, <1>7, <1>8, <1>10, <1>11 DEF Base

\* A stream is started: it is the next thread, at the beginning of run.
LEMMA StartEffect ==
  ASSUME Base, startStream, runningStream[screen] = 0, NEW n, n = started + 1
  PROVE  /\ n \in Streams /\ started' = n /\ th[n].pc = "none" /\ screen \in Screens
         /\ runningStream' \in [Screens -> 0..MaxStreams] /\ runningStream'[screen] = n
         /\ th' \in [Streams -> Thread] /\ \A t \in Streams : t # n => th'[t] = th[t]
         /\ th'[n].pc = "run" /\ th'[n].screen = screen
<1>1. ui = "starting" /\ started < MaxStreams /\ started \in Nat /\ screen \in Screens
  BY DEF startStream, Base, UiStep, Starting, UiType
<1>2. n \in Streams /\ n \in 0..MaxStreams /\ n > started
  BY <1>1, UsbIsoAssumption DEF Streams
<1>3. /\ started' = n /\ runningStream' = [runningStream EXCEPT ![screen] = n]
      /\ th' = [th EXCEPT ![n] = [Idle EXCEPT !.pc = "run", !.screen = screen]]
  BY DEF startStream
<1> DEFINE e == [Idle EXCEPT !.pc = "run", !.screen = screen]
<1>4. 1 \in Index /\ 0 \in 0..MaxFds /\ 0 \in 0..MaxOpens
  BY UsbIsoAssumption DEF Index
<1>5. e \in Thread /\ e.pc = "run" /\ e.screen = screen
  BY <1>1, <1>4 DEF Idle, Thread
<1> HIDE DEF e
<1>6. th' = [th EXCEPT ![n] = e]
  BY <1>3 DEF e
<1>7. th' \in [Streams -> Thread] /\ th'[n] = e /\ \A t \in Streams : t # n => th'[t] = th[t]
  BY <1>2, <1>5, <1>6 DEF Base, ThType
<1>8. runningStream' \in [Screens -> 0..MaxStreams] /\ runningStream'[screen] = n
  BY <1>1, <1>2, <1>3 DEF Base, UiType
<1>9. th[n].pc = "none"
  BY <1>2 DEF Base, ThStep
<1>10. QED
  BY <1>1, <1>2, <1>3, <1>5, <1>7, <1>8, <1>9

LEMMA startStreamBase ==
  ASSUME Base, startStream
  PROVE  Base'
<1>1. /\ ui = "starting" /\ ui' = "idle"
      /\ UNCHANGED <<screen, found, conn, camIsOpen, stopKamera, queued, drvVars, gone, stops,
                     strays>>
  BY DEF startStream
<1>2. DrvType' /\ FdStep'
  <2>1. UNCHANGED <<opened, fds, conn, owner, alt, pend, done, plugged, queued, gone>>
    BY <1>1 DEF drvVars
  <2>2. DrvType'
    BY <2>1 DEF Base, DrvType
  <2>3. QED
    BY <2>1, <2>2, SameUrbs, FilesKept DEF Base
<1>3. opened' \in Nat /\ opened <= opened' /\ screen' \in Nat /\ screen <= screen'
  BY <1>1, UsbIsoAssumption DEF Base, DrvType, UiType, drvVars
<1>4. CASE runningStream[screen] # 0
  <2>1. UNCHANGED <<runningStream, started, th>>
    BY <1>4 DEF startStream
  <2>2. UiType' /\ UiStep'
    BY <1>1, <2>1 DEF Base, UiType, UiStep, Starting
  <2>3. QED
    BY <1>1, <1>2, <1>3, <2>1, <2>2, ThreadsKept DEF Base
<1>5. CASE runningStream[screen] = 0
  <2>1. PICK n : n = started + 1
    OBVIOUS
  <2>2. /\ n \in Streams /\ started' = n /\ th[n].pc = "none" /\ screen \in Screens
        /\ runningStream' \in [Screens -> 0..MaxStreams]
        /\ th' \in [Streams -> Thread] /\ \A t \in Streams : t # n => th'[t] = th[t]
        /\ th'[n].pc = "run" /\ th'[n].screen = screen
    BY <1>5, <2>1, StartEffect
  <2>3. UiType'
    BY <1>1, <2>2 DEF Base, UiType, Streams
  <2>4. UiStep'
    BY <1>1, <2>2 DEF Base, UiStep, Starting
  <2>5. ThType'
    BY <1>1, <2>2 DEF Base, ThType
  <2>6. ThStep'
    <3>1. \A t \in Streams : Past(t)' => Past(t) /\ t # n
      BY <2>2 DEF Past
    <3>2. \A t \in Streams : t > started' => t > started /\ t # n
      BY <2>1, <2>2 DEF Base, UiType, Streams
    <3>3. \A t \in Streams : t > started' => th'[t].pc = "none"
      BY <2>2, <3>2 DEF Base, ThStep
    <3>4. \A t \in Streams : th'[t].pc # "none" => th'[t].screen <= screen'
      BY <1>1, <1>3, <2>2 DEF Base, ThStep
    <3>5. \A t \in Streams : th'[t].pc = "reap" => th'[t].file \in Files /\ th'[t].file <= opened'
      BY <1>1, <2>2 DEF Base, ThStep, drvVars
    <3>6. \A t \in strays' : th'[t].pc # "none"
      BY <1>1, <2>2 DEF Base, ThStep, ThType
    <3>7. QED
      BY <2>2, <3>1, <3>3, <3>4, <3>5, <3>6 DEF Base, ThStep
  <2>7. QED
    BY <1>2, <2>3, <2>4, <2>5, <2>6 DEF Base
<1>6. QED
  BY <1>4, <1>5

\* The interface is reset or not, and numbers are left alone.
LEMMA ResetBase ==
  ASSUME Base, KillUrbs(0) \/ KeepUrbs, UNCHANGED <<opened, fds, queued>>,
         conn' \in {0, conn}, owner' \in 0..MaxOpens, alt' \in BOOLEAN, plugged' \in BOOLEAN
  PROVE  DrvType' /\ FdStep'
<1>1. opened \in Nat /\ 0 \in 0..MaxOpens
  BY UsbIsoAssumption DEF Base, DrvType
<1>2. CASE KillUrbs(0)
  <2>1. pend' \in [Files -> Seq(Urb)] /\ done' \in [Files -> Seq(Urb)] /\ gone' \subseteq Urb
    BY <1>1, <1>2, KillEffect DEF Base
  <2>2. DrvType'
    BY <2>1 DEF Base, DrvType
  <2>3. QED
    BY <1>1, <1>2, <2>2, KilledFiles DEF Base, FdStep
<1>3. CASE KeepUrbs
  <2>1. DrvType'
    BY <1>3 DEF Base, DrvType, KeepUrbs
  <2>2. FdStep'
    BY <1>3, SameUrbs DEF Base, FdStep, KeepUrbs
  <2>3. QED
    BY <2>1, <2>2
<1>4. QED
  BY <1>2, <1>3

LEMMA claimInterfaceBase ==
  ASSUME Base, claimInterface
  PROVE  Base'
<1>1. /\ ui = "opening" /\ ui' = "starting" /\ camIsOpen' = TRUE
      /\ owner' = fds[conn] /\ alt' = FALSE /\ KillUrbs(0)
      /\ UNCHANGED <<screen, found, conn, stopKamera, runningStream, started, th, queued,
                     opened, fds, plugged, stops, strays>>
  BY DEF claimInterface
<1>2. conn # 0 /\ conn \in Fds
  BY <1>1, UsbIsoAssumption DEF Base, UiStep, Starting, UiType, Fds
<1>3. owner' \in 0..MaxOpens
  BY <1>1, <1>2 DEF Base, DrvType
<1>4. opened \in Nat /\ screen \in Nat
  BY UsbIsoAssumption DEF Base, DrvType, UiType
<1>5. UiType'
  BY <1>1 DEF Base, UiType
<1>6. UiStep'
  BY <1>1 DEF Base, UiStep, Starting
<1>7. ThType' /\ ThStep'
  BY <1>1, <1>4, ThreadsKept
<1>8. DrvType' /\ FdStep'
  BY <1>1, <1>3, ResetBase DEF Base, DrvType
<1>9. QED
  BY <1>5, <1>6, <1>7, <1>8 DEF Base

LEMMA CrashEffect ==
  ASSUME Base, th' = [t \in Streams |-> IF Live(t) THEN [th[t] EXCEPT !.pc = "ended"] ELSE th[t]]
  PROVE  /\ th' \in [Streams -> Thread]
         /\ \A t \in Streams : /\ th'[t].screen = th[t].screen /\ th'[t].pc \in {"none", "ended"}
                               /\ th'[t].pc = "none" <=> th[t].pc = "none"
<1>1. \A t \in Streams : th[t] \in Thread
  BY DEF Base, ThType
<1>2. QED
  BY <1>1 DEF Thread, Live

\* After openCam threw, every thread is as it was or no thread is left; the
\* former only if no camera was ever open, and then there was no thread.
LEMMA FailureEffect ==
  ASSUME Base, AfterFailure
  PROVE  \/ /\ ui' = "idle" /\ UNCHANGED th /\ ~camIsOpen
            /\ \A t \in Streams : th'[t].pc = "none"
         \/ /\ ui' = "crashed" /\ th' \in [Streams -> Thread]
            /\ \A t \in Streams : /\ th'[t].screen = th[t].screen
                                  /\ th'[t].pc \in {"none", "ended"}
                                  /\ th'[t].pc = "none" <=> th[t].pc = "none"
<1>1. CASE camIsOpen
  BY <1>1, CrashEffect DEF AfterFailure
<1>2. CASE ~camIsOpen
  <2>1. ui' = "idle" /\ UNCHANGED th
    BY <1>2 DEF AfterFailure
  <2>2. started = 0
    BY <1>2 DEF Base, UiStep
  <2>3. \A t \in Streams : t > started
    BY <2>2, UsbIsoAssumption DEF Streams
  <2>4. QED
    BY <1>2, <2>1, <2>3 DEF Base, ThStep
<1>3. QED
  BY <1>1, <1>2

LEMMA FailedThreads ==
  ASSUME Base, AfterFailure, UNCHANGED <<screen, started, strays, opened>>
  PROVE  ThType' /\ ThStep'
<1>1. opened \in Nat /\ screen \in Nat
  BY UsbIsoAssumption DEF Base, DrvType, UiType
<1>2. CASE UNCHANGED th
  BY <1>1, <1>2, ThreadsKept
<1>3. CASE /\ th' \in [Streams -> Thread]
           /\ \A t \in Streams : /\ th'[t].screen = th[t].screen
                                 /\ th'[t].pc \in {"none", "ended"}
                                 /\ th'[t].pc = "none" <=> th[t].pc = "none"
  <2>1. ThType'
    BY <1>3 DEF Base, ThType
  <2>2. \A t \in Streams : ~Past(t)' /\ th'[t].pc # "reap"
    BY <1>3 DEF Past
  <2>3. ThStep'
    BY <1>3, <2>2 DEF Base, ThStep, ThType
  <2>4. QED
    BY <2>1, <2>3
<1>4. QED
  BY <1>2, <1>3, FailureEffect

LEMMA isoStreamFailsBase ==
  ASSUME Base, isoStreamFails
  PROVE  Base'
<1>1. /\ ui = "idle" /\ found' = TRUE /\ conn' = 0 /\ AfterFailure
      /\ stopKamera' = [stopKamera EXCEPT ![screen] = FALSE]
      /\ UNCHANGED <<screen, camIsOpen, runningStream, started, queued, opened, fds, owner, alt,
                     pend, done, plugged, gone, stops, strays>>
  BY DEF isoStreamFails, drvVars
<1>2. ui' \in {"idle", "crashed"}
  BY <1>1 DEF AfterFailure
<1>3. 0 \in 0..MaxFds
  BY UsbIsoAssumption
<1>4. KeepUrbs
  BY <1>1 DEF KeepUrbs
<1>5. DrvType' /\ FdStep'
  BY <1>1, <1>4, ResetBase DEF Base, DrvType
<1>6. stopKamera' \in [Screens -> BOOLEAN]
  BY <1>1 DEF Base, UiType, UiStep
<1>7. UiType'
  BY <1>1, <1>2, <1>3, <1>6 DEF Base, UiType
<1>8. UiStep'
  BY <1>1, <1>2 DEF Base, UiStep, Starting
<1>9. QED
  BY <1>1, <1>5, <1>7, <1>8, FailedThreads DEF Base

\* What closing a connection does to numbers and files
LEMMA CloseEffect ==
  ASSUME Base, Close, conn # 0
  PROVE  /\ conn \in Fds /\ conn' = 0 /\ fds' = [fds EXCEPT ![conn] = 0]
         /\ owner' = 0 /\ alt' = FALSE
         /\ \E dead \in 0..MaxOpens : KillUrbs(dead)
<1>1. conn \in Fds
  BY UsbIsoAssumption DEF Base, UiType, Fds
<1>2. PICK dead : dead = IF Inside(fds[conn]) = {} THEN fds[conn] ELSE 0
  OBVIOUS
<1>3. dead \in 0..MaxOpens
  BY <1>1, <1>2, UsbIsoAssumption DEF Base, DrvType
<1>4. KillUrbs(dead)
  BY <1>2 DEF Close
<1>5. QED
  BY <1>1, <1>3, <1>4 DEF Close

LEMMA CloseBase ==
  ASSUME Base, Close, conn # 0, UNCHANGED <<opened, queued, plugged>>
  PROVE  DrvType' /\ FdStep'
<1>1. /\ conn \in Fds /\ conn' = 0 /\ fds' = [fds EXCEPT ![conn] = 0]
      /\ owner' = 0 /\ alt' = FALSE
  BY CloseEffect
<1>2. PICK dead \in 0..MaxOpens : KillUrbs(dead)
  BY CloseEffect
<1>3. 0 \in 0..MaxOpens /\ opened \in Nat
  BY UsbIsoAssumption DEF Base, DrvType
<1>4. pend' \in [Files -> Seq(Urb)] /\ done' \in [Files -> Seq(Urb)] /\ gone' \subseteq Urb
  BY <1>2, KillEffect DEF Base
<1>5. fds' \in [Fds -> 0..MaxOpens]
  BY <1>1, <1>3 DEF Base, DrvType
<1>6. DrvType'
  BY <1>1, <1>3, <1>4, <1>5 DEF Base, DrvType
<1>7. \A n \in Fds : fds'[n] \in {0, fds[n]} /\ fds[n] <= opened
  BY <1>1 DEF Base, DrvType, FdStep
<1>8. \A n \in Fds : fds'[n] <= opened'
  BY <1>3, <1>7
<1>9. \A m, n \in Fds : fds'[m] # 0 /\ fds'[m] = fds'[n] => m = n
  BY <1>7 DEF Base, FdStep
<1>10. FdStep'
  BY <1>1, <1>2, <1>3, <1>8, <1>9, KilledFiles
<1>11. QED
  BY <1>6, <1>10

LEMMA openCamFailsBase ==
  ASSUME Base, openCamFails
  PROVE  Base'
<1>1. /\ ui = "opening" /\ Close /\ AfterFailure /\ conn' = 0
      /\ UNCHANGED <<screen, found, camIsOpen, stopKamera, runningStream, started, queued, opened,
                     plugged, stops, strays>>
  BY DEF openCamFails, Close
<1>2. ui' \in {"idle", "crashed"}
  BY <1>1 DEF AfterFailure
<1>3. conn # 0 /\ 0 \in 0..MaxFds
  BY <1>1, UsbIsoAssumption DEF Base, UiStep, Starting
<1>4. UiType'
  BY <1>1, <1>2, <1>3 DEF Base, UiType
<1>5. UiStep'
  BY <1>1, <1>2 DEF Base, UiStep, Starting
<1>6. QED
  BY <1>1, <1>3, <1>4, <1>5, CloseBase, FailedThreads DEF Base

LEMMA stopTheCameraStreamBase ==
  ASSUME Base, stopTheCameraStream
  PROVE  Base'
<1>1. screen \in Screens
  BY DEF stopTheCameraStream, Base, UiStep
<1>2. stopKamera' \in [Screens -> BOOLEAN]
  BY <1>1 DEF stopTheCameraStream, Base, UiType
<1>3. UiType' /\ UiStep'
  BY <1>1, <1>2 DEF stopTheCameraStream, Base, UiType, UiStep, Starting
<1>4. UNCHANGED <<screen, started, th, strays, opened, fds, conn, owner, alt, pend, done,
                  plugged, queued, gone>>
  BY DEF stopTheCameraStream, drvVars
<1>5. opened \in Nat /\ screen \in Nat
  BY UsbIsoAssumption DEF Base, DrvType, UiType
<1>6. ThType' /\ ThStep'
  BY <1>4, <1>5, ThreadsKept
<1>7. DrvType'
  BY <1>4 DEF Base, DrvType
<1>8. FdStep'
  BY <1>4, SameUrbs, FilesKept DEF Base
<1>9. QED
  BY <1>3, <1>6, <1>7, <1>8 DEF Base

LEMMA disableStreamingBase ==
  ASSUME Base, disableStreaming
  PROVE  Base'
<1>1. /\ ui = "stopping" /\ ui' = "idle"
      /\ runningStream' = [runningStream EXCEPT ![screen] = 0]
      /\ UNCHANGED <<screen, found, conn, camIsOpen, stopKamera, started, th, queued,
                     opened, fds, owner, plugged, stops, strays>>
      /\ KillUrbs(0) \/ KeepUrbs
  BY DEF disableStreaming
<1>2. opened \in Nat /\ screen \in Nat /\ 0 \in 0..MaxStreams
  BY UsbIsoAssumption DEF Base, DrvType, UiType
<1>3. runningStream' \in [Screens -> 0..MaxStreams]
  BY <1>1, <1>2 DEF Base, UiType
<1>4. UiType' /\ UiStep'
  BY <1>1, <1>3 DEF Base, UiType, UiStep, Starting
<1>5. ThType' /\ ThStep'
  BY <1>1, <1>2, ThreadsKept
<1>6. alt' \in BOOLEAN
  BY DEF disableStreaming, Base, DrvType
<1>7. DrvType' /\ FdStep'
  BY <1>1, <1>6, ResetBase DEF Base, DrvType
<1>8. QED
  BY <1>4, <1>5, <1>7 DEF Base

LEMMA returnToConfigScreenBase ==
  ASSUME Base, returnToConfigScreen
  PROVE  Base'
<1>1. /\ ui = "idle" /\ stopKamera' = [stopKamera EXCEPT ![screen] = TRUE]
      /\ runningStream' = [runningStream EXCEPT ![screen] = 0] /\ stops' = stops \cup {screen}
      /\ UNCHANGED <<screen, ui, found, conn, camIsOpen, started, th, queued, opened, fds, owner,
                     alt, pend, done, plugged, gone, strays>>
  BY DEF returnToConfigScreen, drvVars
<1>2. screen \in Screens /\ opened \in Nat /\ screen \in Nat /\ 0 \in 0..MaxStreams
  BY <1>1, UsbIsoAssumption DEF Base, DrvType, UiType, UiStep
<1>3. stopKamera' \in [Screens -> BOOLEAN] /\ runningStream' \in [Screens -> 0..MaxStreams]
  BY <1>1, <1>2 DEF Base, UiType
<1>4. UiType'
  BY <1>1, <1>2, <1>3 DEF Base, UiType
<1>5. UiStep'
  BY <1>1 DEF Base, UiStep, Starting
<1>6. ThType' /\ ThStep'
  BY <1>1, <1>2, ThreadsKept
<1>7. DrvType'
  BY <1>1 DEF Base, DrvType
<1>8. FdStep'
  BY <1>1, SameUrbs, FilesKept DEF Base
<1>9. QED
  BY <1>4, <1>5, <1>6, <1>7, <1>8 DEF Base

LEMMA beendenBase ==
  ASSUME Base, beenden
  PROVE  Base'
<1>1. /\ ui = "idle" /\ ui' = "closing"
      /\ KillUrbs(0) \/ KeepUrbs
      /\ UNCHANGED <<screen, found, conn, camIsOpen, stopKamera, runningStream, started, th,
                     queued, opened, fds, plugged, stops, strays>>
  BY DEF beenden
<1>2. opened \in Nat /\ screen \in Nat /\ 0 \in 0..MaxOpens
  BY UsbIsoAssumption DEF Base, DrvType, UiType
<1>3. owner' \in 0..MaxOpens
  BY <1>2 DEF beenden, Base, DrvType
<1>4. alt' \in BOOLEAN
  BY DEF beenden, Base, DrvType
<1>5. UiType'
  BY <1>1 DEF Base, UiType
<1>6. UiStep'
  BY <1>1 DEF Base, UiStep, Starting
<1>7. ThType' /\ ThStep'
  BY <1>1, <1>2, ThreadsKept
<1>8. DrvType' /\ FdStep'
  BY <1>1, <1>3, <1>4, ResetBase DEF Base, DrvType
<1>9. QED
  BY <1>5, <1>6, <1>7, <1>8 DEF Base

LEMMA closeCameraDeviceBase ==
  ASSUME Base, closeCameraDevice
  PROVE  Base'
<1>1. /\ ui = "closing" /\ ui' = "away"
      /\ runningStream' = [runningStream EXCEPT ![screen] = 0]
      /\ UNCHANGED <<screen, found, camIsOpen, stopKamera, started, th, queued, opened, plugged,
                     stops, strays>>
  BY DEF closeCameraDevice
<1>2. opened \in Nat /\ screen \in Nat /\ 0 \in 0..MaxStreams /\ 0 \in 0..MaxFds
  BY UsbIsoAssumption DEF Base, DrvType, UiType
<1>3. conn' \in 0..MaxFds
  BY <1>2 DEF closeCameraDevice, Close, Base, UiType
<1>4. runningStream' \in [Screens -> 0..MaxStreams]
  BY <1>1, <1>2 DEF Base, UiType
<1>5. UiType'
  BY <1>1, <1>3, <1>4 DEF Base, UiType
<1>6. UiStep'
  BY <1>1 DEF Base, UiStep, Starting
<1>7. ThType' /\ ThStep'
  BY <1>1, <1>2, ThreadsKept
<1>8. DrvType' /\ FdStep'
  <2>1. CASE conn = 0
    <3>1. KeepUrbs /\ UNCHANGED <<conn, fds, owner, alt>>
      BY <2>1 DEF closeCameraDevice
    <3>2. QED
      BY <1>1, <3>1, ResetBase DEF Base, DrvType
  <2>2. CASE conn # 0
    <3>1. Close
      BY <2>2 DEF closeCameraDevice
    <3>2. QED
      BY <1>1, <2>2, <3>1, CloseBase
  <2>3. QED
    BY <2>1, <2>2
<1>9. QED
  BY <1>5, <1>6, <1>7, <1>8 DEF Base

LEMMA DriverBase ==
  ASSUME Base, Complete \/ Unplug
  PROVE  Base'
<1>1. UNCHANGED <<uiVars, th, queued, opened, fds, owner, stops, strays>>
  BY DEF Complete, Unplug
<1>2. opened \in Nat /\ screen \in Nat
  BY UsbIsoAssumption DEF Base, DrvType, UiType
<1>3. UiType' /\ UiStep'
  BY <1>1 DEF Base, UiType, UiStep, Starting, uiVars
<1>4. ThType' /\ ThStep'
  BY <1>1, <1>2, ThreadsKept DEF uiVars
<1>5. CASE Complete
  <2>1. /\ pend' \in [Files -> Seq(Urb)] /\ done' \in [Files -> Seq(Urb)]
        /\ \A f \in Files : Q(f)' = Q(f) /\ (pend'[f] # <<>> => pend[f] # <<>>)
        /\ UNCHANGED <<alt, plugged, gone>>
    BY <1>5, CompleteEffect DEF Base, Complete
  <2>2. DrvType'
    BY <1>1, <2>1 DEF Base, DrvType
  <2>3. FdStep'
    BY <1>1, <2>1, FilesKept DEF Base, uiVars
  <2>4. QED
    BY <1>3, <1>4, <2>2, <2>3 DEF Base
<1>6. CASE Unplug
  <2>1. plugged' \in BOOLEAN /\ alt' \in BOOLEAN /\ KillUrbs(0)
    BY <1>6 DEF Unplug
  <2>2. DrvType' /\ FdStep'
    BY <1>1, <2>1, ResetBase DEF Base, DrvType, uiVars
  <2>3. QED
    BY <1>3, <1>4, <2>2 DEF Base
<1>7. QED
  BY <1>5, <1>6

LEMMA BaseStep ==
  ASSUME Base, [Next]_vars
  PROVE  Base'
<1>1. CASE UNCHANGED vars
  <2>1. UNCHANGED <<uiVars, th, queued, opened, fds, owner, alt, pend, done, plugged, gone, stops,
                    strays>>
    BY <1>1 DEF vars, drvVars
  <2>2. opened \in Nat /\ screen \in Nat
    BY UsbIsoAssumption DEF Base, DrvType, UiType
  <2>3. UiType' /\ UiStep'
    BY <2>1 DEF Base, UiType, UiStep, Starting, uiVars
  <2>4. ThType' /\ ThStep'
    BY <2>1, <2>2, ThreadsKept DEF uiVars
  <2>5. DrvType'
    BY <2>1 DEF Base, DrvType
  <2>6. FdStep'
    BY <2>1, SameUrbs, FilesKept DEF Base, uiVars
  <2>7. QED
    BY <2>3, <2>4, <2>5, <2>6 DEF Base
<1>2. CASE Next
  BY <1>2, OpenScreenBase, isoStreamBase, claimInterfaceBase, startStreamBase,
     isoStreamFailsBase, openCamFailsBase, stopTheCameraStreamBase, disableStreamingBase,
     returnToConfigScreenBase, beendenBase, closeCameraDeviceBase, StreamBase, DriverBase
  DEF Next
<1>3. QED
  BY <1>1, <1>2

-----------------------------------------------------------------------------
(* Requests: every URB is in one place, and queued says whether it is in   *)
(* any.                                                                    *)

LEMMA NoUrbs == IsInjective(<<>>) /\ Range(<<>>) = {}
BY DEF IsInjective, Range

LEMMA SameReqs ==
  ASSUME Reqs, \A f \in Files : Q(f)' = Q(f), UNCHANGED <<gone, queued>>
  PROVE  Reqs'
BY DEF Reqs

LEMMA KillReqs ==
  ASSUME Base, Reqs, NEW dead \in 0..MaxOpens, KillUrbs(dead), UNCHANGED queued
  PROVE  Reqs'
<1>1. /\ \A f \in Files : Q(f)' = IF f = dead THEN <<>> ELSE Q(f)
      /\ gone' = IF dead = 0 THEN gone ELSE gone \cup Range(Q(dead))
  BY KillEffect DEF Base
<1>2. dead = 0 \/ dead \in Files
  BY UsbIsoAssumption DEF Files
<1>3. 0 \notin Files
  BY DEF Files
<1>4. \A f \in Files : IsInjective(Q(f))' /\ Range(Q(f))' = IF f = dead THEN {} ELSE Range(Q(f))
  BY <1>1, NoUrbs DEF Reqs
<1>5. \A f, g \in Files : f # g => Range(Q(f))' \cap Range(Q(g))' = {}
  BY <1>4 DEF Reqs
<1>6. \A f \in Files : Range(Q(f))' \cap gone' = {}
  BY <1>1, <1>2, <1>3, <1>4 DEF Reqs
<1>7. \A x : (\E f \in Files : x \in Range(Q(f))') \/ x \in gone'
               <=> (\E f \in Files : x \in Range(Q(f))) \/ x \in gone
  BY <1>1, <1>2, <1>3, <1>4
<1>8. \A t \in Streams, i \in Index :
        queued'[t][i] <=> (\E f \in Files : <<t, i>> \in Range(Q(f))') \/ <<t, i>> \in gone'
  BY <1>7 DEF Reqs
<1>9. QED
  BY <1>4, <1>5, <1>6, <1>8 DEF Reqs

LEMMA SubmitReqs ==
  ASSUME Base, Reqs, NEW t \in Streams, NEW i \in Index, Past(t), ~queued[t][i],
         submit(t, i), UNCHANGED done
  PROVE  Reqs'
<1>1. PICK g : g = fds[th[t].fd]
  OBVIOUS
<1>2. PICK u : u = <<t, i>>
  OBVIOUS
<1>3. u \notin gone /\ \A f \in Files : u \notin Range(Q(f))
  BY <1>2 DEF Reqs
<1>4. th[t].fd \in Fds /\ u \in Urb
  BY <1>2 DEF Base, ThStep, Urb
<1>5. \A s \in Streams, j \in Index : queued'[s][j] <=> queued[s][j] \/ <<s, j>> = u
  BY <1>2 DEF submit, Base, DrvType
<1>6. \/ /\ g \in Files /\ gone' = gone /\ Q(g)' = Append(Q(g), u)
         /\ \A f \in Files : f # g => Q(f)' = Q(f)
      \/ gone' = gone \cup {u} /\ \A f \in Files : Q(f)' = Q(f)
  <2>1. DrvType
    BY DEF Base
  <2>2. Submitted(<<t, i>>, g)
    BY <1>1, <1>4, <2>1, SubmitEffect
  <2>3. QED
    BY <1>2, <2>2 DEF Submitted
<1>7. CASE /\ g \in Files /\ gone' = gone /\ Q(g)' = Append(Q(g), u)
           /\ \A f \in Files : f # g => Q(f)' = Q(f)
  <2>1. Q(g) \in Seq(Urb) /\ IsInjective(Q(g))
    BY <1>7, OneSequence DEF Base, Reqs
  <2>2. IsInjective(Q(g))' /\ Range(Q(g))' = Range(Q(g)) \cup {u}
    BY <1>3, <1>4, <1>7, <2>1, AppendNew
  <2>3. \A f \in Files : IsInjective(Q(f))' /\ Range(Q(f))' = IF f = g THEN Range(Q(f)) \cup {u}
                                                                      ELSE Range(Q(f))
    BY <1>7, <2>2 DEF Reqs
  <2>4. \A f, h \in Files : f # h => Range(Q(f))' \cap Range(Q(h))' = {}
    BY <1>3, <2>3 DEF Reqs
  <2>5. \A f \in Files : Range(Q(f))' \cap gone' = {}
    BY <1>3, <1>7, <2>3 DEF Reqs
  <2>6. \A x : (\E f \in Files : x \in Range(Q(f))') <=> (\E f \in Files : x \in Range(Q(f))) \/ x = u
    BY <1>7, <2>3
  <2>7. \A s \in Streams, j \in Index :
          queued'[s][j] <=> (\E f \in Files : <<s, j>> \in Range(Q(f))') \/ <<s, j>> \in gone'
    BY <1>5, <1>7, <2>6 DEF Reqs
  <2>8. QED
    BY <2>3, <2>4, <2>5, <2>7 DEF Reqs
<1>8. CASE gone' = gone \cup {u} /\ \A f \in Files : Q(f)' = Q(f)
  <2>1. \A f \in Files : Range(Q(f))' \cap gone' = {}
    BY <1>3, <1>8 DEF Reqs
  <2>2. \A s \in Streams, j \in Index :
          queued'[s][j] <=> (\E f \in Files : <<s, j>> \in Range(Q(f))') \/ <<s, j>> \in gone'
    BY <1>5, <1>8 DEF Reqs
  <2>3. QED
    BY <1>8, <2>1, <2>2 DEF Reqs
<1>9. QED
  BY <1>6, <1>7, <1>8

LEMMA ReapReqs ==
  ASSUME Base, Reqs, NEW t \in Streams, NEW f \in Files, NEW u \in Urb,
         Left(t, f, u), Reaped(t, u)
  PROVE  Reqs'
<1> DEFINE own == u[1] = t
<1>1. Q(f) \in Seq(Urb) /\ Q(f) # <<>> /\ u = Head(Q(f)) /\ IsInjective(Q(f))
  BY OneSequence DEF Base, Left, Reqs
<1>2. /\ u \in Range(Q(f)) /\ IsInjective(Tail(Q(f)))
      /\ Range(Tail(Q(f))) = Range(Q(f)) \ {u}
  BY <1>1, TailRest
<1>3. PICK R \in SUBSET (Range(Q(f)) \ {u}) :
        /\ IsInjective(Q(f))' /\ Range(Q(f))' = R
        /\ gone' = gone \cup ((Range(Q(f)) \ {u}) \ R) \cup (IF own THEN {} ELSE {u})
  <2>1. CASE Q(f)' = Tail(Q(f)) /\ gone' = gone \cup (IF own THEN {} ELSE {u})
    <3>1. Range(Q(f))' = Range(Q(f)) \ {u} /\ IsInjective(Q(f))'
      BY <1>2, <2>1
    <3>2. QED
      BY <2>1, <3>1
  <2>2. CASE /\ Q(f)' = <<>>
             /\ gone' = gone \cup (Range(Q(f)) \ {u}) \cup (IF own THEN {} ELSE {u})
    <3>1. Range(Q(f))' = {} /\ IsInjective(Q(f))'
      BY <2>2, NoUrbs
    <3>2. QED
      BY <2>2, <3>1
  <2>3. QED
    BY <2>1, <2>2 DEF Left
<1>4. \A g \in Files : g # f => Q(g)' = Q(g)
  BY DEF Left
<1>5. \A g \in Files : IsInjective(Q(g))' /\ Range(Q(g))' = IF g = f THEN R ELSE Range(Q(g))
  BY <1>3, <1>4 DEF Reqs
<1>6. \A g, h \in Files : g # h => Range(Q(g))' \cap Range(Q(h))' = {}
  BY <1>3, <1>5 DEF Reqs
<1>7. \A g \in Files : Range(Q(g))' \cap gone' = {}
  BY <1>2, <1>3, <1>5 DEF Reqs
<1>8. \A x : (\E g \in Files : x \in Range(Q(g))') \/ x \in gone'
               <=> ((\E g \in Files : x \in Range(Q(g))) \/ x \in gone) /\ ~(own /\ x = u)
  <2>1. u \notin gone /\ \A g \in Files : g # f => u \notin Range(Q(g))
    BY <1>2 DEF Reqs
  <2>2. QED
    BY <1>2, <1>3, <1>5, <2>1
<1>9. \A s \in Streams, j \in Index : queued'[s][j] <=> queued[s][j] /\ ~(own /\ <<s, j>> = u)
  <2>1. PICK i \in Index, r \in Streams : u = <<r, i>>
    BY DEF Urb
  <2>2. queued \in [Streams -> [Index -> BOOLEAN]]
    BY DEF Base, DrvType
  <2>3. CASE own /\ queued' = [queued EXCEPT ![t][i] = FALSE]
    BY <2>1, <2>2, <2>3
  <2>4. CASE ~own /\ queued' = queued
    BY <2>4
  <2>5. QED
    BY <2>1, <2>3, <2>4 DEF Reaped
<1>10. \A s \in Streams, j \in Index :
         queued'[s][j] <=> (\E g \in Files : <<s, j>> \in Range(Q(g))') \/ <<s, j>> \in gone'
  BY <1>8, <1>9 DEF Reqs
<1>11. QED
  BY <1>5, <1>6, <1>7, <1>10 DEF Reqs

LEMMA MovedReqStep ==
  ASSUME Base, ReqStep, NEW t \in Streams, Moved(t),
         \A s \in Streams : s # t => queued'[s] = queued[s],
         \A i \in Index : queued'[t][i] => /\ th'[t].pc \notin {"run", "enable"}
                                           /\ th'[t].pc = "submit" => i < th'[t].req
                                           /\ th'[t].pc = "packet" => i # th'[t].req
  PROVE  ReqStep'
<1> SUFFICES ASSUME NEW s \in Streams, NEW i \in Index, queued'[s][i]
             PROVE  /\ th'[s].pc \notin {"none", "run", "enable"}
                    /\ th'[s].pc = "submit" => i < th'[s].req
                    /\ th'[s].pc = "packet" => i # th'[s].req
  BY DEF ReqStep
<1>1. CASE s = t
  BY <1>1 DEF Moved
<1>2. CASE s # t
  <2>1. th'[s] = th[s] /\ queued[s][i]
    BY <1>2 DEF Moved
  <2>2. QED
    BY <2>1 DEF ReqStep
<1>3. QED
  BY <1>1, <1>2

\* The request is not with the driver when it is submitted.
LEMMA SubmitQueued ==
  ASSUME Base, NEW t \in Streams, NEW i \in Index, submit(t, i)
  PROVE  /\ \A s \in Streams : s # t => queued'[s] = queued[s]
         /\ \A j \in Index : queued'[t][j] => j = i \/ queued[t][j]
BY DEF submit, Base, DrvType

LEMMA StreamReqs ==
  ASSUME Base, Reqs, ReqStep, NEW t \in Streams, Stream(t)
  PROVE  Reqs' /\ ReqStep'
<1>0. th[t].req \in Index /\ th[t].req \in Nat
  BY UsbIsoAssumption DEF Base, ThType, Thread, Index
<1>1. CASE run(t)
  <2>1. UNCHANGED <<queued, pend, done, gone>> /\ th[t].pc = "run" /\ Moved(t)
    BY <1>1, RunMoves DEF run, drvVars
  <2>2. Reqs'
    BY <2>1, SameUrbs, SameReqs
  <2>3. \A i \in Index : ~queued[t][i]
    BY <2>1 DEF ReqStep
  <2>4. QED
    BY <2>1, <2>2, <2>3, MovedReqStep
<1>2. CASE enableStreaming(t)
  <2>1. UNCHANGED queued /\ th[t].pc = "enable" /\ Moved(t) /\ (KeepUrbs \/ KillUrbs(0))
    BY <1>2, EnableMoves
  <2>2. 0 \in 0..MaxOpens
    BY UsbIsoAssumption
  <2>3. Reqs'
    BY <2>1, <2>2, SameUrbs, SameReqs, KillReqs DEF KeepUrbs
  <2>4. \A i \in Index : ~queued[t][i]
    BY <2>1 DEF ReqStep
  <2>5. QED
    BY <2>1, <2>3, <2>4, MovedReqStep
<1>3. CASE submitUrbs(t)
  <2>1. /\ Moved(t) /\ th[t].pc = "submit" /\ submit(t, th[t].req) /\ UNCHANGED done
        /\ \/ th'[t].pc = "submit" /\ th'[t].req = th[t].req + 1
           \/ th'[t].pc = "loop"
    BY <1>3, SubmitMoves
  <2>2. \A i \in Index : queued[t][i] => i < th[t].req
    BY <2>1 DEF ReqStep
  <2>3. ~queued[t][th[t].req] /\ Past(t)
    BY <1>0, <2>1, <2>2 DEF Past
  <2>4. Reqs'
    BY <1>0, <2>1, <2>3, SubmitReqs
  <2>5. \A i \in Index : queued'[t][i] => i = th[t].req \/ i < th[t].req
    BY <1>0, <2>1, <2>2, SubmitQueued
  <2>6. \A i \in Index : i \in Nat
    BY UsbIsoAssumption DEF Index
  <2>7. \A i \in Index : queued'[t][i] => i < th[t].req + 1
    BY <1>0, <2>5, <2>6
  <2>8. \A s \in Streams : s # t => queued'[s] = queued[s]
    BY <1>0, <2>1, SubmitQueued
  <2>9. QED
    BY <2>1, <2>4, <2>7, <2>8, MovedReqStep
<1>4. CASE reap(t)
  <2>1. /\ UNCHANGED <<queued, pend, done, gone>> /\ Moved(t)
        /\ th'[t].pc \in {"ended", "reap"}
    BY <1>4, ReapMoves, EndEffect DEF Base
  <2>2. Reqs'
    BY <2>1, SameUrbs, SameReqs
  <2>3. QED
    BY <2>1, <2>2, MovedReqStep
<1>5. CASE reapRequest(t)
  <2>1. PICK f : f = th[t].file
    OBVIOUS
  <2>2. /\ Moved(t) /\ f \in Files /\ UNCHANGED pend
        /\ \/ ~plugged /\ End(t) /\ UNCHANGED <<done, queued, gone, strays>>
           \/ \E u \in Urb : Left(t, f, u) /\ Reaped(t, u)
    BY <1>5, <2>1, ReapRequestMoves
  <2>3. CASE End(t) /\ UNCHANGED <<done, queued, gone>>
    <3>1. Reqs'
      BY <2>2, <2>3, SameUrbs, SameReqs
    <3>2. th'[t].pc = "ended"
      BY <2>3, EndEffect DEF Base
    <3>3. QED
      BY <2>2, <2>3, <3>1, <3>2, MovedReqStep
  <2>4. ASSUME NEW u \in Urb, Left(t, f, u), Reaped(t, u) PROVE Reqs' /\ ReqStep'
    <3>1. Reqs'
      BY <2>2, <2>4, ReapReqs
    <3>2. CASE u[1] # t
      <4>1. th'[t].pc = "ended" /\ queued' = queued
        BY <2>4, <3>2, EndEffect DEF Reaped, Base
      <4>2. QED
        BY <2>2, <3>1, <4>1, MovedReqStep
    <3>3. CASE u[1] = t
      <4>1. PICK i \in Index : i = u[2]
        BY DEF Urb
      <4>2. /\ th'[t].pc = "packet" /\ th'[t].req = i
            /\ queued' = [queued EXCEPT ![t][i] = FALSE]
        BY <2>4, <3>3, <4>1 DEF Reaped
      <4>3. /\ \A s \in Streams : s # t => queued'[s] = queued[s]
            /\ ~queued'[t][i]
        BY <4>2 DEF Base, DrvType
      <4>4. QED
        BY <2>2, <3>1, <4>2, <4>3, MovedReqStep
    <3>4. QED
      BY <3>2, <3>3
  <2>5. QED
    BY <2>2, <2>3, <2>4
<1>6. CASE resubmit(t)
  <2>1. /\ Moved(t) /\ th[t].pc = "packet" /\ th'[t].pc = "check" /\ submit(t, th[t].req)
        /\ UNCHANGED done
    BY <1>6, ResubmitMoves
  <2>2. ~queued[t][th[t].req] /\ Past(t)
    BY <1>0, <2>1 DEF Past, ReqStep
  <2>3. Reqs'
    BY <1>0, <2>1, <2>2, SubmitReqs
  <2>4. \A s \in Streams : s # t => queued'[s] = queued[s]
    BY <1>0, <2>1, SubmitQueued
  <2>5. QED
    BY <2>1, <2>3, <2>4, MovedReqStep
<1>7. CASE checkStop(t)
  <2>1. /\ UNCHANGED <<queued, pend, done, gone>> /\ Moved(t)
        /\ th'[t].pc \in {"ended", "loop"}
    BY <1>7, CheckMoves, EndEffect DEF Base
  <2>2. Reqs'
    BY <2>1, SameUrbs, SameReqs
  <2>3. QED
    BY <2>1, <2>2, MovedReqStep
<1>8. CASE packetFails(t)
  <2>1. /\ UNCHANGED <<queued, pend, done, gone>> /\ Moved(t) /\ th'[t].pc = "ended"
    BY <1>8, FailMoves, EndEffect DEF Base
  <2>2. Reqs'
    BY <2>1, SameUrbs, SameReqs
  <2>3. QED
    BY <2>1, <2>2, MovedReqStep
<1>9. QED
  BY <1>1, <1>2, <1>3, <1>4, <1>5, <1>6, <1>7, <1>8 DEF Stream

\* The other steps leave the marks alone.
LEMMA ReqsStep ==
  ASSUME Base, Reqs, ReqStep, [Next]_vars
  PROVE  Reqs' /\ ReqStep'
<1>1. CASE \E t \in Streams : Stream(t)
  BY <1>1, StreamReqs
<1>2. 0 \in 0..MaxOpens
  BY UsbIsoAssumption
<1>3. CASE \/ OpenScreen \/ isoStream \/ startStream \/ stopTheCameraStream
           \/ returnToConfigScreen \/ UNCHANGED vars
  <2>1. UNCHANGED <<queued, pend, done, gone>>
    BY <1>3 DEF OpenScreen, isoStream, startStream, stopTheCameraStream, returnToConfigScreen,
                vars, drvVars
  <2>2. Reqs'
    BY <2>1, SameUrbs, SameReqs
  <2>3. CASE UNCHANGED th
    BY <2>1, <2>2, <2>3 DEF ReqStep
  <2>4. CASE startStream /\ runningStream[screen] = 0
    <3>1. PICK n : n = started + 1
      OBVIOUS
    <3>2. /\ n \in Streams /\ th[n].pc = "none"
          /\ \A t \in Streams : t # n => th'[t] = th[t]
      BY <2>4, <3>1, StartEffect
    <3>3. \A i \in Index : ~queued[n][i]
      BY <3>2 DEF ReqStep
    <3>4. QED
      BY <2>1, <2>2, <3>2, <3>3 DEF ReqStep
  <2>5. QED
    BY <1>3, <2>3, <2>4 DEF OpenScreen, isoStream, startStream, stopTheCameraStream,
                            returnToConfigScreen, vars
<1>4. CASE claimInterface \/ disableStreaming \/ beenden \/ closeCameraDevice \/ Unplug
  <2>1. UNCHANGED <<queued, th>>
    BY <1>4 DEF claimInterface, disableStreaming, beenden, closeCameraDevice, Unplug
  <2>2. KeepUrbs \/ \E dead \in 0..MaxOpens : KillUrbs(dead)
    <3>1. CASE claimInterface
      BY <1>2, <3>1 DEF claimInterface
    <3>2. CASE disableStreaming \/ beenden
      BY <1>2, <3>2 DEF disableStreaming, beenden
    <3>3. CASE closeCameraDevice
      BY <3>3, CloseEffect DEF closeCameraDevice
    <3>4. CASE Unplug
      BY <1>2, <3>4 DEF Unplug
    <3>5. QED
      BY <1>4, <3>1, <3>2, <3>3, <3>4
  <2>3. Reqs'
    BY <2>1, <2>2, SameUrbs, SameReqs, KillReqs DEF KeepUrbs
  <2>4. QED
    BY <2>1, <2>3 DEF ReqStep
<1>5. CASE isoStreamFails \/ openCamFails
  <2>1. AfterFailure /\ UNCHANGED queued
    BY <1>5 DEF isoStreamFails, openCamFails
  <2>2. KeepUrbs \/ \E dead \in 0..MaxOpens : KillUrbs(dead)
    <3>1. CASE isoStreamFails
      BY <3>1 DEF isoStreamFails, drvVars, KeepUrbs
    <3>2. CASE openCamFails
      BY <3>2, CloseEffect DEF openCamFails, Base, UiStep, Starting
    <3>3. QED
      BY <1>5, <3>1, <3>2
  <2>3. Reqs'
    BY <2>1, <2>2, SameUrbs, SameReqs, KillReqs DEF KeepUrbs
  <2>4. CASE UNCHANGED th
    BY <2>1, <2>3, <2>4 DEF ReqStep
  <2>5. CASE \A t \in Streams : /\ th'[t].pc \in {"none", "ended"}
                                /\ th'[t].pc = "none" <=> th[t].pc = "none"
    BY <2>1, <2>3, <2>5 DEF ReqStep
  <2>6. QED
    BY <2>1, <2>4, <2>5, FailureEffect
<1>6. CASE Complete
  <2>1. UNCHANGED <<queued, th, gone>> /\ \A f \in Files : Q(f)' = Q(f)
    BY <1>6, CompleteEffect DEF Complete, Base
  <2>2. QED
    BY <2>1, SameReqs DEF ReqStep
<1>7. QED
  BY <1>1, <1>3, <1>4, <1>5, <1>6 DEF Next

-----------------------------------------------------------------------------
(* One stream per visit *)

LEMMA MovedOneStream ==
  ASSUME Base, OneStream, NEW t \in Streams, Live(t), Moved(t),
         End(t) \/ UNCHANGED runningStream
  PROVE  OneStream'
<1> SUFFICES ASSUME NEW s \in Streams, Live(s)', th'[s].screen = screen', ui' # "away",
                    screen' \notin stops'
             PROVE  runningStream'[screen'] = s
  BY DEF OneStream
<1>1. UNCHANGED <<screen, ui, stops>> /\ th'[s].screen = th[s].screen
  BY DEF Moved, StayUi
<1>2. Live(s)
  BY DEF Live, Moved
<1>3. runningStream[screen] = s
  BY <1>1, <1>2 DEF OneStream
<1>4. CASE UNCHANGED runningStream
  BY <1>1, <1>3, <1>4
<1>5. CASE End(t)
  <2>1. th'[t].pc = "ended" /\ \A r \in Screens : r # th[t].screen => runningStream'[r] = runningStream[r]
    BY <1>5, EndEffect DEF Base
  <2>2. s # t
    BY <2>1 DEF Live
  <2>3. th[t].screen # screen
    BY <1>1, <1>3, <2>2 DEF OneStream
  <2>4. screen \in Screens
    BY <1>1 DEF Base, UiStep
  <2>5. QED
    BY <1>1, <1>3, <2>1, <2>3, <2>4
<1>6. QED
  BY <1>4, <1>5

LEMMA OneStreamStep ==
  ASSUME Base, OneStream, [Next]_vars
  PROVE  OneStream'
<1>1. ASSUME NEW t \in Streams, Stream(t) PROVE OneStream'
  <2>1. CASE run(t)
    <3>1. End(t) \/ UNCHANGED runningStream
      BY <2>1 DEF run
    <3>2. Live(t)
      BY <2>1 DEF run, Live
    <3>3. QED
      BY <2>1, <3>1, <3>2, RunMoves, MovedOneStream
  <2>2. CASE enableStreaming(t)
    BY <2>2, EnableMoves, MovedOneStream DEF Live, GiveUp
  <2>3. CASE submitUrbs(t)
    BY <2>3, SubmitMoves, MovedOneStream DEF Live
  <2>4. CASE reap(t)
    BY <2>4, ReapMoves, MovedOneStream DEF Live
  <2>5. CASE reapRequest(t)
    <3>1. PICK f : f = th[t].file
      OBVIOUS
    <3>2. /\ Moved(t) /\ th[t].pc = "reap"
          /\ End(t) \/ \E u \in Urb : Reaped(t, u)
      BY <2>5, <3>1, ReapRequestMoves
    <3>3. Live(t) /\ (End(t) \/ UNCHANGED runningStream)
      BY <3>2 DEF Reaped, Live
    <3>4. QED
      BY <3>2, <3>3, MovedOneStream
  <2>6. CASE resubmit(t)
    BY <2>6, ResubmitMoves, MovedOneStream DEF Live
  <2>7. CASE checkStop(t)
    BY <2>7, CheckMoves, MovedOneStream DEF Live
  <2>8. CASE packetFails(t)
    BY <2>8, FailMoves, MovedOneStream DEF Live
  <2>9. QED
    BY <1>1, <2>1, <2>2, <2>3, <2>4, <2>5, <2>6, <2>7, <2>8 DEF Stream
<1>2. CASE OpenScreen
  <2>1. \A t \in Streams : Live(t)' => th'[t].screen <= screen
    BY <1>2 DEF OpenScreen, Live, Base, ThStep
  <2>2. screen \in Nat /\ screen' = screen + 1
    BY <1>2, UsbIsoAssumption DEF OpenScreen, Base, UiType
  <2>3. \A t \in Streams : Live(t)' => th'[t].screen # screen'
    BY <2>1, <2>2
  <2>4. QED
    BY <2>3 DEF OneStream
<1>3. CASE startStream
  <2>1. CASE runningStream[screen] # 0
    BY <1>3, <2>1 DEF startStream, OneStream, Live
  <2>2. CASE runningStream[screen] = 0
    <3>1. PICK n : n = started + 1
      OBVIOUS
    <3>2. /\ n \in Streams /\ runningStream'[screen] = n
          /\ \A t \in Streams : t # n => th'[t] = th[t]
      BY <1>3, <2>2, <3>1, StartEffect
    <3>3. ui = "starting" /\ UNCHANGED <<screen, stops>>
      BY <1>3 DEF startStream
    <3>4. \A t \in Streams : Live(t) /\ th[t].screen = screen => screen \in stops
      BY <2>2, <3>3 DEF OneStream, Streams
    <3>5. QED
      BY <3>2, <3>3, <3>4 DEF OneStream, Live
  <2>3. QED
    BY <2>1, <2>2
<1>4. CASE isoStreamFails \/ openCamFails
  <2>1. AfterFailure
    BY <1>4 DEF isoStreamFails, openCamFails
  <2>2. \A t \in Streams : ~Live(t)'
    BY <2>1, FailureEffect DEF Live
  <2>3. QED
    BY <2>2 DEF OneStream
<1>5. CASE disableStreaming
  <2>1. ui = "stopping" /\ UNCHANGED <<screen, stops>>
    BY <1>5 DEF disableStreaming
  <2>2. screen \in stops
    BY <2>1 DEF Base, UiStep
  <2>3. QED
    BY <2>1, <2>2 DEF OneStream
<1>6. CASE closeCameraDevice
  BY <1>6 DEF closeCameraDevice, OneStream
<1>7. CASE isoStream \/ claimInterface \/ beenden
  BY <1>7 DEF isoStream, claimInterface, beenden, OneStream, Live
<1>8. CASE stopTheCameraStream \/ returnToConfigScreen
  BY <1>8 DEF stopTheCameraStream, returnToConfigScreen, OneStream, Live
<1>9. CASE Complete \/ Unplug \/ UNCHANGED vars
  <2>1. UNCHANGED <<screen, ui, stops, runningStream, th>>
    BY <1>9 DEF Complete, Unplug, vars, uiVars
  <2>2. QED
    BY <2>1 DEF OneStream, Live
<1>10. QED
  BY <1>1, <1>2, <1>3, <1>4, <1>5, <1>6, <1>7, <1>8, <1>9 DEF Next

-----------------------------------------------------------------------------
(* The streams of one visit *)

\* A thread whose URB a file holds has begun.
LEMMA Holder ==
  ASSUME Base, Reqs, ReqStep, NEW f \in Files, NEW u \in Range(Q(f))
  PROVE  u \in Urb /\ u[1] \in Streams /\ th[u[1]].pc \notin {"none", "run", "enable"}
<1>1. u \in Urb
  BY OneSequence, RangeOfSeq DEF Base
<1>2. PICK t \in Streams, i \in Index : u = <<t, i>>
  BY <1>1 DEF Urb
<1>3. queued[t][i]
  BY <1>2 DEF Reqs
<1>4. QED
  BY <1>1, <1>2, <1>3 DEF ReqStep

\* Threads keep their visit, and a visit that is calm was calm before.
ScreensKept == /\ \A t \in Streams : th[t].pc # "none" => th'[t].screen = th[t].screen
               /\ strays \subseteq strays'

LEMMA CalmBefore ==
  ASSUME Base, ScreensKept, NEW s, Calm(s)'
  PROVE  Calm(s)
BY DEF Base, ThType, ThStep, ScreensKept, Calm

LEMMA MovedScreens ==
  ASSUME NEW t \in Streams, Moved(t)
  PROVE  ScreensKept
BY DEF Moved, ScreensKept

LEMMA ApartKept ==
  ASSUME Base, Reqs, ReqStep, Apart, ScreensKept,
         \A f \in Files : Range(Q(f))' \subseteq Range(Q(f)),
         \A t \in Streams, f \in Files : Uses(t, f)' => Uses(t, f) \/ Range(Q(f))' = {}
  PROVE  Apart'
<1> SUFFICES ASSUME NEW t \in Streams, NEW f \in Files, Uses(t, f)', Calm(th[t].screen)',
                    NEW u \in Range(Q(f))', u[1] # t
             PROVE  th'[u[1]].screen # th'[t].screen
  BY DEF Apart
<1>1. Uses(t, f) /\ u \in Range(Q(f))
  OBVIOUS
<1>2. u[1] \in Streams /\ th'[u[1]].screen = th[u[1]].screen
  BY <1>1, Holder DEF ScreensKept
<1>3. th'[t].screen = th[t].screen
  BY <1>1 DEF Uses, Begun, Past, ScreensKept
<1>4. PICK s : s = th'[t].screen
  OBVIOUS
<1>5. Calm(s)'
  BY <1>4
<1>6. Calm(th[t].screen)
  BY <1>3, <1>4, <1>5, CalmBefore
<1>7. QED
  BY <1>1, <1>2, <1>3, <1>6 DEF Apart

LEMMA NumbersKept ==
  ASSUME Base, Numbers, ScreensKept,
         \A t \in Streams : Past(t)' => Past(t) /\ th'[t].fd = th[t].fd,
         \A t \in Streams : Begun(t)' => Begun(t),
         \A t \in Streams : Past(t) /\ th'[t].screen = screen' /\ ui' # "away" =>
           screen' = screen /\ ui # "away",
         ui' # "away" => \A n \in Fds : fds[n] # 0 => fds'[n] # 0,
         \A t \in Streams : th'[t].pc = "reap" =>
           \/ th[t].pc = "reap" /\ th'[t].file = th[t].file
           \/ UNCHANGED fds /\ th'[t].file = fds[th[t].fd] /\ fds[th[t].fd] # 0,
         \A t \in Streams, n \in Fds :
           th[t].pc = "reap" /\ fds'[n] = th[t].file => fds[n] = th[t].file
  PROVE  Numbers'
<1>1. ASSUME NEW t \in Streams, Past(t)
      PROVE  th'[t].screen = th[t].screen /\ th[t].fd \in Fds
  BY <1>1 DEF ScreensKept, Past, Base, ThStep
<1>2. ASSUME NEW t \in Streams, NEW s \in Streams, t # s, Begun(t)', Begun(s)',
             th'[t].screen = th'[s].screen, Calm(th[t].screen)'
      PROVE  th'[t].fd # th'[s].fd
  <2>1. /\ Begun(t) /\ Begun(s) /\ Past(t)' /\ Past(s)' /\ Past(t) /\ Past(s)
    BY <1>2 DEF Begun
  <2>2. /\ th'[t].fd = th[t].fd /\ th'[s].fd = th[s].fd
        /\ th'[t].screen = th[t].screen /\ th'[s].screen = th[s].screen
    BY <1>1, <2>1
  <2>3. PICK c : c = th'[t].screen
    OBVIOUS
  <2>4. Calm(c)'
    BY <1>2, <2>3
  <2>5. Calm(th[t].screen)
    BY <2>2, <2>3, <2>4, CalmBefore
  <2>6. th[t].screen = th[s].screen
    BY <1>2, <2>2
  <2>7. th[t].fd # th[s].fd
    BY <1>2, <2>1, <2>5, <2>6 DEF Numbers
  <2>8. QED
    BY <2>2, <2>7
<1>3. ASSUME NEW t \in Streams, Past(t)', th'[t].screen = screen', ui' # "away"
      PROVE  fds'[th'[t].fd] # 0
  <2>1. Past(t) /\ th'[t].fd = th[t].fd /\ screen' = screen /\ ui # "away"
    BY <1>3
  <2>2. fds[th[t].fd] # 0 /\ th[t].fd \in Fds
    BY <1>1, <1>3, <2>1 DEF Numbers
  <2>3. QED
    BY <1>3, <2>1, <2>2
<1>4. ASSUME NEW t \in Streams, NEW n \in Fds, th'[t].pc = "reap", fds'[n] = th'[t].file
      PROVE  n = th'[t].fd
  <2>1. Past(t)'
    BY <1>4 DEF Past
  <2>2. Past(t) /\ th'[t].fd = th[t].fd /\ th[t].fd \in Fds
    BY <1>1, <2>1
  <2>3. CASE th[t].pc = "reap" /\ th'[t].file = th[t].file
    BY <1>4, <2>2, <2>3 DEF Numbers
  <2>4. CASE UNCHANGED fds /\ th'[t].file = fds[th[t].fd] /\ fds[th[t].fd] # 0
    BY <1>4, <2>2, <2>4 DEF Base, FdStep
  <2>5. QED
    BY <1>4, <2>3, <2>4
<1>5. QED
  BY <1>2, <1>3, <1>4 DEF Numbers

\* Steps of the screen and the driver that leave numbers and threads alone
LEMMA SameThreads ==
  ASSUME IInv, UNCHANGED <<th, strays, fds, screen>>, plugged' => plugged,
         ui' # "away" => ui # "away",
         \A f \in Files : Range(Q(f))' \subseteq Range(Q(f))
  PROVE  Numbers' /\ Apart'
<1>1. \A t : (Past(t)' <=> Past(t)) /\ (Begun(t)' => Begun(t))
  BY DEF Past, Begun
<1>2. \A t, f : Uses(t, f)' => Uses(t, f)
  BY <1>1 DEF Uses
<1>3. ScreensKept
  BY DEF ScreensKept
<1>4. Numbers'
  BY <1>1, <1>3, NumbersKept DEF IInv
<1>5. Apart'
  BY <1>2, <1>3, ApartKept DEF IInv
<1>6. QED
  BY <1>4, <1>5

LEMMA KillRanges ==
  ASSUME Base, KeepUrbs \/ \E dead \in 0..MaxOpens : KillUrbs(dead)
  PROVE  \A f \in Files : Range(Q(f))' \subseteq Range(Q(f))
<1>1. CASE KeepUrbs
  BY <1>1, SameUrbs DEF KeepUrbs
<1>2. ASSUME NEW dead \in 0..MaxOpens, KillUrbs(dead)
      PROVE  \A f \in Files : Range(Q(f))' \subseteq Range(Q(f))
  <2>1. \A f \in Files : Q(f)' = IF f = dead THEN <<>> ELSE Q(f)
    BY <1>2, KillEffect DEF Base
  <2>2. QED
    BY <2>1, NoUrbs
<1>3. QED
  BY <1>1, <1>2

LEMMA OpenScreenVisit ==
  ASSUME IInv, OpenScreen
  PROVE  Numbers' /\ Apart' /\ Fresh'
<1>1. /\ UNCHANGED <<th, strays, fds, pend, done, plugged, conn>> /\ screen' = screen + 1
      /\ screen \in Nat
  BY UsbIsoAssumption DEF OpenScreen, drvVars, IInv, Base, UiType
<1>2. \A f : Q(f)' = Q(f)
  BY <1>1, SameUrbs
<1>3. \A t \in Streams : th[t].pc # "none" => th[t].screen # screen'
  <2>1. \A t \in Streams : th[t].screen \in Nat
    BY UsbIsoAssumption DEF IInv, Base, ThType, Thread, Screens
  <2>2. QED
    BY <1>1, <2>1 DEF IInv, Base, ThStep
<1>4. \A t \in Streams : Past(t) => th[t].pc # "none"
  BY DEF Past
<1>5. \A t : (Past(t)' <=> Past(t)) /\ (Begun(t)' => Begun(t))
  BY <1>1 DEF Past, Begun
<1>6. ScreensKept
  BY <1>1 DEF ScreensKept
<1>7. Numbers'
  BY <1>1, <1>3, <1>4, <1>5, <1>6, NumbersKept DEF IInv
<1>8. \A t, f : Uses(t, f)' => Uses(t, f)
  BY <1>1, <1>5 DEF Uses
<1>9. Apart'
  BY <1>2, <1>6, <1>8, ApartKept DEF IInv
<1>10. Fresh'
  <2> SUFFICES ASSUME conn # 0, NEW t \in Streams, th[t].screen = screen'
               PROVE  /\ ~(Begun(t)' /\ th'[t].fd = conn')
                      /\ \A u \in Range(Q(fds[conn]))' : u[1] # t
    BY <1>1 DEF Fresh
  <2>1. th[t].pc = "none"
    BY <1>3
  <2>2. ~Begun(t)'
    BY <1>4, <1>5, <2>1 DEF Begun
  <2>3. PICK f : f = fds[conn]
    OBVIOUS
  <2>4. f \in Files
    <3>1. conn \in Fds
      BY UsbIsoAssumption DEF IInv, Base, UiType, Fds
    <3>2. f # 0 /\ f \in 0..MaxOpens
      BY <2>3, <3>1 DEF IInv, Base, FdStep, DrvType
    <3>3. QED
      BY <3>2, UsbIsoAssumption DEF Files
  <2>5. \A u \in Range(Q(f)) : u[1] # t
    BY <2>1, <2>4, Holder DEF IInv
  <2>6. Range(Q(fds[conn]))' = Range(Q(f))
    BY <1>1, <2>3 DEF Q
  <2>7. QED
    BY <2>2, <2>5, <2>6
<1>11. QED
  BY <1>7, <1>9, <1>10

LEMMA isoStreamVisit ==
  ASSUME IInv, isoStream
  PROVE  Numbers' /\ Apart' /\ Fresh'
<1>1. PICK c \in Fds, o \in Files :
        /\ o = opened + 1 /\ fds[c] = 0 /\ fds' = [fds EXCEPT ![c] = o] /\ conn' = c
  BY OpenEffect DEF IInv
<1>2. /\ UNCHANGED <<screen, runningStream, th, strays, plugged, pend, done>>
      /\ ui = "idle" /\ ui' = "opening"
  BY DEF isoStream
<1>3. fds'[c] = o /\ \A n \in Fds : n # c => fds'[n] = fds[n]
  BY <1>1 DEF IInv, Base, DrvType
<1>4. opened \in Nat /\ o > opened /\ o # 0
  BY <1>1, UsbIsoAssumption DEF IInv, Base, DrvType, Files
<1>5. \A f \in Files : Q(f)' = Q(f)
  BY <1>2, SameUrbs
<1>6. Q(o) = <<>> /\ Q(o)' = <<>> /\ Range(Q(o))' = {}
  BY <1>4, <1>5, NoUrbs DEF IInv, Base, FdStep
<1>7. \A t : (Past(t)' <=> Past(t)) /\ (Begun(t)' => Begun(t))
  BY <1>2 DEF Past, Begun
<1>8. ScreensKept
  BY <1>2 DEF ScreensKept
<1>9. \A t \in Streams : th[t].pc = "reap" => th[t].file # o
  <2>1. \A t \in Streams : th[t].file \in Nat
    BY UsbIsoAssumption DEF IInv, Base, ThType, Thread
  <2>2. QED
    BY <1>4, <2>1 DEF IInv, Base, ThStep
<1>10. \A n \in Fds : fds[n] # 0 => fds'[n] # 0
  BY <1>3, <1>4
<1>11. \A t \in Streams, n \in Fds :
         th[t].pc = "reap" /\ fds'[n] = th[t].file => fds[n] = th[t].file
  BY <1>3, <1>9
<1>12. Numbers'
  BY <1>2, <1>7, <1>8, <1>10, <1>11, NumbersKept DEF IInv
<1>13. ASSUME NEW t \in Streams, NEW f \in Files, Uses(t, f)'
       PROVE  Uses(t, f) \/ Range(Q(f))' = {}
  <2>1. Begun(t) /\ th'[t] = th[t] /\ th[t].fd \in Fds
    BY <1>2, <1>7, <1>13 DEF Uses, Begun, IInv, Base, ThStep
  <2>2. CASE f = o
    BY <1>6, <2>2
  <2>3. CASE f # o
    BY <1>2, <1>3, <1>13, <2>1, <2>3 DEF Uses
  <2>4. QED
    BY <2>2, <2>3
<1>14. \A f \in Files : Range(Q(f))' \subseteq Range(Q(f))
  BY <1>5
<1>15. Apart'
  BY <1>8, <1>13, <1>14, ApartKept DEF IInv
<1>16. Fresh'
  <2> SUFFICES ASSUME NEW t \in Streams, th[t].screen = screen
               PROVE  /\ ~(Begun(t)' /\ th'[t].fd = conn')
                      /\ \A u \in Range(Q(fds[conn]))' : u[1] # t
    BY <1>2 DEF Fresh
  <2>1. Begun(t) => fds[th[t].fd] # 0
    BY <1>2 DEF IInv, Numbers, Begun
  <2>2. ~(Begun(t)' /\ th'[t].fd = conn')
    BY <1>1, <1>2, <1>7, <2>1
  <2>3. Range(Q(fds[conn]))' = Range(Q(o))'
    BY <1>1, <1>3 DEF Q
  <2>4. QED
    BY <1>6, <2>2, <2>3
<1>17. QED
  BY <1>12, <1>15, <1>16

LEMMA startStreamVisit ==
  ASSUME IInv, startStream
  PROVE  Numbers' /\ Apart' /\ Fresh'
<1>1. /\ ui = "starting" /\ ui' = "idle"
      /\ UNCHANGED <<screen, conn, opened, fds, pend, done, plugged, strays>>
  BY DEF startStream, drvVars
<1>2. \A f : Q(f)' = Q(f)
  BY <1>1, SameUrbs
<1>3. Starting /\ conn # 0 /\ Range(Q(fds[conn]))' = Range(Q(fds[conn]))
  BY <1>1 DEF IInv, Base, UiStep, Starting, Q
<1>4. CASE runningStream[screen] # 0
  <2>1. UNCHANGED <<runningStream, th>>
    BY <1>4 DEF startStream
  <2>2. Numbers' /\ Apart'
    BY <1>1, <1>2, <2>1, SameThreads
  <2>3. /\ \A t : Begun(t)' <=> Begun(t)
        /\ \A s : Calm(s)' <=> Calm(s)
    BY <1>1, <2>1 DEF Begun, Past, Calm
  <2>4. Fresh'
    BY <1>1, <1>3, <2>1, <2>3 DEF IInv, Fresh
  <2>5. QED
    BY <2>2, <2>4
<1>5. CASE runningStream[screen] = 0
  <2>1. PICK n : n = started + 1
    OBVIOUS
  <2>2. /\ n \in Streams /\ th[n].pc = "none"
        /\ runningStream'[screen] = n
        /\ \A t \in Streams : t # n => th'[t] = th[t]
        /\ th'[n].pc = "run" /\ th'[n].screen = screen
    BY <1>5, <2>1, StartEffect DEF IInv
  <2>3. \A t \in Streams : /\ Past(t)' => Past(t) /\ t # n
                           /\ Begun(t)' => Begun(t) /\ t # n
    BY <1>1, <2>2 DEF Past, Begun
  <2>4. ScreensKept
    BY <1>1, <2>2 DEF ScreensKept
  <2>5. Numbers'
    BY <1>1, <2>2, <2>3, <2>4, NumbersKept DEF IInv
  <2>6. \A t \in Streams, f \in Files : Uses(t, f)' => Uses(t, f)
    BY <1>1, <2>2, <2>3 DEF Uses
  <2>7. Apart'
    BY <1>2, <2>4, <2>6, ApartKept DEF IInv
  <2>8. Fresh'
    <3> SUFFICES ASSUME plugged, Calm(screen)', NEW t \in Streams, th'[t].screen = screen, t # n
                 PROVE  /\ ~(Begun(t)' /\ th'[t].fd = conn)
                        /\ \A u \in Range(Q(fds[conn])) : u[1] # t
      BY <1>1, <1>3, <2>2 DEF Fresh
    <3>1. PICK s : s = screen
      OBVIOUS
    <3>2. Calm(s)'
      BY <1>1, <3>1
    <3>3. Calm(screen)
      BY <2>4, <3>1, <3>2, CalmBefore DEF IInv
    <3>4. th'[t] = th[t] /\ t # 0
      BY <2>2 DEF Streams
    <3>5. QED
      BY <1>1, <1>3, <1>5, <2>3, <3>3, <3>4 DEF IInv, Fresh
  <2>9. QED
    BY <2>5, <2>7, <2>8
<1>6. QED
  BY <1>4, <1>5

LEMMA FailureVisit ==
  ASSUME IInv, isoStreamFails \/ openCamFails
  PROVE  Numbers' /\ Apart' /\ Fresh'
<1>1. AfterFailure /\ conn' = 0
  BY DEF isoStreamFails, openCamFails, Close
<1>2. \A t \in Streams : ~Past(t)' /\ ~Begun(t)' /\ th'[t].pc # "reap"
  BY <1>1, FailureEffect DEF Past, Begun, IInv
<1>3. Numbers' /\ Apart'
  BY <1>2 DEF Numbers, Apart, Uses
<1>4. Fresh'
  BY <1>1 DEF Fresh
<1>5. QED
  BY <1>3, <1>4

LEMMA closeVisit ==
  ASSUME IInv, closeCameraDevice
  PROVE  Numbers' /\ Apart' /\ Fresh'
<1>1. /\ ui' = "away" /\ UNCHANGED <<screen, th, plugged, strays>>
  BY DEF closeCameraDevice
<1>2. /\ \A n \in Fds : fds'[n] \in {0, fds[n]}
      /\ KeepUrbs \/ \E dead \in 0..MaxOpens : KillUrbs(dead)
  <2>1. CASE conn = 0
    BY <2>1 DEF closeCameraDevice
  <2>2. CASE conn # 0
    BY <2>2, CloseEffect DEF closeCameraDevice, IInv, Base, DrvType
  <2>3. QED
    BY <2>1, <2>2
<1>3. \A t : (Past(t)' <=> Past(t)) /\ (Begun(t)' => Begun(t))
  BY <1>1 DEF Past, Begun
<1>4. ScreensKept
  BY <1>1 DEF ScreensKept
<1>5. \A t \in Streams, n \in Fds :
        th[t].pc = "reap" /\ fds'[n] = th[t].file => fds[n] = th[t].file
  <2>1. \A t \in Streams : th[t].pc = "reap" => th[t].file # 0
    BY DEF IInv, Base, ThStep, Files
  <2>2. QED
    BY <1>2, <2>1
<1>6. Numbers'
  BY <1>1, <1>3, <1>4, <1>5, NumbersKept DEF IInv
<1>7. ASSUME NEW t \in Streams, NEW f \in Files, Uses(t, f)'
      PROVE  Uses(t, f)
  <2>1. Begun(t) /\ th[t].fd \in Fds /\ f # 0
    BY <1>3, <1>7 DEF Uses, Begun, IInv, Base, ThStep, Files
  <2>2. QED
    BY <1>1, <1>2, <1>7, <2>1 DEF Uses
<1>8. Apart'
  BY <1>2, <1>4, <1>7, KillRanges, ApartKept DEF IInv
<1>9. Fresh'
  BY <1>1 DEF Fresh
<1>10. QED
  BY <1>6, <1>8, <1>9

\* claiming, stop, return and release, and the driver's own steps
LEMMA OtherVisit ==
  ASSUME IInv,
         \/ claimInterface \/ stopTheCameraStream \/ disableStreaming
         \/ returnToConfigScreen \/ beenden \/ Complete \/ Unplug \/ UNCHANGED vars
  PROVE  Numbers' /\ Apart' /\ Fresh'
<1>1. /\ UNCHANGED <<th, strays, fds, screen, conn>> /\ (plugged' => plugged)
      /\ ui' # "away" => ui # "away"
  BY DEF claimInterface, stopTheCameraStream, disableStreaming, returnToConfigScreen, beenden,
         Complete, Unplug, vars, uiVars, drvVars
<1>2. \A f \in Files : Range(Q(f))' \subseteq Range(Q(f))
  <2>1. 0 \in 0..MaxOpens
    BY UsbIsoAssumption
  <2>2. CASE stopTheCameraStream \/ returnToConfigScreen \/ UNCHANGED vars
    BY <2>2, SameUrbs DEF stopTheCameraStream, returnToConfigScreen, vars, drvVars
  <2>3. CASE claimInterface \/ disableStreaming \/ beenden \/ Unplug
    <3>1. KeepUrbs \/ KillUrbs(0)
      BY <2>3 DEF claimInterface, disableStreaming, beenden, Unplug
    <3>2. QED
      BY <2>1, <3>1, KillRanges DEF IInv
  <2>4. CASE Complete
    BY <2>4, CompleteEffect DEF IInv, Base
  <2>5. QED
    BY <2>2, <2>3, <2>4
<1>3. Numbers' /\ Apart'
  BY <1>1, <1>2, SameThreads
<1>4. CASE Unplug
  BY <1>3, <1>4 DEF Unplug, Fresh
<1>5. CASE disableStreaming \/ returnToConfigScreen
  <2>1. ui' = "idle" /\ screen' = screen /\ runningStream' = [runningStream EXCEPT ![screen] = 0]
        /\ ui # "away"
    BY <1>5 DEF disableStreaming, returnToConfigScreen
  <2>2. screen \in Screens
    BY <2>1 DEF IInv, Base, UiStep
  <2>3. runningStream'[screen'] = 0
    BY <2>1, <2>2 DEF IInv, Base, UiType
  <2>4. QED
    BY <1>3, <2>1, <2>3 DEF Fresh, Starting
<1>6. CASE claimInterface \/ stopTheCameraStream \/ beenden \/ Complete \/ UNCHANGED vars
  <2>1. /\ UNCHANGED <<runningStream, plugged>>
        /\ Starting' => Starting
    BY <1>6 DEF claimInterface, stopTheCameraStream, beenden, Complete, vars, uiVars, drvVars,
                Starting
  <2>2. /\ \A t : Begun(t)' <=> Begun(t)
        /\ \A s : Calm(s)' <=> Calm(s)
    BY <1>1, <2>1 DEF Begun, Past, Calm
  <2>3. conn # 0 => Range(Q(fds[conn]))' \subseteq Range(Q(fds[conn]))
    <3> SUFFICES ASSUME conn # 0
                 PROVE  Range(Q(fds[conn]))' \subseteq Range(Q(fds[conn]))
      OBVIOUS
    <3>1. PICK f : f = fds[conn]
      OBVIOUS
    <3>2. f \in Files
      <4>1. conn \in Fds
        BY UsbIsoAssumption DEF IInv, Base, UiType, Fds
      <4>2. f # 0 /\ f \in 0..MaxOpens
        BY <3>1, <4>1 DEF IInv, Base, FdStep, DrvType
      <4>3. QED
        BY <4>2, UsbIsoAssumption DEF Files
    <3>3. Range(Q(fds[conn]))' = Range(Q(f))'
      BY <1>1, <3>1 DEF Q
    <3>4. QED
      BY <1>2, <3>1, <3>2, <3>3
  <2>4. Fresh'
    BY <1>1, <2>1, <2>2, <2>3 DEF IInv, Fresh
  <2>5. QED
    BY <1>3, <2>4
<1>7. QED
  BY <1>3, <1>4, <1>5, <1>6

\* A stream step that reads no connection and submits nothing
LEMMA MovedVisit ==
  ASSUME IInv, NEW t \in Streams, Moved(t), Past(t),
         th[t].pc = "enable" /\ Past(t)' => plugged
  PROVE  /\ Numbers'
         /\ \A s \in Streams, f \in Files : Uses(s, f)' => Uses(s, f)
<1>1. /\ UNCHANGED <<screen, ui, conn, fds, plugged>>
      /\ \A s \in Streams : s # t => th'[s] = th[s]
  BY DEF Moved, StayUi
<1>2. Past(t)' => Past(t) /\ th'[t].fd = th[t].fd /\ Begun(t)
  BY DEF Moved, Begun, Past
<1>3. \A s \in Streams : /\ Past(s)' => Past(s) /\ th'[s].fd = th[s].fd
                         /\ Begun(s)' => Begun(s)
  BY <1>1, <1>2 DEF Past, Begun
<1>4. ScreensKept
  BY MovedScreens
<1>5. \A s \in Streams : th'[s].pc = "reap" =>
        \/ th[s].pc = "reap" /\ th'[s].file = th[s].file
        \/ th'[s].file = fds[th[s].fd] /\ fds[th[s].fd] # 0
  BY <1>1 DEF Moved
<1>6. Numbers'
  BY <1>1, <1>3, <1>4, <1>5, NumbersKept DEF IInv
<1>7. ASSUME NEW s \in Streams, NEW f \in Files, Uses(s, f)' PROVE Uses(s, f)
  <2>1. Begun(s) /\ th'[s].fd = th[s].fd
    BY <1>3, <1>7 DEF Uses, Begun
  <2>2. CASE s # t
    BY <1>1, <1>7, <2>1, <2>2 DEF Uses
  <2>3. CASE s = t
    BY <1>1, <1>7, <2>1, <2>3 DEF Uses, Moved
  <2>4. QED
    BY <2>2, <2>3
<1>8. QED
  BY <1>6, <1>7

\* While the UI thread starts a stream, no stream of a calm visit ends.
LEMMA StaysRegistered ==
  ASSUME IInv, NEW t \in Streams, Stream(t), Starting, plugged, th[t].screen = screen,
         t \notin strays'
  PROVE  UNCHANGED runningStream
<1>1. conn # 0 /\ ~stopKamera[screen] /\ Connection(t) = conn /\ ui # "away"
  BY DEF IInv, Base, UiStep, Starting, Connection
<1>0. ~GiveUp(t)
  BY DEF GiveUp, Starting
<1>2. CASE run(t)
  BY <1>1, <1>2 DEF run
<1>3. CASE enableStreaming(t)
  BY <1>0, <1>3 DEF enableStreaming
<1>4. CASE submitUrbs(t)
  BY <1>4 DEF submitUrbs
<1>5. CASE reap(t)
  <2>1. Past(t)
    BY <1>5 DEF reap, Past
  <2>2. fds[th[t].fd] # 0
    BY <1>1, <2>1 DEF IInv, Numbers
  <2>3. QED
    BY <1>5, <2>2 DEF reap
<1>6. CASE reapRequest(t)
  <2>1. PICK f : f = th[t].file
    OBVIOUS
  <2>2. \E u \in Urb : Reaped(t, u)
    BY <1>6, <2>1, ReapRequestMoves DEF IInv
  <2>3. QED
    BY <2>2 DEF Reaped
<1>7. CASE resubmit(t)
  BY <1>7 DEF resubmit
<1>8. CASE checkStop(t)
  BY <1>1, <1>8 DEF checkStop
<1>9. CASE packetFails(t)
  BY <1>0, <1>9 DEF packetFails
<1>10. QED
  BY <1>2, <1>3, <1>4, <1>5, <1>6, <1>7, <1>8, <1>9 DEF Stream

LEMMA StreamMoved ==
  ASSUME IInv, NEW t \in Streams, Stream(t)
  PROVE  Moved(t) /\ (End(t) \/ UNCHANGED runningStream)
<1>1. Base
  BY DEF IInv
<1>2. CASE run(t)
  BY <1>1, <1>2, RunMoves DEF run
<1>3. CASE enableStreaming(t)
  BY <1>1, <1>3, EnableMoves DEF GiveUp
<1>4. CASE submitUrbs(t)
  BY <1>1, <1>4, SubmitMoves
<1>5. CASE reap(t)
  BY <1>1, <1>5, ReapMoves
<1>6. CASE reapRequest(t)
  <2>1. PICK f : f = th[t].file
    OBVIOUS
  <2>2. Moved(t) /\ (End(t) \/ \E u \in Urb : Reaped(t, u))
    BY <1>1, <1>6, <2>1, ReapRequestMoves
  <2>3. QED
    BY <2>2 DEF Reaped
<1>7. CASE resubmit(t)
  BY <1>1, <1>7, ResubmitMoves
<1>8. CASE checkStop(t)
  BY <1>1, <1>8, CheckMoves
<1>9. CASE packetFails(t)
  BY <1>1, <1>9, FailMoves
<1>10. QED
  BY <1>2, <1>3, <1>4, <1>5, <1>6, <1>7, <1>8, <1>9 DEF Stream

\* What a stream step may add to a file: a request of the thread itself,
\* to the file behind its number.
Adds(t) ==
  \A f \in Files : \A u \in Range(Q(f))' :
    \/ u \in Range(Q(f))
    \/ /\ u[1] = t /\ fds[th[t].fd] = f
       /\ th[t].pc \in {"submit", "packet"}

LEMMA SubmitAdds ==
  ASSUME Base, Reqs, NEW t \in Streams, NEW i \in Index, submit(t, i), UNCHANGED done,
         ~queued[t][i], th[t].pc \in {"submit", "packet"}
  PROVE  Adds(t)
<1>1. PICK g : g = fds[th[t].fd]
  OBVIOUS
<1>2. PICK u : u = <<t, i>>
  OBVIOUS
<1>3. th[t].fd \in Fds /\ u \in Urb /\ u[1] = t
  BY <1>2 DEF Base, ThStep, Past, Urb
<1>4. \A f \in Files : u \notin Range(Q(f))
  BY <1>2 DEF Reqs
<1>5. \/ /\ g \in Files /\ Q(g)' = Append(Q(g), u)
         /\ \A f \in Files : f # g => Q(f)' = Q(f)
      \/ \A f \in Files : Q(f)' = Q(f)
  <2>1. DrvType
    BY DEF Base
  <2>2. Submitted(<<t, i>>, g)
    BY <1>1, <1>3, <2>1, SubmitEffect
  <2>3. QED
    BY <1>2, <2>2 DEF Submitted
<1>6. CASE g \in Files /\ Q(g)' = Append(Q(g), u) /\ \A f \in Files : f # g => Q(f)' = Q(f)
  <2>1. Q(g) \in Seq(Urb) /\ IsInjective(Q(g))
    BY <1>6, OneSequence DEF Base, Reqs
  <2>2. Range(Q(g))' = Range(Q(g)) \cup {u}
    BY <1>3, <1>4, <1>6, <2>1, AppendNew
  <2>3. QED
    BY <1>1, <1>3, <1>6, <2>2 DEF Adds
<1>7. CASE \A f \in Files : Q(f)' = Q(f)
  BY <1>7 DEF Adds
<1>8. QED
  BY <1>5, <1>6, <1>7

LEMMA StreamAdds ==
  ASSUME IInv, NEW t \in Streams, Stream(t)
  PROVE  Adds(t)
<1>0. Base /\ Reqs /\ th[t].req \in Index /\ 0 \in 0..MaxOpens
  BY UsbIsoAssumption DEF IInv, Base, ThType, Thread
<1>1. CASE run(t) \/ reap(t) \/ checkStop(t) \/ packetFails(t)
  <2>1. UNCHANGED <<pend, done>>
    BY <1>1 DEF run, reap, checkStop, packetFails, drvVars
  <2>2. QED
    BY <2>1, SameUrbs DEF Adds
<1>2. CASE enableStreaming(t)
  <2>1. KeepUrbs \/ KillUrbs(0)
    BY <1>2 DEF enableStreaming
  <2>2. QED
    BY <1>0, <2>1, KillRanges DEF Adds
<1>3. CASE submitUrbs(t)
  <2>1. th[t].pc = "submit" /\ submit(t, th[t].req) /\ UNCHANGED done
    BY <1>3 DEF submitUrbs
  <2>2. ~queued[t][th[t].req]
    <3>1. th[t].req \in Nat
      BY <1>0, UsbIsoAssumption DEF Index
    <3>2. QED
      BY <1>0, <2>1, <3>1 DEF IInv, ReqStep
  <2>3. QED
    BY <1>0, <2>1, <2>2, SubmitAdds
<1>4. CASE reapRequest(t)
  <2>1. PICK f : f = th[t].file
    OBVIOUS
  <2>2. /\ f \in Files /\ UNCHANGED pend
        /\ UNCHANGED done \/ \E u \in Urb : Left(t, f, u)
    BY <1>0, <1>4, <2>1, ReapRequestMoves
  <2>3. CASE UNCHANGED done
    BY <2>2, <2>3, SameUrbs DEF Adds
  <2>4. ASSUME NEW u \in Urb, Left(t, f, u) PROVE Adds(t)
    <3>1. Q(f) \in Seq(Urb) /\ Q(f) # <<>> /\ IsInjective(Q(f))
      BY <1>0, <2>2, <2>4, OneSequence DEF Base, Left, Reqs
    <3>2. Range(Tail(Q(f))) \subseteq Range(Q(f))
      BY <3>1, TailRest
    <3>3. Range(Q(f))' \subseteq Range(Q(f))
      BY <2>4, <3>2, NoUrbs DEF Left
    <3>4. \A g \in Files : g # f => Q(g)' = Q(g)
      BY <2>4 DEF Left
    <3>5. QED
      BY <3>3, <3>4 DEF Adds
  <2>5. QED
    BY <2>2, <2>3, <2>4
<1>5. CASE resubmit(t)
  <2>1. th[t].pc = "packet" /\ submit(t, th[t].req) /\ UNCHANGED done
    BY <1>5 DEF resubmit
  <2>2. ~queued[t][th[t].req]
    BY <1>0, <2>1 DEF IInv, ReqStep
  <2>3. QED
    BY <1>0, <2>1, <2>2, SubmitAdds
<1>6. QED
  BY <1>1, <1>2, <1>3, <1>4, <1>5 DEF Stream

LEMMA StreamApart ==
  ASSUME IInv, NEW t \in Streams, Moved(t), Adds(t),
         \A s \in Streams, f \in Files : Uses(s, f)' => Uses(s, f)
  PROVE  Apart'
<1> SUFFICES ASSUME NEW s \in Streams, NEW f \in Files, Uses(s, f)', Calm(th[s].screen)',
                    NEW u \in Range(Q(f))', u[1] # s
             PROVE  th'[u[1]].screen # th'[s].screen
  BY DEF Apart
<1>1. Uses(s, f) /\ Begun(s) /\ Past(s)
  BY DEF Uses, Begun
<1>2. \A r \in Streams : th'[r].screen = th[r].screen
  BY DEF Moved
<1>3. Calm(th[s].screen)
  <2>1. PICK c : c = th'[s].screen
    OBVIOUS
  <2>2. Calm(c)'
    BY <2>1
  <2>3. QED
    BY <1>2, <2>1, <2>2, CalmBefore, MovedScreens DEF IInv
<1>4. CASE u \in Range(Q(f))
  <2>1. u[1] \in Streams
    BY <1>4, Holder DEF IInv
  <2>2. QED
    BY <1>1, <1>2, <1>3, <1>4, <2>1 DEF IInv, Apart
<1>5. CASE u[1] = t /\ fds[th[t].fd] = f /\ th[t].pc \in {"submit", "packet"}
  <2>1. Begun(t) /\ Past(t) /\ t # s
    BY <1>5 DEF Begun, Past
  <2>2. th[t].fd \in Fds /\ th[s].fd \in Fds /\ f # 0
    BY <1>1, <2>1 DEF IInv, Base, ThStep, Files
  <2>3. th[s].screen = th[t].screen => th[t].fd # th[s].fd
    BY <1>1, <1>3, <2>1 DEF IInv, Numbers
  <2>4. th[t].fd = th[s].fd
    <3>1. CASE fds[th[s].fd] = f
      BY <1>5, <2>2, <3>1 DEF IInv, Base, FdStep
    <3>2. CASE th[s].pc = "reap" /\ th[s].file = f
      BY <1>5, <2>2, <3>2 DEF IInv, Numbers
    <3>3. QED
      BY <1>1, <3>1, <3>2 DEF Uses
  <2>5. QED
    BY <1>2, <1>5, <2>3, <2>4
<1>6. QED
  BY <1>4, <1>5 DEF Adds

LEMMA StreamFresh ==
  ASSUME IInv, NEW t \in Streams, Stream(t),
         Past(t)' => (th[t].pc = "run" => runningStream[th[t].screen] = t \/ t \in strays'),
         Begun(t)' => th[t].pc = "run" \/ Begun(t)
  PROVE  Fresh'
<1>0. Moved(t) /\ (End(t) \/ UNCHANGED runningStream) /\ Adds(t)
  BY StreamMoved, StreamAdds
<1>1. /\ UNCHANGED <<screen, ui, conn, fds, plugged>>
      /\ \A s \in Streams : s # t => th'[s] = th[s]
      /\ th'[t].screen = th[t].screen /\ th'[t].pc \notin {"none", "run"} /\ strays \subseteq strays'
  BY <1>0 DEF Moved, StayUi
<1> SUFFICES ASSUME plugged, ui # "away", conn # 0, Calm(screen)',
                    \/ Starting
                    \/ /\ runningStream'[screen] # 0
                       /\ th'[runningStream'[screen]].pc = "run",
                    NEW s \in Streams, th'[s].screen = screen, s # runningStream'[screen]
             PROVE  /\ ~(Begun(s)' /\ th'[s].fd = conn)
                    /\ \A u \in Range(Q(fds[conn]))' : u[1] # s
  BY <1>1 DEF Fresh, Starting
<1>2. screen \in Screens
  BY DEF IInv, Base, UiStep
<1>3. th[s].screen = screen /\ (t \in strays' => th[t].screen # screen)
  <2>1. t \in strays' => th'[t].screen # screen'
    BY DEF Calm
  <2>2. QED
    BY <1>1, <2>1
<1>4. Calm(screen)
  <2>1. PICK c : c = screen
    OBVIOUS
  <2>2. Calm(c)'
    BY <1>1, <2>1
  <2>3. QED
    BY <1>0, <2>1, <2>2, CalmBefore, MovedScreens DEF IInv
<1>5. runningStream'[screen] = runningStream[screen]
  <2>1. CASE UNCHANGED runningStream
    BY <2>1
  <2>2. CASE End(t)
    <3>1. /\ runningStream'[th[t].screen] = 0
          /\ \A r \in Screens : r # th[t].screen => runningStream'[r] = runningStream[r]
      BY <2>2, EndEffect DEF IInv, Base
    <3>2. CASE th[t].screen # screen
      BY <1>2, <3>1, <3>2
    <3>3. CASE th[t].screen = screen
      <4>1. Starting
        BY <3>1, <3>3
      <4>2. QED
        BY <1>3, <3>3, <4>1, StaysRegistered
    <3>4. QED
      BY <3>2, <3>3
  <2>3. QED
    BY <1>0, <2>1, <2>2
<1>6. Starting \/ (runningStream[screen] # 0 /\ th[runningStream[screen]].pc = "run")
  <2>1. runningStream[screen] \in 0..MaxStreams
    BY <1>2 DEF IInv, Base, UiType
  <2>2. runningStream[screen] # 0 => runningStream[screen] \in Streams
    BY <2>1, UsbIsoAssumption DEF Streams
  <2>3. QED
    BY <1>1, <1>5, <2>2
<1>7. /\ ~(Begun(s) /\ th[s].fd = conn)
      /\ \A u \in Range(Q(fds[conn])) : u[1] # s
  BY <1>3, <1>4, <1>5, <1>6 DEF IInv, Fresh
<1>8. ~(Begun(s)' /\ th'[s].fd = conn)
  <2>1. CASE s # t
    <3>1. Begun(s)' <=> Begun(s)
      BY <1>1, <2>1 DEF Begun, Past
    <3>2. QED
      BY <1>1, <1>7, <2>1, <3>1
  <2>2. CASE s = t
    <3>1. th[t].pc = "run" => ~Past(t)'
      BY <1>3, <1>5, <2>2
    <3>2. Begun(t)' => Begun(t) /\ th'[t].fd = th[t].fd
      BY <1>0, <3>1 DEF Moved, Begun, Past
    <3>3. QED
      BY <1>7, <2>2, <3>2
  <2>3. QED
    BY <2>1, <2>2
<1>9. \A u \in Range(Q(fds[conn]))' : u[1] # s
  <2>1. PICK f : f = fds[conn]
    OBVIOUS
  <2>2. conn \in Fds /\ f \in Files
    <3>1. conn \in Fds
      BY UsbIsoAssumption DEF IInv, Base, UiType, Fds
    <3>2. f # 0 /\ f \in 0..MaxOpens
      BY <2>1, <3>1 DEF IInv, Base, FdStep, DrvType
    <3>3. QED
      BY <3>1, <3>2, UsbIsoAssumption DEF Files
  <2>3. Range(Q(fds[conn]))' = Range(Q(f))'
    BY <1>1, <2>1 DEF Q
  <2>4. ASSUME NEW u \in Range(Q(f))', u[1] = s PROVE FALSE
    <3>1. u \notin Range(Q(f))
      BY <1>7, <2>1, <2>4
    <3>2. s = t /\ fds[th[t].fd] = f /\ th[t].pc \in {"submit", "packet"}
      BY <1>0, <2>2, <2>4, <3>1 DEF Adds
    <3>3. Begun(t) /\ th[t].fd \in Fds
      BY <3>2 DEF Begun, Past, IInv, Base, ThStep
    <3>4. th[t].fd = conn
      BY <2>1, <2>2, <3>2, <3>3 DEF IInv, Base, FdStep, Files
    <3>5. QED
      BY <1>7, <3>2, <3>3, <3>4
  <2>5. QED
    BY <2>3, <2>4
<1>10. QED
  BY <1>8, <1>9

\* A stream that begins while it is registered reads a connection no other
\* stream of its visit uses.
LEMMA RunVisit ==
  ASSUME IInv, NEW t \in Streams, run(t)
  PROVE  Numbers' /\ Apart'
<1>1. Moved(t) /\ th[t].pc = "run" /\ UNCHANGED <<pend, done>>
  BY RunMoves DEF IInv, run, drvVars
<1>2. /\ UNCHANGED <<screen, ui, conn, fds, plugged>>
      /\ \A s \in Streams : s # t => th'[s] = th[s]
      /\ \A s \in Streams : th'[s].screen = th[s].screen
  BY <1>1 DEF Moved, StayUi
<1>3. \A f : Q(f)' = Q(f)
  BY <1>1, SameUrbs
<1>4. \A s \in Streams : s # t => (Past(s)' <=> Past(s)) /\ (Begun(s)' <=> Begun(s))
  BY <1>2 DEF Past, Begun
<1>5. Past(t)' => /\ th[t].screen = screen /\ ui # "away" /\ conn # 0
                  /\ th'[t].fd = conn /\ th'[t].pc = "enable"
                  /\ runningStream[screen] = t \/ t \in strays'
  <2>1. CASE Connection(t) = 0
    <3>1. th'[t].pc = "ended"
      BY <2>1, EndEffect DEF run, IInv, Base
    <3>2. QED
      BY <3>1 DEF Past
  <2>2. CASE Connection(t) # 0
    <3>1. Connection(t) = conn /\ th[t].screen = screen /\ ui # "away"
      BY <2>2 DEF Connection
    <3>2. th'[t].fd = conn /\ th'[t].pc = "enable"
      BY <2>2, <3>1 DEF run, IInv, Base, ThType, Thread
    <3>3. runningStream[th[t].screen] = t \/ t \in strays'
      BY DEF run
    <3>4. QED
      BY <2>2, <3>1, <3>2, <3>3
  <2>3. QED
    BY <2>1, <2>2
<1>6. \A s : Calm(s)' => Calm(s)
  BY <1>1, CalmBefore, MovedScreens DEF IInv
<1>7. ASSUME Begun(t)', Calm(th[t].screen)', NEW s \in Streams, s # t, th[s].screen = th[t].screen
      PROVE  /\ ~(Begun(s) /\ th[s].fd = conn)
             /\ \A u \in Range(Q(fds[conn])) : u[1] # s
  <2>1. Past(t)' /\ (th'[t].pc = "enable" => plugged')
    BY <1>7 DEF Begun
  <2>2. t \notin strays'
    BY <1>7 DEF Calm
  <2>3. PICK c : c = th'[t].screen
    OBVIOUS
  <2>4. Calm(c)'
    BY <1>7, <2>3
  <2>5. Calm(screen)
    BY <1>2, <1>5, <1>6, <2>1, <2>3, <2>4
  <2>6. QED
    BY <1>1, <1>2, <1>5, <1>7, <2>1, <2>2, <2>5 DEF IInv, Fresh, Streams
<1>8. Numbers'
  <2>1. ASSUME NEW r \in Streams, NEW s \in Streams, r # s, Begun(r)', Begun(s)',
               th'[r].screen = th'[s].screen, Calm(th[r].screen)'
        PROVE  th'[r].fd # th'[s].fd
    <3>0. Calm(th[s].screen)'
      BY <2>1
    <3>1. CASE r # t /\ s # t
      <4>1. PICK c : c = th'[r].screen
        OBVIOUS
      <4>2. Calm(c)'
        BY <2>1, <4>1
      <4>3. Calm(th[r].screen)
        BY <1>2, <1>6, <4>1, <4>2
      <4>4. QED
        BY <1>2, <1>4, <2>1, <3>1, <4>3 DEF IInv, Numbers
    <3>2. CASE r = t
      <4>1. s # t /\ th[s].screen = th[t].screen /\ Begun(s) /\ th'[s] = th[s]
        BY <1>2, <1>4, <2>1, <3>2
      <4>2. th[s].fd # conn
        BY <1>7, <2>1, <3>2, <4>1
      <4>3. Past(t)'
        BY <2>1, <3>2 DEF Begun
      <4>4. QED
        BY <1>5, <3>2, <4>1, <4>2, <4>3
    <3>3. CASE s = t
      <4>1. r # t /\ th[r].screen = th[t].screen /\ Begun(r) /\ th'[r] = th[r]
        BY <1>2, <1>4, <2>1, <3>3
      <4>2. th[r].fd # conn
        BY <1>7, <2>1, <3>0, <3>3, <4>1
      <4>3. Past(t)'
        BY <2>1, <3>3 DEF Begun
      <4>4. QED
        BY <1>5, <3>3, <4>1, <4>2, <4>3
    <3>4. QED
      BY <3>1, <3>2, <3>3
  <2>2. ASSUME NEW s \in Streams, Past(s)', th'[s].screen = screen', ui' # "away"
        PROVE  fds'[th'[s].fd] # 0
    <3>1. CASE s = t
      BY <1>2, <1>5, <2>2, <3>1 DEF IInv, Base, FdStep
    <3>2. CASE s # t
      BY <1>2, <1>4, <2>2, <3>2 DEF IInv, Numbers
    <3>3. QED
      BY <3>1, <3>2
  <2>3. ASSUME NEW s \in Streams, NEW n \in Fds, th'[s].pc = "reap", fds'[n] = th'[s].file
        PROVE  n = th'[s].fd
    <3>1. s # t
      <4>1. th'[t].pc = "reap" => Past(t)'
        BY DEF Past
      <4>2. QED
        BY <1>5, <2>3, <4>1
    <3>2. QED
      BY <1>2, <2>3, <3>1 DEF IInv, Numbers
  <2>4. QED
    BY <2>1, <2>2, <2>3 DEF Numbers
<1>9. Apart'
  <2> SUFFICES ASSUME NEW s \in Streams, NEW f \in Files, Uses(s, f)', Calm(th[s].screen)',
                      NEW u \in Range(Q(f))', u[1] # s
               PROVE  th'[u[1]].screen # th'[s].screen
    BY DEF Apart
  <2>1. u \in Range(Q(f)) /\ u[1] \in Streams
    BY <1>3, Holder DEF IInv
  <2>2. CASE s # t
    <3>1. PICK c : c = th'[s].screen
      OBVIOUS
    <3>2. Calm(c)'
      BY <3>1
    <3>3. Calm(th[s].screen)
      BY <1>2, <1>6, <3>1, <3>2
    <3>4. Uses(s, f)
      BY <1>2, <1>4, <2>2 DEF Uses
    <3>5. QED
      BY <1>2, <2>1, <3>3, <3>4 DEF IInv, Apart
  <2>3. CASE s = t
    <3>1. Begun(t)' /\ Past(t)'
      BY <2>3 DEF Uses, Begun
    <3>2. f = fds[conn]
      BY <1>2, <1>5, <2>3, <3>1 DEF Uses
    <3>3. th[u[1]].screen # th[t].screen
      BY <1>7, <2>1, <2>3, <3>1, <3>2
    <3>4. QED
      BY <1>2, <2>1, <2>3, <3>3
  <2>4. QED
    BY <2>2, <2>3
<1>10. QED
  BY <1>8, <1>9

LEMMA StreamVisit ==
  ASSUME IInv, NEW t \in Streams, Stream(t)
  PROVE  Numbers' /\ Apart' /\ Fresh'
<1>1. Moved(t) /\ Adds(t)
  BY StreamMoved, StreamAdds
<1>2. CASE run(t)
  <2>1. runningStream[th[t].screen] = t \/ t \in strays'
    BY <1>2 DEF run
  <2>2. th[t].pc = "run"
    BY <1>2 DEF run
  <2>3. Fresh'
    BY <2>1, <2>2, StreamFresh
  <2>4. QED
    BY <1>2, <2>3, RunVisit
<1>3. CASE ~run(t)
  <2>1. Past(t) /\ th[t].pc # "run"
    BY <1>3 DEF Stream, Past, enableStreaming, submitUrbs, reap, reapRequest, resubmit,
                packetFails, checkStop
  <2>2. th[t].pc = "enable" /\ Past(t)' => plugged
    <3>1. CASE enableStreaming(t)
      <4>1. CASE End(t)
        <5>1. th'[t].pc = "ended"
          BY <4>1, EndEffect DEF IInv, Base
        <5>2. QED
          BY <5>1 DEF Past
      <4>2. QED
        BY <3>1, <4>1, EnableMoves DEF IInv, GiveUp
    <3>2. CASE th[t].pc # "enable"
      BY <3>2
    <3>3. QED
      BY <1>3, <3>1, <3>2 DEF Stream, submitUrbs, reap, reapRequest, resubmit, packetFails,
                              checkStop
  <2>3. /\ Numbers'
        /\ \A s \in Streams, f \in Files : Uses(s, f)' => Uses(s, f)
    BY <1>1, <2>1, <2>2, MovedVisit
  <2>4. Apart'
    BY <1>1, <2>3, StreamApart
  <2>5. Begun(t)' => Begun(t)
    BY <2>1, <2>2 DEF Begun
  <2>6. Fresh'
    BY <2>1, <2>5, StreamFresh
  <2>7. QED
    BY <2>3, <2>4, <2>6
<1>4. QED
  BY <1>2, <1>3

LEMMA VisitStep ==
  ASSUME IInv, [Next]_vars
  PROVE  Numbers' /\ Apart' /\ Fresh'
BY OpenScreenVisit, isoStreamVisit, startStreamVisit, FailureVisit, closeVisit, OtherVisit,
   StreamVisit DEF Next

-----------------------------------------------------------------------------
LEMMA InitIInv == Init => IInv
<1> SUFFICES ASSUME Init PROVE IInv
  OBVIOUS
<1>1. /\ 0 \in 0..MaxScreens /\ 0 \in 0..MaxFds /\ 0 \in 0..MaxStreams /\ 0 \in 0..MaxOpens
      /\ 1 \in Index /\ 1 \in Screens
  BY UsbIsoAssumption DEF Index, Screens
<1>2. Idle \in Thread /\ Idle.pc = "none"
  BY <1>1 DEF Idle, Thread
<1>3. UiType /\ UiStep
  BY <1>1 DEF Init, UiType, UiStep, Starting
<1>4. th \in [Streams -> Thread] /\ \A t \in Streams : th[t].pc = "none" /\ ~Past(t)
  BY <1>2 DEF Init, Past
<1>5. ThType /\ ThStep
  BY <1>4 DEF Init, ThType, ThStep
<1>6. pend = [f \in Files |-> <<>>] /\ done = [f \in Files |-> <<>>] /\ <<>> \in Seq(Urb)
  BY DEF Init
<1>7. pend \in [Files -> Seq(Urb)] /\ done \in [Files -> Seq(Urb)]
  BY <1>6
<1>8. queued \in [Streams -> [Index -> BOOLEAN]]
  BY DEF Init
<1>9. DrvType
  BY <1>1, <1>7, <1>8 DEF Init, DrvType
<1>10. \A f \in Files : Q(f) = <<>> /\ pend[f] = <<>>
  BY <1>6 DEF Q
<1>11. FdStep
  BY <1>10 DEF Init, FdStep
<1>12. Base
  BY <1>3, <1>5, <1>9, <1>11 DEF Base
<1>13. Reqs
  BY <1>10, NoUrbs DEF Init, Reqs
<1>14. ReqStep
  BY DEF Init, ReqStep
<1>15. OneStream
  BY DEF Init, OneStream
<1>16. Numbers /\ Apart /\ Fresh
  BY <1>4 DEF Init, Numbers, Apart, Fresh, Uses, Begun
<1>17. QED
  BY <1>12, <1>13, <1>14, <1>15, <1>16 DEF IInv

(* The conjunction of all of these is an invariant: Init establishes it    *)
(* and every step of the UI thread, a stream and the driver keeps it.      *)
THEOREM Inductive == Spec => []IInv
<1>1. IInv /\ [Next]_vars => IInv'
  BY BaseStep, ReqsStep, OneStreamStep, VisitStep DEF IInv
<1>2. QED
  BY <1>1, InitIInv, PTL DEF Spec

-----------------------------------------------------------------------------
(* The theorems *)

(* Every variable of the screen, the stream threads and the driver has its *)
(* type; in particular a thread past its start has a descriptor number and *)
(* submitUrbs does not run past the pool of requests.                      *)
THEOREM UsbIsoTypes == Spec => []TypeOK
<1>1. IInv => TypeOK
  <2> SUFFICES ASSUME IInv PROVE TypeOK
    OBVIOUS
  <2>1. \A f \in Files : Range(pend[f]) \subseteq Urb /\ Range(done[f]) \subseteq Urb
    BY RangeOfSeq DEF IInv, Base, DrvType
  <2>2. DOMAIN pend = Files /\ DOMAIN done = Files
    BY DEF IInv, Base, DrvType
  <2>3. QED
    BY <2>1, <2>2 DEF IInv, Base, UiType, ThType, Thread, DrvType, TypeOK
<1>2. QED
  BY <1>1, Inductive, PTL

(* Request.queued is true of exactly the requests that the driver has or   *)
(* that no reap returns, and the driver has none twice, whichever ioctl    *)
(* fails and whoever closes the file.                                      *)
THEOREM RequestsAccounted == Spec => []Accounted
<1>1. IInv => Accounted
  <2> SUFFICES ASSUME IInv PROVE Accounted
    OBVIOUS
  <2>1. \A f \in Files : /\ Q(f) \in Seq(Urb) /\ Urbs(f) = Range(Q(f)) /\ IsInjective(Q(f))
                         /\ Len(Q(f)) = Len(done[f]) + Len(pend[f])
    BY OneSequence DEF IInv, Base, Reqs
  <2>2. \A f \in Files : Cardinality(Urbs(f)) = Len(done[f]) + Len(pend[f])
    BY <2>1, InjectiveCount
  <2>3. QED
    BY <2>1, <2>2 DEF IInv, Reqs, Accounted, InDriver
<1>2. QED
  BY <1>1, Inductive, PTL

(* Until stop (or return) is pressed a visit has one stream thread, the    *)
(* registered one, however often isoStream is called.                      *)
THEOREM SingleStream == Spec => []OneStream
<1>1. IInv => OneStream
  BY DEF IInv
<1>2. QED
  BY <1>1, Inductive, PTL

(* Two streams of one visit do not wait for each other's requests unless   *)
(* one of that visit strayed (began after it was replaced, or was ended by *)
(* another's request, or by an exception while isoStream was opening the   *)
(* camera again): isoStream opens a new connection for each, and none of   *)
(* them reads another's.                                                   *)
THEOREM StreamsApart == Spec => []OwnRequestsOnly
<1>1. IInv => OwnRequestsOnly
  <2> SUFFICES ASSUME IInv, NEW t \in Streams, th[t].pc = "reap", NEW u \in Urbs(th[t].file),
                      u[1] # t, th[u[1]].screen = th[t].screen,
                      \A v \in strays : th[v].screen # th[t].screen
               PROVE  FALSE
    BY DEF OwnRequestsOnly
  <2>1. PICK f : f = th[t].file
    OBVIOUS
  <2>2. f \in Files /\ Uses(t, f)
    BY <2>1 DEF IInv, Base, ThStep, Uses, Begun, Past
  <2>3. u \in Range(Q(f))
    BY <2>1, <2>2, OneSequence DEF IInv, Base
  <2>4. Calm(th[t].screen)
    BY DEF Calm
  <2>5. QED
    BY <2>2, <2>3, <2>4 DEF IInv, Apart
<1>2. QED
  BY <1>1, Inductive, PTL
=============================================================================
