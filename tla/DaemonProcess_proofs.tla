----------------------- MODULE DaemonProcess_proofs -----------------------
(***************************************************************************)
(* Theorems about DaemonProcess, for any number of processes and of        *)
(* stoppers: as long as no two starts have overlapped, the pid file and    *)
(* the socket follow the one daemon there is, and a stop reaches it.       *)
(***************************************************************************)
EXTENDS DaemonProcess, TLAPS

-----------------------------------------------------------------------------
(* The inductive invariant.                                                *)

Written == {"named", "unlinked", "serving"}

\* At each step of the daemon that passed the check, what the pid file holds.
FileFollows ==
    \A p \in Pids : /\ pc[p] = "empty" => pidFile = Empty
                    /\ pc[p] \in Written => pidFile = p

SocketFollows == \A p \in Pids : pc[p] = "serving" => sock = p

Alone == \A p, q \in Pids : pc[p] \in Started /\ pc[q] \in Started => p = q

\* A process that ends leaves every debt, so no debt is a reused number.
OwedRun == \A s \in Stoppers : \A p \in owed[s] : pc[p] \in Steps \cup {"dying"}
IdleOwesNothing == \A s \in Stoppers : stop[s].at = "idle" => owed[s] = {}

\* A stop owes the pid it is about to signal, then only what is ending.
OwedFollow ==
    \A s \in Stoppers : \A p \in owed[s] :
        pc[p] = "dying" \/ (stop[s].at = "term" /\ p = stop[s].pid)

Unraced == ~raced => FileFollows /\ SocketFollows /\ Alone /\ OwedFollow

IInv == TypeOK /\ OwedRun /\ IdleOwesNothing /\ Unraced

USE DEF IInv, Steps, Goto, Running

-----------------------------------------------------------------------------
(* The check: without a race, whoever passes it finds nobody.              *)

\* A daemon that has written its pid is found by everyone who looks.
LEMMA WrittenIsFound ==
    ASSUME IInv, ~raced, NEW p \in Pids, pc[p] \in Written
    PROVE  p \in DaemonPIDs
  BY DEF Unraced, FileFollows, Written, DaemonPIDs, IsDaemon

LEMMA InitInv == Init => IInv
<1> SUFFICES ASSUME Init PROVE IInv
  OBVIOUS
<1>1. TypeOK
  <2>1. hasProc \in BOOLEAN /\ raced \in BOOLEAN
    BY DEF Init
  <2>2. stop \in [Stoppers -> [at : {"idle", "return", "done"}, pid : Pids \cup {None}]
                              \cup [at : {"term", "poll"}, pid : Pids]]
    BY DEF Init
  <2> QED
    BY <2>1, <2>2, ProcessAssumption DEF Init, TypeOK
<1>2. OwedRun /\ IdleOwesNothing /\ Unraced
  BY DEF Init, OwedRun, IdleOwesNothing, Unraced, FileFollows, SocketFollows, Alone,
     OwedFollow, Started, Written
<1> QED
  BY <1>1, <1>2

-----------------------------------------------------------------------------
(* A daemon starts: the steps of one process.                              *)

LEMMA LaunchInv ==
    ASSUME IInv, NEW p \in Pids, Launch(p), UNCHANGED <<pidFile, sock, hasProc, raced, owed>>,
           UNCHANGED stop \/ \E s \in Stoppers : stop[s].at = "return" /\ Stopper(s, "done", stop[s].pid)
    PROVE  IInv'
<1>1. TypeOK'
  <2>1. stop' \in [Stoppers -> [at : {"idle", "return", "done"}, pid : Pids \cup {None}]
                               \cup [at : {"term", "poll"}, pid : Pids]]
    BY DEF TypeOK, Stopper
  <2>2. mishaps' \in 0..MaxMishaps
    BY ProcessAssumption DEF TypeOK, Launch
  <2> QED
    BY <2>1, <2>2 DEF TypeOK, Launch
<1>2. OwedRun' /\ IdleOwesNothing'
  BY DEF Launch, OwedRun, IdleOwesNothing, TypeOK, Stopper
<1>3. Unraced'
  BY DEF Launch, Unraced, FileFollows, SocketFollows, Alone, OwedFollow, Started,
     Written, TypeOK, Stopper
<1> QED
  BY <1>1, <1>2, <1>3

LEMMA CheckInv ==
    ASSUME IInv, NEW p \in Pids, Check(p) PROVE IInv'
<1>1. TypeOK'
  BY DEF Check, TypeOK
<1>2. OwedRun' /\ IdleOwesNothing'
  BY DEF Check, OwedRun, IdleOwesNothing, TypeOK
<1>3. ASSUME ~raced' PROVE FileFollows' /\ SocketFollows' /\ Alone' /\ OwedFollow'
  <2>1. ~raced /\ \A q \in Pids : pc[q] \notin {"clear", "empty"}
    BY <1>3 DEF Check, At
  <2>2. \A q \in Pids : pc[q] \notin Started
    BY <2>1, WrittenIsFound DEF Check, Written, Started
  <2> QED
    BY <2>1, <2>2 DEF Check, Unraced, FileFollows, SocketFollows, Alone, OwedFollow,
       Started, Written, TypeOK
<1> QED
  BY <1>1, <1>2, <1>3 DEF Unraced

\* The steps between the check and the socket: where one daemon is, no other is.
LEMMA TruncatePIDInv ==
    ASSUME IInv, NEW p \in Pids, TruncatePID(p) PROVE IInv'
<1>1. TypeOK'
  BY DEF TruncatePID, TypeOK
<1>2. OwedRun' /\ IdleOwesNothing'
  BY DEF TruncatePID, OwedRun, IdleOwesNothing, TypeOK
<1>3. Unraced'
  BY DEF TruncatePID, Unraced, FileFollows, SocketFollows, Alone, OwedFollow,
     Started, Written, TypeOK
<1> QED
  BY <1>1, <1>2, <1>3

LEMMA WritePIDInv ==
    ASSUME IInv, NEW p \in Pids, WritePID(p) PROVE IInv'
<1>1. TypeOK'
  BY DEF WritePID, Overwritten, TypeOK
<1>2. OwedRun' /\ IdleOwesNothing'
  BY DEF WritePID, OwedRun, IdleOwesNothing, TypeOK
<1>3. Unraced'
  BY DEF WritePID, Overwritten, Unraced, FileFollows, SocketFollows, Alone, OwedFollow,
     Started, Written, TypeOK
<1> QED
  BY <1>1, <1>2, <1>3

LEMMA UnlinkInv ==
    ASSUME IInv, NEW p \in Pids, Unlink(p) PROVE IInv'
<1>1. TypeOK'
  BY DEF Unlink, TypeOK
<1>2. OwedRun' /\ IdleOwesNothing'
  BY DEF Unlink, OwedRun, IdleOwesNothing, TypeOK
<1>3. Unraced'
  BY DEF Unlink, Unraced, FileFollows, SocketFollows, Alone, OwedFollow, Started,
     Written, TypeOK
<1> QED
  BY <1>1, <1>2, <1>3

LEMMA ListenInv ==
    ASSUME IInv, NEW p \in Pids, Listen(p) PROVE IInv'
<1>1. TypeOK'
  BY DEF Listen, TypeOK
<1>2. OwedRun' /\ IdleOwesNothing'
  BY DEF Listen, OwedRun, IdleOwesNothing, TypeOK
<1>3. Unraced'
  BY DEF Listen, Unraced, FileFollows, SocketFollows, Alone, OwedFollow, Started,
     Written, TypeOK
<1> QED
  BY <1>1, <1>2, <1>3

\* However a daemon ends, it leaves the pid file, and if it served it may remove the socket.
LEMMA EndsInv ==
    ASSUME IInv, NEW p \in Pids, Ends(p), UNCHANGED <<pidFile, stop, hasProc, raced>>,
           sock' = sock \/ (sock' = None /\ pc[p] = "serving"), mishaps' \in 0..MaxMishaps
    PROVE  IInv'
<1>1. TypeOK'
  BY DEF Ends, TypeOK
<1>2. OwedRun' /\ IdleOwesNothing'
  BY DEF Ends, OwedRun, IdleOwesNothing, TypeOK
<1>3. Unraced'
  BY DEF Ends, Unraced, FileFollows, SocketFollows, Alone, OwedFollow, Started,
     Written, TypeOK
<1> QED
  BY <1>1, <1>2, <1>3

LEMMA OtherInv ==
    ASSUME IInv, NEW p \in Pids, OtherStarts(p) \/ OtherEnds(p) PROVE IInv'
<1>1. TypeOK'
  BY DEF OtherStarts, OtherEnds, TypeOK
<1>2. OwedRun' /\ IdleOwesNothing'
  BY DEF OtherStarts, OtherEnds, OwedRun, IdleOwesNothing, TypeOK
<1>3. Unraced'
  BY DEF OtherStarts, OtherEnds, Unraced, FileFollows, SocketFollows, Alone, OwedFollow,
     Started, Written, TypeOK
<1> QED
  BY <1>1, <1>2, <1>3

-----------------------------------------------------------------------------
(* A daemon is stopped.                                                    *)

LEMMA BeginStopInv ==
    ASSUME IInv, NEW s \in Stoppers, BeginStop(s) PROVE IInv'
<1>1. TypeOK'
  BY DEF BeginStop, Stopper, DaemonPIDs, At, TypeOK
<1>2. OwedRun' /\ IdleOwesNothing'
  BY DEF BeginStop, Stopper, At, OwedRun, IdleOwesNothing, TypeOK
<1>3. ASSUME ~raced PROVE OwedFollow'
  <2>1. \A q \in owed'[s] : q \in DaemonPIDs
    BY <1>3, WrittenIsFound DEF BeginStop, At, Written, TypeOK
  <2>2. \A q \in owed'[s] : stop'[s].at = "term" /\ q = stop'[s].pid
    BY <2>1 DEF BeginStop, Stopper, DaemonPIDs, TypeOK
  <2>3. \A t \in Stoppers \ {s} : owed'[t] = owed[t] /\ stop'[t] = stop[t]
    BY DEF BeginStop, Stopper, TypeOK
  <2> QED
    BY <1>3, <2>2, <2>3 DEF BeginStop, OwedFollow, Unraced
<1>4. ~raced => FileFollows' /\ SocketFollows' /\ Alone'
  BY DEF BeginStop, Unraced, FileFollows, SocketFollows, Alone
<1> QED
  BY <1>1, <1>2, <1>3, <1>4 DEF Unraced, BeginStop

\* A signal turns the daemon it reaches into one that ends.
LEMMA SignalInv ==
    ASSUME IInv, NEW s \in Stoppers, Terminate(s) \/ Kill(s) PROVE IInv'
<1>1. TypeOK'
  BY DEF Terminate, Kill, Signalled, Stopper, TypeOK
<1>2. OwedRun' /\ IdleOwesNothing'
  BY DEF Terminate, Kill, Signalled, Stopper, OwedRun, IdleOwesNothing, TypeOK
<1>3. ~raced => FileFollows' /\ SocketFollows' /\ Alone'
  BY DEF Terminate, Kill, Signalled, Unraced, FileFollows, SocketFollows, Alone,
     Started, Written, TypeOK
<1>4. ~raced => OwedFollow'
  BY DEF Terminate, Kill, Signalled, Stopper, Unraced, OwedFollow, OwedRun, TypeOK
<1> QED
  BY <1>1, <1>2, <1>3, <1>4 DEF Unraced, Terminate, Kill

LEMMA GoneInv ==
    ASSUME IInv, NEW s \in Stoppers, Gone(s) PROVE IInv'
<1>1. TypeOK'
  BY DEF Gone, Stopper, TypeOK
<1>2. OwedRun' /\ IdleOwesNothing'
  BY DEF Gone, Stopper, OwedRun, IdleOwesNothing, TypeOK
<1>3. Unraced'
  BY DEF Gone, Stopper, Unraced, FileFollows, SocketFollows, Alone, OwedFollow, TypeOK
<1> QED
  BY <1>1, <1>2, <1>3

LEMMA ReturnInv ==
    ASSUME IInv, NEW s \in Stoppers, Return(s) PROVE IInv'
<1>1. CASE \E p \in Pids : Launch(p)
  BY <1>1, LaunchInv DEF Return
<1>2. CASE UNCHANGED <<pc, mishaps>>
  <2>1. TypeOK'
    BY <1>2 DEF Return, Stopper, TypeOK
  <2>2. OwedRun' /\ IdleOwesNothing'
    BY <1>2 DEF Return, Stopper, OwedRun, IdleOwesNothing, TypeOK
  <2>3. Unraced'
    BY <1>2 DEF Return, Stopper, Unraced, FileFollows, SocketFollows, Alone, OwedFollow,
       TypeOK
  <2> QED
    BY <2>1, <2>2, <2>3
<1> QED
  BY <1>1, <1>2 DEF Return

-----------------------------------------------------------------------------
(* The theorems.                                                           *)

LEMMA NextInv == IInv /\ [Next]_vars => IInv'
<1> SUFFICES ASSUME IInv, [Next]_vars PROVE IInv'
  OBVIOUS
<1>1. ASSUME NEW p \in Pids, Start(p) PROVE IInv'
  BY <1>1, LaunchInv DEF Start
<1>2. ASSUME NEW p \in Pids, Progress(p) PROVE IInv'
  <2>1. CASE Check(p)
    BY <2>1, CheckInv
  <2>2. CASE TruncatePID(p)
    BY <2>2, TruncatePIDInv
  <2>3. CASE WritePID(p)
    BY <2>3, WritePIDInv
  <2>4. CASE Unlink(p)
    BY <2>4, UnlinkInv
  <2>5. CASE Listen(p)
    BY <2>5, ListenInv
  <2>6. CASE AlreadyRunning(p) \/ AddressInUse(p) \/ Die(p)
    BY <2>6, EndsInv DEF AlreadyRunning, AddressInUse, Die, TypeOK
  <2> QED
    BY <1>2, <2>1, <2>2, <2>3, <2>4, <2>5, <2>6 DEF Progress
<1>3. ASSUME NEW p \in Pids, Crash(p) \/ AcceptFails(p) PROVE IInv'
  <2>1. mishaps' \in 0..MaxMishaps
    BY <1>3, ProcessAssumption DEF Crash, AcceptFails, TypeOK
  <2> QED
    BY <1>3, <2>1, EndsInv DEF Crash, AcceptFails
<1>4. ASSUME NEW p \in Pids, OtherStarts(p) \/ OtherEnds(p) PROVE IInv'
  BY <1>4, OtherInv
<1>5. ASSUME NEW s \in Stoppers, StopStep(s) PROVE IInv'
  BY <1>5, BeginStopInv, SignalInv, GoneInv, ReturnInv DEF StopStep
<1>6. CASE UNCHANGED vars
  BY <1>6 DEF vars, TypeOK, OwedRun, IdleOwesNothing, Unraced, FileFollows, SocketFollows,
     Alone, OwedFollow
<1> QED
  BY <1>1, <1>2, <1>3, <1>4, <1>5, <1>6 DEF Next

\* The pid file and the socket follow the one daemon there is, through crashes,
\* reused numbers and stops, until two starts overlap.  (runDaemon, Stop.)
THEOREM Invariance == Spec => []IInv
<1>1. Init => IInv
  BY InitInv
<1>2. IInv /\ [Next]_vars => IInv'
  BY NextInv
<1> QED
  BY <1>1, <1>2, PTL DEF Spec

\* Every variable keeps its type: the pid file holds a number, nothing or no file.
THEOREM TypeCorrect == Spec => []TypeOK
<1>1. IInv => TypeOK
  OBVIOUS
<1> QED
  BY <1>1, Invariance, PTL

\* At most one daemon has passed the check, unless starts have overlapped.
\* (AlreadyRunning's look at the pid file in runDaemon.)
THEOREM OneDaemonAtATime == Spec => []OneDaemon
<1>1. IInv => OneDaemon
  BY DEF OneDaemon, Unraced, Alone, At
<1> QED
  BY <1>1, Invariance, PTL

\* The daemon that serves is the one that stop finds and that clients reach.
THEOREM NamedWhileServing == Spec => []ServingIsNamed
<1>1. IInv => ServingIsNamed
  BY DEF ServingIsNamed, Unraced, FileFollows, SocketFollows, Written, At
<1> QED
  BY <1>1, Invariance, PTL

\* A stop that has returned leaves no daemon running that it should have found.
THEOREM StopIsComplete == Spec => []StopReachesAll
<1>1. IInv => StopReachesAll
  BY DEF StopReachesAll, Unraced, OwedFollow, At, TypeOK
<1> QED
  BY <1>1, Invariance, PTL
=============================================================================
