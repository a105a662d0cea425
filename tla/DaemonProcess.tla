--------------------------- MODULE DaemonProcess ---------------------------
(* The life of radar daemons: the pid file, the socket, start, stop and     *)
(* restart (cmd/radar/main.go, internal/process, ListenAndServe).           *)
(* Every pid is free, some other program, or a `radar daemon` at one of     *)
(* its steps.  Whoever gets no answer starts another daemon.                *)
EXTENDS Naturals, FiniteSets

CONSTANTS Pids,       \* process numbers, which the system reuses
          Stoppers,   \* runs of `radar stop` and `radar restart`
          None,       \* no file
          Empty,      \* a pid file that holds no number
          MaxStarting, \* bound: daemons that start at once, until that has gone wrong
          MaxMishaps  \* bound: daemons that end by themselves, or start with the pid of the last

ASSUME ProcessAssumption ==
    /\ None # Empty /\ {None, Empty} \cap Pids = {}
    /\ MaxMishaps \in Nat /\ MaxStarting \in Nat

VARIABLES pc,      \* what each process is, or which step it comes to
          pidFile, \* None, Empty or the number in radar.pid
          sock,    \* None or the process that bound radar.sock, dead or alive
          stop,    \* the stoppers: step and pid to stop
          hasProc, \* is there a /proc to read command lines from?
          mishaps, \* how many so far
          raced,   \* history: two starts have overlapped between check and pid file
          owed     \* history: daemons the pid file stood for when a stop began
vars == <<pc, pidFile, sock, stop, hasProc, mishaps, raced, owed>>

Steps == {"new", "clear", "empty", "named", "unlinked", "serving"}
At(steps) == {p \in Pids : pc[p] \in steps}
Running(p) == pc[p] # "free"
\* A process that ends has an empty command line, which counts as a daemon.
\* mutant
IsServing(p) == pc[p] \in {"serving", "dying"}
IsDaemon(p) == pc[p] \in Steps \cup {"dying"} \/ (~hasProc /\ Running(p))
DaemonPIDs == {p \in Pids : p = pidFile /\ Running(p) /\ IsDaemon(p)}

TypeOK ==
    /\ pc \in [Pids -> Steps \cup {"free", "other", "dying"}]
    /\ pidFile \in Pids \cup {None, Empty}
    /\ sock \in Pids \cup {None}
    /\ stop \in [Stoppers -> [at : {"idle", "return", "done"}, pid : Pids \cup {None}]
                               \cup [at : {"term", "poll"}, pid : Pids]]
    /\ hasProc \in BOOLEAN /\ raced \in BOOLEAN
    /\ mishaps \in 0..MaxMishaps
    /\ owed \in [Stoppers -> SUBSET Pids]

Init ==
    /\ pc = [p \in Pids |-> "free"]
    /\ pidFile = None /\ sock = None
    /\ stop = [s \in Stoppers |-> [at |-> "idle", pid |-> None]]
    /\ hasProc \in BOOLEAN
    /\ mishaps = 0 /\ raced = FALSE
    /\ owed = [s \in Stoppers |-> {}]

----------------------------------------------------------------------------
(* A daemon starts.                                                         *)
Goto(p, step) == pc' = [pc EXCEPT ![p] = step]
\* A dead process leaves the pid file and the socket behind: fatal is os.Exit,
\* which runs no deferred call, and SIGTERM has no handler.
Ends(p) ==
    /\ Goto(p, "free")
    /\ owed' = [s \in Stoppers |-> owed[s] \ {p}]

\* start_daemon of the plugin, `radar daemon`, startDetached.
Starting == {"new", "clear", "empty", "named", "unlinked"}
Launch(p) ==
    /\ pc[p] = "free"
    /\ Cardinality(At(Starting)) < IF raced THEN 1 ELSE MaxStarting
    /\ p = pidFile => mishaps < MaxMishaps
    /\ mishaps' = IF p = pidFile THEN mishaps + 1 ELSE mishaps
    /\ Goto(p, "new")
Start(p) ==
    /\ Launch(p)
    /\ UNCHANGED <<pidFile, sock, stop, hasProc, raced, owed>>

\* A pid file that cannot be read as a number does not keep a daemon from starting.
Check(p) ==
    /\ pc[p] = "new" /\ DaemonPIDs = {}
    /\ Goto(p, "clear")
    /\ raced' = (raced \/ At({"clear", "empty"}) # {})
    /\ UNCHANGED <<pidFile, sock, stop, hasProc, mishaps, owed>>
\* mutant
AlreadyRunningCleans(p) ==
    /\ pc[p] = "new" /\ DaemonPIDs # {}
    /\ Ends(p)
    /\ pidFile' = None
    /\ UNCHANGED <<sock, stop, hasProc, mishaps, raced>>
AlreadyRunning(p) ==
    /\ pc[p] = "new" /\ DaemonPIDs # {}
    /\ Ends(p)
    /\ UNCHANGED <<pidFile, sock, stop, hasProc, mishaps, raced>>

\* os.WriteFile truncates, then writes.  A number written over another one that is
\* longer makes a third.
TruncatePID(p) ==
    /\ pc[p] = "clear"
    /\ Goto(p, "empty")
    /\ pidFile' = Empty
    /\ UNCHANGED <<sock, stop, hasProc, mishaps, raced, owed>>
Overwritten(p) == IF pidFile = Empty THEN {p} ELSE Pids
WritePID(p) ==
    /\ pc[p] = "empty"
    /\ Goto(p, "named")
    /\ pidFile' \in Overwritten(p)
    /\ UNCHANGED <<sock, stop, hasProc, mishaps, raced, owed>>

\* mutant
UnlinkNot(p) ==
    /\ pc[p] = "named"
    /\ Goto(p, "unlinked")
    /\ UNCHANGED <<pidFile, sock, stop, hasProc, mishaps, raced, owed>>
Unlink(p) ==
    /\ pc[p] = "named"
    /\ Goto(p, "unlinked")
    /\ sock' = None
    /\ UNCHANGED <<pidFile, stop, hasProc, mishaps, raced, owed>>
Listen(p) ==
    /\ pc[p] = "unlinked" /\ sock = None
    /\ Goto(p, "serving")
    /\ sock' = p
    /\ UNCHANGED <<pidFile, stop, hasProc, mishaps, raced, owed>>
AddressInUse(p) ==
    /\ pc[p] = "unlinked" /\ sock # None
    /\ Ends(p)
    /\ UNCHANGED <<pidFile, sock, stop, hasProc, mishaps, raced>>

\* A daemon fails at its start or later, or is killed.
Crash(p) ==
    /\ pc[p] \in Steps /\ mishaps < MaxMishaps
    /\ Ends(p)
    /\ mishaps' = mishaps + 1
    /\ UNCHANGED <<pidFile, sock, stop, hasProc, raced>>
\* Closing the listener removes the path, whoever has bound it since.
AcceptFails(p) ==
    /\ pc[p] = "serving" /\ mishaps < MaxMishaps
    /\ Ends(p)
    /\ sock' = None
    /\ mishaps' = mishaps + 1
    /\ UNCHANGED <<pidFile, stop, hasProc, raced>>

----------------------------------------------------------------------------
(* A daemon is stopped.                                                     *)
Stopper(s, step, p) == stop' = [stop EXCEPT ![s] = [at |-> step, pid |-> p]]
\* mutant
BeginStopUnchecked(s) ==
    /\ stop[s].at = "idle"
    /\ Stopper(s, "term", pidFile)
    /\ owed' = [owed EXCEPT ![s] = At({"named", "unlinked", "serving"})]
    /\ UNCHANGED <<pc, pidFile, sock, hasProc, mishaps, raced>>
BeginStop(s) ==
    /\ stop[s].at = "idle"
    /\ \/ DaemonPIDs = {} /\ Stopper(s, "return", None)
       \/ \E p \in DaemonPIDs : Stopper(s, "term", p)
    /\ owed' = [owed EXCEPT ![s] = At({"named", "unlinked", "serving"})]
    /\ UNCHANGED <<pc, pidFile, sock, hasProc, mishaps, raced>>

\* A signal ends a daemon, and whatever else has its number by now.
\* mutant
SignalledUnheard(p) ==
    IF Running(p) /\ pc[p] # "serving" THEN Goto(p, "dying") ELSE UNCHANGED pc
Signalled(p) == IF Running(p) THEN Goto(p, "dying") ELSE UNCHANGED pc
Terminate(s) ==
    /\ stop[s].at = "term"
    /\ Signalled(stop[s].pid)
    /\ Stopper(s, IF Running(stop[s].pid) THEN "poll" ELSE "return", stop[s].pid)
    /\ UNCHANGED <<pidFile, sock, hasProc, mishaps, raced, owed>>
\* Twenty polls; then Kill, and nobody waits for its effect.
Gone(s) ==
    /\ stop[s].at = "poll" /\ ~Running(stop[s].pid)
    /\ Stopper(s, "return", stop[s].pid)
    /\ UNCHANGED <<pc, pidFile, sock, hasProc, mishaps, raced, owed>>
Kill(s) ==
    /\ stop[s].at = "poll" /\ Running(stop[s].pid)
    /\ Signalled(stop[s].pid)
    /\ Stopper(s, "return", stop[s].pid)
    /\ UNCHANGED <<pidFile, sock, hasProc, mishaps, raced, owed>>
\* restart ignores what Stop returns and starts a daemon.
Return(s) ==
    /\ stop[s].at = "return"
    /\ \/ UNCHANGED <<pc, mishaps>>
       \/ \E p \in Pids : Launch(p)
    /\ Stopper(s, "done", stop[s].pid)
    /\ UNCHANGED <<pidFile, sock, hasProc, raced, owed>>

Die(p) ==
    /\ pc[p] = "dying"
    /\ Ends(p)
    /\ UNCHANGED <<pidFile, sock, stop, hasProc, mishaps, raced>>
\* One other program at a time takes a number that the pid file or a stopper holds;
\* it would not matter elsewhere.
OtherStarts(p) ==
    /\ pc[p] = "free" /\ At({"other"}) = {}
    /\ p = pidFile \/ \E s \in Stoppers : p = stop[s].pid
    /\ Goto(p, "other")
    /\ UNCHANGED <<pidFile, sock, stop, hasProc, mishaps, raced, owed>>
OtherEnds(p) ==
    /\ pc[p] = "other"
    /\ Goto(p, "free")
    /\ UNCHANGED <<pidFile, sock, stop, hasProc, mishaps, raced, owed>>

Progress(p) ==
    \/ Check(p) \/ AlreadyRunning(p)
    \/ TruncatePID(p) \/ WritePID(p)
    \/ Unlink(p) \/ Listen(p) \/ AddressInUse(p)
    \/ Die(p)
StopStep(s) == BeginStop(s) \/ Terminate(s) \/ Gone(s) \/ Kill(s) \/ Return(s)
Next ==
    \/ \E p \in Pids : \/ Start(p) \/ Progress(p)
                       \/ Crash(p) \/ AcceptFails(p)
                       \/ OtherStarts(p) \/ OtherEnds(p)
    \/ \E s \in Stoppers : StopStep(s)
Spec == Init /\ [][Next]_vars

\* Can a client connect?  It starts a daemon if it cannot, again and again.
Served == sock \in At({"serving"})
Retry == ~Served /\ \E p \in Pids : Start(p)
\* The numbers are few here only: one that nobody refers to becomes free again.
Vacate(p) == p # pidFile /\ OtherEnds(p)
FairSpec ==
    /\ Spec
    /\ \A p \in Pids : WF_vars(Progress(p)) /\ WF_vars(Vacate(p))
    /\ SF_vars(Retry)

----------------------------------------------------------------------------
Started == {"clear", "empty", "named", "unlinked", "serving"}
(* Unless two starts have overlapped between looking at the pid file and    *)
(* writing it, at most one daemon has passed runDaemon's check.             *)
OneDaemon == raced \/ \A p, q \in At(Started) : p = q

(* Unless starts have overlapped, a daemon that serves is the one the pid   *)
(* file names and the one that clients reach: stop and ack go to the same.  *)
ServingIsNamed == raced \/ \A p \in At({"serving"}) : pidFile = p /\ sock = p

(* Unless starts have overlapped, a stop that has returned leaves none of   *)
(* the daemons running that had their pid written when it began.            *)
StopReachesAll ==
    \A s \in Stoppers : stop[s].at \in {"return", "done"} => raced \/ owed[s] \subseteq At({"dying"})

\* After a race: a daemon that the pid file names and that has lost the socket to one
\* that is gone.  Or a number that is another program's now, and no /proc to tell.
Deaf == raced /\ \E p \in At({"serving"}) : p = pidFile /\ sock # p
Mistaken == ~hasProc /\ pidFile \in At({"other"})
(* Clients that start a daemon whenever they get no answer get one in the   *)
(* end, unless a start race has left a daemon without a socket, or its pid  *)
(* has gone to another program where there is no /proc.                     *)
ServedOrBlocked == []<>(Served \/ Deaf \/ Mistaken)
============================================================================
