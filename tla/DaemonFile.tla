------------------------------ MODULE DaemonFile ------------------------------
(***************************************************************************)
(* The daemon and tasks.json.  Nothing keeps two Saves, or a Save and a    *)
(* Reset, from using the file at once: the saves of acknowledgements hold  *)
(* no mutex.  History variables say when that has happened, and when a     *)
(* Save has failed, so that what the file promises can be stated for every *)
(* request, crash and failure: it holds but for what these have caused,    *)
(* until the next Save or Reset that is alone and succeeds.                *)
(***************************************************************************)
EXTENDS Daemon

VARIABLES
    meeting,   \* two have used the file since it was last unused
    mixed,     \* two have, and nobody has written it alone since
    behind     \* two have, or a Save failed, and nobody has written it alone
               \* nor a daemon started with it since

fileVars == <<vars, meeting, mixed, behind>>

\* From the copy of Save to its return; from Reset's os.Remove to its lock.
Uses(p) == pc[p] \in Saving \cup {"clear"}
InUse == \E p \in Procs : Uses(p)
Meet == \E p, q \in Procs : p # q /\ Uses(p) /\ Uses(q)

\* os.Rename has replaced the file.
Renames(p) ==
    pc[p] = "rename" /\ pc'[p] \notin Saving /\ tmp # NoFile /\ tmp' = NoFile
Succeeds ==
    \E p \in Procs : Renames(p) \/ (pc[p] = "clear" /\ pc'[p] = "ingest")
Fails ==
    up' /\ \E p \in Procs : pc[p] \in Saving /\ pc'[p] \notin Saving /\ ~Renames(p)
Alone == ~meeting

FInit == Init /\ meeting = FALSE /\ mixed = FALSE /\ behind = FALSE

Recorded ==
    /\ meeting' = (Meet' \/ (meeting /\ InUse'))
    /\ mixed' = (meeting' \/ (mixed /\ ~(Succeeds /\ Alone)))
    /\ behind' = \/ meeting' \/ Fails
                 \/ behind /\ ~(Succeeds /\ Alone) /\ ~(up' /\ ~up)

FNext == Next /\ Recorded

FSpec == FInit /\ [][FNext]_fileVars

-----------------------------------------------------------------------------
(* Properties.                                                             *)

Memory == [tasks |-> items, acks |-> acks \cap items]

\* Unless two have used it at once, tasks.json is at every moment, and so after
\* a crash or a failure at any moment, absent or one complete snapshot; and it is
\* so again once somebody has written it alone.  (Save writes a temporary file
\* and renames it.)
DiskNeverTorn == ~mixed => path \notin {Empty, Torn}

\* When nobody uses the file, a restart would load exactly the tasks and the
\* acknowledgements in memory, unless two Saves have met or one has failed since
\* somebody last wrote the file alone.  (SetTasks and Acknowledge save before
\* they return; NewStore loads.)
QuietDiskCurrent == up /\ ~InUse /\ ~behind => Loaded = Memory

\* From the moment a reset has cleared the store until it installs the new
\* collection, the state it deleted is not back on disk, where a crash would
\* bring it back to life, unless a Save was under way when Reset removed the
\* file or cleared the store.  (Reset removes tasks.json first.)
ResetForgetsDisk ==
    \A p \in Procs :
        req[p] = "reset" /\ pc[p] \in {"ingest", "collect"} => mixed \/ path = NoFile

\* What the file promises, seen from outside: see DurableTasks.  It says more
\* than the others: the order of installing, acknowledging, saving, deleting and
\* forgetting, that a crash loses at most one collection or acknowledgement, and
\* what makes the promises hold again once they did not.  (SetTasks, Acknowledge,
\* Save, Reset and Load of Store.)
Durable == INSTANCE DurableTasks WITH
    running <- up,
    mem     <- Memory,
    disk    <- path,
    sure    <- ~behind,
    Blank   <- [tasks |-> {}, acks |-> {}],
    Absent  <- NoFile

DurableRefinement == Durable!Spec
=============================================================================
