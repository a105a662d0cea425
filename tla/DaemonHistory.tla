---------------------------- MODULE DaemonHistory ----------------------------
(***************************************************************************)
(* The daemon with a history variable: the tasks acknowledged after the    *)
(* collection under way had read the acknowledgements it will carry over.  *)
(***************************************************************************)
EXTENDS Daemon

VARIABLE late   \* acknowledged too late for the collection under way

\* A collection has read the acknowledgements and not yet installed its tasks.
Committed == \E p \in Procs : pc[p] = "collect"

HInit == Init /\ late = {}

Acked(p) == arg[p] \cap items

HNext ==
    \/ \E p \in Procs :
          /\ Acknowledge(p)
          /\ late' = late \cup (IF Committed THEN Acked(p) ELSE {})
    \/ (\E p \in Procs : Install(p)) /\ late' = {}
    \/ Crash /\ late' = {}
    \/ /\ \/ Tick \/ Elapse \/ Boot
          \/ \E h \in Handlers : Receive(h)
          \/ \E p \in Procs :
                \/ Acquire(p) \/ TakePrevious(p) \/ Remove(p) \/ Clear(p)
                \/ ReadActivity(p) \/ SetSources(p) \/ Release(p)
                \/ Save(p) \/ AckLock(p) \/ View(p) \/ Encode(p)
       /\ UNCHANGED late

HSpec == HInit /\ [][HNext]_<<vars, late>>

\* Every acknowledged task that outlives a step of the daemon is still
\* acknowledged after it, unless the acknowledgement came between the moment
\* the collection read the old ones and the moment it installed the new list.
\* Acknowledging between the copy of the previous tasks and that reading is
\* safe, only because the copy is shallow.  (previous := store.Tasks() in
\* refresher, activityStateFromPrevious, setActivityMetadata.)
OnlyLateAcksAreLost ==
    [][ \A r \in acks \cap items \cap items' :
            r \in acks' \/ r \in late ]_<<vars, late>>
=============================================================================
