----------------------------- MODULE DurableTasks -----------------------------
(***************************************************************************)
(* What the daemon's store promises to somebody who sees only its memory   *)
(* and its file.  While it is sure: the file is one complete copy of a     *)
(* task list that was in memory, it is at most one change behind, and a    *)
(* reset deletes it before it forgets the tasks in memory.  Saves that     *)
(* meet or fail can end that at any moment; one that succeeds alone makes  *)
(* it so again.  Always: a daemon that starts resumes from the file, and   *)
(* is sure.                                                                *)
(***************************************************************************)
CONSTANTS
    Contents,   \* the task lists
    Blank,      \* the empty list
    Absent      \* there is no file

VARIABLES
    running,    \* is there a daemon?
    mem,        \* the list in memory
    disk,       \* the file: a list, Absent, or what nobody can read
    sure        \* neither a meeting nor a failure of saves is to be made up for

Stored == IF disk \in Contents THEN disk ELSE Blank

Init == running = FALSE /\ mem = Blank /\ disk = Absent /\ sure = TRUE

Surely == running /\ sure /\ UNCHANGED <<running, sure>>

\* A collection replaces the list, or an acknowledgement changes it, once the one
\* before it is on disk.
Change == Surely /\ mem = Stored /\ mem' \in Contents /\ UNCHANGED disk

Persist == Surely /\ disk' = mem /\ UNCHANGED mem

Delete == Surely /\ disk' = Absent /\ UNCHANGED mem

Forget == Surely /\ disk = Absent /\ mem' = Blank /\ UNCHANGED disk

\* Saves meet or fail, or something happens before that is made up for.
Disturb == running /\ running' /\ ~sure'

\* A save or a reset that is alone succeeds.
Restore ==
    /\ running /\ running'
    /\ ~sure /\ sure'
    /\ \/ disk' = mem /\ UNCHANGED mem
       \/ disk' = Absent /\ mem' = Blank

Stop == running /\ ~running' /\ mem' = Blank /\ UNCHANGED <<disk, sure>>

Start == ~running /\ running' /\ mem' = Stored /\ sure' /\ UNCHANGED disk

Next == Change \/ Persist \/ Delete \/ Forget \/ Disturb \/ Restore \/ Stop \/ Start

Spec == Init /\ [][Next]_<<running, mem, disk, sure>>
=============================================================================
