---------------------------- MODULE InstanceSlot ----------------------------
(***************************************************************************)
(* The launcher's single-instance slot: processes that start, concede, run *)
(* and end over one discovery file, with no coordinator.  Every process    *)
(* binds a listener of its own first, so a port is the process that bound  *)
(* it; a port the system gave to somebody else answers no banner, like the *)
(* port of a process that has ended.  The relaunch after a self-update     *)
(* starts a successor while its parent still runs.                         *)
(***************************************************************************)
EXTENDS Naturals

CONSTANTS
    Procs,       \* launcher processes, each started once
    Attempts,    \* ACQUIRE_ATTEMPTS
    MaxMishaps   \* bound: failed calls, late answers and crashes

VARIABLES
    slot,      \* launcher_instance.json: absent, claimed and still blank, or its port
    proc,      \* each process's way through acquire_in, then its life
    mishaps,   \* bound used up
    raced      \* history: a starter removed a claim it had not judged, or judged one
               \* whose owner did not get to answer in time

Absent == [is |-> "absent"]
Blank(p) == [is |-> "blank", by |-> p]
Port(p) == [is |-> "port", by |-> p]

\* tries of acquire_in so far; the claim a process has judged; the parent of a relaunch.
Fresh == [at |-> "unborn", tries |-> 0, judged |-> Absent, parent |-> FALSE, owns |-> FALSE]

Is(p, at) == proc[p].at = at
Moves(p, at) == proc' = [proc EXCEPT ![p].at = at]
Mishap == mishaps < MaxMishaps /\ mishaps' = mishaps + 1

Running == {p \in Procs : Is(p, "live")}
Owners == {p \in Running : proc[p].owns}

-----------------------------------------------------------------------------
\* The user starts a launcher; its loopback listener is bound before anything else,
\* or the slot is given up.
Starts(p) ==
    /\ Is(p, "unborn")
    /\ \/ Moves(p, "claims") /\ UNCHANGED mishaps
       \/ Moves(p, "live") /\ Mishap
    /\ UNCHANGED <<slot, raced>>

\* spawn_replacement: the updated launcher starts the new one, then exits.
Relaunches(p, q) ==
    /\ Is(p, "live") /\ Is(q, "unborn")
    /\ proc' = [proc EXCEPT ![p].at = "exits",
                            ![q] = [Fresh EXCEPT !.at = "claims", !.parent = TRUE]]
    /\ UNCHANGED <<slot, mishaps, raced>>

\* process::exit runs no destructor: the file stays behind, the listener is gone.
ParentExits(p) ==
    /\ Is(p, "exits")
    /\ Moves(p, "gone")
    /\ UNCHANGED <<slot, mishaps, raced>>

\* create_new, atomic.
Claims(p) ==
    /\ Is(p, "claims") /\ proc[p].tries < Attempts
    /\ IF slot = Absent
       THEN slot' = Blank(p) /\ Moves(p, "writes")
       ELSE Moves(p, "reads") /\ UNCHANGED slot
    /\ UNCHANGED <<mishaps, raced>>

\* Attempts exhausted, or an error that says nothing: run without a claim.
ClaimFails(p) ==
    /\ Is(p, "claims")
    /\ IF proc[p].tries < Attempts THEN Mishap ELSE UNCHANGED mishaps
    /\ Moves(p, "live")
    /\ UNCHANGED <<slot, raced>>

\* The file this process created may be another's by now; so may the one it removes.
Writes(p) ==
    /\ Is(p, "writes")
    /\ \/ /\ slot' = IF slot = Blank(p) THEN Port(p) ELSE slot
          /\ proc' = [proc EXCEPT ![p].at = "live", ![p].owns = TRUE]
          /\ UNCHANGED <<mishaps, raced>>
       \/ /\ Mishap
          /\ slot' = Absent
          /\ raced' = (raced \/ slot \notin {Absent, Blank(p)})
          /\ Moves(p, "live")

\* Faulty: a file without a port is stale at once.
ReadsOnce(p) ==
    /\ Is(p, "reads")
    /\ proc' = [proc EXCEPT ![p].at = IF slot.is = "port" THEN "probes" ELSE "removes",
                            ![p].judged = slot]
    /\ UNCHANGED <<slot, mishaps, raced>>

\* read_port_with_retry: a blank file's owner is about to write it, or ended before.
Reads(p) ==
    /\ Is(p, "reads")
    /\ IF slot.is = "blank" /\ Is(slot.by, "writes")
       THEN Mishap /\ raced' = TRUE
       ELSE UNCHANGED <<mishaps, raced>>
    /\ proc' = [proc EXCEPT ![p].at = IF slot.is = "port" THEN "probes" ELSE "removes",
                            ![p].judged = slot]
    /\ UNCHANGED slot

\* The accept loop of q answers every connection with the banner.
Answers(q) == q \in {r \in Procs : (Is(r, "live") \/ Is(r, "exits")) /\ proc[r].owns}

\* connect_banner_matches_sync; the answer may come later than PROBE_TIMEOUT.
Probes(p) ==
    /\ Is(p, "probes")
    /\ \/ /\ Moves(p, IF Answers(proc[p].judged.by) THEN "duplicate" ELSE "removes")
          /\ UNCHANGED <<mishaps, raced>>
       \/ /\ Answers(proc[p].judged.by) /\ Mishap
          /\ Moves(p, "removes")
          /\ raced' = TRUE
    /\ UNCHANGED slot

\* remove_stale takes the path, not the file it judged.
RemovesStale(p) ==
    /\ Is(p, "removes")
    /\ slot' = Absent
    /\ raced' = (raced \/ slot \notin {Absent, proc[p].judged})
    /\ proc' = [proc EXCEPT ![p].at = "claims", ![p].tries = @ + 1, ![p].judged = Absent]
    /\ UNCHANGED mishaps

\* A duplicate exits; a successor comes back with a new listener until its deadline,
\* which its parent does not live to see.
Concedes(p) ==
    /\ Is(p, "duplicate")
    /\ proc[p].parent => \A q \in Procs : ~Is(q, "exits")
    /\ Moves(p, "gone")
    /\ UNCHANGED <<slot, mishaps, raced>>

TriesAgain(p) ==
    /\ Is(p, "duplicate") /\ proc[p].parent
    /\ proc' = [proc EXCEPT ![p] = [Fresh EXCEPT !.at = "claims", !.parent = TRUE]]
    /\ UNCHANGED <<slot, mishaps, raced>>

\* The guard's drop removes the path it claimed, whosever file is there.
Quits(p) ==
    /\ Is(p, "live")
    /\ Moves(p, "gone")
    /\ slot' = IF proc[p].owns THEN Absent ELSE slot
    /\ UNCHANGED <<mishaps, raced>>

Dies(p) ==
    /\ proc[p].at \notin {"unborn", "gone"}
    /\ Mishap
    /\ Moves(p, "gone")
    /\ UNCHANGED <<slot, raced>>

-----------------------------------------------------------------------------
\* The last launcher of an earlier session crashed and left its file, or none did.
SlotInit ==
    /\ proc = [p \in Procs |-> Fresh]
    /\ slot \in {Absent, [is |-> "port", by |-> "stranger"]}
    /\ mishaps = 0 /\ raced = FALSE

Acquiring(p) ==
    \/ Starts(p) \/ Claims(p) \/ ClaimFails(p) \/ Writes(p) \/ Reads(p) \/ Probes(p)
    \/ RemovesStale(p) \/ Concedes(p) \/ TriesAgain(p) \/ ParentExits(p)

Ending(p) == Quits(p) \/ Dies(p) \/ \E q \in Procs : Relaunches(p, q)

=============================================================================
