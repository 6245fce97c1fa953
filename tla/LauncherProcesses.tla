------------------------- MODULE LauncherProcesses -------------------------
(***************************************************************************)
(* Launcher processes over the files they share: InstanceSlot decides      *)
(* which of them run, a running one makes the calls of ReleaseCache, and   *)
(* the next one starts from what it left on disk.                          *)
(***************************************************************************)
EXTENDS Naturals

CONSTANTS
    Procs, Attempts, MaxMishaps,
    Tasks, TTL, Window, Pad, Fallback, MaxTime, MaxChanges, MaxCalls

\* Whoever left the file of an earlier session is none of these processes.
ASSUME SlotAssumption ==
    Attempts \in Nat \ {0} /\ MaxMishaps \in Nat /\ "stranger" \notin Procs
ASSUME CacheAssumption ==
    /\ {TTL, Window, Pad, Fallback, MaxTime, MaxChanges, MaxCalls} \subseteq Nat
    /\ Window + Pad > 0 /\ Fallback > 0

VARIABLES slot, proc, mishaps, raced,
          now, repo, blocked, disk, memory, call, calls, troubles, outdated

Slot == INSTANCE InstanceSlot
Cache == INSTANCE ReleaseCache WITH Apps <- Procs, MaxTroubles <- MaxMishaps

slotVars == <<slot, proc, mishaps, raced>>
cacheVars == <<now, repo, blocked, disk, memory, call, calls, troubles, outdated>>
vars == <<slotVars, cacheVars>>

Init == Slot!SlotInit /\ Cache!CacheInit

Acquiring == (\E p \in Procs : Slot!Acquiring(p)) /\ UNCHANGED cacheVars

\* A relaunching parent ends a moment later; its calls end with it.
Ending == \E p \in Procs : Slot!Ending(p) /\ Cache!Forgets(p)

Calling == (\E p \in Slot!Running : Cache!CallStep(p)) /\ UNCHANGED slotVars

GitHub == Cache!GitHubStep /\ UNCHANGED slotVars

\* Bound: MaxMishaps counts what fails on both sides.
Next ==
    /\ Acquiring \/ Ending \/ Calling \/ GitHub
    /\ mishaps' + troubles' <= MaxMishaps

Spec == Init /\ [][Next]_vars

-----------------------------------------------------------------------------
(* Properties *)

\* At most one launcher runs with a claim to the slot, however starts, crashes, quits
\* and relaunches interleave, unless a starter removed a claim it had not judged or one
\* whose owner did not answer in time (acquire_in).
OneClaim == raced \/ \A p, q \in Slot!Owners : p = q

\* "A 304 proves the whole cached list is unchanged": whoever asked for a revalidated
\* list and got one holds no page older than it was when they asked, whichever process
\* stored the snapshot that vouched for it (fetch_releases).
RevalidatedIsCurrent == ~outdated

\* Only time opens a closed gate: no answer, early or late, of this process or another,
\* lifts a block that has not run out, but for one written by a task that had read the
\* block before it was set (note_response).
OnlyTimeReopens ==
    [][now < blocked /\ now' >= blocked' =>
          \/ now' # now
          \/ \E p \in Procs, t \in Tasks :
                call[p][t].at = "writes" /\ call[p][t].seen # blocked]_vars

=============================================================================
