---------------------------- MODULE ReleaseCache ----------------------------
(***************************************************************************)
(* What a launcher asks of GitHub: the release list, shared by every       *)
(* caller behind one lock and revalidated by ETag, the assets of a         *)
(* release, and the back-off that every answer feeds.  The snapshot and    *)
(* the back-off outlive the process in releases-cache.json and             *)
(* ratelimits.json.                                                        *)
(*                                                                         *)
(* The list is at most two pages, a page its number of changes; GitHub's   *)
(* ETag is that of the first page.                                         *)
(***************************************************************************)
EXTENDS Naturals

CONSTANTS
    Apps,          \* launcher processes
    Tasks,         \* what a process may have under way at once
    TTL,           \* MEM_TTL_SECS, in ticks
    Window, Pad, Fallback,  \* ticks to GitHub's reset; PAD_SECS; FALLBACK_SECS
    MaxTime, MaxChanges, MaxCalls, MaxTroubles   \* bounds

VARIABLES
    now,
    repo,       \* GitHub's list: <<page 1, page 2>>; a second page of 0 is none
    blocked,    \* ratelimits.json's blocked_until
    disk,       \* releases-cache.json
    memory,     \* each process's CacheState
    call,       \* each task of each process
    calls, troubles,  \* bounds used up
    outdated   \* history: a caller that wants the list revalidated was given a page
               \* older than it was when the call was made

None == 0
NoSnapshot == [list |-> <<None, None>>, etag |-> None, at |-> None]
Unloaded == [loaded |-> FALSE, snap |-> NoSnapshot]
Purposes == {"cached", "revalidate", "asset"}
NoCall == [at |-> "idle", for |-> "cached", since |-> <<None, None>>, list |-> <<None, None>>,
           etag |-> None, time |-> None, seen |-> None, low |-> FALSE, status |-> "ok"]

Is(p, t, at) == call[p][t].at = at
Becomes(p, t, c) == call' = [call EXCEPT ![p][t] = c]
Trouble == troubles < MaxTroubles /\ troubles' = troubles + 1

\* The steps a list call makes under the cache's lock.
Locked == {"asks", "reads", "writes", "stores"}
IsList(c) == c.for # "asset"
LockFree(p) == \A t \in Tasks : ~(IsList(call[p][t]) /\ call[p][t].at \in Locked)

-----------------------------------------------------------------------------
(* GitHub *)

\* A release is published: the first page changes, and may push one to the second.
Publish ==
    /\ repo[1] < MaxChanges /\ repo[2] < MaxChanges
    /\ \E spills \in BOOLEAN :
          repo' = <<repo[1] + 1, IF spills \/ repo[2] # None THEN repo[2] + 1 ELSE None>>
    /\ UNCHANGED <<now, blocked, disk, memory, call, calls, troubles, outdated>>

\* An old release is edited or deleted.
EditOld ==
    /\ repo[2] # None
    /\ repo[2] < MaxChanges
    /\ repo' = <<repo[1], repo[2] + 1>>
    /\ UNCHANGED <<now, blocked, disk, memory, call, calls, troubles, outdated>>

Tick ==
    /\ now < MaxTime
    /\ now' = now + 1
    /\ UNCHANGED <<repo, blocked, disk, memory, call, calls, troubles, outdated>>

-----------------------------------------------------------------------------
(* A call *)

\* for: the boot fan-out and the install prompt take what is cached, a manual check and
\* whatever precedes a download revalidate, a download asks for an asset.
Calls(p, t, for) ==
    /\ Is(p, t, "idle")
    /\ calls < MaxCalls /\ calls' = calls + 1
    /\ Becomes(p, t, [NoCall EXCEPT !.at = "waits", !.for = for,
                                    !.since = IF for = "revalidate" THEN repo ELSE @])
    /\ UNCHANGED <<now, repo, blocked, disk, memory, troubles, outdated>>

\* A call ends: with a list, or without one.
Returns(p, t, list) ==
    /\ Becomes(p, t, NoCall)
    /\ outdated' = (outdated \/ \E i \in 1 .. 2 : list[i] < call[p][t].since[i])

Fails(p, t) == Becomes(p, t, NoCall) /\ UNCHANGED outdated

\* should_serve_stale: only a caller that takes what is cached is served a stale list
\* for a failure.
Failed(p, t, snap) ==
    IF call[p][t].for = "cached" /\ snap # NoSnapshot
    THEN Returns(p, t, snap.list) ELSE Fails(p, t)

\* The gate, a local read: nothing is sent through a closed one.
Gated == now < blocked

ServesFromMemory(c, snap) == c.for = "cached" /\ snap # NoSnapshot /\ now < snap.at + TTL

\* The file is read on first use.
SnapshotOf(p) == IF memory[p].loaded THEN memory[p].snap ELSE disk

\* The lock, the snapshot if it is young enough, and else the gate.
Takes(p, t) ==
    /\ Is(p, t, "waits") /\ IsList(call[p][t]) /\ LockFree(p)
    /\ LET snap == SnapshotOf(p)
       IN /\ memory' = [memory EXCEPT ![p] = [loaded |-> TRUE, snap |-> snap]]
          /\ IF ServesFromMemory(call[p][t], snap) THEN Returns(p, t, snap.list)
             ELSE IF Gated THEN Failed(p, t, snap)
             ELSE /\ Becomes(p, t, [call[p][t] EXCEPT !.at = "asks", !.etag = snap.etag,
                                                      !.time = now])
                  /\ UNCHANGED outdated
    /\ UNCHANGED <<now, repo, blocked, disk, calls, troubles>>

\* A download asks the same gate, without the lock.
PassesGate(p, t) ==
    /\ Is(p, t, "waits") /\ ~IsList(call[p][t])
    /\ Becomes(p, t, IF Gated THEN NoCall ELSE [call[p][t] EXCEPT !.at = "asks"])
    /\ UNCHANGED <<now, repo, blocked, disk, memory, calls, troubles, outdated>>

ComputeBlockedUntil(reset) == IF reset = None THEN now + Fallback ELSE reset + Pad

NoteRateLimited(reset) == blocked' = ComputeBlockedUntil(reset)

\* A confirmed 403 or 429, with GitHub's reset or without.
AnswersLimited(p, t) ==
    /\ Is(p, t, "asks") /\ Trouble
    /\ \E reset \in {None, now + Window} : NoteRateLimited(reset)
    /\ Failed(p, t, memory[p].snap)
    /\ UNCHANGED <<now, repo, disk, memory, calls>>

\* No answer at all: no cooldown.
AnswersNothing(p, t) ==
    /\ Is(p, t, "asks") /\ Trouble
    /\ Failed(p, t, memory[p].snap)
    /\ UNCHANGED <<now, repo, blocked, disk, memory, calls>>

AnswersAsset(p, t) ==
    /\ Is(p, t, "asks") /\ ~IsList(call[p][t])
    /\ Becomes(p, t, NoCall)
    /\ UNCHANGED <<now, repo, blocked, disk, memory, calls, troubles, outdated>>

\* Faulty: the first page's validator is kept for the joined list.
AnswerKeepsTag(c) ==
    IF c.list[1] # None THEN [c EXCEPT !.list = <<@[1], repo[2]>>, !.status = "whole"]
    ELSE IF c.etag = repo[1] THEN [c EXCEPT !.status = "unchanged"]
    ELSE [c EXCEPT !.list = <<repo[1], None>>,
                   !.status = IF repo[2] = None THEN "whole" ELSE "more",
                   !.etag = repo[1]]

\* The page asked for, as it is now: the first one conditionally, by an ETag kept of a
\* list that was one page.
Answer(c) ==
    IF c.list[1] # None THEN [c EXCEPT !.list = <<@[1], repo[2]>>, !.status = "whole"]
    ELSE IF c.etag = repo[1] THEN [c EXCEPT !.status = "unchanged"]
    ELSE [c EXCEPT !.list = <<repo[1], None>>,
                   !.status = IF repo[2] = None THEN "whole" ELSE "more",
                   !.etag = IF repo[2] = None THEN repo[1] ELSE None]

\* Every answer is inspected for the budget that is left; an HTTP error, too.
AnswersList(p, t) ==
    /\ Is(p, t, "asks") /\ IsList(call[p][t])
    /\ \/ /\ Becomes(p, t, [Answer(call[p][t]) EXCEPT !.at = "reads", !.low = FALSE])
          /\ UNCHANGED troubles
       \/ /\ Trouble
          /\ \/ Becomes(p, t, [Answer(call[p][t]) EXCEPT !.at = "reads", !.low = TRUE])
             \/ Becomes(p, t, [call[p][t] EXCEPT !.at = "reads", !.low = FALSE,
                                                 !.status = "error"])
    /\ UNCHANGED <<now, repo, blocked, disk, memory, calls, outdated>>

\* note_response reads the block,
NotesReads(p, t) ==
    /\ Is(p, t, "reads")
    /\ Becomes(p, t, [call[p][t] EXCEPT !.at = "writes", !.seen = blocked])
    /\ UNCHANGED <<now, repo, blocked, disk, memory, calls, troubles, outdated>>

\* Faulty: a healthy answer lifts the block.
ResolveBlockedUntilAnyway(low, seen) ==
    IF low THEN ComputeBlockedUntil(now + Window) ELSE None

\* An active block is kept, an expired one dropped; a low budget arms one.
ResolveBlockedUntil(low, seen) ==
    IF low THEN ComputeBlockedUntil(now + Window) ELSE IF now < seen THEN seen ELSE None

\* and writes it back.
NotesWrites(p, t) ==
    /\ Is(p, t, "writes")
    /\ blocked' = ResolveBlockedUntil(call[p][t].low, call[p][t].seen)
    /\ LET c == call[p][t]
       IN IF c.status = "error" THEN Failed(p, t, memory[p].snap)
          ELSE /\ Becomes(p, t, [c EXCEPT !.at = IF c.status = "more" THEN "asks" ELSE "stores"])
               /\ UNCHANGED outdated
    /\ UNCHANGED <<now, repo, disk, memory, calls, troubles>>

\* The file takes the snapshot, unless writing it fails.
Persist(snap) ==
    \/ disk' = snap /\ UNCHANGED troubles
    \/ Trouble /\ UNCHANGED disk

\* A 304 only makes the snapshot in memory young again; a new list replaces it.
Stores(p, t) ==
    /\ Is(p, t, "stores")
    /\ LET c == call[p][t]
           unchanged == c.status = "unchanged"
           snap == IF unchanged THEN [memory[p].snap EXCEPT !.at = c.time]
                   ELSE [list |-> c.list, etag |-> c.etag, at |-> c.time]
       IN /\ memory' = [memory EXCEPT ![p].snap = snap]
          /\ IF unchanged THEN UNCHANGED <<disk, troubles>> ELSE Persist(snap)
          /\ Returns(p, t, snap.list)
    /\ UNCHANGED <<now, repo, blocked, calls>>

\* The process ends with what it had under way; its files stay.
Forgets(p) ==
    /\ memory' = [memory EXCEPT ![p] = Unloaded]
    /\ call' = [call EXCEPT ![p] = [t \in Tasks |-> NoCall]]
    /\ UNCHANGED <<now, repo, blocked, disk, calls, troubles, outdated>>

-----------------------------------------------------------------------------
CacheInit ==
    /\ now = 1 /\ repo = <<1, None>> /\ blocked = None /\ disk = NoSnapshot
    /\ memory = [p \in Apps |-> Unloaded]
    /\ call = [p \in Apps |-> [t \in Tasks |-> NoCall]]
    /\ calls = 0 /\ troubles = 0 /\ outdated = FALSE

GitHubStep == Publish \/ EditOld \/ Tick

CallStep(p) == \E t \in Tasks :
    \/ \E for \in Purposes : Calls(p, t, for)
    \/ Takes(p, t) \/ PassesGate(p, t)
    \/ AnswersLimited(p, t) \/ AnswersNothing(p, t) \/ AnswersAsset(p, t) \/ AnswersList(p, t)
    \/ NotesReads(p, t) \/ NotesWrites(p, t) \/ Stores(p, t)

=============================================================================
