------------------------------ MODULE ChatStore ------------------------------
(***************************************************************************)
(* Chat capture and moderation over Redis: transcripts of recycled session *)
(* codes, their retention and teardown, the ban list, and the audit log    *)
(* with its boot-time import.  A task of the server issues its Redis       *)
(* commands one at a time; what is sent as one transaction is one step.    *)
(*                                                                         *)
(* A line is its id, its sender and its kind; the flagged words, names and *)
(* texts are left out, and the meta and archive keys are one set.  Ids and *)
(* chat instances come from one counter, which INCR makes unique.          *)
(***************************************************************************)
EXTENDS Integers, FiniteSets, SequencesExt

CONSTANTS
    Codes, Players, Moderators,
    Closers,      \* tasks that end sessions: the room's sockets, DELETE /session
    Legacy,       \* the pre-0.34.0 lists: [Categories -> Seq({"good", "corrupt"})]
    MaxGen,       \* bound: sessions under one code
    MaxEvents     \* bound: messages, moderators' requests, Redis errors, expiries, crashes

Categories == {"player", "list"}

ASSUME ChatAssumption ==
    /\ IsFiniteSet(Players) /\ IsFiniteSet(Moderators) /\ IsFiniteSet(Closers)
    /\ Legacy \in [Categories -> Seq({"good", "corrupt"})]
    /\ {MaxGen, MaxEvents} \subseteq Nat

VARIABLES
    alive, gen,   \* session:{CODE} is there; the sessions the code has named
    live,         \* chat:live:{CODE}; 0 is no key
    issued,       \* chat:body:counter
    transcript,   \* chat:transcript:{sid}
    marks,        \* chat:deleted:{sid}, of every sid
    retained, flagged, archived,
    banned,       \* chat:banned
    records,      \* the audit records, oldest first
    cursor,       \* the import's cursors
    up,           \* both listeners are bound
    jobs,         \* the request under way of each actor
    events,       \* bound used up
    doomed,       \* history: transcripts a teardown found without evidence
    unrecorded    \* history: net bans of a player that no record tells of

sessions == <<alive, gen>>
chat == <<live, issued, transcript, marks, retained, flagged, archived>>
log == <<records, cursor>>
history == <<doomed, unrecorded>>
vars == <<sessions, chat, banned, log, up, jobs, events, history>>

None == 0
NoOne == "nobody"
Ids == 1 .. 2 * MaxEvents
Actors == Players \cup Moderators \cup Closers

Idle == [pc |-> "idle"]

\* A request: what it does, for which session, to or by whom; the line it adds, the
\* chat instance it resolved and the one its line goes to; its snapshot.
Job(act, pc, code, about) ==
    [act |-> act, pc |-> pc, code |-> code, about |-> about, line |-> None,
     sid |-> None, into |-> None, cut |-> 0, ticked |-> {}, bodies |-> {}]

At(a, pc) == jobs[a].pc = pc
Does(a, acts) == jobs[a].act \in acts
Done(a) == jobs' = [jobs EXCEPT ![a] = Idle]
Goes(a, pc) == jobs' = [jobs EXCEPT ![a].pc = pc]

Event == events < MaxEvents /\ events' = events + 1
Request(a) == up /\ At(a, "idle") /\ Event
Fault == Event

BodiesOf(lines) == {l.id : l \in Range(lines)}
Prefix(lines, n) == SubSeq(lines, 1, n)

-----------------------------------------------------------------------------
(* Sessions, as far as chat sees them *)

\* A host is given a code no session holds.
Host(c) ==
    /\ up /\ ~alive[c] /\ gen[c] < MaxGen
    /\ alive' = [alive EXCEPT ![c] = TRUE]
    /\ gen' = [gen EXCEPT ![c] = @ + 1]
    /\ UNCHANGED <<chat, banned, log, up, jobs, events, history>>

\* The key's TTL runs out: no code of the server runs.
Expires(c) ==
    /\ alive[c]
    /\ Fault
    /\ alive' = [alive EXCEPT ![c] = FALSE]
    /\ UNCHANGED <<gen, chat, banned, log, up, jobs, history>>

-----------------------------------------------------------------------------
(* Speaking: enforced_on, then the id, then sid_for and append *)

\* enforced_on.
MaySpeak(p) == p \notin banned

\* The ban check, and the id of the line that passes it.
SendChat(p, c) ==
    /\ Request(p)
    /\ alive[c]
    /\ MaySpeak(p)
    /\ issued' = issued + 1
    /\ \E act \in {"clean", "flagged"} :
          jobs' = [jobs EXCEPT ![p] = [Job(act, "resolve", c, p) EXCEPT !.line = issued + 1]]
    /\ UNCHANGED <<sessions, live, transcript, marks, retained, flagged, archived, banned, log,
                   up, history>>

Say(m, c) ==
    /\ Request(m)
    /\ alive[c]
    /\ issued' = issued + 1
    /\ jobs' = [jobs EXCEPT ![m] = [Job("say", "resolve", c, NoOne) EXCEPT !.line = issued + 1]]
    /\ UNCHANGED <<sessions, live, transcript, marks, retained, flagged, archived, banned, log,
                   up, history>>

\* sid_for's GET; without a pointer, a candidate.
Resolve(a) ==
    /\ At(a, "resolve")
    /\ LET c == jobs[a].code
       IN IF live[c] # None
          THEN /\ jobs' = [jobs EXCEPT ![a].into = live[c], ![a].pc = "append"]
               /\ UNCHANGED issued
          ELSE /\ issued' = issued + 1
               /\ jobs' = [jobs EXCEPT ![a].into = issued + 1, ![a].pc = "claim"]
    /\ UNCHANGED <<sessions, live, transcript, marks, retained, flagged, archived, banned, log,
                   up, events, history>>

\* Faulty: the pointer is overwritten.
ClaimAnyway(a) ==
    /\ At(a, "claim")
    /\ live' = [live EXCEPT ![jobs[a].code] = jobs[a].into]
    /\ Goes(a, "append")
    /\ UNCHANGED <<sessions, issued, transcript, marks, retained, flagged, archived, banned, log,
                   up, events, history>>

\* SET NX; the loser reads the pointer again.
Claim(a) ==
    /\ At(a, "claim")
    /\ IF live[jobs[a].code] = None
       THEN live' = [live EXCEPT ![jobs[a].code] = jobs[a].into] /\ Goes(a, "append")
       ELSE Goes(a, "reread") /\ UNCHANGED live
    /\ UNCHANGED <<sessions, issued, transcript, marks, retained, flagged, archived, banned, log,
                   up, events, history>>

Reread(a) ==
    /\ At(a, "reread")
    /\ LET c == jobs[a].code
       IN jobs' = [jobs EXCEPT ![a].pc = "append",
                               ![a].into = IF live[c] = None THEN @ ELSE live[c]]
    /\ UNCHANGED <<sessions, chat, banned, log, up, events, history>>

IsEvidence(kind) == kind # "clean"

\* Faulty: only a moderator's own post retains.
RetainsPosts(kind) == kind \in {"flagged", "say"}

\* What a stored line makes of its transcript.
Retains(kind) == IsEvidence(kind)

\* Where a request goes on once its line is stored, or could not be.
AfterAppend(a, stored) ==
    CASE Does(a, {"clean", "say"}) -> Done(a)
      [] Does(a, {"flagged"}) ->
            IF stored
            THEN jobs' = [jobs EXCEPT ![a].sid = jobs[a].into, ![a].bodies = {jobs[a].line},
                                      ![a].into = None, ![a].line = None, ![a].pc = "cut"]
            ELSE Done(a)
      [] OTHER -> jobs' = [jobs EXCEPT ![a].into = None, ![a].line = None, ![a].pc = "audit"]

\* One transaction: the line and the markers it calls for.
AppendLine(a) ==
    /\ At(a, "append")
    /\ LET s == jobs[a].into
           line == [id |-> jobs[a].line, by |-> jobs[a].about, kind |-> jobs[a].act,
                    of |-> jobs[a].code]
       IN /\ transcript' = [transcript EXCEPT ![s] = Append(@, line)]
          /\ retained' = IF Retains(line.kind) THEN retained \cup {s} ELSE retained
          /\ flagged' = IF line.kind = "flagged" THEN flagged \cup {s} ELSE flagged
    /\ AfterAppend(a, TRUE)
    /\ UNCHANGED <<sessions, live, issued, marks, archived, banned, log, up, events, doomed, unrecorded>>

\* The message goes out all the same, the notice has gone out already.
AppendFails(a) ==
    /\ At(a, "append")
    /\ Fault
    /\ AfterAppend(a, FALSE)
    /\ UNCHANGED <<sessions, chat, banned, log, up, history>>

\* transcript::len.
CutAt(n) == n

\* The snapshot's cut.
Cuts(a) ==
    /\ At(a, "cut")
    /\ jobs' = [jobs EXCEPT
          ![a].cut = IF jobs[a].sid = None THEN 0 ELSE CutAt(Len(transcript[jobs[a].sid])),
          ![a].pc = CASE Does(a, {"delete"}) -> "mark"
                      [] Does(a, {"ban"}) -> "ban"
                      [] Does(a, {"warn"}) -> "notice"
                      [] OTHER -> "audit"]
    /\ UNCHANGED <<sessions, chat, banned, log, up, events, history>>

-----------------------------------------------------------------------------
(* The moderators' tools: warn, warn and delete, ban; then the lists page *)

Press(m, c, act, p) ==
    /\ Request(m)
    /\ alive[c]
    /\ act \in {"warn", "delete", "ban"}
    /\ jobs' = [jobs EXCEPT ![m] = Job(act, "look", c, p)]
    /\ UNCHANGED <<sessions, chat, banned, log, up, history>>

\* live_sid, and the stored lines it leads to: they decide which ticked bodies are
\* known, whose they are, and whether the target has anything to do with the session.
Looks(m) ==
    /\ At(m, "look")
    /\ LET j == jobs[m]
           sid == live[j.code]
           lines == IF sid = None THEN {} ELSE Range(transcript[sid])
           seated == alive[j.code]
       IN \E ticked \in SUBSET {l.id : l \in lines} :
             IF \/ Does(m, {"delete"}) /\ ticked = {}
                \/ ~seated /\ \A l \in lines : l.by # j.about
             THEN Done(m)
             ELSE jobs' = [jobs EXCEPT
                     ![m].pc = "cut", ![m].sid = sid,
                     ![m].ticked = IF j.act = "delete" THEN ticked ELSE {},
                     ![m].bodies = {l.id : l \in {k \in lines : k.by = j.about}} \cap ticked]
    /\ UNCHANGED <<sessions, chat, banned, log, up, events, history>>

\* mark_deleted, one transaction; the clients are told after it.
Marks(m) ==
    /\ At(m, "mark")
    /\ marks' = marks \cup {jobs[m].sid} \X jobs[m].ticked
    /\ retained' = retained \cup {jobs[m].sid}
    /\ jobs' = [jobs EXCEPT ![m].ticked = {}, ![m].pc = "notice"]
    /\ UNCHANGED <<sessions, live, issued, transcript, flagged, archived, banned, log, up,
                   events, history>>

\* Faulty: HSET.
BansAnyway(p) == TRUE

\* HSETNX: a standing ban is left alone.
BansNew(p) == p \notin banned

Bans(m) ==
    /\ At(m, "ban")
    /\ LET p == jobs[m].about
       IN IF BansNew(p)
          THEN /\ banned' = banned \cup {p}
               /\ Goes(m, "notice")
          ELSE Done(m) /\ UNCHANGED banned
    /\ UNCHANGED <<sessions, chat, log, up, events, doomed, unrecorded>>

\* The deletion or the ban is not written: nothing else is done for the target.
WriteFails(m) ==
    /\ At(m, "mark") \/ At(m, "ban")
    /\ Fault
    /\ Done(m)
    /\ UNCHANGED <<sessions, chat, banned, log, up, history>>

\* The notice, then the echo's id; by now the code may mean another instance.
Notices(m) ==
    /\ At(m, "notice")
    /\ IF jobs[m].sid = None
       THEN Goes(m, "audit") /\ UNCHANGED issued
       ELSE /\ issued' = issued + 1
            /\ jobs' = [jobs EXCEPT ![m].line = issued + 1, ![m].pc = "resolve"]
    /\ UNCHANGED <<sessions, live, transcript, marks, retained, flagged, archived, banned, log,
                   up, events, history>>

\* The lists page bans any number, without a session.
ListBan(m, p) ==
    /\ Request(m)
    /\ BansNew(p)
    /\ banned' = banned \cup {p}
    /\ jobs' = [jobs EXCEPT ![m] = Job("ban", "audit", NoOne, p)]
    /\ UNCHANGED <<sessions, chat, log, up, doomed, unrecorded>>

ListUnban(m, p) ==
    /\ Request(m)
    /\ p \in banned
    /\ banned' = banned \ {p}
    /\ jobs' = [jobs EXCEPT ![m] = Job("unban", "audit", NoOne, p)]
    /\ UNCHANGED <<sessions, chat, log, up, history>>

\* delete_user drops the ban and writes no record.
AccountDeleted(p) ==
    /\ up /\ p \in banned
    /\ banned' = banned \ {p}
    /\ unrecorded' = [unrecorded EXCEPT ![p] = @ - 1]
    /\ UNCHANGED <<sessions, chat, log, up, jobs, events, doomed>>

-----------------------------------------------------------------------------
(* The audit log *)

ListActs == {"ban", "unban"}

RecordOf(j) ==
    [act |-> j.act, about |-> j.about, sid |-> j.sid, cut |-> j.cut, bodies |-> j.bodies,
     list |-> j.act \in ListActs]

\* write: the record and its index entries, one transaction.
Writes(a) ==
    /\ At(a, "audit")
    /\ records' = Append(records, RecordOf(jobs[a]))
    /\ Done(a)
    /\ UNCHANGED <<sessions, chat, banned, cursor, up, events, history>>

\* Who has done act to p and not recorded it.
Owing(act, p) ==
    {a \in Actors : /\ jobs[a].pc \notin {"idle", "look", "cut", "ban"}
                    /\ jobs[a].act = act /\ jobs[a].about = p}

\* Bans of p made and not recorded, net of lifted ones.
Owed(p) == Cardinality(Owing("ban", p)) - Cardinality(Owing("unban", p))

Net(act) == CASE act = "ban" -> 1 [] act = "unban" -> -1 [] OTHER -> 0

\* The action stands, the log line is lost.
RecordFails(a) ==
    /\ At(a, "audit")
    /\ Fault
    /\ unrecorded' = [unrecorded EXCEPT ![jobs[a].about] = @ + Net(jobs[a].act)]
    /\ Done(a)
    /\ UNCHANGED <<sessions, chat, banned, log, up, doomed>>

Pending(c) == cursor[c] < Len(Legacy[c])

\* Faulty: the cursor is left for another command.
Advances(c) == cursor' = cursor

\* The cursor counts records considered, in the transaction of the record.
Advance(c) == cursor' = [cursor EXCEPT ![c] = @ + 1]

\* migrate: the oldest record not considered; the rows of the old list table become
\* player records that carry the list's tag.
Import(c) ==
    /\ ~up
    /\ Pending(c) /\ (c = "list" => ~Pending("player"))
    /\ LET n == cursor[c] + 1
       IN records' = IF Legacy[c][n] = "corrupt" THEN records
                     ELSE Append(records, [act |-> "legacy", from |-> <<c, n>>, list |-> c = "list"])
    /\ Advance(c)
    /\ UNCHANGED <<sessions, chat, banned, up, jobs, events, history>>

\* The listeners are bound once the import ended; its failure is not fatal.
Boot ==
    /\ ~up
    /\ IF \E c \in Categories : Pending(c) THEN Fault ELSE UNCHANGED events
    /\ up' = TRUE
    /\ UNCHANGED <<sessions, chat, banned, log, jobs, history>>

-----------------------------------------------------------------------------
(* on_session_end *)

\* The record is gone before the chat is torn down.
Closes(e, c) ==
    /\ up /\ At(e, "idle") /\ alive[c]
    /\ alive' = [alive EXCEPT ![c] = FALSE]
    /\ jobs' = [jobs EXCEPT ![e] = Job("end", "find", c, NoOne)]
    /\ UNCHANGED <<gen, chat, banned, log, up, events, history>>

\* sweep_orphans found the pointer and no session; it looks at neither again.
Sweeps(m, c) ==
    /\ Request(m)
    /\ live[c] # None /\ ~alive[c]
    /\ jobs' = [jobs EXCEPT ![m] = Job("end", "find", c, NoOne)]
    /\ UNCHANGED <<sessions, chat, banned, log, up, history>>

Finds(a) ==
    /\ At(a, "find")
    /\ LET s == live[jobs[a].code]
       IN IF s = None THEN Done(a)
          ELSE jobs' = [jobs EXCEPT ![a].sid = s, ![a].pc = "decide"]
    /\ UNCHANGED <<sessions, chat, banned, log, up, events, history>>

Keeps(s) == s \in retained

HasEvidence(s) ==
    (\E l \in Range(transcript[s]) : IsEvidence(l.kind)) \/ (\E k \in marks : k[1] = s)

\* is_retained; a Redis error keeps the transcript.
Decides(a) ==
    /\ At(a, "decide")
    /\ \/ /\ Goes(a, IF Keeps(jobs[a].sid) THEN "archive" ELSE "wipe")
          /\ doomed' = IF HasEvidence(jobs[a].sid) THEN doomed ELSE doomed \cup {jobs[a].sid}
          /\ UNCHANGED events
       \/ Goes(a, "archive") /\ Fault /\ UNCHANGED doomed
    /\ UNCHANGED <<sessions, chat, banned, log, up, unrecorded>>

Archives(a) ==
    /\ At(a, "archive")
    /\ archived' = archived \cup {jobs[a].sid}
    /\ Goes(a, "unlink")
    /\ UNCHANGED <<sessions, live, issued, transcript, marks, retained, flagged, banned, log, up,
                   events, history>>

\* The instance's keys go, whatever was stored since the decision.
Wipes(a) ==
    /\ At(a, "wipe")
    /\ transcript' = [transcript EXCEPT ![jobs[a].sid] = <<>>]
    /\ marks' = {k \in marks : k[1] # jobs[a].sid}
    /\ flagged' = flagged \ {jobs[a].sid}
    /\ Goes(a, "unlink")
    /\ UNCHANGED <<sessions, live, issued, retained, archived, banned, log, up, events, history>>

Unlinks(a) ==
    /\ At(a, "unlink")
    /\ live' = [live EXCEPT ![jobs[a].code] = None]
    /\ Done(a)
    /\ UNCHANGED <<sessions, issued, transcript, marks, retained, flagged, archived, banned, log,
                   up, events, history>>

-----------------------------------------------------------------------------
\* The process dies with its requests half done; Redis keeps what was written.
Crash ==
    /\ up
    /\ Fault
    /\ up' = FALSE
    /\ jobs' = [a \in Actors |-> Idle]
    /\ unrecorded' = [p \in Players |-> unrecorded[p] + Owed(p)]
    /\ UNCHANGED <<sessions, chat, banned, log, doomed>>

Init ==
    /\ alive = [c \in Codes |-> FALSE]
    /\ gen = [c \in Codes |-> 0]
    /\ live = [c \in Codes |-> None]
    /\ issued = 0
    /\ transcript = [s \in Ids |-> <<>>]
    /\ marks = {} /\ retained = {} /\ flagged = {} /\ archived = {} /\ banned = {}
    /\ records = <<>>
    /\ cursor = [c \in Categories |-> 0]
    /\ up = FALSE
    /\ jobs = [a \in Actors |-> Idle]
    /\ events = 0
    /\ doomed = {}
    /\ unrecorded = [p \in Players |-> 0]

SessionStep == \E c \in Codes : Host(c) \/ Expires(c)

PlayerStep == \E p \in Players :
    \/ \E c \in Codes : SendChat(p, c)
    \/ AccountDeleted(p)

ModeratorStep == \E m \in Moderators :
    \/ \E c \in Codes : \/ Say(m, c) \/ Sweeps(m, c)
                        \/ \E act \in {"warn", "delete", "ban"}, p \in Players : Press(m, c, act, p)
    \/ \E p \in Players : ListBan(m, p) \/ ListUnban(m, p)

CloserStep == \E e \in Closers, c \in Codes : Closes(e, c)

JobStep == \E a \in Actors :
    \/ Resolve(a) \/ Claim(a) \/ Reread(a) \/ AppendLine(a) \/ AppendFails(a)
    \/ Looks(a) \/ Cuts(a) \/ Marks(a) \/ Bans(a) \/ WriteFails(a) \/ Notices(a)
    \/ Writes(a) \/ RecordFails(a)
    \/ Finds(a) \/ Decides(a) \/ Archives(a) \/ Wipes(a) \/ Unlinks(a)

BootStep == (\E c \in Categories : Import(c)) \/ Boot \/ Crash

Next == SessionStep \/ PlayerStep \/ ModeratorStep \/ CloserStep \/ JobStep \/ BootStep

Spec == Init /\ [][Next]_vars

-----------------------------------------------------------------------------
(* Properties *)

Line == [id : Ids, by : Players \cup {NoOne}, of : Codes,
         kind : {"clean", "flagged", "say", "warn", "delete", "ban"}]

Requests == [act : {"clean", "flagged", "say", "warn", "delete", "ban", "unban", "end"},
            pc : {"resolve", "claim", "reread", "append", "look", "cut", "mark", "ban",
                  "notice", "audit", "find", "decide", "archive", "wipe", "unlink"},
            code : Codes \cup {NoOne}, about : Players \cup {NoOne},
            line : Ids \cup {None}, sid : Ids \cup {None}, into : Ids \cup {None},
            cut : Nat, ticked : SUBSET Ids, bodies : SUBSET Ids]

\* Every variable stays in its domain, and no id is issued past the bound.
TypeOK ==
    /\ alive \in [Codes -> BOOLEAN] /\ gen \in [Codes -> 0 .. MaxGen]
    /\ live \in [Codes -> Ids \cup {None}]
    /\ issued \in 0 .. 2 * MaxEvents
    /\ transcript \in [Ids -> Seq(Line)]
    /\ marks \subseteq Ids \X Ids
    /\ retained \cup flagged \cup archived \cup doomed \subseteq Ids
    /\ banned \subseteq Players
    /\ cursor \in [Categories -> Nat] /\ \A c \in Categories : cursor[c] <= Len(Legacy[c])
    /\ up \in BOOLEAN /\ events \in 0 .. MaxEvents
    /\ jobs \in [Actors -> Requests \cup {Idle}]
    /\ unrecorded \in [Players -> Int]

\* A transcript that holds evidence - a flagged line, a moderator's line or a deletion
\* mark - only grows: no teardown, sweep, crash or new session under its code shortens
\* it, unless a teardown that had seen none was already past its look at the retention
\* mark (append, mark_deleted, on_session_end).
EvidenceOutlives ==
    [][\A s \in Ids \ doomed : HasEvidence(s) => IsPrefix(transcript[s], transcript'[s])]_vars

\* Lines that arrive together land in one instance: while the first session of a code
\* is there, every line stored for it is in the transcript the pointer names (sid_for).
OneInstance ==
    \A c \in Codes, s \in Ids :
        (gen[c] = 1 /\ alive[c] /\ \E l \in Range(transcript[s]) : l.of = c) => s = live[c]

\* The list and the log agree: a player is banned exactly when one more ban than
\* un-ban was recorded, is about to be, or was lost with a fault (bans::ban).
Recorded(act, p) ==
    Cardinality({i \in DOMAIN records : records[i].act = act /\ records[i].about = p})

LedgerMatchesList ==
    \A p \in Players :
        Recorded("ban", p) - Recorded("unban", p) + Owed(p) + unrecorded[p]
            = IF p \in banned THEN 1 ELSE 0

\* Each old record that parses is imported once, in the old order, and none past the
\* cursor, however often the boot that imports them dies (migrate).
Imports(i, c, n) == records[i].act = "legacy" /\ records[i].from = <<c, n>>

ImportedOnce ==
    \A c \in Categories :
        /\ \A n \in 1 .. Len(Legacy[c]) :
              (\E i \in DOMAIN records : Imports(i, c, n))
                  <=> n <= cursor[c] /\ Legacy[c][n] = "good"
        /\ \A i, j \in DOMAIN records, m, n \in 1 .. Len(Legacy[c]) :
              Imports(i, c, m) /\ Imports(j, c, n) => (i < j <=> m < n)

=============================================================================
