--------------------------- MODULE ChatStoreProofs ---------------------------
(***************************************************************************)
(* ChatStore, proved for any codes, people, old logs and bounds: lines     *)
(* that arrive together share one instance, evidence outlives every        *)
(* teardown, the ban list and the audit log agree, and the old log is      *)
(* imported once.                                                          *)
(***************************************************************************)
EXTENDS ChatStore, FiniteSetTheorems, SequenceTheorems, TLAPS

-----------------------------------------------------------------------------
(* Counting *)

\* Sets that differ in one element at most differ by one in size.
LEMMA OneApart ==
    ASSUME NEW X, NEW Y, NEW a, IsFiniteSet(X), IsFiniteSet(Y), X \ {a} = Y \ {a}
    PROVE  /\ Cardinality(X) \in Nat /\ Cardinality(Y) \in Nat
           /\ a \in X /\ a \notin Y => Cardinality(X) = Cardinality(Y) + 1
           /\ a \notin X /\ a \in Y => Cardinality(Y) = Cardinality(X) + 1
           /\ (a \in X <=> a \in Y) => Cardinality(Y) = Cardinality(X)
<1>1. Cardinality(X) \in Nat /\ Cardinality(Y) \in Nat
  BY FS_CardinalityType
<1>2. ASSUME a \in X, a \notin Y
      PROVE  Cardinality(X) = Cardinality(Y) + 1
  <2>1. X \ {a} = Y
    BY <1>2
  <2> QED BY <1>1, <1>2, <2>1, FS_RemoveElement
<1>3. ASSUME a \notin X, a \in Y
      PROVE  Cardinality(Y) = Cardinality(X) + 1
  <2>1. Y \ {a} = X
    BY <1>3
  <2> QED BY <1>1, <1>3, <2>1, FS_RemoveElement
<1>4. ASSUME a \in X <=> a \in Y
      PROVE  X = Y
  BY <1>4
<1> QED BY <1>1, <1>2, <1>3, <1>4

LEMMA ActorsFinite == IsFiniteSet(Actors)
BY ChatAssumption, FS_Union DEF Actors

LEMMA SomeActors ==
    ASSUME NEW S, S \subseteq Actors
    PROVE  IsFiniteSet(S) /\ Cardinality(S) \in Nat /\ (S # {} => Cardinality(S) >= 1)
<1>1. IsFiniteSet(S)
  BY ActorsFinite, FS_Subset
<1>2. Cardinality(S) \in Nat /\ (Cardinality(S) = 0 <=> S = {})
  BY <1>1, FS_CardinalityType, FS_EmptySet
<1> QED BY <1>1, <1>2
-----------------------------------------------------------------------------
(* Requests *)

Tools == {"warn", "delete", "ban"}
Storing == {"resolve", "claim", "reread", "append"}
Ending == {"decide", "archive", "wipe", "unlink"}

\* What the stage a request is at says of it.
Stage(j) ==
    /\ j.pc # "audit" => j.code \in Codes
    /\ j.act \notin {"say", "end"} => j.about \in Players
    /\ j.pc \in Storing => j.line \in Ids /\ j.act \in Tools \cup {"clean", "flagged", "say"}
    /\ j.pc \in Storing \ {"resolve"} => j.into \in Ids
    /\ j.pc \in {"look", "notice"} => j.act \in Tools
    /\ j.pc = "cut" => j.act \in Tools \cup {"flagged"}
    /\ j.pc = "mark" => j.act = "delete"
    /\ j.pc = "ban" => j.act = "ban"
    /\ j.pc \in {"cut", "mark"} /\ j.act = "delete" => j.sid \in Ids
    /\ j.pc = "audit" => j.act \in Tools \cup {"flagged", "unban"}
    /\ j.pc \in Ending \cup {"find"} => j.act = "end"
    /\ j.pc \in Ending => j.sid \in Ids

Staged == {j \in Requests : Stage(j)}

JobsOK == jobs \in [Actors -> Staged \cup {Idle}]

\* a's request becomes j, and nobody else's changes.
Gets(a, j) ==
    /\ JobsOK'
    /\ jobs'[a] = j
    /\ \A b \in Actors \ {a} : jobs'[b] = jobs[b]

\* a's request goes on at pc, the same request still.
Moves(a, pc) ==
    /\ JobsOK' /\ jobs'[a] \in Staged
    /\ jobs'[a].pc = pc /\ jobs'[a].act = jobs[a].act
    /\ jobs'[a].code = jobs[a].code /\ jobs'[a].about = jobs[a].about
    /\ \A b \in Actors \ {a} : jobs'[b] = jobs[b]

LEMMA Getting ==
    ASSUME JobsOK, NEW a \in Actors, NEW j \in Staged \cup {Idle}, jobs' = [jobs EXCEPT ![a] = j]
    PROVE  Gets(a, j)
BY DEF JobsOK, Gets

LEMMA IdlePc == Idle.pc = "idle" /\ Idle \notin Requests
<1>1. Idle.pc = "idle"
  BY DEF Idle
<1> QED BY <1>1 DEF Requests

LEMMA AtWork ==
    ASSUME JobsOK, NEW a \in Actors, jobs[a].pc # "idle"
    PROVE  jobs[a] \in Staged /\ jobs[a] \in Requests /\ Stage(jobs[a])
BY IdlePc DEF JobsOK, Staged

LEMMA DoneRests ==
    ASSUME JobsOK, NEW a \in Actors, Done(a)
    PROVE  Gets(a, Idle)
BY Getting DEF Done

\* Ids are handed out by requests that were counted as events before.
Resolvers == {a \in Actors : At(a, "resolve")}
Soon == {a \in Actors : jobs[a].pc \in {"look", "cut", "mark", "ban", "notice"}
                          /\ jobs[a].act \in Tools}

Counted ==
    /\ issued \in Nat /\ events \in Nat /\ events <= MaxEvents
    /\ issued + Cardinality(Resolvers) + 2 * Cardinality(Soon) <= 2 * events

LEMMA Bounds == MaxEvents \in Nat /\ MaxGen \in Nat
BY ChatAssumption

LEMMA IdLeft ==
    ASSUME JobsOK, Counted, NEW a \in Actors, At(a, "resolve") \/ At(a, "notice")
    PROVE  issued + 1 \in Ids
<1>1. Cardinality(Resolvers) \in Nat /\ Cardinality(Soon) \in Nat
  BY SomeActors DEF Resolvers, Soon
<1>2. CASE At(a, "resolve")
  <2>1. Cardinality(Resolvers) >= 1
    BY <1>2, SomeActors DEF Resolvers
  <2> QED BY <1>1, <2>1, Bounds DEF Counted, Ids
<1>3. CASE At(a, "notice")
  <2>1. a \in Soon
    BY <1>3, AtWork DEF At, Soon, Stage
  <2>2. Cardinality(Soon) >= 1
    BY <2>1, SomeActors DEF Soon
  <2> QED BY <1>1, <2>2, Bounds DEF Counted, Ids
<1> QED BY <1>2, <1>3

Pcs == {"resolve", "claim", "reread", "append", "look", "cut", "mark", "ban",
        "notice", "audit", "find", "decide", "archive", "wipe", "unlink"}

\* What a request looks like once a step has changed some of its fields.
LEMMA NewPc ==
    ASSUME NEW j \in Requests, NEW pc \in Pcs
    PROVE  LET k == [j EXCEPT !.pc = pc]
           IN  /\ k \in Requests /\ k.pc = pc /\ k.act = j.act /\ k.code = j.code
               /\ k.about = j.about /\ k.line = j.line /\ k.sid = j.sid /\ k.into = j.into
BY DEF Requests, Pcs

LEMMA MovesOn ==
    ASSUME JobsOK, NEW a \in Actors, NEW j \in Requests, Stage(j),
           j.act = jobs[a].act, j.code = jobs[a].code, j.about = jobs[a].about,
           jobs' = [jobs EXCEPT ![a] = j]
    PROVE  Moves(a, j.pc) /\ jobs'[a] = j
BY Getting DEF Gets, Moves, Staged
-----------------------------------------------------------------------------
(* What each step of a request makes of it *)

\* The steps that move a request on and change one more field of it.
PutsInto(a, i, pc) == jobs' = [jobs EXCEPT ![a].into = i, ![a].pc = pc]
PutsLine(a, i, pc) == jobs' = [jobs EXCEPT ![a].line = i, ![a].pc = pc]
PutsSid(a, i, pc) == jobs' = [jobs EXCEPT ![a].sid = i, ![a].pc = pc]

\* k is request j, moved on to pc.
Follows(k, j, pc) ==
    /\ k.pc = pc /\ k.act = j.act /\ k.code = j.code /\ k.about = j.about

LEMMA GoesMoves ==
    ASSUME JobsOK, NEW a \in Actors, jobs[a].pc # "idle", NEW pc \in Pcs,
           Goes(a, pc),
           \A k : Follows(k, jobs[a], pc) /\ k.line = jobs[a].line /\ k.sid = jobs[a].sid /\ k.into = jobs[a].into => Stage(k)
    PROVE  Moves(a, pc) /\ jobs'[a].line = jobs[a].line /\ jobs'[a].sid = jobs[a].sid /\ jobs'[a].into = jobs[a].into
<1> DEFINE j == jobs[a]
           k == [j EXCEPT !.pc = pc]
<1>1. j \in Requests
  BY AtWork
<1>2. k \in Requests /\ Follows(k, j, pc) /\ k.line = j.line /\ k.sid = j.sid /\ k.into = j.into
  BY <1>1, NewPc DEF Follows
<1>3. jobs' = [jobs EXCEPT ![a] = k]
  BY DEF Goes
<1> HIDE DEF k
<1>4. Stage(k)
  BY <1>2
<1>5. Moves(a, k.pc) /\ jobs'[a] = k
  BY <1>2, <1>3, <1>4, MovesOn DEF Follows
<1> QED BY <1>2, <1>5 DEF Follows

LEMMA IntoMoves ==
    ASSUME JobsOK, NEW a \in Actors, jobs[a].pc # "idle", NEW pc \in Pcs, NEW i \in Ids \cup {None},
           PutsInto(a, i, pc),
           \A k : Follows(k, jobs[a], pc) /\ k.line = jobs[a].line /\ k.sid = jobs[a].sid /\ k.into = i => Stage(k)
    PROVE  Moves(a, pc) /\ jobs'[a].line = jobs[a].line /\ jobs'[a].sid = jobs[a].sid /\ jobs'[a].into = i
<1> DEFINE j == jobs[a]
           m == [j EXCEPT !.into = i]
           k == [m EXCEPT !.pc = pc]
<1>1. /\ m \in Requests /\ m.act = j.act /\ m.code = j.code /\ m.about = j.about
      /\ m.line = j.line /\ m.sid = j.sid /\ m.into = i
  <2>1. j \in Requests
    BY AtWork
  <2> QED BY <2>1 DEF Requests
<1>3. jobs' = [jobs EXCEPT ![a] = k]
  BY DEF PutsInto
<1> HIDE DEF m
<1>2. k \in Requests /\ Follows(k, j, pc) /\ k.line = j.line /\ k.sid = j.sid /\ k.into = i
  BY <1>1, NewPc DEF Follows
<1> HIDE DEF k
<1>4. Stage(k)
  BY <1>2
<1>5. Moves(a, k.pc) /\ jobs'[a] = k
  BY <1>2, <1>3, <1>4, MovesOn DEF Follows
<1> QED BY <1>2, <1>5 DEF Follows

LEMMA LineMoves ==
    ASSUME JobsOK, NEW a \in Actors, jobs[a].pc # "idle", NEW pc \in Pcs, NEW i \in Ids \cup {None},
           PutsLine(a, i, pc),
           \A k : Follows(k, jobs[a], pc) /\ k.line = i /\ k.sid = jobs[a].sid /\ k.into = jobs[a].into => Stage(k)
    PROVE  Moves(a, pc) /\ jobs'[a].line = i /\ jobs'[a].sid = jobs[a].sid /\ jobs'[a].into = jobs[a].into
<1> DEFINE j == jobs[a]
           m == [j EXCEPT !.line = i]
           k == [m EXCEPT !.pc = pc]
<1>1. /\ m \in Requests /\ m.act = j.act /\ m.code = j.code /\ m.about = j.about
      /\ m.line = i /\ m.sid = j.sid /\ m.into = j.into
  <2>1. j \in Requests
    BY AtWork
  <2> QED BY <2>1 DEF Requests
<1>3. jobs' = [jobs EXCEPT ![a] = k]
  BY DEF PutsLine
<1> HIDE DEF m
<1>2. k \in Requests /\ Follows(k, j, pc) /\ k.line = i /\ k.sid = j.sid /\ k.into = j.into
  BY <1>1, NewPc DEF Follows
<1> HIDE DEF k
<1>4. Stage(k)
  BY <1>2
<1>5. Moves(a, k.pc) /\ jobs'[a] = k
  BY <1>2, <1>3, <1>4, MovesOn DEF Follows
<1> QED BY <1>2, <1>5 DEF Follows

LEMMA SidMoves ==
    ASSUME JobsOK, NEW a \in Actors, jobs[a].pc # "idle", NEW pc \in Pcs, NEW i \in Ids \cup {None},
           PutsSid(a, i, pc),
           \A k : Follows(k, jobs[a], pc) /\ k.line = jobs[a].line /\ k.sid = i /\ k.into = jobs[a].into => Stage(k)
    PROVE  Moves(a, pc) /\ jobs'[a].line = jobs[a].line /\ jobs'[a].sid = i /\ jobs'[a].into = jobs[a].into
<1> DEFINE j == jobs[a]
           m == [j EXCEPT !.sid = i]
           k == [m EXCEPT !.pc = pc]
<1>1. /\ m \in Requests /\ m.act = j.act /\ m.code = j.code /\ m.about = j.about
      /\ m.line = j.line /\ m.sid = i /\ m.into = j.into
  <2>1. j \in Requests
    BY AtWork
  <2> QED BY <2>1 DEF Requests
<1>3. jobs' = [jobs EXCEPT ![a] = k]
  BY DEF PutsSid
<1> HIDE DEF m
<1>2. k \in Requests /\ Follows(k, j, pc) /\ k.line = j.line /\ k.sid = i /\ k.into = j.into
  BY <1>1, NewPc DEF Follows
<1> HIDE DEF k
<1>4. Stage(k)
  BY <1>2
<1>5. Moves(a, k.pc) /\ jobs'[a] = k
  BY <1>2, <1>3, <1>4, MovesOn DEF Follows
<1> QED BY <1>2, <1>5 DEF Follows
StoreOK ==
    /\ live \in [Codes -> Ids \cup {None}]
    /\ transcript \in [Ids -> Seq(Line)]

\* A request on its way to storing a line.
Mid(j) ==
    /\ j.code \in Codes /\ j.line \in Ids /\ j.into \in Ids
    /\ j.act \in Tools \cup {"clean", "flagged", "say"}
    /\ j.act # "say" => j.about \in Players

LEMMA MidStage ==
    \A j : Stage(j) /\ j.pc \in Storing \ {"resolve"} => Mid(j)
<1> SUFFICES ASSUME NEW j, Stage(j), j.pc \in Storing \ {"resolve"}
             PROVE  Mid(j)
  OBVIOUS
<1>1. /\ j.code \in Codes /\ j.line \in Ids /\ j.into \in Ids
      /\ j.act \in Tools \cup {"clean", "flagged", "say"}
  BY DEF Stage, Storing
<1>2. j.act # "say" => j.about \in Players
  BY <1>1 DEF Stage, Tools
<1> QED BY <1>1, <1>2 DEF Mid

LEMMA StageMid ==
    \A j : Mid(j) /\ j.pc \in {"claim", "reread", "append"} => Stage(j)
<1> SUFFICES ASSUME NEW j, Mid(j), j.pc = "claim" \/ j.pc = "reread" \/ j.pc = "append"
             PROVE  Stage(j)
  OBVIOUS
<1>1. j.act # "end" /\ j.act # "unban"
  BY DEF Mid, Tools
<1>2. CASE j.pc = "claim"
  BY <1>1, <1>2 DEF Mid, Stage, Storing, Ending
<1>3. CASE j.pc = "reread"
  BY <1>1, <1>3 DEF Mid, Stage, Storing, Ending
<1>4. CASE j.pc = "append"
  BY <1>1, <1>4 DEF Mid, Stage, Storing, Ending
<1> QED BY <1>2, <1>3, <1>4

LEMMA ResolveMoves ==
    ASSUME JobsOK, StoreOK, Counted, NEW a \in Actors, Resolve(a)
    PROVE  /\ At(a, "resolve")
           /\ \/ /\ live[jobs[a].code] # None /\ issued' = issued
                 /\ Moves(a, "append") /\ jobs'[a].into = live[jobs[a].code]
              \/ live[jobs[a].code] = None /\ issued' = issued + 1 /\ Moves(a, "claim")
<1> DEFINE j == jobs[a]
           c == j.code
<1>1. j \in Requests /\ Stage(j) /\ j.pc = "resolve" /\ c \in Codes
  BY AtWork DEF Resolve, At, Stage
<1>2. ASSUME NEW k, k.line = j.line, k.into \in Ids,
             Follows(k, j, "append") \/ Follows(k, j, "claim")
      PROVE  Stage(k)
  <2>1. j.act \in Tools \cup {"clean", "flagged", "say"} /\ j.line \in Ids
    BY <1>1 DEF Stage, Storing
  <2>2. Mid(k)
    BY <1>1, <1>2, <2>1 DEF Stage, Mid, Follows, Tools
  <2> QED BY <1>2, <2>2, StageMid DEF Follows
<1>3. CASE live[c] # None
  <2>1. live[c] \in Ids
    BY <1>1, <1>3 DEF StoreOK
  <2>2. PutsInto(a, live[c], "append") /\ issued' = issued
    BY <1>3 DEF Resolve, PutsInto
  <2>3. Moves(a, "append") /\ jobs'[a].into = live[c]
    BY <1>1, <1>2, <2>1, <2>2, IntoMoves DEF Pcs
  <2> QED BY <1>1, <1>3, <2>2, <2>3 DEF At
<1>4. CASE live[c] = None
  <2>1. issued + 1 \in Ids
    BY <1>1, IdLeft DEF At
  <2>2. PutsInto(a, issued + 1, "claim") /\ issued' = issued + 1
    BY <1>4 DEF Resolve, PutsInto
  <2>3. Moves(a, "claim")
    BY <1>1, <1>2, <2>1, <2>2, IntoMoves DEF Pcs
  <2> QED BY <1>1, <1>4, <2>2, <2>3 DEF At
<1> QED BY <1>3, <1>4

LEMMA ClaimMoves ==
    ASSUME JobsOK, NEW a \in Actors, Claim(a)
    PROVE  /\ At(a, "claim") /\ jobs[a].into \in Ids /\ jobs[a].code \in Codes
           /\ IF live[jobs[a].code] = None
              THEN live' = [live EXCEPT ![jobs[a].code] = jobs[a].into] /\ Moves(a, "append")
              ELSE UNCHANGED live /\ Moves(a, "reread")
           /\ jobs'[a].into = jobs[a].into
<1>1. jobs[a] \in Requests /\ Stage(jobs[a]) /\ jobs[a].pc = "claim"
  BY AtWork DEF Claim, At
<1>0. Mid(jobs[a])
  BY <1>1, MidStage DEF Storing
<1>2. ASSUME NEW k, k.line = jobs[a].line, k.into = jobs[a].into,
             Follows(k, jobs[a], "append") \/ Follows(k, jobs[a], "reread")
      PROVE  Stage(k)
  <2>1. Mid(k)
    BY <1>0, <1>2 DEF Mid, Follows
  <2> QED BY <1>2, <2>1, StageMid DEF Follows
<1>3. \A pc \in {"append", "reread"} :
         Goes(a, pc) => Moves(a, pc) /\ jobs'[a].into = jobs[a].into
  BY <1>1, <1>2, GoesMoves DEF Pcs
<1>4. jobs[a].into \in Ids /\ jobs[a].code \in Codes
  BY <1>1 DEF Stage, Storing
<1> QED BY <1>1, <1>3, <1>4 DEF Claim, At

LEMMA RereadMoves ==
    ASSUME JobsOK, StoreOK, NEW a \in Actors, Reread(a)
    PROVE  /\ At(a, "reread") /\ Moves(a, "append")
           /\ jobs'[a].into = IF live[jobs[a].code] = None THEN jobs[a].into
                                                           ELSE live[jobs[a].code]
<1> DEFINE j == jobs[a]
           i == IF live[j.code] = None THEN j.into ELSE live[j.code]
<1>1. j \in Requests /\ Stage(j) /\ j.pc = "reread" /\ j.code \in Codes /\ Mid(j)
  BY AtWork, MidStage DEF Reread, At, Stage, Storing
<1>2. i \in Ids
  BY <1>1 DEF StoreOK, Stage, Storing
<1>3. PutsInto(a, i, "append")
  BY DEF Reread, PutsInto
<1> HIDE DEF i
<1>4. \A k : Follows(k, j, "append") /\ k.line = j.line /\ k.into = i => Stage(k)
  BY <1>1, <1>2 DEF Mid, Stage, Storing, Ending, Follows
<1>5. Moves(a, "append") /\ jobs'[a].into = i
  BY <1>1, <1>2, <1>3, <1>4, IntoMoves DEF Pcs
<1> QED BY <1>1, <1>5 DEF At, i

\* What suffices for a request to be well staged.
LEMMA StageOf ==
    ASSUME NEW j
    PROVE  /\ j.pc = "audit" /\ j.about \in Players /\ j.act \in Tools \cup {"flagged", "unban"}
                => Stage(j)
           /\ j.code \in Codes =>
                /\ /\ j.about \in Players /\ j.act \in Tools
                   /\ \/ j.pc \in {"look", "notice"}
                      \/ j.pc = "ban" /\ j.act = "ban"
                      \/ j.pc = "mark" /\ j.act = "delete" /\ j.sid \in Ids
                   => Stage(j)
                /\ /\ j.about \in Players /\ j.act \in Tools \cup {"flagged"} /\ j.pc = "cut"
                   /\ j.act = "delete" => j.sid \in Ids
                   => Stage(j)
                /\ /\ j.pc = "resolve" /\ j.line \in Ids
                   /\ j.act \in Tools \cup {"clean", "flagged", "say"}
                   /\ j.act # "say" => j.about \in Players
                   => Stage(j)
                /\ /\ j.act = "end"
                   /\ j.pc = "find" \/ (j.pc \in Ending /\ j.sid \in Ids)
                   => Stage(j)
<1>1. ASSUME j.pc = "audit", j.about \in Players, j.act \in Tools \cup {"flagged", "unban"}
      PROVE  Stage(j)
  BY <1>1 DEF Stage, Storing, Ending, Tools
<1>2. ASSUME j.code \in Codes, j.about \in Players, j.act \in Tools, j.pc \in {"look", "notice"}
      PROVE  Stage(j)
  BY <1>2 DEF Stage, Storing, Ending, Tools
<1>3. ASSUME j.code \in Codes, j.about \in Players, j.pc = "ban", j.act = "ban"
      PROVE  Stage(j)
  BY <1>3 DEF Stage, Storing, Ending, Tools
<1>4. ASSUME j.code \in Codes, j.about \in Players, j.pc = "mark", j.act = "delete", j.sid \in Ids
      PROVE  Stage(j)
  BY <1>4 DEF Stage, Storing, Ending, Tools
<1>5. ASSUME j.code \in Codes, j.about \in Players, j.act \in Tools \cup {"flagged"}, j.pc = "cut",
             j.act = "delete" => j.sid \in Ids
      PROVE  Stage(j)
  BY <1>5 DEF Stage, Storing, Ending, Tools
<1>6. ASSUME j.code \in Codes, j.pc = "resolve", j.line \in Ids,
             j.act \in Tools \cup {"clean", "flagged", "say"},
             j.act # "say" => j.about \in Players
      PROVE  Stage(j)
  BY <1>6 DEF Stage, Storing, Ending, Tools
<1>7. ASSUME j.code \in Codes, j.act = "end", j.pc = "find"
      PROVE  Stage(j)
  BY <1>7 DEF Stage, Storing, Ending, Tools
<1>8. ASSUME j.code \in Codes, j.act = "end", j.pc \in Ending, j.sid \in Ids
      PROVE  Stage(j)
  BY <1>8 DEF Stage, Storing, Ending, Tools
<1> QED BY <1>1, <1>2, <1>3, <1>4, <1>5, <1>6, <1>7, <1>8

\* The line that is about to be stored.
LineOf(j) == [id |-> j.line, by |-> j.about, kind |-> j.act, of |-> j.code]

LEMMA AfterMoves ==
    ASSUME JobsOK, NEW a \in Actors, At(a, "append"), NEW stored \in BOOLEAN,
           AfterAppend(a, stored)
    PROVE  /\ jobs[a].act \in {"clean", "say"} => Gets(a, Idle)
           /\ jobs[a].act = "flagged" =>
                 IF stored THEN Moves(a, "cut") /\ jobs'[a].sid = jobs[a].into ELSE Gets(a, Idle)
           /\ jobs[a].act \in Tools => Moves(a, "audit")
<1> DEFINE j == jobs[a]
<1>1. j \in Requests /\ Mid(j)
  BY AtWork, MidStage DEF At, Storing
<1>2. ASSUME j.act \in {"clean", "say"} \/ (j.act = "flagged" /\ ~stored)
      PROVE  Gets(a, Idle)
  BY <1>2, DoneRests DEF AfterAppend, Does
<1>3. ASSUME j.act = "flagged", stored
      PROVE  Moves(a, "cut") /\ jobs'[a].sid = j.into
  <2> DEFINE m == [j EXCEPT !.sid = j.into, !.bodies = {j.line}]
             n == [m EXCEPT !.into = None, !.line = None]
             k == [n EXCEPT !.pc = "cut"]
  <2>1. /\ m \in Requests /\ m.act = j.act /\ m.code = j.code /\ m.about = j.about
        /\ m.sid = j.into
    BY <1>1 DEF Requests, Mid
  <2>2. jobs' = [jobs EXCEPT ![a] = k]
    BY <1>3 DEF AfterAppend, Does
  <2> HIDE DEF m
  <2>3. /\ n \in Requests /\ n.act = j.act /\ n.code = j.code /\ n.about = j.about
        /\ n.sid = j.into
    BY <2>1 DEF Requests
  <2> HIDE DEF n
  <2>4. /\ k \in Requests /\ k.pc = "cut" /\ k.act = j.act /\ k.code = j.code
        /\ k.about = j.about /\ k.sid = j.into
    BY <2>3 DEF Requests
  <2> HIDE DEF k
  <2>5. Stage(k)
    BY <1>1, <1>3, <2>4, StageOf DEF Mid
  <2>6. Moves(a, k.pc) /\ jobs'[a] = k
    BY <2>2, <2>4, <2>5, MovesOn
  <2> QED BY <2>4, <2>6
<1>4. ASSUME j.act \in Tools
      PROVE  Moves(a, "audit")
  <2> DEFINE n == [j EXCEPT !.into = None, !.line = None]
             k == [n EXCEPT !.pc = "audit"]
  <2>1. n \in Requests /\ n.act = j.act /\ n.code = j.code /\ n.about = j.about
    BY <1>1 DEF Requests
  <2>2. jobs' = [jobs EXCEPT ![a] = k]
    BY <1>4 DEF AfterAppend, Does, Tools
  <2> HIDE DEF n
  <2>3. k \in Requests /\ k.pc = "audit" /\ k.act = j.act /\ k.code = j.code /\ k.about = j.about
    BY <2>1 DEF Requests
  <2> HIDE DEF k
  <2>4. k.about \in Players /\ k.act \in Tools
    BY <1>1, <1>4, <2>3 DEF Mid, Tools
  <2>5. Stage(k)
    BY <2>3, <2>4, StageOf
  <2>6. Moves(a, k.pc)
    BY <2>2, <2>3, <2>5, MovesOn
  <2> QED BY <2>3, <2>6
<1> QED BY <1>2, <1>3, <1>4

LEMMA CutsMoves ==
    ASSUME JobsOK, StoreOK, NEW a \in Actors, Cuts(a)
    PROVE  /\ At(a, "cut")
           /\ jobs'[a].sid = jobs[a].sid
           /\ \/ jobs[a].act = "delete" /\ Moves(a, "mark")
              \/ jobs[a].act = "ban" /\ Moves(a, "ban")
              \/ jobs[a].act = "warn" /\ Moves(a, "notice")
              \/ jobs[a].act = "flagged" /\ Moves(a, "audit")
<1> DEFINE j == jobs[a]
           n == IF j.sid = None THEN 0 ELSE CutAt(Len(transcript[j.sid]))
           pc == CASE Does(a, {"delete"}) -> "mark"
                   [] Does(a, {"ban"}) -> "ban"
                   [] Does(a, {"warn"}) -> "notice"
                   [] OTHER -> "audit"
           m == [j EXCEPT !.cut = n]
           k == [m EXCEPT !.pc = pc]
<1>1. /\ j \in Requests /\ Stage(j) /\ At(a, "cut")
      /\ j.code \in Codes /\ j.about \in Players /\ j.act \in Tools \cup {"flagged"}
      /\ j.act = "delete" => j.sid \in Ids
  BY AtWork DEF Cuts, At, Stage, Tools
<1>2. n \in Nat
  <2>1. j.sid \in Ids \cup {None}
    BY <1>1 DEF Requests
  <2>2. j.sid # None => Len(transcript[j.sid]) \in Nat
    BY <2>1, LenProperties DEF StoreOK
  <2> QED BY <2>2 DEF CutAt
<1>3. jobs' = [jobs EXCEPT ![a] = k]
  <2>1. jobs' = [jobs EXCEPT ![a].cut = n, ![a].pc = pc]
    BY DEF Cuts
  <2> HIDE DEF n, pc
  <2> QED BY <2>1
<1> HIDE DEF n
<1>4. /\ m \in Requests /\ m.act = j.act /\ m.code = j.code /\ m.about = j.about /\ m.sid = j.sid
  BY <1>1, <1>2 DEF Requests
<1>5. \/ j.act = "delete" /\ pc = "mark"
      \/ j.act = "ban" /\ pc = "ban"
      \/ j.act = "warn" /\ pc = "notice"
      \/ j.act = "flagged" /\ pc = "audit"
  BY <1>1 DEF Does, Tools
<1> HIDE DEF m, pc
<1>6. /\ k \in Requests /\ k.pc = pc /\ k.act = j.act /\ k.code = j.code /\ k.about = j.about
      /\ k.sid = j.sid
  <2>1. pc \in Pcs
    BY <1>5 DEF Pcs
  <2> QED BY <1>4, <2>1, NewPc
<1> HIDE DEF k
<1>7. Stage(k)
  BY <1>1, <1>5, <1>6, StageOf DEF Tools
<1>8. Moves(a, k.pc) /\ jobs'[a] = k
  BY <1>3, <1>6, <1>7, MovesOn
<1> QED BY <1>1, <1>5, <1>6, <1>8

LEMMA LooksMoves ==
    ASSUME JobsOK, StoreOK, NEW a \in Actors, Looks(a)
    PROVE  At(a, "look") /\ jobs[a].act \in Tools /\ (Gets(a, Idle) \/ Moves(a, "cut"))
<1> DEFINE j == jobs[a]
           sid == live[j.code]
           lines == IF sid = None THEN {} ELSE Range(transcript[sid])
           ids == {l.id : l \in lines}
<1>1. /\ j \in Requests /\ Stage(j) /\ At(a, "look")
      /\ j.code \in Codes /\ j.about \in Players /\ j.act \in Tools
  BY AtWork DEF Looks, At, Stage, Tools
<1>2. sid \in Ids \cup {None}
  BY <1>1 DEF StoreOK
<1>3. ids \subseteq Ids
  <2>1. lines \subseteq Line
    BY <1>2 DEF StoreOK, Range
  <2> QED BY <2>1 DEF Line
<1>4. PICK ticked \in SUBSET ids :
         IF \/ Does(a, {"delete"}) /\ ticked = {}
            \/ ~alive[j.code] /\ \A l \in lines : l.by # j.about
         THEN Done(a)
         ELSE jobs' = [jobs EXCEPT
                 ![a].pc = "cut", ![a].sid = sid,
                 ![a].ticked = IF j.act = "delete" THEN ticked ELSE {},
                 ![a].bodies = {l.id : l \in {k \in lines : k.by = j.about}} \cap ticked]
  BY DEF Looks
<1>5. CASE Done(a)
  BY <1>1, <1>5, DoneRests
<1>6. CASE ~Done(a)
  <2> DEFINE t == IF j.act = "delete" THEN ticked ELSE {}
             b == {l.id : l \in {k \in lines : k.by = j.about}} \cap ticked
             m == [j EXCEPT !.pc = "cut", !.sid = sid]
             k == [m EXCEPT !.ticked = t, !.bodies = b]
  <2>1. t \in SUBSET Ids /\ b \in SUBSET Ids
    BY <1>3
  <2>2. j.act = "delete" => sid \in Ids
    <3>1. ASSUME j.act = "delete", sid = None
          PROVE  FALSE
      <4>1. ticked = {}
        BY <3>1
      <4> QED BY <1>4, <1>6, <3>1, <4>1 DEF Does
    <3> QED BY <1>2, <3>1
  <2>3. jobs' = [jobs EXCEPT ![a] = k]
    <3>1. jobs' = [jobs EXCEPT ![a].pc = "cut", ![a].sid = sid, ![a].ticked = t, ![a].bodies = b]
      BY <1>4, <1>6
    <3> HIDE DEF t, b, sid
    <3> QED BY <3>1
  <2> HIDE DEF t, b, sid
  <2>4. /\ m \in Requests /\ m.pc = "cut" /\ m.sid = sid
        /\ m.act = j.act /\ m.code = j.code /\ m.about = j.about
    BY <1>1, <1>2 DEF Requests
  <2> HIDE DEF m
  <2>5. /\ k \in Requests /\ k.pc = "cut" /\ k.sid = sid
        /\ k.act = j.act /\ k.code = j.code /\ k.about = j.about
    BY <2>1, <2>4 DEF Requests
  <2> HIDE DEF k
  <2>6. Stage(k)
    BY <1>1, <2>2, <2>5, StageOf DEF Tools
  <2>7. Moves(a, k.pc)
    BY <2>3, <2>5, <2>6, MovesOn
  <2> QED BY <1>1, <2>5, <2>7
<1> QED BY <1>5, <1>6

LEMMA MarksMoves ==
    ASSUME JobsOK, NEW a \in Actors, Marks(a)
    PROVE  /\ At(a, "mark") /\ jobs[a].act = "delete" /\ Moves(a, "notice")
           /\ jobs[a].sid \in Ids /\ jobs[a].ticked \in SUBSET Ids
<1> DEFINE j == jobs[a]
           m == [j EXCEPT !.ticked = {}]
           k == [m EXCEPT !.pc = "notice"]
<1>1. /\ j \in Requests /\ At(a, "mark") /\ j.sid \in Ids
      /\ j.code \in Codes /\ j.about \in Players /\ j.act = "delete"
  BY AtWork DEF Marks, At, Stage, Tools
<1>2. /\ m \in Requests /\ m.act = j.act /\ m.code = j.code /\ m.about = j.about /\ m.sid = j.sid
  BY <1>1 DEF Requests
<1>3. jobs' = [jobs EXCEPT ![a] = k]
  BY DEF Marks
<1> HIDE DEF m
<1>4. k \in Requests /\ k.pc = "notice" /\ k.act = j.act /\ k.code = j.code /\ k.about = j.about
  BY <1>2 DEF Requests
<1> HIDE DEF k
<1>5. Stage(k)
  BY <1>1, <1>4, StageOf DEF Tools
<1>6. Moves(a, k.pc)
  BY <1>3, <1>4, <1>5, MovesOn
<1>7. j.ticked \in SUBSET Ids
  BY <1>1 DEF Requests
<1> QED BY <1>1, <1>4, <1>6, <1>7

LEMMA BansMoves ==
    ASSUME JobsOK, NEW a \in Actors, Bans(a)
    PROVE  /\ At(a, "ban") /\ jobs[a].act = "ban" /\ jobs[a].about \in Players
           /\ IF jobs[a].about \notin banned
              THEN banned' = banned \cup {jobs[a].about} /\ Moves(a, "notice")
              ELSE banned' = banned /\ Gets(a, Idle)
<1> DEFINE j == jobs[a]
<1>1. /\ j \in Requests /\ At(a, "ban")
      /\ j.code \in Codes /\ j.about \in Players /\ j.act = "ban"
  BY AtWork DEF Bans, At, Stage, Tools
<1>2. ASSUME Goes(a, "notice")
      PROVE  Moves(a, "notice")
  <2>1. \A k : Follows(k, j, "notice") => Stage(k)
    BY <1>1, StageOf DEF Follows, Tools
  <2> QED BY <1>1, <1>2, <2>1, GoesMoves DEF At, Pcs
<1> QED BY <1>1, <1>2, DoneRests DEF Bans, BansNew

LEMMA NoticesMoves ==
    ASSUME JobsOK, Counted, NEW a \in Actors, Notices(a)
    PROVE  /\ At(a, "notice") /\ jobs[a].act \in Tools
           /\ \/ Moves(a, "audit") /\ issued' = issued
              \/ Moves(a, "resolve") /\ issued' = issued + 1
<1> DEFINE j == jobs[a]
<1>1. /\ j \in Requests /\ At(a, "notice")
      /\ j.code \in Codes /\ j.about \in Players /\ j.act \in Tools
  BY AtWork DEF Notices, At, Stage, Tools
<1>2. ASSUME Goes(a, "audit")
      PROVE  Moves(a, "audit")
  <2>1. \A k : Follows(k, j, "audit") => Stage(k)
    BY <1>1, StageOf DEF Follows, Tools
  <2> QED BY <1>1, <1>2, <2>1, GoesMoves DEF At, Pcs
<1>3. ASSUME PutsLine(a, issued + 1, "resolve")
      PROVE  Moves(a, "resolve")
  <2>1. issued + 1 \in Ids
    BY <1>1, IdLeft
  <2>2. \A k : Follows(k, j, "resolve") /\ k.line = issued + 1 => Stage(k)
    BY <1>1, <2>1, StageOf DEF Follows, Tools
  <2> QED BY <1>1, <1>3, <2>1, <2>2, LineMoves DEF At, Pcs
<1> QED BY <1>1, <1>2, <1>3 DEF Notices, PutsLine

LEMMA FindsMoves ==
    ASSUME JobsOK, StoreOK, NEW a \in Actors, Finds(a)
    PROVE  At(a, "find") /\ jobs[a].act = "end" /\ (Gets(a, Idle) \/ Moves(a, "decide"))
<1> DEFINE j == jobs[a]
           s == live[j.code]
<1>1. /\ j \in Requests /\ At(a, "find") /\ j.code \in Codes /\ j.act = "end"
  BY AtWork DEF Finds, At, Stage
<1>2. s \in Ids \cup {None}
  BY <1>1 DEF StoreOK
<1>3. ASSUME PutsSid(a, s, "decide"), s # None
      PROVE  Moves(a, "decide")
  <2>2. \A k : Follows(k, j, "decide") /\ k.sid = s => Stage(k)
    BY <1>1, <1>2, <1>3, StageOf DEF Follows, Ending
  <2> QED BY <1>1, <1>2, <1>3, <2>2, SidMoves DEF At, Pcs
<1> QED BY <1>1, <1>3, DoneRests DEF Finds, PutsSid

\* A teardown goes on with the instance it found.
LEMMA EndMoves ==
    ASSUME JobsOK, NEW a \in Actors, NEW pc \in Ending, jobs[a].pc \in Ending, Goes(a, pc)
    PROVE  /\ jobs[a].act = "end" /\ jobs[a].code \in Codes /\ jobs[a].sid \in Ids
           /\ Moves(a, pc) /\ jobs'[a].sid = jobs[a].sid
<1> DEFINE j == jobs[a]
<1>1. /\ j \in Requests /\ j.pc # "idle" /\ j.act = "end" /\ j.code \in Codes /\ j.sid \in Ids
  BY AtWork DEF Stage, Ending
<1>2. \A k : Follows(k, j, pc) /\ k.sid = j.sid => Stage(k)
  BY <1>1, StageOf DEF Follows
<1>3. pc \in Pcs
  BY DEF Ending, Pcs
<1> QED BY <1>1, <1>2, <1>3, GoesMoves

-----------------------------------------------------------------------------
(* Requests that begin *)

\* a takes up a request for code c, at its first stage.
Begins(a, pc, act, c) ==
    /\ At(a, "idle") /\ JobsOK' /\ jobs'[a] \in Staged
    /\ jobs'[a].pc = pc /\ jobs'[a].act = act /\ jobs'[a].code = c
    /\ \A b \in Actors \ {a} : jobs'[b] = jobs[b]

LEMMA JobIs ==
    ASSUME NEW act \in {"clean", "flagged", "say", "warn", "delete", "ban", "unban", "end"},
           NEW pc \in Pcs, NEW c \in Codes \cup {NoOne}, NEW p \in Players \cup {NoOne}
    PROVE  LET j == Job(act, pc, c, p)
           IN  j \in Requests /\ j.pc = pc /\ j.act = act /\ j.code = c /\ j.about = p
BY DEF Job, Requests, Pcs

LEMMA Beginning ==
    ASSUME JobsOK, NEW a \in Actors, At(a, "idle"), NEW j \in Requests, Stage(j),
           jobs' = [jobs EXCEPT ![a] = j]
    PROVE  Begins(a, j.pc, j.act, j.code) /\ jobs'[a] = j
BY Getting DEF Gets, Begins, Staged

LEMMA SpeaksBegins ==
    ASSUME JobsOK, NEW a \in Actors, At(a, "idle"), NEW c \in Codes, NEW i \in Ids,
           NEW act \in {"clean", "flagged", "say"}, NEW p \in Players \cup {NoOne},
           act # "say" => p \in Players,
           jobs' = [jobs EXCEPT ![a] = [Job(act, "resolve", c, p) EXCEPT !.line = i]]
    PROVE  Begins(a, "resolve", act, c) /\ jobs'[a].about = p
<1> DEFINE j == Job(act, "resolve", c, p)
           k == [j EXCEPT !.line = i]
<1>1. j \in Requests /\ j.pc = "resolve" /\ j.act = act /\ j.code = c /\ j.about = p
  BY JobIs DEF Pcs
<1>2. jobs' = [jobs EXCEPT ![a] = k]
  OBVIOUS
<1> HIDE DEF j
<1>3. /\ k \in Requests /\ k.pc = "resolve" /\ k.act = act /\ k.code = c /\ k.about = p
      /\ k.line = i
  BY <1>1 DEF Requests
<1> HIDE DEF k
<1>4. Stage(k)
  BY <1>3, StageOf
<1>5. Begins(a, k.pc, k.act, k.code) /\ jobs'[a] = k
  BY <1>2, <1>3, <1>4, Beginning
<1> QED BY <1>3, <1>5

LEMMA FreshId ==
    ASSUME Counted, Event
    PROVE  issued + 1 \in Ids
<1>1. Cardinality(Resolvers) \in Nat /\ Cardinality(Soon) \in Nat
  BY SomeActors DEF Resolvers, Soon
<1> QED BY <1>1, Bounds DEF Counted, Event, Ids

LEMMA SendChatBegins ==
    ASSUME JobsOK, Counted, NEW p \in Players, NEW c \in Codes, SendChat(p, c)
    PROVE  /\ issued' = issued + 1 /\ issued + 1 \in Ids /\ jobs'[p].about = p
           /\ Begins(p, "resolve", "clean", c) \/ Begins(p, "resolve", "flagged", c)
<1>1. issued + 1 \in Ids
  BY FreshId DEF SendChat, Request
<1>2. PICK act \in {"clean", "flagged"} :
         jobs' = [jobs EXCEPT ![p] = [Job(act, "resolve", c, p) EXCEPT !.line = issued + 1]]
  BY DEF SendChat
<1>3. p \in Actors /\ At(p, "idle")
  BY DEF Actors, SendChat, Request
<1>4. Begins(p, "resolve", act, c) /\ jobs'[p].about = p
  BY <1>1, <1>2, <1>3, SpeaksBegins
<1> QED BY <1>1, <1>4 DEF SendChat

LEMMA SayBegins ==
    ASSUME JobsOK, Counted, NEW m \in Moderators, NEW c \in Codes, Say(m, c)
    PROVE  issued' = issued + 1 /\ issued + 1 \in Ids /\ Begins(m, "resolve", "say", c)
<1>1. issued + 1 \in Ids
  BY FreshId DEF Say, Request
<1>2. m \in Actors /\ At(m, "idle")
  BY DEF Actors, Say, Request
<1>3. Begins(m, "resolve", "say", c)
  BY <1>1, <1>2, SpeaksBegins DEF Say
<1> QED BY <1>1, <1>3 DEF Say

LEMMA PressBegins ==
    ASSUME JobsOK, NEW m \in Moderators, NEW c \in Codes, NEW p \in Players, NEW act \in Tools,
           Press(m, c, act, p)
    PROVE  Begins(m, "look", act, c) /\ jobs'[m].about = p
<1> DEFINE j == Job(act, "look", c, p)
<1>1. j \in Requests /\ j.pc = "look" /\ j.act = act /\ j.code = c /\ j.about = p
  BY JobIs DEF Pcs, Tools
<1>2. m \in Actors /\ At(m, "idle") /\ jobs' = [jobs EXCEPT ![m] = j]
  BY DEF Actors, Press, Request
<1> HIDE DEF j
<1>3. Stage(j)
  BY <1>1, StageOf
<1>4. Begins(m, j.pc, j.act, j.code) /\ jobs'[m] = j
  BY <1>1, <1>2, <1>3, Beginning
<1> QED BY <1>1, <1>4

LEMMA ListBegins ==
    ASSUME JobsOK, NEW m \in Moderators, NEW p \in Players, NEW act \in {"ban", "unban"},
           At(m, "idle"), jobs' = [jobs EXCEPT ![m] = Job(act, "audit", NoOne, p)]
    PROVE  Begins(m, "audit", act, NoOne) /\ jobs'[m].about = p
<1> DEFINE j == Job(act, "audit", NoOne, p)
<1>1. j \in Requests /\ j.pc = "audit" /\ j.act = act /\ j.code = NoOne /\ j.about = p
  BY JobIs DEF Pcs
<1>2. m \in Actors /\ jobs' = [jobs EXCEPT ![m] = j]
  BY DEF Actors
<1> HIDE DEF j
<1>3. Stage(j)
  BY <1>1, StageOf DEF Tools
<1>4. Begins(m, j.pc, j.act, j.code) /\ jobs'[m] = j
  BY <1>1, <1>2, <1>3, Beginning
<1> QED BY <1>1, <1>4

LEMMA EndBegins ==
    ASSUME JobsOK, NEW a \in Actors, NEW c \in Codes, At(a, "idle"),
           jobs' = [jobs EXCEPT ![a] = Job("end", "find", c, NoOne)]
    PROVE  Begins(a, "find", "end", c)
<1> DEFINE j == Job("end", "find", c, NoOne)
<1>1. j \in Requests /\ j.pc = "find" /\ j.act = "end" /\ j.code = c /\ j.about = NoOne
  BY JobIs DEF Pcs
<1>2. jobs' = [jobs EXCEPT ![a] = j]
  OBVIOUS
<1> HIDE DEF j
<1>3. Stage(j)
  BY <1>1, StageOf
<1>4. Begins(a, j.pc, j.act, j.code) /\ jobs'[a] = j
  BY <1>1, <1>2, <1>3, Beginning
<1> QED BY <1>1, <1>4

-----------------------------------------------------------------------------
(* Types *)

\* The ids a request may still draw.
Weight(j) ==
    (IF j.pc = "resolve" THEN 1 ELSE 0) +
    (IF j.pc \in {"look", "cut", "mark", "ban", "notice"} /\ j.act \in Tools THEN 2 ELSE 0)

LEMMA Balance ==
    ASSUME NEW i \in Nat, NEW i1 \in Nat, NEW e \in Nat, NEW e1 \in Nat,
           NEW r \in Nat, NEW r1 \in Nat, NEW s \in Nat, NEW s1 \in Nat,
           NEW p \in Nat, NEW p1 \in Nat, NEW q \in Nat, NEW q1 \in Nat,
           r1 + p = r + p1, 2 * s1 + q = 2 * s + q1,
           i + r + 2 * s <= 2 * e, i1 + (p1 + q1) + 2 * e <= i + (p + q) + 2 * e1
    PROVE  i1 + r1 + 2 * s1 <= 2 * e1
OBVIOUS

LEMMA Recount ==
    ASSUME Counted, NEW a \in Actors, \A b \in Actors \ {a} : jobs'[b] = jobs[b],
           issued' \in Nat, events' \in Nat, events' <= MaxEvents,
           issued' + Weight(jobs'[a]) + 2 * events <= issued + Weight(jobs[a]) + 2 * events'
    PROVE  Counted'
<1> DEFINE r == Cardinality(Resolvers)
           s == Cardinality(Soon)
           r1 == Cardinality(Resolvers')
           s1 == Cardinality(Soon')
<1>1. /\ r \in Nat /\ r1 \in Nat
      /\ a \in Resolvers /\ a \notin Resolvers' => r = r1 + 1
      /\ a \notin Resolvers /\ a \in Resolvers' => r1 = r + 1
      /\ (a \in Resolvers <=> a \in Resolvers') => r1 = r
  <2>1. IsFiniteSet(Resolvers) /\ IsFiniteSet(Resolvers')
    BY SomeActors DEF Resolvers
  <2>2. Resolvers \ {a} = Resolvers' \ {a}
    BY DEF Resolvers, At
  <2> QED BY <2>1, <2>2, OneApart
<1>2. /\ s \in Nat /\ s1 \in Nat
      /\ a \in Soon /\ a \notin Soon' => s = s1 + 1
      /\ a \notin Soon /\ a \in Soon' => s1 = s + 1
      /\ (a \in Soon <=> a \in Soon') => s1 = s
  <2>1. IsFiniteSet(Soon) /\ IsFiniteSet(Soon')
    BY SomeActors DEF Soon
  <2>2. Soon \ {a} = Soon' \ {a}
    BY DEF Soon
  <2> QED BY <2>1, <2>2, OneApart
<1>3. /\ Weight(jobs[a]) = (IF a \in Resolvers THEN 1 ELSE 0) + (IF a \in Soon THEN 2 ELSE 0)
      /\ Weight(jobs'[a]) = (IF a \in Resolvers' THEN 1 ELSE 0) + (IF a \in Soon' THEN 2 ELSE 0)
  BY DEF Weight, Resolvers, Soon, At
<1>4. Counted <=> issued \in Nat /\ events \in Nat /\ events <= MaxEvents /\ issued + r + 2 * s <= 2 * events
  BY DEF Counted
<1>5. Counted' <=> issued' \in Nat /\ events' \in Nat /\ events' <= MaxEvents /\ issued' + r1 + 2 * s1 <= 2 * events'
  BY DEF Counted
<1>6. issued' + r1 + 2 * s1 <= 2 * events'
  <2> DEFINE p == IF a \in Resolvers THEN 1 ELSE 0
             p1 == IF a \in Resolvers' THEN 1 ELSE 0
             q == IF a \in Soon THEN 2 ELSE 0
             q1 == IF a \in Soon' THEN 2 ELSE 0
  <2> HIDE DEF r, s, r1, s1
  <2>1. p \in Nat /\ p1 \in Nat /\ r1 + p = r + p1 /\ r \in Nat /\ r1 \in Nat
    BY <1>1
  <2>2. q \in Nat /\ q1 \in Nat /\ 2 * s1 + q = 2 * s + q1 /\ s \in Nat /\ s1 \in Nat
    BY <1>2
  <2>3. Weight(jobs[a]) = p + q /\ Weight(jobs'[a]) = p1 + q1
    BY <1>3
  <2>4. issued \in Nat /\ events \in Nat /\ issued + r + 2 * s <= 2 * events
    BY <1>4
  <2> HIDE DEF p, p1, q, q1
  <2>5. issued' + (p1 + q1) + 2 * events <= issued + (p + q) + 2 * events'
    BY <2>3
  <2> DEFINE i == issued
             i1 == issued'
             e == events
             e1 == events'
  <2>6. /\ i \in Nat /\ i1 \in Nat /\ e \in Nat /\ e1 \in Nat
        /\ i + r + 2 * s <= 2 * e /\ i1 + (p1 + q1) + 2 * e <= i + (p + q) + 2 * e1
    BY <2>4, <2>5
  <2>7. i1 + r1 + 2 * s1 <= 2 * e1
    <3> HIDE DEF i, i1, e, e1
    <3> QED BY <2>1, <2>2, <2>6, Balance
  <2> QED BY <2>7
<1> QED BY <1>5, <1>6

\* The last id is in reach, and the next one while somebody is owed one.
LEMMA CountedIssued ==
    ASSUME Counted
    PROVE  issued \in 0 .. 2 * MaxEvents
<1>1. Cardinality(Resolvers) \in Nat /\ Cardinality(Soon) \in Nat
  BY SomeActors DEF Resolvers, Soon
<1> QED BY <1>1, Bounds DEF Counted

\* The variables that are not requests or counters.
Kept ==
    /\ alive \in [Codes -> BOOLEAN] /\ gen \in [Codes -> 0 .. MaxGen]
    /\ StoreOK
    /\ marks \subseteq Ids \X Ids
    /\ retained \subseteq Ids /\ flagged \subseteq Ids /\ archived \subseteq Ids /\ doomed \subseteq Ids
    /\ banned \subseteq Players
    /\ up \in BOOLEAN
    /\ cursor \in [Categories -> Nat] /\ (\A c \in Categories : cursor[c] <= Len(Legacy[c]))
    /\ unrecorded \in [Players -> Int]

Typed == Kept /\ JobsOK /\ Counted

LEMMA TypedTypes == Typed => TypeOK
<1> SUFFICES ASSUME Typed
             PROVE  TypeOK
  OBVIOUS
<1>1. issued \in 0 .. 2 * MaxEvents
  BY CountedIssued DEF Typed
<1>2. events \in 0 .. MaxEvents
  BY Bounds DEF Typed, Counted
<1>3. jobs \in [Actors -> Requests \cup {Idle}]
  <2>1. Staged \cup {Idle} \subseteq Requests \cup {Idle}
    BY DEF Staged
  <2> QED BY <2>1 DEF Typed, JobsOK
<1>4. retained \cup flagged \cup archived \cup doomed \subseteq Ids
  BY DEF Typed, Kept
<1> QED BY <1>1, <1>2, <1>3, <1>4 DEF Typed, Kept, StoreOK, TypeOK

LEMMA TypedStart == Init => Typed
<1> SUFFICES ASSUME Init
             PROVE  Typed
  OBVIOUS
<1>1. Kept
  <2>1. Legacy \in [Categories -> Seq({"good", "corrupt"})] /\ MaxGen \in Nat
    BY ChatAssumption
  <2>2. \A c \in Categories : Len(Legacy[c]) \in Nat
    BY <2>1, LenProperties
  <2>3. StoreOK
    <3>1. transcript = [s \in Ids |-> <<>>] /\ <<>> \in Seq(Line)
      BY DEF Init
    <3> QED BY <3>1 DEF Init, StoreOK
  <2>4. cursor \in [Categories -> Nat] /\ (\A c \in Categories : cursor[c] <= Len(Legacy[c]))
    BY <2>2 DEF Init
  <2>5. up \in BOOLEAN
    BY DEF Init
  <2>7. unrecorded \in [Players -> Int]
    BY DEF Init
  <2>6. alive \in [Codes -> BOOLEAN] /\ gen \in [Codes -> 0 .. MaxGen]
    BY <2>1 DEF Init
  <2> QED BY <2>3, <2>4, <2>5, <2>6, <2>7 DEF Init, Kept
<1>2. JobsOK
  BY DEF Init, JobsOK
<1>3. Counted
  <2>1. Resolvers = {} /\ Soon = {}
    BY IdlePc DEF Init, Resolvers, Soon, At
  <2> QED BY <2>1, FS_EmptySet, Bounds DEF Init, Counted
<1> QED BY <1>1, <1>2, <1>3 DEF Typed

kept == <<alive, gen, live, transcript, marks, retained, flagged, archived, doomed, banned, up,
          cursor, unrecorded>>

LEMMA KeptFrame ==
    ASSUME Kept, UNCHANGED kept
    PROVE  Kept'
BY DEF Kept, StoreOK, kept

\* One request's step keeps the types when it stays within what is counted for it.
LEMMA StillTyped ==
    ASSUME Typed, Kept', JobsOK', NEW a \in Actors, \A b \in Actors \ {a} : jobs'[b] = jobs[b],
           issued' = issued \/ issued' = issued + 1, UNCHANGED events \/ Event,
           issued' + Weight(jobs'[a]) + 2 * events <= issued + Weight(jobs[a]) + 2 * events'
    PROVE  Typed'
<1>1. issued' \in Nat /\ events' \in Nat /\ events' <= MaxEvents
  BY Bounds DEF Typed, Counted, Event
<1>2. Counted'
  BY <1>1, Recount DEF Typed
<1> QED BY <1>2 DEF Typed

\* The weight of what a step leaves.
LEMMA Weights ==
    /\ Weight(Idle) = 0
    /\ \A j : /\ Weight(j) \in {0, 1, 2}
              /\ j.pc = "resolve" => Weight(j) = 1
              /\ j.pc \in {"look", "cut", "mark", "ban", "notice"} =>
                    Weight(j) = IF j.act \in Tools THEN 2 ELSE 0
              /\ j.pc \in Pcs \ {"resolve", "look", "cut", "mark", "ban", "notice"} => Weight(j) = 0
<1>1. Weight(Idle) = 0
  BY IdlePc DEF Weight
<1>2. ASSUME NEW j
      PROVE  /\ Weight(j) \in {0, 1, 2}
             /\ j.pc = "resolve" => Weight(j) = 1
             /\ j.pc \in {"look", "cut", "mark", "ban", "notice"} =>
                   Weight(j) = IF j.act \in Tools THEN 2 ELSE 0
  <2> DEFINE p == IF j.pc = "resolve" THEN 1 ELSE 0
             q == IF j.pc \in {"look", "cut", "mark", "ban", "notice"} /\ j.act \in Tools THEN 2 ELSE 0
  <2>1. Weight(j) = p + q
    BY DEF Weight
  <2>2. p \in {0, 1} /\ q \in {0, 2} /\ (p = 1 => q = 0)
    OBVIOUS
  <2>3. j.pc = "resolve" => p = 1 /\ q = 0
    OBVIOUS
  <2>4. j.pc \in {"look", "cut", "mark", "ban", "notice"} =>
           p = 0 /\ q = IF j.act \in Tools THEN 2 ELSE 0
    OBVIOUS
  <2> HIDE DEF p, q
  <2> QED BY <2>1, <2>2, <2>3, <2>4
<1>3. ASSUME NEW j, j.pc \in Pcs \ {"resolve", "look", "cut", "mark", "ban", "notice"}
      PROVE  Weight(j) = 0
  BY <1>3 DEF Weight
<1> QED BY <1>1, <1>2, <1>3

\* A step that draws no id and adds no weight.
LEMMA LightStep ==
    ASSUME Typed, Kept', NEW a \in Actors, UNCHANGED issued, UNCHANGED events \/ Event,
           \/ Gets(a, Idle)
           \/ JobsOK' /\ (\A b \in Actors \ {a} : jobs'[b] = jobs[b]) /\ Weight(jobs'[a]) <= Weight(jobs[a])
    PROVE  Typed'
<1>1. JobsOK' /\ (\A b \in Actors \ {a} : jobs'[b] = jobs[b]) /\ Weight(jobs'[a]) <= Weight(jobs[a])
  <2>1. CASE Gets(a, Idle)
    <3>1. Weight(jobs[a]) \in {0, 1, 2} /\ Weight(Idle) = 0
      BY Weights
    <3> QED BY <2>1, <3>1 DEF Gets
  <2> QED BY <2>1
<1>2. issued \in Nat /\ events \in Nat /\ (events' = events \/ events' = events + 1)
  BY DEF Typed, Counted, Event
<1>3. Weight(jobs[a]) \in {0, 1, 2} /\ Weight(jobs'[a]) \in {0, 1, 2}
  BY Weights
<1>4. issued' + Weight(jobs'[a]) + 2 * events <= issued + Weight(jobs[a]) + 2 * events'
  BY <1>1, <1>2, <1>3
<1> QED BY <1>1, <1>4, StillTyped

\* A step that draws an id it was counted for.
LEMMA DrawingStep ==
    ASSUME Typed, Kept', JobsOK', NEW a \in Actors, \A b \in Actors \ {a} : jobs'[b] = jobs[b],
           issued' = issued + 1, UNCHANGED events, Weight(jobs'[a]) + 1 = Weight(jobs[a])
    PROVE  Typed'
<1>2. issued \in Nat /\ events \in Nat
  BY DEF Typed, Counted
<1>3. Weight(jobs[a]) \in {0, 1, 2} /\ Weight(jobs'[a]) \in {0, 1, 2}
  BY Weights
<1>4. issued' + Weight(jobs'[a]) + 2 * events <= issued + Weight(jobs[a]) + 2 * events'
  BY <1>2, <1>3
<1> QED BY <1>4, StillTyped

\* A request that begins: its event pays for every id it will draw.
LEMMA BeginningStep ==
    ASSUME Typed, Kept', NEW a \in Actors, NEW pc, NEW act, NEW c, Begins(a, pc, act, c), Event,
           issued' = issued \/ (issued' = issued + 1 /\ pc = "resolve")
    PROVE  Typed'
<1>1. JobsOK' /\ (\A b \in Actors \ {a} : jobs'[b] = jobs[b]) /\ jobs'[a].pc = pc
  BY DEF Begins
<1>2. issued \in Nat /\ events \in Nat /\ events' = events + 1
  BY DEF Typed, Counted, Event
<1>3. /\ Weight(jobs[a]) \in {0, 1, 2} /\ Weight(jobs'[a]) \in {0, 1, 2}
      /\ pc = "resolve" => Weight(jobs'[a]) = 1
  BY <1>1, Weights
<1>4. issued' + Weight(jobs'[a]) + 2 * events <= issued + Weight(jobs[a]) + 2 * events'
  BY <1>2, <1>3
<1> QED BY <1>1, <1>4, StillTyped

LEMMA MovesParts ==
    ASSUME NEW a \in Actors, NEW pc, Moves(a, pc)
    PROVE  /\ JobsOK' /\ (\A b \in Actors \ {a} : jobs'[b] = jobs[b])
           /\ jobs'[a].pc = pc /\ jobs'[a].act = jobs[a].act
BY DEF Moves

LEMMA SpeakingTyped ==
    ASSUME Typed, NEW a \in Actors,
           Resolve(a) \/ Claim(a) \/ Reread(a) \/ AppendLine(a) \/ AppendFails(a)
    PROVE  Typed'
<1>0. Kept /\ JobsOK /\ StoreOK /\ Counted
  BY DEF Typed, Kept
<1>1. CASE Resolve(a)
  <2>1. Kept'
    BY <1>0, <1>1, KeptFrame DEF Resolve, kept, history, sessions, log
  <2>2. UNCHANGED events
    BY <1>1 DEF Resolve
  <2>3. Weight(jobs[a]) = 1
    BY <1>1, Weights DEF Resolve, At
  <2>4. CASE issued' = issued /\ Moves(a, "append")
    <3>1. Weight(jobs'[a]) = 0
      BY <2>4, Weights DEF Moves, Pcs
    <3> QED BY <2>1, <2>2, <2>3, <2>4, <3>1, MovesParts, LightStep
  <2>5. CASE issued' = issued + 1 /\ Moves(a, "claim")
    <3>1. Weight(jobs'[a]) = 0
      BY <2>5, Weights DEF Moves, Pcs
    <3> QED BY <2>1, <2>2, <2>3, <2>5, <3>1, MovesParts, DrawingStep
  <2> QED BY <1>0, <1>1, <2>4, <2>5, ResolveMoves
<1>2. CASE Claim(a)
  <2>1. Kept'
    <3>1. StoreOK'
      BY <1>0, <1>2, ClaimMoves DEF StoreOK, Claim
    <3> QED BY <1>0, <1>2, <3>1 DEF Claim, Kept, history, sessions, log
  <2>2. UNCHANGED issued /\ UNCHANGED events
    BY <1>2 DEF Claim
  <2>3. Moves(a, "append") \/ Moves(a, "reread")
    BY <1>0, <1>2, ClaimMoves
  <2>4. Weight(jobs'[a]) = 0 /\ Weight(jobs[a]) = 0
    BY <1>2, <2>3, Weights DEF Moves, Pcs, Claim, At
  <2> QED BY <2>1, <2>2, <2>3, <2>4, MovesParts, LightStep
<1>3. CASE Reread(a)
  <2>1. Kept'
    BY <1>0, <1>3, KeptFrame DEF Reread, kept, history, chat, sessions, log
  <2>2. UNCHANGED issued /\ UNCHANGED events
    BY <1>3 DEF Reread, chat
  <2>3. Moves(a, "append")
    BY <1>0, <1>3, RereadMoves
  <2>4. Weight(jobs'[a]) = 0 /\ Weight(jobs[a]) = 0
    BY <1>3, <2>3, Weights DEF Moves, Pcs, Reread, At
  <2> QED BY <2>1, <2>2, <2>3, <2>4, MovesParts, LightStep
<1>4. ASSUME NEW stored \in BOOLEAN, At(a, "append"), AfterAppend(a, stored), Kept',
             UNCHANGED issued, UNCHANGED events \/ Event
      PROVE  Typed'
  <2>1. jobs[a].act \in Tools \cup {"clean", "flagged", "say"}
    BY <1>0, <1>4, AtWork DEF Stage, Storing, At
  <2>2. Weight(jobs[a]) = 0
    BY <1>4, Weights DEF At, Pcs
  <2>3. CASE Gets(a, Idle)
    BY <1>4, <2>3, LightStep
  <2>4. CASE Moves(a, "cut") /\ jobs[a].act = "flagged"
    <3>1. Weight(jobs'[a]) = 0
      BY <2>4, Weights DEF Moves, Pcs, Tools
    <3> QED BY <1>4, <2>2, <2>4, <3>1, MovesParts, LightStep
  <2>5. CASE Moves(a, "audit")
    <3>1. Weight(jobs'[a]) = 0
      BY <2>5, Weights DEF Moves, Pcs
    <3> QED BY <1>4, <2>2, <2>5, <3>1, MovesParts, LightStep
  <2> QED BY <1>0, <1>4, <2>1, <2>3, <2>4, <2>5, AfterMoves
<1>5. CASE AppendLine(a)
  <2>1. Mid(jobs[a])
    BY <1>0, <1>5, AtWork, MidStage DEF AppendLine, At, Storing
  <2>2. Kept'
    <3> DEFINE s == jobs[a].into
               line == [id |-> jobs[a].line, by |-> jobs[a].about, kind |-> jobs[a].act,
                        of |-> jobs[a].code]
    <3>1. line \in Line /\ s \in Ids
      <4>1. jobs[a].about \in Players \cup {NoOne}
        BY <1>0, <1>5, AtWork DEF AppendLine, At, Requests
      <4> QED BY <2>1, <4>1 DEF Mid, Line, Tools
    <3>2. /\ transcript' = [transcript EXCEPT ![s] = Append(@, line)]
          /\ retained' \subseteq retained \cup {s} /\ flagged' \subseteq flagged \cup {s}
      BY <1>5 DEF AppendLine
    <3> HIDE DEF line, s
    <3>3. transcript' \in [Ids -> Seq(Line)]
      BY <1>0, <3>1, <3>2, AppendProperties DEF StoreOK
    <3>4. StoreOK'
      BY <1>0, <1>5, <3>3 DEF StoreOK, AppendLine
    <3>5. retained' \subseteq Ids /\ flagged' \subseteq Ids
      BY <1>0, <3>1, <3>2 DEF Kept
    <3> QED BY <1>0, <1>5, <3>4, <3>5 DEF AppendLine, Kept, sessions, log
  <2>3. At(a, "append") /\ AfterAppend(a, TRUE) /\ UNCHANGED issued /\ UNCHANGED events
    BY <1>5 DEF AppendLine
  <2> QED BY <1>4, <2>2, <2>3
<1>6. CASE AppendFails(a)
  <2>1. Kept'
    BY <1>0, <1>6, KeptFrame DEF AppendFails, kept, history, chat, sessions, log
  <2>2. At(a, "append") /\ AfterAppend(a, FALSE) /\ UNCHANGED issued /\ Event
    BY <1>6 DEF AppendFails, Fault, chat
  <2> QED BY <1>4, <2>1, <2>2
<1> QED BY <1>1, <1>2, <1>3, <1>5, <1>6

LEMMA ToolTyped ==
    ASSUME Typed, NEW a \in Actors,
           \/ Looks(a) \/ Cuts(a) \/ Marks(a) \/ Bans(a) \/ WriteFails(a) \/ Notices(a)
           \/ Writes(a) \/ RecordFails(a)
    PROVE  Typed'
<1>0. Kept /\ JobsOK /\ StoreOK /\ Counted
  BY DEF Typed, Kept
<1>1. CASE Looks(a)
  <2>1. Kept' /\ UNCHANGED issued /\ UNCHANGED events
    BY <1>0, <1>1, KeptFrame DEF Looks, kept, history, chat, sessions, log
  <2>2. At(a, "look") /\ jobs[a].act \in Tools /\ (Gets(a, Idle) \/ Moves(a, "cut"))
    BY <1>0, <1>1, LooksMoves
  <2>3. Moves(a, "cut") => Weight(jobs'[a]) = 2 /\ Weight(jobs[a]) = 2
    BY <2>2, Weights DEF Moves, At
  <2> QED BY <2>1, <2>2, <2>3, MovesParts, LightStep
<1>2. CASE Cuts(a)
  <2>1. Kept' /\ UNCHANGED issued /\ UNCHANGED events
    BY <1>0, <1>2, KeptFrame DEF Cuts, kept, history, chat, sessions, log
  <2>2. At(a, "cut")
    BY <1>2 DEF Cuts
  <2>3. CASE jobs[a].act = "flagged" /\ Moves(a, "audit")
    <3>1. Weight(jobs'[a]) = 0 /\ Weight(jobs[a]) \in {0, 1, 2}
      BY <2>3, Weights DEF Moves, Pcs
    <3> QED BY <2>1, <2>3, <3>1, MovesParts, LightStep
  <2>4. ASSUME NEW pc \in {"mark", "ban", "notice"}, jobs[a].act \in Tools, Moves(a, pc)
        PROVE  Typed'
    <3>1. Weight(jobs'[a]) = 2 /\ Weight(jobs[a]) = 2
      BY <2>2, <2>4, Weights DEF Moves, At
    <3> QED BY <2>1, <2>4, <3>1, MovesParts, LightStep
  <2> QED BY <1>0, <1>2, <2>3, <2>4, CutsMoves DEF Tools
<1>3. CASE Marks(a)
  <2>1. /\ At(a, "mark") /\ jobs[a].act \in Tools /\ Moves(a, "notice")
        /\ jobs[a].sid \in Ids /\ jobs[a].ticked \in SUBSET Ids
    BY <1>0, <1>3, MarksMoves DEF Tools
  <2>2. Kept' /\ UNCHANGED issued /\ UNCHANGED events
    <3>1. marks' \subseteq Ids \X Ids /\ retained' \subseteq Ids
      BY <1>0, <1>3, <2>1 DEF Marks, Kept
    <3>2. StoreOK'
      BY <1>0, <1>3 DEF Marks, StoreOK
    <3> QED BY <1>0, <1>3, <3>1, <3>2 DEF Marks, Kept, history, sessions, log
  <2>3. Weight(jobs'[a]) = 2 /\ Weight(jobs[a]) = 2
    BY <2>1, Weights DEF Moves, At
  <2> QED BY <2>1, <2>2, <2>3, MovesParts, LightStep
<1>4. CASE Bans(a)
  <2>1. /\ At(a, "ban") /\ jobs[a].act \in Tools /\ jobs[a].about \in Players
        /\ Moves(a, "notice") \/ Gets(a, Idle)
        /\ banned' \subseteq banned \cup {jobs[a].about}
    BY <1>0, <1>4, BansMoves DEF Tools
  <2>2. Kept' /\ UNCHANGED issued /\ UNCHANGED events
    <3>1. banned' \subseteq Players
      BY <1>0, <2>1 DEF Kept
    <3>2. StoreOK'
      BY <1>0, <1>4 DEF Bans, StoreOK, chat
    <3> QED BY <1>0, <1>4, <3>1, <3>2 DEF Bans, Kept, sessions, log, chat
  <2>3. Moves(a, "notice") => Weight(jobs'[a]) = 2 /\ Weight(jobs[a]) = 2
    BY <2>1, Weights DEF Moves, At
  <2> QED BY <2>1, <2>2, <2>3, MovesParts, LightStep
<1>5. CASE WriteFails(a)
  <2>1. Kept' /\ UNCHANGED issued /\ Event
    BY <1>0, <1>5, KeptFrame DEF WriteFails, Fault, kept, history, chat, sessions, log
  <2>2. Gets(a, Idle)
    BY <1>0, <1>5, DoneRests DEF WriteFails
  <2> QED BY <2>1, <2>2, LightStep
<1>6. CASE Notices(a)
  <2>1. Kept' /\ UNCHANGED events
    BY <1>0, <1>6, KeptFrame DEF Notices, kept, history, sessions, log
  <2>2. At(a, "notice") /\ jobs[a].act \in Tools
    BY <1>0, <1>6, NoticesMoves
  <2>3. Weight(jobs[a]) = 2
    BY <2>2, Weights DEF At
  <2>4. CASE Moves(a, "audit") /\ issued' = issued
    <3>1. Weight(jobs'[a]) = 0
      BY <2>4, Weights DEF Moves, Pcs
    <3> QED BY <2>1, <2>3, <2>4, <3>1, MovesParts, LightStep
  <2>5. CASE Moves(a, "resolve") /\ issued' = issued + 1
    <3>1. Weight(jobs'[a]) = 1
      BY <2>5, Weights DEF Moves
    <3> QED BY <2>1, <2>3, <2>5, <3>1, MovesParts, DrawingStep
  <2> QED BY <1>0, <1>6, <2>4, <2>5, NoticesMoves
<1>7. CASE Writes(a)
  <2>1. Kept' /\ UNCHANGED issued /\ UNCHANGED events
    BY <1>0, <1>7, KeptFrame DEF Writes, kept, history, chat, sessions
  <2>2. Gets(a, Idle)
    BY <1>0, <1>7, DoneRests DEF Writes
  <2> QED BY <2>1, <2>2, LightStep
<1>8. CASE RecordFails(a)
  <2>1. jobs[a].about \in Players
    BY <1>0, <1>8, AtWork DEF RecordFails, At, Stage, Tools
  <2>2. Net(jobs[a].act) \in Int
    BY DEF Net
  <2>3. Kept' /\ UNCHANGED issued /\ Event
    <3>1. unrecorded' \in [Players -> Int]
      BY <1>0, <1>8, <2>1, <2>2 DEF RecordFails, Kept
    <3>2. StoreOK'
      BY <1>0, <1>8 DEF RecordFails, StoreOK, chat
    <3> QED BY <1>0, <1>8, <3>1, <3>2 DEF RecordFails, Kept, chat, sessions, log, Fault
  <2>4. Gets(a, Idle)
    BY <1>0, <1>8, DoneRests DEF RecordFails
  <2> QED BY <2>3, <2>4, LightStep
<1> QED BY <1>1, <1>2, <1>3, <1>4, <1>5, <1>6, <1>7, <1>8

LEMMA EndTyped ==
    ASSUME Typed, NEW a \in Actors,
           Finds(a) \/ Decides(a) \/ Archives(a) \/ Wipes(a) \/ Unlinks(a)
    PROVE  Typed'
<1>0. Kept /\ JobsOK /\ StoreOK /\ Counted
  BY DEF Typed, Kept
<1>1. ASSUME Kept', UNCHANGED issued, UNCHANGED events \/ Event,
             NEW pc \in Ending, Moves(a, pc)
      PROVE  Typed'
  <2>1. Weight(jobs'[a]) = 0 /\ Weight(jobs[a]) \in {0, 1, 2}
    BY <1>1, Weights DEF Moves, Ending, Pcs
  <2> QED BY <1>1, <2>1, MovesParts, LightStep
<1>2. CASE Finds(a)
  <2>1. Kept' /\ UNCHANGED issued /\ UNCHANGED events
    BY <1>0, <1>2, KeptFrame DEF Finds, kept, history, chat, sessions, log
  <2>2. Gets(a, Idle) \/ Moves(a, "decide")
    BY <1>0, <1>2, FindsMoves
  <2> QED BY <1>1, <2>1, <2>2, LightStep DEF Ending
<1>3. CASE Decides(a)
  <2>1. At(a, "decide") /\ (Goes(a, "archive") \/ Goes(a, "wipe"))
    BY <1>3 DEF Decides
  <2>2. jobs[a].sid \in Ids /\ (Moves(a, "archive") \/ Moves(a, "wipe"))
    BY <1>0, <2>1, EndMoves DEF Ending, At
  <2>3. Kept' /\ UNCHANGED issued
    <3>1. doomed' \subseteq Ids
      BY <1>0, <1>3, <2>2 DEF Decides, Kept
    <3>2. StoreOK'
      BY <1>0, <1>3 DEF Decides, StoreOK, chat
    <3> QED BY <1>0, <1>3, <3>1, <3>2 DEF Decides, Kept, chat, sessions, log
  <2>4. UNCHANGED events \/ Event
    BY <1>3 DEF Decides, Fault
  <2> QED BY <1>1, <2>2, <2>3, <2>4 DEF Ending
<1>4. CASE Archives(a)
  <2>1. jobs[a].sid \in Ids /\ Moves(a, "unlink")
    BY <1>0, <1>4, EndMoves DEF Archives, Ending, At
  <2>2. Kept' /\ UNCHANGED issued /\ UNCHANGED events
    <3>1. archived' \subseteq Ids
      BY <1>0, <1>4, <2>1 DEF Archives, Kept
    <3>2. StoreOK'
      BY <1>0, <1>4 DEF Archives, StoreOK
    <3> QED BY <1>0, <1>4, <3>1, <3>2 DEF Archives, Kept, history, sessions, log
  <2> QED BY <1>1, <2>1, <2>2 DEF Ending
<1>5. CASE Wipes(a)
  <2>1. jobs[a].sid \in Ids /\ Moves(a, "unlink")
    BY <1>0, <1>5, EndMoves DEF Wipes, Ending, At
  <2>2. Kept' /\ UNCHANGED issued /\ UNCHANGED events
    <3>1. marks' \subseteq Ids \X Ids /\ flagged' \subseteq Ids
      BY <1>0, <1>5 DEF Wipes, Kept
    <3>2. StoreOK'
      BY <1>0, <1>5, <2>1 DEF Wipes, StoreOK
    <3> QED BY <1>0, <1>5, <3>1, <3>2 DEF Wipes, Kept, history, sessions, log
  <2> QED BY <1>1, <2>1, <2>2 DEF Ending
<1>6. CASE Unlinks(a)
  <2>1. Gets(a, Idle)
    BY <1>0, <1>6, DoneRests DEF Unlinks
  <2>2. Kept' /\ UNCHANGED issued /\ UNCHANGED events
    <3>1. StoreOK'
      BY <1>0, <1>6 DEF Unlinks, StoreOK
    <3> QED BY <1>0, <1>6, <3>1 DEF Unlinks, Kept, history, sessions, log
  <2> QED BY <2>1, <2>2, LightStep
<1> QED BY <1>2, <1>3, <1>4, <1>5, <1>6

LEMMA RequestTyped ==
    ASSUME Typed, (\E p \in Players, c \in Codes : SendChat(p, c)) \/ ModeratorStep \/ CloserStep
    PROVE  Typed'
<1>0. Kept /\ JobsOK /\ StoreOK /\ Counted
  BY DEF Typed, Kept
<1>1. ASSUME NEW p \in Players, NEW c \in Codes, SendChat(p, c)
      PROVE  Typed'
  <2>1. Kept' /\ Event
    BY <1>0, <1>1, KeptFrame DEF SendChat, Request, kept, history, sessions, log
  <2>2. p \in Actors
    BY DEF Actors
  <2> QED BY <1>0, <1>1, <2>1, <2>2, SendChatBegins, BeginningStep
<1>2. ASSUME NEW m \in Moderators, NEW c \in Codes, Say(m, c)
      PROVE  Typed'
  <2>1. Kept' /\ Event
    BY <1>0, <1>2, KeptFrame DEF Say, Request, kept, history, sessions, log
  <2>2. m \in Actors
    BY DEF Actors
  <2> QED BY <1>0, <1>2, <2>1, <2>2, SayBegins, BeginningStep
<1>3. ASSUME NEW m \in Moderators, NEW c \in Codes, Sweeps(m, c)
      PROVE  Typed'
  <2>1. Kept' /\ Event /\ UNCHANGED issued /\ At(m, "idle")
    BY <1>0, <1>3, KeptFrame DEF Sweeps, Request, kept, history, sessions, log, chat
  <2>2. m \in Actors
    BY DEF Actors
  <2>3. Begins(m, "find", "end", c)
    BY <1>0, <1>3, <2>1, <2>2, EndBegins DEF Sweeps
  <2> QED BY <2>1, <2>2, <2>3, BeginningStep
<1>4. ASSUME NEW m \in Moderators, NEW p \in Players, NEW act \in {"ban", "unban"},
             NEW b \in SUBSET Players,
             At(m, "idle"), Event, jobs' = [jobs EXCEPT ![m] = Job(act, "audit", NoOne, p)],
             banned' = b, UNCHANGED <<sessions, chat, log, up, history>>
      PROVE  Typed'
  <2>1. Kept' /\ UNCHANGED issued
    <3>1. StoreOK'
      BY <1>0, <1>4 DEF StoreOK, chat
    <3> QED BY <1>0, <1>4, <3>1 DEF Kept, chat, sessions, log, history
  <2>2. m \in Actors
    BY DEF Actors
  <2>3. Begins(m, "audit", act, NoOne)
    BY <1>0, <1>4, ListBegins
  <2> QED BY <1>4, <2>1, <2>2, <2>3, BeginningStep
<1>5. ASSUME NEW m \in Moderators, NEW p \in Players, ListBan(m, p)
      PROVE  Typed'
  <2>1. banned \cup {p} \in SUBSET Players
    BY <1>0 DEF Kept
  <2> QED BY <1>4, <1>5, <2>1 DEF ListBan, Request, history
<1>6. ASSUME NEW m \in Moderators, NEW p \in Players, ListUnban(m, p)
      PROVE  Typed'
  <2>1. banned \ {p} \in SUBSET Players
    BY <1>0 DEF Kept
  <2> QED BY <1>4, <1>6, <2>1 DEF ListUnban, Request
<1>7. ASSUME NEW m \in Moderators, NEW c \in Codes, NEW act \in Tools, NEW p \in Players,
             Press(m, c, act, p)
      PROVE  Typed'
  <2>1. Kept' /\ Event /\ UNCHANGED issued
    BY <1>0, <1>7, KeptFrame DEF Press, Request, kept, history, sessions, log, chat
  <2>2. m \in Actors
    BY DEF Actors
  <2>3. Begins(m, "look", act, c)
    BY <1>0, <1>7, PressBegins
  <2> QED BY <2>1, <2>2, <2>3, BeginningStep
<1>8. ASSUME NEW e \in Closers, NEW c \in Codes, Closes(e, c)
      PROVE  Typed'
  <2>1. Kept' /\ UNCHANGED issued /\ UNCHANGED events
    <3>1. alive' \in [Codes -> BOOLEAN]
      BY <1>0, <1>8 DEF Closes, Kept
    <3>2. StoreOK'
      BY <1>0, <1>8 DEF StoreOK, Closes, chat
    <3> QED BY <1>0, <1>8, <3>1, <3>2 DEF Kept, Closes, chat, history, log
  <2>2. e \in Actors
    BY DEF Actors
  <2>3. Begins(e, "find", "end", c)
    BY <1>0, <1>8, <2>2, EndBegins DEF Closes
  <2>4. Weight(jobs'[e]) = 0 /\ Weight(jobs[e]) \in {0, 1, 2}
    BY <2>3, Weights DEF Begins, Pcs
  <2> QED BY <2>1, <2>2, <2>3, <2>4, LightStep DEF Begins
<1> QED BY <1>1, <1>2, <1>3, <1>5, <1>6, <1>7, <1>8 DEF ModeratorStep, CloserStep, Tools

LEMMA NobodyMoves ==
    ASSUME Typed, Kept', UNCHANGED <<jobs, issued>>, UNCHANGED events \/ Event
    PROVE  Typed'
<1>1. JobsOK'
  BY DEF Typed, JobsOK
<1>2. Resolvers' = Resolvers /\ Soon' = Soon
  BY DEF Resolvers, Soon, At
<1>3. Counted'
  <2>1. Cardinality(Resolvers') = Cardinality(Resolvers) /\ Cardinality(Soon') = Cardinality(Soon)
    BY <1>2
  <2>2. Cardinality(Resolvers) \in Nat /\ Cardinality(Soon) \in Nat
    BY SomeActors DEF Resolvers, Soon
  <2> QED BY <2>1, <2>2, Bounds DEF Typed, Counted, Event
<1> QED BY <1>1, <1>3 DEF Typed

LEMMA OwedInt ==
    ASSUME NEW p
    PROVE  Owed(p) \in Int
<1>1. Cardinality(Owing("ban", p)) \in Nat /\ Cardinality(Owing("unban", p)) \in Nat
  BY SomeActors DEF Owing
<1> QED BY <1>1 DEF Owed

LEMMA OtherTyped ==
    ASSUME Typed, SessionStep \/ (\E p \in Players : AccountDeleted(p)) \/ BootStep
    PROVE  Typed'
<1>0. Kept /\ JobsOK /\ StoreOK /\ Counted
  BY DEF Typed, Kept
<1>1. ASSUME NEW c \in Codes, Host(c) \/ Expires(c)
      PROVE  Typed'
  <2>1. alive' \in [Codes -> BOOLEAN] /\ gen' \in [Codes -> 0 .. MaxGen]
    <3>1. CASE Host(c)
      <4>1. gen[c] \in 0 .. MaxGen /\ gen[c] < MaxGen /\ gen' = [gen EXCEPT ![c] = @ + 1]
        BY <1>0, <3>1 DEF Host, Kept
      <4>2. gen[c] + 1 \in 0 .. MaxGen
        BY <4>1, Bounds
      <4> QED BY <1>0, <3>1, <4>1, <4>2 DEF Host, Kept
    <3>2. CASE Expires(c)
      BY <1>0, <3>2 DEF Expires, Kept
    <3> QED BY <1>1, <3>1, <3>2
  <2>2. /\ UNCHANGED <<chat, banned, log, up, jobs, history>>
        /\ UNCHANGED events \/ Event
    BY <1>1 DEF Host, Expires, Fault
  <2>3. StoreOK'
    BY <1>0, <2>2 DEF StoreOK, chat
  <2>4. Kept' /\ UNCHANGED <<jobs, issued>>
    BY <1>0, <2>1, <2>2, <2>3 DEF Kept, chat, history, log
  <2> QED BY <2>2, <2>4, NobodyMoves
<1>2. ASSUME NEW p \in Players, AccountDeleted(p)
      PROVE  Typed'
  <2>1. unrecorded' \in [Players -> Int] /\ banned' \subseteq Players
    BY <1>0, <1>2 DEF AccountDeleted, Kept
  <2>2. StoreOK'
    BY <1>0, <1>2 DEF StoreOK, chat, AccountDeleted
  <2>3. Kept' /\ UNCHANGED <<jobs, issued>> /\ UNCHANGED events
    BY <1>0, <1>2, <2>1, <2>2 DEF Kept, chat, sessions, log, AccountDeleted
  <2> QED BY <2>3, NobodyMoves
<1>3. ASSUME NEW c \in Categories, Import(c)
      PROVE  Typed'
  <2>1. cursor' \in [Categories -> Nat] /\ (\A d \in Categories : cursor'[d] <= Len(Legacy[d]))
    <3>1. cursor[c] < Len(Legacy[c]) /\ cursor' = [cursor EXCEPT ![c] = @ + 1]
      BY <1>3 DEF Import, Pending, Advance
    <3>2. cursor[c] \in Nat /\ Len(Legacy[c]) \in Nat
      BY <1>0, ChatAssumption, LenProperties DEF Kept
    <3> QED BY <1>0, <3>1, <3>2 DEF Kept
  <2>2. StoreOK'
    BY <1>0, <1>3 DEF StoreOK, chat, Import
  <2>3. Kept' /\ UNCHANGED <<jobs, issued>> /\ UNCHANGED events
    BY <1>0, <1>3, <2>1, <2>2 DEF Kept, chat, sessions, history, Import
  <2> QED BY <2>3, NobodyMoves
<1>4. CASE Boot
  <2>1. StoreOK'
    BY <1>0, <1>4 DEF StoreOK, chat, Boot
  <2>2. Kept' /\ UNCHANGED <<jobs, issued>>
    BY <1>0, <1>4, <2>1 DEF Kept, chat, sessions, history, log, Boot
  <2>3. UNCHANGED events \/ Event
    BY <1>4 DEF Boot, Fault
  <2> QED BY <2>2, <2>3, NobodyMoves
<1>5. CASE Crash
  <2>1. unrecorded' \in [Players -> Int]
    BY <1>0, <1>5, OwedInt DEF Crash, Kept
  <2>2. StoreOK'
    BY <1>0, <1>5 DEF StoreOK, chat, Crash
  <2>3. Kept' /\ UNCHANGED issued /\ Event
    BY <1>0, <1>5, <2>1, <2>2 DEF Kept, chat, sessions, log, Crash, Fault
  <2>4. JobsOK'
    BY <1>5 DEF Crash, JobsOK
  <2>5. Counted'
    <3>1. Resolvers' = {} /\ Soon' = {}
      BY <1>5, IdlePc DEF Crash, Resolvers, Soon, At
    <3>2. issued <= 2 * events
      <4>1. Cardinality(Resolvers) \in Nat /\ Cardinality(Soon) \in Nat
        BY SomeActors DEF Resolvers, Soon
      <4> QED BY <1>0, <4>1 DEF Counted
    <3>3. Cardinality(Resolvers') = 0 /\ Cardinality(Soon') = 0
      BY <3>1, FS_EmptySet
    <3> QED BY <1>0, <2>3, <3>2, <3>3, Bounds DEF Counted, Event
  <2> QED BY <2>3, <2>4, <2>5 DEF Typed
<1> QED BY <1>1, <1>2, <1>3, <1>4, <1>5 DEF SessionStep, BootStep

LEMMA TypedStep == Typed /\ [Next]_vars => Typed'
<1> SUFFICES ASSUME Typed, [Next]_vars
             PROVE  Typed'
  OBVIOUS
<1>1. CASE UNCHANGED vars
  <2>1. Kept'
    BY <1>1, KeptFrame DEF Typed, vars, kept, sessions, chat, log, history
  <2> QED BY <1>1, <2>1, NobodyMoves DEF vars, chat
<1>2. CASE PlayerStep
  BY <1>2, RequestTyped, OtherTyped DEF PlayerStep
<1>3. CASE ModeratorStep \/ CloserStep
  BY <1>3, RequestTyped
<1>4. CASE JobStep
  BY <1>4, SpeakingTyped, ToolTyped, EndTyped DEF JobStep
<1>5. CASE SessionStep \/ BootStep
  BY <1>5, OtherTyped
<1> QED BY <1>1, <1>2, <1>3, <1>4, <1>5 DEF Next

\* Ids never run out before the events that draw them do, a line is stored and a deletion
\* marked only under an id that was drawn, and the cursors stay within the old lists.
THEOREM ChatTyped == Spec => []TypeOK
<1>1. Spec => []Typed
  BY TypedStart, TypedStep, PTL DEF Spec
<1> QED BY <1>1, TypedTypes, PTL

-----------------------------------------------------------------------------
(* Which step leaves a request where *)

LEMMA OnwardMoves ==
    ASSUME Typed, NEW a \in Actors,
           \/ AppendLine(a) \/ AppendFails(a)
           \/ Looks(a) \/ Cuts(a) \/ Marks(a) \/ Bans(a) \/ WriteFails(a) \/ Notices(a)
           \/ Writes(a) \/ RecordFails(a)
           \/ Finds(a) \/ Archives(a) \/ Wipes(a) \/ Unlinks(a)
    PROVE  \/ Gets(a, Idle)
           \/ /\ jobs[a].pc \notin {"idle", "audit"}
              /\ \E pc \in Pcs \ {"claim", "reread", "append", "wipe"} : Moves(a, pc)
<1>0. JobsOK /\ StoreOK /\ Counted
  BY DEF Typed, Kept
<1>1. CASE AppendLine(a) \/ AppendFails(a)
  <2>1. At(a, "append") /\ (AfterAppend(a, TRUE) \/ AfterAppend(a, FALSE))
    BY <1>1 DEF AppendLine, AppendFails
  <2>2. jobs[a].act \in Tools \cup {"clean", "flagged", "say"}
    BY <1>0, <2>1, AtWork DEF Stage, Storing, At
  <2>3. Gets(a, Idle) \/ Moves(a, "cut") \/ Moves(a, "audit")
    BY <1>0, <2>1, <2>2, AfterMoves
  <2> QED BY <2>1, <2>3 DEF Pcs, At
<1>2. CASE Looks(a)
  BY <1>0, <1>2, LooksMoves DEF Pcs, At
<1>3. CASE Cuts(a)
  BY <1>0, <1>3, CutsMoves DEF Pcs, At
<1>4. CASE Marks(a)
  BY <1>0, <1>4, MarksMoves DEF Pcs, At
<1>5. CASE Bans(a)
  BY <1>0, <1>5, BansMoves DEF Pcs, At
<1>6. CASE WriteFails(a) \/ Writes(a) \/ RecordFails(a) \/ Unlinks(a)
  BY <1>0, <1>6, DoneRests DEF WriteFails, Writes, RecordFails, Unlinks
<1>7. CASE Notices(a)
  BY <1>0, <1>7, NoticesMoves DEF Pcs, At
<1>8. CASE Finds(a)
  BY <1>0, <1>8, FindsMoves DEF Pcs, At
<1>9. CASE Archives(a) \/ Wipes(a)
  BY <1>0, <1>9, EndMoves DEF Archives, Wipes, At, Ending, Pcs
<1> QED BY <1>1, <1>2, <1>3, <1>4, <1>5, <1>6, <1>7, <1>8, <1>9

\* A new request is for a code in use, ends a session or finds its key gone, or is the
\* lists page's, which has no code.
Begun(a, act) ==
    \/ Begins(a, "audit", act, NoOne)
    \/ \E c \in Codes : /\ act # "end" /\ alive[c] /\ UNCHANGED alive
                        /\ Begins(a, "resolve", act, c) \/ Begins(a, "look", act, c)
    \/ \E c \in Codes : /\ ~alive'[c] /\ (alive[c] \/ live[c] # None)
                        /\ Begins(a, "find", act, c)

LEMMA BegunMoves ==
    ASSUME Typed, (\E p \in Players, c \in Codes : SendChat(p, c)) \/ ModeratorStep \/ CloserStep
    PROVE  /\ \E a \in Actors : \E act : Begun(a, act)
           /\ UNCHANGED <<gen, live, transcript, marks, retained, doomed, log>>
           /\ \A c \in Codes : alive'[c] => alive[c]
<1>0. JobsOK /\ Counted /\ alive \in [Codes -> BOOLEAN]
  BY DEF Typed, Kept
<1>1. ASSUME NEW p \in Players, NEW c \in Codes, SendChat(p, c)
      PROVE  /\ p \in Actors /\ alive[c] /\ UNCHANGED alive
             /\ \E act : act # "end" /\ Begins(p, "resolve", act, c)
  BY <1>0, <1>1, SendChatBegins DEF SendChat, Actors, sessions
<1>2. ASSUME NEW m \in Moderators, NEW c \in Codes, Say(m, c)
      PROVE  /\ m \in Actors /\ alive[c] /\ UNCHANGED alive
             /\ \E act : act # "end" /\ Begins(m, "resolve", act, c)
  BY <1>0, <1>2, SayBegins DEF Say, Actors, sessions
<1>3. ASSUME NEW m \in Moderators, NEW c \in Codes, NEW act \in Tools, NEW p \in Players,
             Press(m, c, act, p)
      PROVE  /\ m \in Actors /\ alive[c] /\ UNCHANGED alive
             /\ act # "end" /\ Begins(m, "look", act, c)
  BY <1>0, <1>3, PressBegins DEF Press, Actors, Tools, sessions
<1>4. ASSUME NEW m \in Moderators, NEW c \in Codes, Sweeps(m, c)
      PROVE  /\ m \in Actors /\ ~alive'[c] /\ live[c] # None /\ Begins(m, "find", "end", c)
  BY <1>0, <1>4, EndBegins DEF Sweeps, Request, Actors, sessions
<1>5. ASSUME NEW m \in Moderators, NEW p \in Players, ListBan(m, p) \/ ListUnban(m, p)
      PROVE  m \in Actors /\ \E act : Begins(m, "audit", act, NoOne)
  BY <1>0, <1>5, ListBegins DEF ListBan, ListUnban, Request, Actors
<1>6. ASSUME NEW e \in Closers, NEW c \in Codes, Closes(e, c)
      PROVE  /\ e \in Actors /\ ~alive'[c] /\ alive[c] /\ Begins(e, "find", "end", c)
  BY <1>0, <1>6, EndBegins DEF Closes, Actors
<1>7. /\ UNCHANGED <<gen, live, transcript, marks, retained, doomed, log>>
      /\ \A c \in Codes : alive'[c] => alive[c]
  BY <1>0 DEF SendChat, ModeratorStep, CloserStep, Say, Press, Sweeps, ListBan, ListUnban, Closes,
              sessions, chat, history
<1>8. \E a \in Actors : \E act : Begun(a, act)
  <2>1. CASE \E p \in Players, c \in Codes : SendChat(p, c)
    BY <1>1, <2>1 DEF Begun
  <2>2. CASE ModeratorStep
    <3>1. PICK m \in Moderators :
             \/ \E c \in Codes : \/ Say(m, c) \/ Sweeps(m, c)
                                 \/ \E act \in Tools, p \in Players : Press(m, c, act, p)
             \/ \E p \in Players : ListBan(m, p) \/ ListUnban(m, p)
      BY <2>2 DEF ModeratorStep, Tools
    <3> QED BY <1>2, <1>3, <1>4, <1>5, <3>1 DEF Begun
  <2>3. CASE CloserStep
    BY <1>6, <2>3 DEF Begun, CloserStep
  <2> QED BY <2>1, <2>2, <2>3
<1> QED BY <1>7, <1>8

-----------------------------------------------------------------------------
(* Evidence *)

\* Evidence is under a retention mark, and a teardown that will wipe has recorded what
\* it saw.
Preserved ==
    /\ \A s \in Ids : HasEvidence(s) => s \in retained
    /\ \A a \in Actors : At(a, "wipe") => jobs[a].sid \in doomed

\* What most steps do to the evidence: nothing, or they mark it retained.
Spared ==
    /\ retained \subseteq retained' /\ doomed \subseteq doomed'
    /\ \A s \in Ids : HasEvidence(s)' => HasEvidence(s) \/ s \in retained'
    /\ \A s \in Ids : IsPrefix(transcript[s], transcript'[s])

LEMMA PrefixItself ==
    ASSUME NEW S, NEW s \in Seq(S)
    PROVE  IsPrefix(s, s)
BY LenProperties DEF IsPrefix

LEMMA PrefixAppended ==
    ASSUME NEW S, NEW s \in Seq(S), NEW e \in S
    PROVE  IsPrefix(s, Append(s, e))
<1> DEFINE t == Append(s, e)
<1>1. /\ t \in Seq(S) /\ Len(t) = Len(s) + 1 /\ Len(s) \in Nat
      /\ \A i \in 1 .. Len(s) : t[i] = s[i]
  BY AppendProperties, LenProperties
<1> HIDE DEF t
<1>2. SubSeq(s, 1, Len(s)) = SubSeq(t, 1, Len(s))
  BY <1>1, SMT
<1> QED BY <1>1, <1>2 DEF IsPrefix, t

LEMMA RangeAppended ==
    ASSUME NEW S, NEW s \in Seq(S), NEW e \in S
    PROVE  Range(Append(s, e)) = Range(s) \cup {e}
<1> DEFINE t == Append(s, e)
<1>1. /\ DOMAIN t = 1 .. Len(s) + 1 /\ Len(s) \in Nat /\ DOMAIN s = 1 .. Len(s)
      /\ \A i \in 1 .. Len(s) : t[i] = s[i]
      /\ t[Len(s) + 1] = e
  BY AppendProperties, LenProperties
<1> HIDE DEF t
<1>2. Range(t) = Range(s) \cup {e}
  BY <1>1 DEF Range
<1> QED BY <1>2 DEF t

LEMMA SparedFrame ==
    ASSUME Typed, UNCHANGED <<transcript, marks>>, retained \subseteq retained', doomed \subseteq doomed'
    PROVE  Spared
<1>1. \A s \in Ids : IsPrefix(transcript[s], transcript'[s])
  BY PrefixItself DEF Typed, Kept, StoreOK
<1> QED BY <1>1 DEF Spared, HasEvidence

EvidenceStep ==
    \A s \in Ids \ doomed : HasEvidence(s) => IsPrefix(transcript[s], transcript'[s])

NoNewWipe ==
    \A a \in Actors : At(a, "wipe")' => At(a, "wipe") /\ jobs'[a] = jobs[a]

LEMMA SparedKeeps ==
    ASSUME Preserved, Spared, NoNewWipe
    PROVE  Preserved' /\ EvidenceStep
<1>1. \A s \in Ids : HasEvidence(s)' => s \in retained'
  BY DEF Preserved, Spared
<1>2. \A a \in Actors : At(a, "wipe")' => jobs'[a].sid \in doomed'
  BY DEF Preserved, Spared, NoNewWipe, At
<1>3. EvidenceStep
  BY DEF Spared, EvidenceStep
<1>4. Preserved'
  BY <1>1, <1>2 DEF Preserved
<1> QED BY <1>3, <1>4

LEMMA NobodyWipes ==
    ASSUME NEW a \in Actors, \/ Gets(a, Idle)
                             \/ \E pc \in Pcs \ {"wipe"} : Moves(a, pc)
                             \/ \E pc \in Pcs \ {"wipe"} : \E act, c : Begins(a, pc, act, c)
    PROVE  NoNewWipe
<1>1. \A b \in Actors \ {a} : jobs'[b] = jobs[b]
  BY DEF Gets, Moves, Begins
<1>2. jobs'[a].pc # "wipe"
  BY IdlePc DEF Gets, Moves, Begins
<1> QED BY <1>1, <1>2 DEF NoNewWipe, At

LEMMA PreservedStart == Init => Preserved
<1> SUFFICES ASSUME Init
             PROVE  Preserved
  OBVIOUS
<1>1. \A a \in Actors : ~At(a, "wipe")
  BY IdlePc DEF Init, At
<1>2. \A s \in Ids : ~HasEvidence(s)
  BY DEF Init, HasEvidence, Range
<1> QED BY <1>1, <1>2 DEF Preserved

LEMMA WritingEvidence ==
    ASSUME Typed, NEW a \in Actors, AppendLine(a) \/ Marks(a)
    PROVE  Spared
<1>0. StoreOK /\ JobsOK
  BY DEF Typed, Kept
<1>1. CASE AppendLine(a)
  <2> DEFINE s == jobs[a].into
             line == [id |-> jobs[a].line, by |-> jobs[a].about, kind |-> jobs[a].act,
                      of |-> jobs[a].code]
  <2>1. /\ transcript' = [transcript EXCEPT ![s] = Append(@, line)]
        /\ retained' = IF Retains(line.kind) THEN retained \cup {s} ELSE retained
        /\ UNCHANGED <<marks, doomed>>
    BY <1>1 DEF AppendLine
  <2>2. Typed'
    BY <1>1, SpeakingTyped
  <2>3. line \in Line /\ s \in Ids
    <3>1. Mid(jobs[a]) /\ jobs[a].about \in Players \cup {NoOne}
      BY <1>0, <1>1, AtWork, MidStage DEF AppendLine, At, Storing, Requests
    <3> QED BY <3>1 DEF Mid, Line, Tools
  <2>4. transcript \in [Ids -> Seq(Line)]
    BY <1>0 DEF StoreOK
  <2>5. retained \subseteq retained' /\ (IsEvidence(line.kind) => s \in retained')
    BY <2>1 DEF Retains
  <2> HIDE DEF line, s
  <2>6. /\ transcript'[s] = Append(transcript[s], line)
        /\ \A t \in Ids \ {s} : transcript'[t] = transcript[t]
    BY <2>1, <2>3, <2>4
  <2>7. /\ Range(transcript'[s]) = Range(transcript[s]) \cup {line}
        /\ IsPrefix(transcript[s], transcript'[s])
    BY <2>3, <2>4, <2>6, RangeAppended, PrefixAppended
  <2>8. \A t \in Ids : IsPrefix(transcript[t], transcript'[t])
    BY <2>4, <2>6, <2>7, PrefixItself
  <2>9. \A t \in Ids : HasEvidence(t)' => HasEvidence(t) \/ t \in retained'
    BY <2>1, <2>5, <2>6, <2>7 DEF HasEvidence
  <2> QED BY <2>1, <2>5, <2>8, <2>9 DEF Spared
<1>2. CASE Marks(a)
  <2>1. /\ marks' = marks \cup {jobs[a].sid} \X jobs[a].ticked
        /\ retained' = retained \cup {jobs[a].sid}
        /\ UNCHANGED <<transcript, doomed>>
    BY <1>2 DEF Marks, history
  <2>2. \A k \in marks' : k \in marks \/ k[1] \in retained'
    BY <2>1
  <2>3. \A t \in Ids : HasEvidence(t)' => HasEvidence(t) \/ t \in retained'
    BY <2>1, <2>2 DEF HasEvidence
  <2>4. \A t \in Ids : IsPrefix(transcript[t], transcript'[t])
    BY <1>0, <2>1, PrefixItself DEF StoreOK
  <2> QED BY <2>1, <2>3, <2>4 DEF Spared
<1> QED BY <1>1, <1>2

LEMMA DecidingEvidence ==
    ASSUME Typed, Preserved, NEW a \in Actors, Decides(a)
    PROVE  Preserved' /\ EvidenceStep
<1>0. StoreOK /\ JobsOK
  BY DEF Typed, Kept
<1>1. /\ UNCHANGED <<transcript, marks, retained>> /\ doomed \subseteq doomed'
      /\ At(a, "decide")
  BY DEF Decides, chat
<1>2. Spared
  BY <1>1, SparedFrame
<1>3. CASE /\ Goes(a, IF Keeps(jobs[a].sid) THEN "archive" ELSE "wipe")
           /\ doomed' = IF HasEvidence(jobs[a].sid) THEN doomed ELSE doomed \cup {jobs[a].sid}
  <2>1. CASE Keeps(jobs[a].sid)
    <3>1. Moves(a, "archive")
      BY <1>0, <1>1, <1>3, <2>1, EndMoves DEF At, Ending
    <3> QED BY <1>2, <3>1, NobodyWipes, SparedKeeps DEF Pcs
  <2>2. CASE ~Keeps(jobs[a].sid)
    <3>1. Moves(a, "wipe") /\ jobs'[a].sid = jobs[a].sid /\ jobs[a].sid \in Ids
      BY <1>0, <1>1, <1>3, <2>2, EndMoves DEF At, Ending
    <3>2. jobs'[a].sid \in doomed'
      BY <1>3, <2>2, <3>1 DEF Keeps, Preserved
    <3>3. \A b \in Actors : At(b, "wipe")' => jobs'[b].sid \in doomed'
      BY <1>1, <3>1, <3>2 DEF Moves, At, Preserved
    <3>4. \A s \in Ids : HasEvidence(s)' => s \in retained'
      BY <1>2 DEF Spared, Preserved
    <3> QED BY <1>2, <3>3, <3>4 DEF Preserved, Spared, EvidenceStep
  <2> QED BY <2>1, <2>2
<1>4. CASE Goes(a, "archive")
  <2>1. Moves(a, "archive")
    BY <1>0, <1>1, <1>4, EndMoves DEF At, Ending
  <2> QED BY <1>2, <2>1, NobodyWipes, SparedKeeps DEF Pcs
<1> QED BY <1>3, <1>4 DEF Decides

LEMMA WipingEvidence ==
    ASSUME Typed, Preserved, NEW a \in Actors, Wipes(a)
    PROVE  Preserved' /\ EvidenceStep
<1> DEFINE s == jobs[a].sid
<1>0. StoreOK /\ JobsOK
  BY DEF Typed, Kept
<1>1. At(a, "wipe") /\ s \in doomed
  BY DEF Wipes, Preserved
<1>2. Moves(a, "unlink") /\ s \in Ids
  BY <1>0, <1>1, EndMoves DEF Wipes, At, Ending
<1>3. NoNewWipe
  BY <1>2, NobodyWipes DEF Pcs
<1>4. /\ transcript' = [transcript EXCEPT ![s] = <<>>]
      /\ marks' = {k \in marks : k[1] # s}
      /\ UNCHANGED <<retained, doomed>>
  BY DEF Wipes, history
<1> HIDE DEF s
<1>5. transcript'[s] = <<>> /\ \A t \in Ids \ {s} : transcript'[t] = transcript[t]
  BY <1>0, <1>2, <1>4 DEF StoreOK
<1>6. \A t \in Ids : HasEvidence(t)' => t # s /\ HasEvidence(t)
  BY <1>4, <1>5 DEF HasEvidence, Range
<1>7. EvidenceStep
  BY <1>0, <1>1, <1>5, PrefixItself DEF EvidenceStep, StoreOK
<1>8. \A b \in Actors : At(b, "wipe")' => jobs'[b].sid \in doomed'
  BY <1>3, <1>4 DEF NoNewWipe, Preserved, At
<1> QED BY <1>4, <1>6, <1>7, <1>8 DEF Preserved

LEMMA PreservedStep ==
    ASSUME Typed, Preserved, [Next]_vars
    PROVE  Preserved' /\ EvidenceStep
<1>0. StoreOK /\ JobsOK /\ Counted
  BY DEF Typed, Kept
<1>1. CASE JobStep
  <2>1. PICK a \in Actors :
          \/ Resolve(a) \/ Claim(a) \/ Reread(a) \/ AppendLine(a) \/ AppendFails(a)
          \/ Looks(a) \/ Cuts(a) \/ Marks(a) \/ Bans(a) \/ WriteFails(a) \/ Notices(a)
          \/ Writes(a) \/ RecordFails(a)
          \/ Finds(a) \/ Decides(a) \/ Archives(a) \/ Wipes(a) \/ Unlinks(a)
    BY <1>1 DEF JobStep
  <2>2. CASE Resolve(a) \/ Claim(a) \/ Reread(a)
    <3>1. NoNewWipe
      BY <1>0, <2>2, ResolveMoves, ClaimMoves, RereadMoves, NobodyWipes DEF Pcs
    <3>2. Spared
      BY <2>2, SparedFrame DEF Resolve, Claim, Reread, chat, history
    <3> QED BY <3>1, <3>2, SparedKeeps
  <2>3. CASE AppendLine(a) \/ Marks(a)
    <3>1. NoNewWipe
      BY <2>3, OnwardMoves, NobodyWipes
    <3> QED BY <2>3, <3>1, WritingEvidence, SparedKeeps
  <2>4. CASE \/ AppendFails(a) \/ Looks(a) \/ Cuts(a) \/ Bans(a) \/ WriteFails(a) \/ Notices(a)
             \/ Writes(a) \/ RecordFails(a) \/ Finds(a) \/ Archives(a) \/ Unlinks(a)
    <3>1. NoNewWipe
      BY <2>4, OnwardMoves, NobodyWipes
    <3>2. Spared
      BY <2>4, SparedFrame DEF AppendFails, Looks, Cuts, Bans, WriteFails, Notices, Writes,
                               RecordFails, Finds, Archives, Unlinks, chat, history
    <3> QED BY <3>1, <3>2, SparedKeeps
  <2>5. CASE Decides(a)
    BY <2>5, DecidingEvidence
  <2>6. CASE Wipes(a)
    BY <2>6, WipingEvidence
  <2> QED BY <2>1, <2>2, <2>3, <2>4, <2>5, <2>6
<1>2. CASE (\E p \in Players, c \in Codes : SendChat(p, c)) \/ ModeratorStep \/ CloserStep
  <2>1. PICK a \in Actors : \E act : Begun(a, act)
    BY <1>2, BegunMoves
  <2>2. NoNewWipe
    BY <2>1, NobodyWipes DEF Begun, Pcs
  <2>3. Spared
    BY <1>2, BegunMoves, SparedFrame
  <2> QED BY <2>2, <2>3, SparedKeeps
<1>3. CASE SessionStep \/ (\E p \in Players : AccountDeleted(p)) \/ BootStep \/ UNCHANGED vars
  <2>1. UNCHANGED jobs \/ jobs' = [a \in Actors |-> Idle]
    BY <1>3 DEF SessionStep, Host, Expires, AccountDeleted, BootStep, Import, Boot, Crash, vars
  <2>2. NoNewWipe
    BY <2>1, IdlePc DEF NoNewWipe, At
  <2>3. UNCHANGED <<transcript, marks, retained, doomed>>
    BY <1>3 DEF SessionStep, Host, Expires, AccountDeleted, BootStep, Import, Boot, Crash, vars,
                chat, history
  <2>4. Spared
    BY <2>3, SparedFrame
  <2> QED BY <2>2, <2>4, SparedKeeps
<1> QED BY <1>1, <1>2, <1>3 DEF Next, PlayerStep

\* Whatever a teardown, a sweep, a crash or a new session under the code does, and in
\* whatever order, a transcript with evidence is never shortened, unless its teardown was
\* already past a look that saw none (append, mark_deleted, on_session_end).
THEOREM EvidenceStays == Spec => EvidenceOutlives
<1>1. Spec => [](Typed /\ Preserved)
  BY TypedStart, TypedStep, PreservedStart, PreservedStep, PTL DEF Spec
<1>2. Typed /\ Preserved /\ [Next]_vars =>
         [\A s \in Ids \ doomed : HasEvidence(s) => IsPrefix(transcript[s], transcript'[s])]_vars
  BY PreservedStep DEF EvidenceStep
<1> QED BY <1>1, <1>2, PTL DEF Spec, EvidenceOutlives

-----------------------------------------------------------------------------
(* One instance *)

Busy(a, c) == jobs[a].pc \notin {"idle", "audit"} /\ jobs[a].code = c

\* Nothing has happened under a code that was never handed out.
Fresh(c) ==
    /\ ~alive[c] /\ live[c] = None
    /\ \A a \in Actors : ~Busy(a, c)
    /\ \A s \in Ids : \A l \in Range(transcript[s]) : l.of # c

\* While its first session lasts nobody tears it down, and whoever has settled where its
\* line goes goes where the pointer says.
Settled(c) ==
    /\ \A a \in Actors : Busy(a, c) =>
          /\ jobs[a].act # "end"
          /\ At(a, "append") => live[c] # None /\ jobs[a].into = live[c]
          /\ At(a, "reread") => live[c] # None
    /\ \A s \in Ids : \A l \in Range(transcript[s]) : l.of = c => s = live[c]

HomeOf(c) ==
    /\ gen[c] = 0 => Fresh(c)
    /\ gen[c] = 1 /\ alive[c] => Settled(c)

\* Requests for c that are under way were, doing the same, and none settled just now.
Stays(c) ==
    \A b \in Actors : Busy(b, c)' =>
        /\ Busy(b, c) /\ jobs'[b].act = jobs[b].act
        /\ At(b, "append")' => At(b, "append") /\ jobs'[b].into = jobs[b].into
        /\ At(b, "reread")' => At(b, "reread")

NoNewLine(c) ==
    \A s \in Ids : \A l \in Range(transcript'[s]) : l.of = c => l \in Range(transcript[s])

LEMMA HomeFrame ==
    ASSUME NEW c, HomeOf(c), gen'[c] = gen[c], alive'[c] => alive[c], live'[c] = live[c],
           NoNewLine(c), Stays(c)
    PROVE  HomeOf(c)'
<1>1. ASSUME Fresh(c)
      PROVE  Fresh(c)'
  <2>1. \A a \in Actors : ~Busy(a, c)'
    BY <1>1 DEF Fresh, Stays
  <2>2. \A s \in Ids : \A l \in Range(transcript'[s]) : l.of # c
    BY <1>1 DEF Fresh, NoNewLine
  <2> QED BY <1>1, <2>1, <2>2 DEF Fresh
<1>2. ASSUME Settled(c)
      PROVE  Settled(c)'
  <2>1. \A a \in Actors : Busy(a, c)' =>
          /\ jobs'[a].act # "end"
          /\ At(a, "append")' => live'[c] # None /\ jobs'[a].into = live'[c]
          /\ At(a, "reread")' => live'[c] # None
    BY <1>2 DEF Settled, Stays
  <2>2. \A s \in Ids : \A l \in Range(transcript'[s]) : l.of = c => s = live'[c]
    BY <1>2 DEF Settled, NoNewLine
  <2> QED BY <2>1, <2>2 DEF Settled
<1> QED BY <1>1, <1>2 DEF HomeOf

LEMMA OnwardStays ==
    ASSUME NEW a \in Actors, NEW c,
           \/ Gets(a, Idle)
           \/ /\ jobs[a].pc \notin {"idle", "audit"}
              /\ \E pc \in Pcs \ {"reread", "append"} : Moves(a, pc)
    PROVE  Stays(c)
<1>1. ASSUME NEW b \in Actors, Busy(b, c)'
      PROVE  /\ Busy(b, c) /\ jobs'[b].act = jobs[b].act
             /\ At(b, "append")' => At(b, "append") /\ jobs'[b].into = jobs[b].into
             /\ At(b, "reread")' => At(b, "reread")
  <2>1. CASE b # a
    <3>1. jobs'[b] = jobs[b]
      BY <2>1 DEF Gets, Moves
    <3> QED BY <1>1, <3>1 DEF Busy, At
  <2>2. CASE b = a
    <3>1. CASE Gets(a, Idle)
      BY <1>1, <2>2, <3>1, IdlePc DEF Gets, Busy
    <3>2. ASSUME NEW pc \in Pcs \ {"reread", "append"}, Moves(a, pc), jobs[a].pc \notin {"idle", "audit"}
          PROVE  /\ Busy(a, c) /\ jobs'[a].act = jobs[a].act
                 /\ ~At(a, "append")' /\ ~At(a, "reread")'
      BY <1>1, <2>2, <3>2 DEF Moves, Busy, At
    <3> QED BY <2>2, <3>1, <3>2
  <2> QED BY <2>1, <2>2
<1> QED BY <1>1 DEF Stays

\* Steps that leave sessions, pointers and lines alone.
LEMMA QuietHome ==
    ASSUME NEW c, HomeOf(c), UNCHANGED <<alive, gen, live, transcript>>, Stays(c)
    PROVE  HomeOf(c)'
<1>1. NoNewLine(c)
  BY DEF NoNewLine
<1> QED BY <1>1, HomeFrame

\* A request that begins for a code in use, or ends what is no longer there.
LEMMA BegunHome ==
    ASSUME Typed, NEW c \in Codes, HomeOf(c), NEW a \in Actors, NEW act, Begun(a, act), 
           UNCHANGED <<gen, live, transcript>>, alive'[c] => alive[c]
    PROVE  HomeOf(c)'
<1>1. \A b \in Actors \ {a} : jobs'[b] = jobs[b]
  BY DEF Begun, Begins
<1>2. CASE ~Busy(a, c)'
  <2>1. Stays(c)
    BY <1>1, <1>2 DEF Stays, Busy, At
  <2>2. NoNewLine(c)
    BY DEF NoNewLine
  <2> QED BY <2>1, <2>2, HomeFrame
<1>3. CASE Busy(a, c)'
  <2>1. \/ /\ act # "end" /\ alive[c] /\ jobs'[a].act = act
           /\ ~At(a, "append")' /\ ~At(a, "reread")'
        \/ ~alive'[c] /\ (alive[c] \/ live[c] # None)
    BY <1>3 DEF Begun, Begins, Busy, At
  <2>2. gen[c] # 0
    BY <2>1 DEF HomeOf, Fresh
  <2>3. ASSUME gen[c] = 1, alive'[c]
        PROVE  Settled(c)'
    <3>1. Settled(c) /\ act # "end" /\ jobs'[a].act = act /\ ~At(a, "append")' /\ ~At(a, "reread")'
      BY <2>1, <2>3 DEF HomeOf
    <3>2. \A b \in Actors : Busy(b, c)' =>
            /\ jobs'[b].act # "end"
            /\ At(b, "append")' => live'[c] # None /\ jobs'[b].into = live'[c]
            /\ At(b, "reread")' => live'[c] # None
      <4>1. ASSUME NEW b \in Actors \ {a}, Busy(b, c)'
            PROVE  /\ jobs'[b].act # "end"
                   /\ At(b, "append")' => live'[c] # None /\ jobs'[b].into = live'[c]
                   /\ At(b, "reread")' => live'[c] # None
        <5>1. jobs'[b] = jobs[b]
          BY <1>1
        <5> QED BY <3>1, <4>1, <5>1 DEF Settled, Busy, At
      <4> QED BY <3>1, <4>1
    <3> QED BY <3>1, <3>2 DEF Settled
  <2> QED BY <2>2, <2>3 DEF HomeOf
<1> QED BY <1>2, <1>3

\* A request's step that changes what it carries: the others' requests are as before.
LEMMA MovesHome ==
    ASSUME NEW c, HomeOf(c), NEW a \in Actors, NEW pc \in {"claim", "reread", "append"},
           Moves(a, pc), jobs[a].pc \notin {"idle", "audit"},
           UNCHANGED <<alive, gen, live>>, NoNewLine(c),
           jobs[a].code = c /\ pc = "append" => live[c] # None /\ jobs'[a].into = live[c],
           jobs[a].code = c /\ pc = "reread" => live[c] # None
    PROVE  HomeOf(c)'
<1>1. \A b \in Actors : Busy(b, c)' => Busy(b, c) /\ jobs'[b].act = jobs[b].act
  BY DEF Moves, Busy
<1>2. ASSUME Fresh(c)
      PROVE  Fresh(c)'
  BY <1>1, <1>2 DEF Fresh, NoNewLine
<1>3. ASSUME Settled(c)
      PROVE  Settled(c)'
  <2>1. ASSUME NEW b \in Actors, Busy(b, c)'
        PROVE  /\ jobs'[b].act # "end"
               /\ At(b, "append")' => live'[c] # None /\ jobs'[b].into = live'[c]
               /\ At(b, "reread")' => live'[c] # None
    <3>1. CASE b # a
      <4>1. jobs'[b] = jobs[b]
        BY <3>1 DEF Moves
      <4> QED BY <1>3, <2>1, <4>1 DEF Settled, Busy, At
    <3>2. CASE b = a
      BY <1>1, <1>3, <2>1, <3>2 DEF Settled, Moves, Busy, At
    <3> QED BY <3>1, <3>2
  <2>2. \A s \in Ids : \A l \in Range(transcript'[s]) : l.of = c => s = live'[c]
    BY <1>3 DEF Settled, NoNewLine
  <2> QED BY <2>1, <2>2 DEF Settled
<1> QED BY <1>2, <1>3 DEF HomeOf

LEMMA ResolvingHome ==
    ASSUME Typed, NEW c \in Codes, HomeOf(c), NEW a \in Actors, Resolve(a) \/ Reread(a)
    PROVE  HomeOf(c)'
<1>0. StoreOK /\ JobsOK /\ Counted
  BY DEF Typed, Kept
<1>1. UNCHANGED <<alive, gen, live>> /\ NoNewLine(c)
  BY DEF Resolve, Reread, sessions, chat, NoNewLine
<1>2. CASE Resolve(a)
  <2>1. CASE live[jobs[a].code] # None /\ Moves(a, "append") /\ jobs'[a].into = live[jobs[a].code]
    BY <1>1, <1>2, <2>1, MovesHome DEF Resolve, At
  <2>2. CASE Moves(a, "claim")
    BY <1>1, <1>2, <2>2, MovesHome DEF Resolve, At
  <2> QED BY <1>0, <1>2, <2>1, <2>2, ResolveMoves
<1>3. CASE Reread(a)
  <2>1. /\ At(a, "reread") /\ Moves(a, "append")
        /\ jobs'[a].into = IF live[jobs[a].code] = None THEN jobs[a].into ELSE live[jobs[a].code]
    BY <1>0, <1>3, RereadMoves
  <2>2. CASE jobs[a].code = c /\ live[c] = None
    <3>1. Busy(a, c) /\ Busy(a, c)'
      BY <2>1, <2>2 DEF Busy, At, Moves
    <3>2. ~Fresh(c) /\ ~Settled(c)
      BY <2>1, <2>2, <3>1 DEF Fresh, Settled
    <3> QED BY <1>1, <3>2 DEF HomeOf
  <2>3. CASE ~(jobs[a].code = c /\ live[c] = None)
    BY <1>1, <2>1, <2>3, MovesHome DEF At
  <2> QED BY <2>2, <2>3
<1> QED BY <1>2, <1>3

LEMMA ClaimingHome ==
    ASSUME Typed, NEW c \in Codes, HomeOf(c), NEW a \in Actors, Claim(a)
    PROVE  HomeOf(c)'
<1>0. StoreOK /\ JobsOK
  BY DEF Typed, Kept
<1>1. /\ At(a, "claim") /\ jobs[a].into \in Ids /\ jobs[a].code \in Codes
      /\ IF live[jobs[a].code] = None
         THEN live' = [live EXCEPT ![jobs[a].code] = jobs[a].into] /\ Moves(a, "append")
         ELSE UNCHANGED live /\ Moves(a, "reread")
      /\ jobs'[a].into = jobs[a].into
  BY <1>0, ClaimMoves
<1>2. UNCHANGED <<alive, gen, transcript>> /\ NoNewLine(c)
  BY DEF Claim, sessions, NoNewLine
<1>3. CASE live[jobs[a].code] # None
  BY <1>1, <1>2, <1>3, MovesHome DEF At
<1>4. CASE live[jobs[a].code] = None /\ jobs[a].code # c
  <2>1. live'[c] = live[c]
    BY <1>0, <1>1, <1>4 DEF StoreOK
  <2>2. Stays(c)
    BY <1>1, <1>4 DEF Stays, Moves, Busy, At
  <2> QED BY <1>2, <2>1, <2>2, HomeFrame
<1>5. CASE live[jobs[a].code] = None /\ jobs[a].code = c
  <2>1. /\ live'[c] = jobs[a].into /\ Moves(a, "append") /\ live'[c] # None
    BY <1>0, <1>1, <1>5 DEF StoreOK, Ids, None
  <2>2. Busy(a, c)
    BY <1>1, <1>5 DEF Busy, At
  <2>3. ~Fresh(c)
    BY <2>2 DEF Fresh
  <2>4. ASSUME Settled(c)
        PROVE  Settled(c)'
    <3>1. ASSUME NEW b \in Actors, Busy(b, c)'
          PROVE  /\ jobs'[b].act # "end"
                 /\ At(b, "append")' => live'[c] # None /\ jobs'[b].into = live'[c]
                 /\ At(b, "reread")' => live'[c] # None
      <4>1. CASE b # a
        <5>1. jobs'[b] = jobs[b]
          BY <2>1, <4>1 DEF Moves
        <5>2. Busy(b, c) /\ ~At(b, "append")
          BY <1>5, <2>4, <3>1, <5>1 DEF Settled, Busy, At
        <5> QED BY <2>1, <2>4, <5>1, <5>2 DEF Settled, At
      <4>2. CASE b = a
        BY <1>1, <2>1, <2>2, <2>4, <4>2 DEF Settled, Moves, At
      <4> QED BY <4>1, <4>2
    <3>2. \A s \in Ids : \A l \in Range(transcript'[s]) : l.of = c => s = live'[c]
      <4>1. \A s \in Ids : s # live[c]
        BY <1>5 DEF Ids, None
      <4> QED BY <1>2, <2>4, <4>1 DEF Settled
    <3> QED BY <3>1, <3>2 DEF Settled
  <2> QED BY <1>2, <2>3, <2>4 DEF HomeOf
<1> QED BY <1>3, <1>4, <1>5

LEMMA StoringHome ==
    ASSUME Typed, NEW c \in Codes, HomeOf(c), NEW a \in Actors, AppendLine(a)
    PROVE  HomeOf(c)'
<1> DEFINE s == jobs[a].into
           line == [id |-> jobs[a].line, by |-> jobs[a].about, kind |-> jobs[a].act,
                    of |-> jobs[a].code]
<1>0. StoreOK /\ JobsOK
  BY DEF Typed, Kept
<1>1. At(a, "append") /\ transcript' = [transcript EXCEPT ![s] = Append(@, line)]
      /\ UNCHANGED <<alive, gen, live>>
  BY DEF AppendLine, sessions
<1>2. Stays(c)
  <2>1. \/ Gets(a, Idle)
        \/ /\ jobs[a].pc \notin {"idle", "audit"}
           /\ \E pc \in Pcs \ {"claim", "reread", "append", "wipe"} : Moves(a, pc)
    BY OnwardMoves
  <2> QED BY <2>1, OnwardStays
<1>3. line \in Line /\ s \in Ids /\ line.of = jobs[a].code
  <2>1. Mid(jobs[a]) /\ jobs[a].about \in Players \cup {NoOne}
    BY <1>0, <1>1, AtWork, MidStage DEF At, Storing, Requests
  <2> QED BY <2>1 DEF Mid, Line, Tools
<1>4. jobs[a].code = c => Busy(a, c)
  BY <1>1 DEF Busy, At
<1> HIDE DEF line
<1>5. \A t \in Ids : \A l \in Range(transcript'[t]) :
         l \in Range(transcript[t]) \/ (t = s /\ l = line)
  <2> HIDE DEF s
  <2>1. transcript \in [Ids -> Seq(Line)]
    BY <1>0 DEF StoreOK
  <2>2. Range(Append(transcript[s], line)) = Range(transcript[s]) \cup {line}
    BY <1>3, <2>1, RangeAppended
  <2>3. transcript'[s] = Append(transcript[s], line) /\ \A t \in Ids \ {s} : transcript'[t] = transcript[t]
    BY <1>1, <1>3, <2>1
  <2> QED BY <2>2, <2>3
<1>6. CASE jobs[a].code # c
  <2>1. NoNewLine(c)
    BY <1>3, <1>5, <1>6 DEF NoNewLine
  <2> QED BY <1>1, <1>2, <2>1, HomeFrame
<1>7. CASE jobs[a].code = c
  <2>1. ~Fresh(c)
    BY <1>4, <1>7 DEF Fresh
  <2>2. ASSUME Settled(c)
        PROVE  Settled(c)'
    <3>1. s = live[c]
      BY <1>1, <1>4, <1>7, <2>2 DEF Settled
    <3>2. \A t \in Ids : \A l \in Range(transcript'[t]) : l.of = c => t = live'[c]
      BY <1>1, <1>5, <2>2, <3>1 DEF Settled
    <3>3. \A b \in Actors : Busy(b, c)' =>
            /\ jobs'[b].act # "end"
            /\ At(b, "append")' => live'[c] # None /\ jobs'[b].into = live'[c]
            /\ At(b, "reread")' => live'[c] # None
      BY <1>1, <1>2, <2>2 DEF Settled, Stays
    <3> QED BY <3>2, <3>3 DEF Settled
  <2> QED BY <1>1, <2>1, <2>2 DEF HomeOf
<1> QED BY <1>6, <1>7

LEMMA EndingHome ==
    ASSUME Typed, NEW c \in Codes, HomeOf(c), NEW a \in Actors, Wipes(a) \/ Unlinks(a)
    PROVE  HomeOf(c)'
<1>0. StoreOK /\ JobsOK
  BY DEF Typed, Kept
<1>1. Stays(c) /\ UNCHANGED <<alive, gen>>
  <2>1. \/ Gets(a, Idle)
        \/ /\ jobs[a].pc \notin {"idle", "audit"}
           /\ \E pc \in Pcs \ {"claim", "reread", "append", "wipe"} : Moves(a, pc)
    BY OnwardMoves
  <2> QED BY <2>1, OnwardStays DEF Wipes, Unlinks, sessions
<1>2. CASE Wipes(a)
  <2>1. NoNewLine(c)
    <3>1. \A s \in Ids : transcript'[s] = transcript[s] \/ transcript'[s] = <<>>
      BY <1>0, <1>2 DEF StoreOK, Wipes
    <3>2. Range(<<>>) = {}
      BY DEF Range
    <3> QED BY <3>1, <3>2 DEF NoNewLine
  <2> QED BY <1>1, <1>2, <2>1, HomeFrame DEF Wipes
<1>3. CASE Unlinks(a)
  <2>1. jobs[a].pc = "unlink" /\ jobs[a].act = "end" /\ live' = [live EXCEPT ![jobs[a].code] = None]
    BY <1>0, <1>3, AtWork DEF Unlinks, At, Stage, Ending
  <2>2. CASE jobs[a].code # c
    <3>1. live'[c] = live[c] /\ NoNewLine(c)
      BY <1>0, <1>3, <2>1, <2>2 DEF StoreOK, Unlinks, NoNewLine
    <3> QED BY <1>1, <3>1, HomeFrame
  <2>3. CASE jobs[a].code = c
    <3>1. Busy(a, c)
      BY <2>1, <2>3 DEF Busy
    <3>2. ~Fresh(c) /\ ~Settled(c)
      BY <2>1, <3>1 DEF Fresh, Settled
    <3> QED BY <1>1, <3>2 DEF HomeOf
  <2> QED BY <2>2, <2>3
<1> QED BY <1>2, <1>3

\* A fresh code is settled from the start.
LEMMA HostingHome ==
    ASSUME Typed, NEW c \in Codes, HomeOf(c), NEW d \in Codes, Host(d)
    PROVE  HomeOf(c)'
<1>1. UNCHANGED <<live, transcript, jobs>>
  BY DEF Host, chat
<1>2. CASE d # c
  <2>1. gen'[c] = gen[c] /\ alive'[c] = alive[c]
    BY <1>2 DEF Host, Typed, Kept
  <2>2. NoNewLine(c) /\ Stays(c)
    BY <1>1 DEF NoNewLine, Stays, Busy, At
  <2> QED BY <1>1, <2>1, <2>2, HomeFrame
<1>3. CASE d = c
  <2>1. gen'[c] = gen[c] + 1 /\ gen[c] \in Nat
    BY <1>3, Bounds DEF Host, Typed, Kept
  <2>2. ASSUME gen'[c] = 1
        PROVE  Settled(c)'
    <3>1. Fresh(c)
      BY <2>1, <2>2 DEF HomeOf
    <3> QED BY <1>1, <3>1 DEF Fresh, Settled, Busy
  <2> QED BY <2>1, <2>2 DEF HomeOf
<1> QED BY <1>2, <1>3

LEMMA HomeStart == Init => \A c \in Codes : HomeOf(c)
<1> SUFFICES ASSUME Init, NEW c \in Codes
             PROVE  HomeOf(c)
  OBVIOUS
<1>1. \A a \in Actors : ~Busy(a, c)
  BY IdlePc DEF Init, Busy
<1>2. \A s \in Ids : Range(transcript[s]) = {}
  BY DEF Init, Range
<1> QED BY <1>1, <1>2 DEF Init, HomeOf, Fresh

LEMMA HomeStep ==
    ASSUME Typed, NEW c \in Codes, HomeOf(c), [Next]_vars
    PROVE  HomeOf(c)'
<1>0. StoreOK /\ JobsOK /\ Counted
  BY DEF Typed, Kept
<1>1. CASE JobStep
  <2>1. PICK a \in Actors :
          \/ Resolve(a) \/ Claim(a) \/ Reread(a) \/ AppendLine(a) \/ AppendFails(a)
          \/ Looks(a) \/ Cuts(a) \/ Marks(a) \/ Bans(a) \/ WriteFails(a) \/ Notices(a)
          \/ Writes(a) \/ RecordFails(a)
          \/ Finds(a) \/ Decides(a) \/ Archives(a) \/ Wipes(a) \/ Unlinks(a)
    BY <1>1 DEF JobStep
  <2>2. CASE \/ AppendFails(a) \/ Looks(a) \/ Cuts(a) \/ Marks(a) \/ Bans(a) \/ WriteFails(a)
             \/ Notices(a) \/ Writes(a) \/ RecordFails(a) \/ Finds(a) \/ Archives(a)
    <3>1. Stays(c)
      BY <2>2, OnwardMoves, OnwardStays
    <3>2. UNCHANGED <<alive, gen, live, transcript>>
      BY <2>2 DEF AppendFails, Looks, Cuts, Marks, Bans, WriteFails, Notices, Writes, RecordFails,
                  Finds, Archives, chat, sessions
    <3> QED BY <3>1, <3>2, QuietHome
  <2>3. CASE Decides(a)
    <3>1. Moves(a, "archive") \/ Moves(a, "wipe")
      BY <1>0, <2>3, EndMoves DEF Decides, At, Ending
    <3>2. Stays(c)
      BY <2>3, <3>1, OnwardStays DEF Decides, At, Pcs
    <3>3. UNCHANGED <<alive, gen, live, transcript>>
      BY <2>3 DEF Decides, chat, sessions
    <3> QED BY <3>2, <3>3, QuietHome
  <2> QED BY <2>1, <2>2, <2>3, ResolvingHome, ClaimingHome, StoringHome, EndingHome
<1>2. CASE (\E p \in Players, d \in Codes : SendChat(p, d)) \/ ModeratorStep \/ CloserStep
  <2>1. PICK a \in Actors : \E act : Begun(a, act)
    BY <1>2, BegunMoves
  <2> QED BY <1>2, <2>1, BegunMoves, BegunHome
<1>3. CASE SessionStep
  <2>1. PICK d \in Codes : Host(d) \/ Expires(d)
    BY <1>3 DEF SessionStep
  <2>2. CASE Expires(d)
    <3>1. UNCHANGED <<gen, live, transcript, jobs>> /\ (alive'[c] => alive[c])
      BY <2>2 DEF Expires, chat, Typed, Kept
    <3>2. NoNewLine(c) /\ Stays(c)
      BY <3>1 DEF NoNewLine, Stays, Busy, At
    <3> QED BY <3>1, <3>2, HomeFrame
  <2> QED BY <2>1, <2>2, HostingHome
<1>4. CASE (\E p \in Players : AccountDeleted(p)) \/ BootStep \/ UNCHANGED vars
  <2>1. UNCHANGED <<alive, gen, live, transcript>>
    BY <1>4 DEF AccountDeleted, BootStep, Import, Boot, Crash, vars, chat, sessions
  <2>2. UNCHANGED jobs \/ jobs' = [a \in Actors |-> Idle]
    BY <1>4 DEF AccountDeleted, BootStep, Import, Boot, Crash, vars
  <2>3. Stays(c)
    BY <2>2, IdlePc DEF Stays, Busy, At
  <2> QED BY <2>1, <2>3, QuietHome
<1> QED BY <1>1, <1>2, <1>3, <1>4 DEF Next, PlayerStep

\* However the first lines of a session race for its pointer, all of them are stored in
\* the one instance the pointer names (sid_for: GET, SET NX, GET).
THEOREM LinesShareInstance == Spec => []OneInstance
<1> DEFINE Homes == \A c \in Codes : HomeOf(c)
<1>1. Init => Typed /\ Homes
  BY TypedStart, HomeStart
<1>2. Typed /\ Homes /\ [Next]_vars => Typed' /\ Homes'
  BY TypedStep, HomeStep
<1>3. Homes => OneInstance
  BY DEF HomeOf, Settled, OneInstance
<1> HIDE DEF Homes
<1> QED BY <1>1, <1>2, <1>3, PTL DEF Spec

-----------------------------------------------------------------------------
(* The ban list and the log *)

\* a has done act to p and not recorded it.
Owes(a, act, p) ==
    /\ jobs[a].pc \notin {"idle", "look", "cut", "ban"}
    /\ jobs[a].act = act /\ jobs[a].about = p

LEMMA OwingCounts ==
    ASSUME NEW a \in Actors, \A b \in Actors \ {a} : jobs'[b] = jobs[b], NEW act, NEW p
    PROVE  LET m == Cardinality(Owing(act, p))
               n == Cardinality(Owing(act, p)')
           IN  /\ m \in Nat /\ n \in Nat
               /\ Owes(a, act, p) /\ ~Owes(a, act, p)' => m = n + 1
               /\ ~Owes(a, act, p) /\ Owes(a, act, p)' => n = m + 1
               /\ (Owes(a, act, p) <=> Owes(a, act, p)') => n = m
<1> DEFINE X == Owing(act, p)
           Y == Owing(act, p)'
<1>1. IsFiniteSet(X) /\ IsFiniteSet(Y)
  BY SomeActors DEF Owing
<1>2. X \ {a} = Y \ {a}
  BY DEF Owing
<1>3. (a \in X <=> Owes(a, act, p)) /\ (a \in Y <=> Owes(a, act, p)')
  BY DEF Owing, Owes
<1> HIDE DEF X, Y
<1>4. /\ Cardinality(X) \in Nat /\ Cardinality(Y) \in Nat
      /\ a \in X /\ a \notin Y => Cardinality(X) = Cardinality(Y) + 1
      /\ a \notin X /\ a \in Y => Cardinality(Y) = Cardinality(X) + 1
      /\ (a \in X <=> a \in Y) => Cardinality(Y) = Cardinality(X)
  BY <1>1, <1>2, OneApart
<1> QED BY <1>3, <1>4 DEF X, Y

\* A player's side of the ledger, and a step that leaves it alone.
Entry == {RecordOf(j) : j \in Requests} \cup
         [act : {"legacy"}, from : Categories \X Nat, list : BOOLEAN]

Balanced(p) ==
    Recorded("ban", p) - Recorded("unban", p) + Owed(p) + unrecorded[p]
        = IF p \in banned THEN 1 ELSE 0

LEMMA EntriesFinite ==
    ASSUME records \in Seq(Entry), NEW act, NEW p
    PROVE  /\ IsFiniteSet({i \in DOMAIN records : records[i].act = act /\ records[i].about = p})
           /\ Recorded(act, p) \in Nat
<1>1. DOMAIN records = 1 .. Len(records) /\ Len(records) \in Nat
  BY LenProperties
<1>2. IsFiniteSet(1 .. Len(records))
  BY <1>1, FS_Interval
<1>3. IsFiniteSet({i \in DOMAIN records : records[i].act = act /\ records[i].about = p})
  BY <1>1, <1>2, FS_Subset
<1> QED BY <1>3, FS_CardinalityType DEF Recorded

LEMMA RecordedMore ==
    ASSUME records \in Seq(Entry), NEW e \in Entry, records' = Append(records, e), NEW act, NEW p
    PROVE  /\ records' \in Seq(Entry)
           /\ Recorded(act, p)' = Recorded(act, p)
                + (IF e.act = act /\ e.about = p THEN 1 ELSE 0)
<1> DEFINE X == {i \in DOMAIN records : records[i].act = act /\ records[i].about = p}
           Y == {i \in DOMAIN records' : records'[i].act = act /\ records'[i].about = p}
           n == Len(records) + 1
<1>1. /\ DOMAIN records = 1 .. Len(records) /\ Len(records) \in Nat
      /\ DOMAIN records' = 1 .. n /\ records' \in Seq(Entry)
      /\ \A i \in 1 .. Len(records) : records'[i] = records[i]
      /\ records'[n] = e
  BY AppendProperties, LenProperties
<1>2. IsFiniteSet(X) /\ n \notin X
  <2>1. IsFiniteSet(X)
    BY EntriesFinite
  <2>2. n \notin DOMAIN records
    BY <1>1
  <2> QED BY <2>1, <2>2
<1>3. Y = IF e.act = act /\ e.about = p THEN X \cup {n} ELSE X
  BY <1>1
<1>4. Recorded(act, p) = Cardinality(X) /\ Recorded(act, p)' = Cardinality(Y)
  BY DEF Recorded
<1> HIDE DEF X, Y, n
<1>5. Cardinality(X) \in Nat /\ Cardinality(X \cup {n}) = Cardinality(X) + 1
  BY <1>2, FS_CardinalityType, FS_AddElement
<1> QED BY <1>1, <1>3, <1>4, <1>5

LEMMA RecordedSame ==
    ASSUME UNCHANGED records, NEW act, NEW p
    PROVE  Recorded(act, p)' = Recorded(act, p)
BY DEF Recorded

Ledger == records \in Seq(Entry) /\ \A p \in Players : Balanced(p)

\* What most steps are to the ledger of p.
LEMMA LedgerFrame ==
    ASSUME Typed, Ledger, UNCHANGED <<records, banned, unrecorded>>, NEW a \in Actors,
           \A b \in Actors \ {a} : jobs'[b] = jobs[b],
           \A act \in {"ban", "unban"}, p \in Players : Owes(a, act, p)' <=> Owes(a, act, p)
    PROVE  Ledger'
<1>1. ASSUME NEW p \in Players
      PROVE  Balanced(p)'
  <2>1. Recorded("ban", p)' = Recorded("ban", p) /\ Recorded("unban", p)' = Recorded("unban", p)
    BY RecordedSame
  <2>2. /\ Cardinality(Owing("ban", p)') = Cardinality(Owing("ban", p))
        /\ Cardinality(Owing("unban", p)') = Cardinality(Owing("unban", p))
    BY OwingCounts
  <2>3. Owed(p)' = Owed(p)
    BY <2>2 DEF Owed
  <2> QED BY <2>1, <2>3 DEF Ledger, Balanced
<1> QED BY <1>1 DEF Ledger

Early == {"idle", "look", "cut", "ban"}
ListChanges == {"ban", "unban"}

\* A step of a's request after which a owes the log what it owed before.
Even(a) ==
    /\ \A b \in Actors \ {a} : jobs'[b] = jobs[b]
    /\ \A act \in ListChanges, p \in Players : Owes(a, act, p)' <=> Owes(a, act, p)

LEMMA EvenMoves ==
    ASSUME NEW a \in Actors,
           \/ \E pc : /\ Moves(a, pc)
                      /\ (jobs[a].pc \in Early <=> pc \in Early) \/ jobs[a].act \notin ListChanges
           \/ Gets(a, Idle) /\ (jobs[a].pc \in Early \/ jobs[a].act \notin ListChanges)
           \/ \E pc, act, c : Begins(a, pc, act, c) /\ (pc \in Early \/ act \notin ListChanges)
    PROVE  Even(a)
<1>1. CASE \E pc : /\ Moves(a, pc)
                   /\ (jobs[a].pc \in Early <=> pc \in Early) \/ jobs[a].act \notin ListChanges
  BY <1>1 DEF Even, Moves, Owes, Early, ListChanges
<1>2. CASE Gets(a, Idle) /\ (jobs[a].pc \in Early \/ jobs[a].act \notin ListChanges)
  BY <1>2, IdlePc DEF Even, Gets, Owes, Early, ListChanges
<1>3. CASE \E pc, act, c : Begins(a, pc, act, c) /\ (pc \in Early \/ act \notin ListChanges)
  BY <1>3 DEF Even, Begins, Owes, Early, ListChanges, At
<1> QED BY <1>1, <1>2, <1>3

LEMMA EvenSteps ==
    ASSUME Typed, NEW a \in Actors,
           \/ Resolve(a) \/ Claim(a) \/ Reread(a) \/ AppendLine(a) \/ AppendFails(a)
           \/ Looks(a) \/ Cuts(a) \/ Marks(a) \/ WriteFails(a) \/ Notices(a)
           \/ Finds(a) \/ Decides(a) \/ Archives(a) \/ Wipes(a) \/ Unlinks(a)
    PROVE  Even(a)
<1>0. JobsOK /\ StoreOK /\ Counted
  BY DEF Typed, Kept
<1>1. CASE Resolve(a) \/ Claim(a) \/ Reread(a)
  <2>1. \E pc \in {"claim", "reread", "append"} : Moves(a, pc)
    BY <1>0, <1>1, ResolveMoves, ClaimMoves, RereadMoves
  <2>2. jobs[a].pc \notin Early
    BY <1>1 DEF Resolve, Claim, Reread, At, Early
  <2> QED BY <2>1, <2>2, EvenMoves DEF Early
<1>2. CASE AppendLine(a) \/ AppendFails(a)
  <2>1. At(a, "append") /\ (AfterAppend(a, TRUE) \/ AfterAppend(a, FALSE))
    BY <1>2 DEF AppendLine, AppendFails
  <2>2. jobs[a].act \in Tools \cup {"clean", "flagged", "say"}
    BY <1>0, <2>1, AtWork DEF Stage, Storing, At
  <2>3. CASE jobs[a].act \in {"clean", "flagged", "say"}
    <3>1. Gets(a, Idle) \/ Moves(a, "cut")
      BY <1>0, <2>1, <2>3, AfterMoves
    <3> QED BY <2>3, <3>1, EvenMoves DEF ListChanges
  <2>4. CASE jobs[a].act \in Tools
    <3>1. Moves(a, "audit")
      BY <1>0, <2>1, <2>4, AfterMoves
    <3> QED BY <2>1, <3>1, EvenMoves DEF At, Early
  <2> QED BY <2>2, <2>3, <2>4
<1>3. CASE Looks(a)
  <2>1. At(a, "look") /\ (Gets(a, Idle) \/ Moves(a, "cut"))
    BY <1>0, <1>3, LooksMoves
  <2> QED BY <2>1, EvenMoves DEF At, Early
<1>4. CASE Cuts(a)
  <2>1. /\ At(a, "cut")
        /\ \/ jobs[a].act \notin ListChanges /\ \E pc : Moves(a, pc)
           \/ Moves(a, "ban")
    BY <1>0, <1>4, CutsMoves DEF ListChanges
  <2> QED BY <2>1, EvenMoves DEF At, Early
<1>5. CASE Marks(a)
  <2>1. At(a, "mark") /\ Moves(a, "notice")
    BY <1>0, <1>5, MarksMoves
  <2> QED BY <2>1, EvenMoves DEF At, Early
<1>6. CASE WriteFails(a)
  <2>1. /\ Gets(a, Idle)
        /\ At(a, "ban") \/ (At(a, "mark") /\ jobs[a].act = "delete")
    BY <1>0, <1>6, DoneRests, AtWork DEF WriteFails, Stage, At
  <2> QED BY <2>1, EvenMoves DEF At, Early, ListChanges
<1>7. CASE Notices(a)
  <2>1. At(a, "notice") /\ (Moves(a, "audit") \/ Moves(a, "resolve"))
    BY <1>0, <1>7, NoticesMoves
  <2> QED BY <2>1, EvenMoves DEF At, Early
<1>8. CASE Finds(a)
  <2>1. jobs[a].act = "end" /\ (Gets(a, Idle) \/ Moves(a, "decide"))
    BY <1>0, <1>8, FindsMoves
  <2> QED BY <2>1, EvenMoves DEF ListChanges
<1>9. CASE Decides(a) \/ Archives(a) \/ Wipes(a)
  <2>1. jobs[a].pc \in Ending /\ \E pc \in Ending : Goes(a, pc)
    BY <1>9 DEF Decides, Archives, Wipes, At, Ending
  <2>2. jobs[a].act = "end" /\ \E pc : Moves(a, pc)
    BY <1>0, <2>1, EndMoves
  <2> QED BY <2>2, EvenMoves DEF ListChanges
<1>10. CASE Unlinks(a)
  <2>1. jobs[a].act = "end" /\ Gets(a, Idle)
    BY <1>0, <1>10, DoneRests, AtWork DEF Unlinks, At, Stage, Ending
  <2> QED BY <2>1, EvenMoves DEF ListChanges
<1> QED BY <1>1, <1>2, <1>3, <1>4, <1>5, <1>6, <1>7, <1>8, <1>9, <1>10

LEMMA EvenLedger ==
    ASSUME Typed, Ledger, NEW a \in Actors, Even(a), UNCHANGED <<records, banned, unrecorded>>
    PROVE  Ledger'
BY LedgerFrame DEF Even, ListChanges

\* Somebody's change of the list is under way: p owes one act more, and the list has it.
LEMMA OwingLedger ==
    ASSUME Typed, Ledger, NEW a \in Actors, NEW q \in Players, NEW act \in ListChanges,
           \A b \in Actors \ {a} : jobs'[b] = jobs[b],
           \A p \in Players : ~Owes(a, "ban", p) /\ ~Owes(a, "unban", p),
           jobs'[a].pc \notin Early, jobs'[a].act = act, jobs'[a].about = q,
           UNCHANGED <<records, unrecorded>>,
           act = "ban" => q \notin banned /\ banned' = banned \cup {q},
           act = "unban" => q \in banned /\ banned' = banned \ {q}
    PROVE  Ledger'
<1>1. ASSUME NEW p \in Players
      PROVE  Balanced(p)'
  <2>1. Recorded("ban", p)' = Recorded("ban", p) /\ Recorded("unban", p)' = Recorded("unban", p)
    BY RecordedSame
  <2>2. /\ Recorded("ban", p) \in Nat /\ Recorded("unban", p) \in Nat
        /\ unrecorded[p] \in Int
    BY EntriesFinite DEF Ledger, Typed, Kept
  <2> DEFINE m == Cardinality(Owing("ban", p))
             m1 == Cardinality(Owing("ban", p)')
             n == Cardinality(Owing("unban", p))
             n1 == Cardinality(Owing("unban", p)')
  <2>3. /\ Owes(a, "ban", p)' <=> (act = "ban" /\ p = q)
        /\ Owes(a, "unban", p)' <=> (act = "unban" /\ p = q)
    BY DEF Owes, Early, ListChanges
  <2>4. /\ m \in Nat /\ m1 = (IF act = "ban" /\ p = q THEN m + 1 ELSE m)
    BY <2>3, OwingCounts
  <2>5. /\ n \in Nat /\ n1 = (IF act = "unban" /\ p = q THEN n + 1 ELSE n)
    BY <2>3, OwingCounts
  <2>6. Owed(p) = m - n /\ Owed(p)' = m1 - n1
    BY DEF Owed
  <2> HIDE DEF m, n, m1, n1
  <2>7. Balanced(p)
    BY DEF Ledger
  <2> QED BY <2>1, <2>2, <2>4, <2>5, <2>6, <2>7 DEF Balanced, ListChanges
<1> QED BY <1>1 DEF Ledger

LEMMA BansLedger ==
    ASSUME Typed, Ledger, NEW a \in Actors, Bans(a)
    PROVE  Ledger'
<1>0. JobsOK
  BY DEF Typed
<1>1. /\ At(a, "ban") /\ jobs[a].act = "ban" /\ jobs[a].about \in Players
      /\ UNCHANGED <<records, unrecorded>>
  BY <1>0, BansMoves DEF Bans, log
<1>2. CASE /\ jobs[a].about \notin banned
           /\ banned' = banned \cup {jobs[a].about} /\ Moves(a, "notice")
  <2>1. \A p \in Players : ~Owes(a, "ban", p) /\ ~Owes(a, "unban", p)
    BY <1>1 DEF Owes, At
  <2>2. /\ \A b \in Actors \ {a} : jobs'[b] = jobs[b]
        /\ jobs'[a].pc \notin Early /\ jobs'[a].act = "ban" /\ jobs'[a].about = jobs[a].about
    BY <1>1, <1>2 DEF Moves, Early
  <2> QED BY <1>1, <1>2, <2>1, <2>2, OwingLedger DEF ListChanges
<1>3. CASE banned' = banned /\ Gets(a, Idle)
  <2>1. Even(a)
    BY <1>1, <1>3, EvenMoves DEF At, Early
  <2> QED BY <1>1, <1>3, <2>1, EvenLedger
<1> QED BY <1>0, <1>2, <1>3, BansMoves

LEMMA ListsLedger ==
    ASSUME Typed, Ledger, NEW m \in Moderators, NEW q \in Players, ListBan(m, q) \/ ListUnban(m, q)
    PROVE  Ledger'
<1>0. JobsOK /\ m \in Actors /\ At(m, "idle") /\ UNCHANGED <<records, unrecorded>>
  BY DEF Typed, Actors, ListBan, ListUnban, Request, log, history
<1>1. \A p \in Players : ~Owes(m, "ban", p) /\ ~Owes(m, "unban", p)
  BY <1>0 DEF Owes, At
<1>2. ASSUME NEW act \in {"ban", "unban"}, jobs' = [jobs EXCEPT ![m] = Job(act, "audit", NoOne, q)]
      PROVE  /\ \A b \in Actors \ {m} : jobs'[b] = jobs[b]
             /\ jobs'[m].pc \notin Early /\ jobs'[m].act = act /\ jobs'[m].about = q
  BY <1>0, <1>2, ListBegins DEF Begins, Early
<1>3. CASE ListBan(m, q)
  <2>1. /\ \A b \in Actors \ {m} : jobs'[b] = jobs[b]
        /\ jobs'[m].pc \notin Early /\ jobs'[m].act = "ban" /\ jobs'[m].about = q
        /\ q \notin banned /\ banned' = banned \cup {q}
    BY <1>2, <1>3 DEF ListBan, BansNew
  <2> QED BY <1>0, <1>1, <2>1, OwingLedger DEF ListChanges
<1>4. CASE ListUnban(m, q)
  <2>1. /\ \A b \in Actors \ {m} : jobs'[b] = jobs[b]
        /\ jobs'[m].pc \notin Early /\ jobs'[m].act = "unban" /\ jobs'[m].about = q
        /\ q \in banned /\ banned' = banned \ {q}
    BY <1>2, <1>4 DEF ListUnban
  <2> QED BY <1>0, <1>1, <2>1, OwingLedger DEF ListChanges
<1> QED BY <1>3, <1>4

LEMMA OwedSame ==
    ASSUME UNCHANGED jobs, NEW p
    PROVE  Owed(p)' = Owed(p)
BY DEF Owed, Owing

LEMMA DeletionLedger ==
    ASSUME Typed, Ledger, NEW q \in Players, AccountDeleted(q)
    PROVE  Ledger'
<1>1. /\ UNCHANGED <<records, jobs>> /\ q \in banned /\ banned' = banned \ {q}
      /\ unrecorded' = [unrecorded EXCEPT ![q] = @ - 1]
  BY DEF AccountDeleted, log
<1>2. ASSUME NEW p \in Players
      PROVE  Balanced(p)'
  <2>1. Recorded("ban", p)' = Recorded("ban", p) /\ Recorded("unban", p)' = Recorded("unban", p)
    BY <1>1, RecordedSame
  <2>2. Owed(p)' = Owed(p) /\ Owed(p) \in Int
    BY <1>1, OwedSame, OwedInt
  <2>3. /\ Recorded("ban", p) \in Nat /\ Recorded("unban", p) \in Nat
    BY EntriesFinite DEF Ledger
  <2>4. /\ unrecorded[p] \in Int
        /\ unrecorded'[p] = IF p = q THEN unrecorded[p] - 1 ELSE unrecorded[p]
    BY <1>1 DEF Typed, Kept
  <2>5. Balanced(p)
    BY DEF Ledger
  <2> QED BY <1>1, <2>1, <2>2, <2>3, <2>4, <2>5 DEF Balanced
<1> QED BY <1>1, <1>2 DEF Ledger

\* The request ends: its record is written, or its loss is noted.
LEMMA EndOfRequestLedger ==
    ASSUME Typed, Ledger, NEW a \in Actors, Writes(a) \/ RecordFails(a)
    PROVE  Ledger'
<1> DEFINE j == jobs[a]
           e == RecordOf(j)
<1>0. JobsOK
  BY DEF Typed
<1>1. /\ At(a, "audit") /\ j \in Requests /\ j.about \in Players
      /\ j.act \in Tools \cup {"flagged", "unban"}
  BY <1>0, AtWork DEF Writes, RecordFails, At, Stage, Tools
<1>2. Gets(a, Idle) /\ UNCHANGED banned
  BY <1>0, DoneRests DEF Writes, RecordFails
<1>3. e \in Entry /\ e.act = j.act /\ e.about = j.about
  BY <1>1 DEF Entry, RecordOf
<1>4. \/ /\ records' = Append(records, e) /\ UNCHANGED unrecorded
      \/ /\ UNCHANGED records
         /\ unrecorded' = [unrecorded EXCEPT ![j.about] = @ + Net(j.act)]
  BY DEF Writes, RecordFails, history, log
<1> HIDE DEF e
<1>5. records' \in Seq(Entry)
  BY <1>3, <1>4, RecordedMore DEF Ledger
<1>6. ASSUME NEW p \in Players
      PROVE  Balanced(p)'
  <2> DEFINE m == Cardinality(Owing("ban", p))
             m1 == Cardinality(Owing("ban", p)')
             n == Cardinality(Owing("unban", p))
             n1 == Cardinality(Owing("unban", p)')
             b == IF j.act = "ban" /\ j.about = p THEN 1 ELSE 0
             u == IF j.act = "unban" /\ j.about = p THEN 1 ELSE 0
             r == Recorded("ban", p)
             r1 == Recorded("ban", p)'
             s == Recorded("unban", p)
             s1 == Recorded("unban", p)'
             x == unrecorded[p]
             x1 == unrecorded'[p]
  <2>1. /\ \A i \in Actors \ {a} : jobs'[i] = jobs[i]
        /\ ~Owes(a, "ban", p)' /\ ~Owes(a, "unban", p)'
        /\ Owes(a, "ban", p) <=> (j.act = "ban" /\ j.about = p)
        /\ Owes(a, "unban", p) <=> (j.act = "unban" /\ j.about = p)
    BY <1>1, <1>2, IdlePc DEF Gets, Owes, At
  <2>2. m \in Nat /\ m1 \in Nat /\ m = m1 + b
    BY <2>1, OwingCounts
  <2>3. n \in Nat /\ n1 \in Nat /\ n = n1 + u
    BY <2>1, OwingCounts
  <2>4. Owed(p) = m - n /\ Owed(p)' = m1 - n1
    BY DEF Owed
  <2>5. r \in Nat /\ s \in Nat /\ x \in Int
    BY EntriesFinite DEF Ledger, Typed, Kept
  <2>6. \/ r1 = r + b /\ s1 = s + u /\ x1 = x
        \/ r1 = r /\ s1 = s /\ x1 = x + b - u
    <3>1. CASE records' = Append(records, e) /\ UNCHANGED unrecorded
      <4>1. r1 = r + b /\ s1 = s + u
        BY <1>3, <3>1, RecordedMore DEF Ledger
      <4> QED BY <3>1, <4>1
    <3>2. CASE /\ UNCHANGED records
               /\ unrecorded' = [unrecorded EXCEPT ![j.about] = @ + Net(j.act)]
      <4>1. r1 = r /\ s1 = s
        BY <3>2, RecordedSame
      <4>2. Net(j.act) = IF j.act = "ban" THEN 1 ELSE IF j.act = "unban" THEN -1 ELSE 0
        BY DEF Net
      <4>3. x1 = IF j.about = p THEN x + Net(j.act) ELSE x
        BY <1>1, <3>2 DEF Typed, Kept
      <4>4. x1 = x + b - u
        BY <1>1, <2>5, <4>2, <4>3
      <4> QED BY <4>1, <4>4
    <3> QED BY <1>4, <3>1, <3>2
  <2>7. b \in {0, 1} /\ u \in {0, 1}
    OBVIOUS
  <2>8. r - s + (m - n) + x = IF p \in banned THEN 1 ELSE 0
    BY <2>4 DEF Ledger, Balanced
  <2>9. Balanced(p)' <=> r1 - s1 + (m1 - n1) + x1 = (IF p \in banned THEN 1 ELSE 0)
    BY <1>2, <2>4 DEF Balanced
  <2> HIDE DEF m, m1, n, n1, b, u, r, r1, s, s1, x, x1
  <2>10. r1 - s1 + (m1 - n1) + x1 = r - s + (m - n) + x
    BY <2>2, <2>3, <2>5, <2>6, <2>7
  <2> QED BY <2>8, <2>9, <2>10
<1> QED BY <1>5, <1>6 DEF Ledger

LEMMA BootLedger ==
    ASSUME Typed, Ledger, BootStep
    PROVE  Ledger'
<1>1. CASE Boot
  <2>1. UNCHANGED <<records, banned, unrecorded, jobs>>
    BY <1>1 DEF Boot, log, history
  <2>2. ASSUME NEW p \in Players
        PROVE  Balanced(p)'
    BY <2>1, RecordedSame, OwedSame DEF Ledger, Balanced
  <2> QED BY <2>1, <2>2 DEF Ledger
<1>2. ASSUME NEW c \in Categories, Import(c)
      PROVE  Ledger'
  <2> DEFINE n == cursor[c] + 1
             e == [act |-> "legacy", from |-> <<c, n>>, list |-> c = "list"]
  <2>1. /\ UNCHANGED <<banned, unrecorded, jobs>>
        /\ UNCHANGED records \/ records' = Append(records, e)
    BY <1>2 DEF Import, history
  <2>2. e \in Entry /\ e.act = "legacy"
    <3>1. n \in Nat
      BY DEF Typed, Kept
    <3>2. (c = "list") \in BOOLEAN
      OBVIOUS
    <3> QED BY <3>1, <3>2 DEF Entry
  <2> HIDE DEF e
  <2>3. ASSUME NEW p \in Players
        PROVE  Balanced(p)'
    <3>1. /\ Recorded("ban", p) \in Nat /\ Recorded("unban", p) \in Nat
      BY EntriesFinite DEF Ledger
    <3>2. Recorded("ban", p)' = Recorded("ban", p) /\ Recorded("unban", p)' = Recorded("unban", p)
      <4>1. CASE UNCHANGED records
        BY <4>1, RecordedSame
      <4>2. CASE records' = Append(records, e)
        BY <2>2, <3>1, <4>2, RecordedMore DEF Ledger
      <4> QED BY <2>1, <4>1, <4>2
    <3>3. Owed(p)' = Owed(p)
      BY <2>1, OwedSame
    <3> QED BY <2>1, <3>2, <3>3 DEF Ledger, Balanced
  <2>4. records' \in Seq(Entry)
    BY <2>1, <2>2, RecordedMore DEF Ledger
  <2> QED BY <2>3, <2>4 DEF Ledger
<1>3. CASE Crash
  <2>1. /\ UNCHANGED <<records, banned>> /\ jobs' = [a \in Actors |-> Idle]
        /\ unrecorded' = [p \in Players |-> unrecorded[p] + Owed(p)]
    BY <1>3 DEF Crash, log
  <2>2. ASSUME NEW p \in Players
        PROVE  Balanced(p)'
    <3>1. Owed(p)' = 0
      <4>1. Owing("ban", p)' = {} /\ Owing("unban", p)' = {}
        BY <2>1, IdlePc DEF Owing
      <4> QED BY <4>1, FS_EmptySet DEF Owed
    <3>2. Recorded("ban", p)' = Recorded("ban", p) /\ Recorded("unban", p)' = Recorded("unban", p)
      BY <2>1, RecordedSame
    <3>3. /\ Recorded("ban", p) \in Nat /\ Recorded("unban", p) \in Nat /\ Owed(p) \in Int
          /\ unrecorded[p] \in Int /\ unrecorded'[p] = unrecorded[p] + Owed(p)
      BY <2>1, EntriesFinite, OwedInt DEF Ledger, Typed, Kept
    <3>4. Balanced(p)
      BY DEF Ledger
    <3> QED BY <2>1, <3>1, <3>2, <3>3, <3>4 DEF Balanced
  <2> QED BY <2>1, <2>2 DEF Ledger
<1> QED BY <1>1, <1>2, <1>3 DEF BootStep

LEMMA LedgerStart == Init => Ledger
<1> SUFFICES ASSUME Init
             PROVE  Ledger
  OBVIOUS
<1>1. records = <<>> /\ records \in Seq(Entry)
  BY DEF Init
<1>2. ASSUME NEW p \in Players
      PROVE  Balanced(p)
  <2>1. Owing("ban", p) = {} /\ Owing("unban", p) = {}
    BY IdlePc DEF Init, Owing
  <2>2. Owed(p) = 0
    BY <2>1, FS_EmptySet DEF Owed
  <2>3. Recorded("ban", p) = 0 /\ Recorded("unban", p) = 0
    <3>1. DOMAIN records = {}
      BY <1>1
    <3>2. \A act : {i \in DOMAIN records : records[i].act = act /\ records[i].about = p} = {}
      BY <3>1
    <3> QED BY <3>2, FS_EmptySet DEF Recorded
  <2> QED BY <2>2, <2>3 DEF Init, Balanced
<1> QED BY <1>1, <1>2 DEF Ledger

LEMMA LedgerStep ==
    ASSUME Typed, Ledger, [Next]_vars
    PROVE  Ledger'
<1>0. JobsOK /\ Counted
  BY DEF Typed
<1>1. CASE JobStep
  <2>1. PICK a \in Actors :
          \/ Resolve(a) \/ Claim(a) \/ Reread(a) \/ AppendLine(a) \/ AppendFails(a)
          \/ Looks(a) \/ Cuts(a) \/ Marks(a) \/ Bans(a) \/ WriteFails(a) \/ Notices(a)
          \/ Writes(a) \/ RecordFails(a)
          \/ Finds(a) \/ Decides(a) \/ Archives(a) \/ Wipes(a) \/ Unlinks(a)
    BY <1>1 DEF JobStep
  <2>2. CASE \/ Resolve(a) \/ Claim(a) \/ Reread(a) \/ AppendLine(a) \/ AppendFails(a)
             \/ Looks(a) \/ Cuts(a) \/ Marks(a) \/ WriteFails(a) \/ Notices(a)
             \/ Finds(a) \/ Decides(a) \/ Archives(a) \/ Wipes(a) \/ Unlinks(a)
    <3>1. UNCHANGED <<records, banned, unrecorded>>
      BY <2>2 DEF Resolve, Claim, Reread, AppendLine, AppendFails, Looks, Cuts, Marks, WriteFails,
                  Notices, Finds, Decides, Archives, Wipes, Unlinks, log, history
    <3> QED BY <2>2, <3>1, EvenSteps, EvenLedger
  <2> QED BY <2>1, <2>2, BansLedger, EndOfRequestLedger
<1>2. ASSUME NEW a \in Actors, UNCHANGED <<records, banned, unrecorded>>,
             \E pc, act, c : Begins(a, pc, act, c) /\ (pc \in Early \/ act \notin ListChanges)
      PROVE  Ledger'
  BY <1>2, EvenMoves, EvenLedger
<1>3. CASE PlayerStep
  <2>1. ASSUME NEW p \in Players, NEW c \in Codes, SendChat(p, c)
        PROVE  Ledger'
    <3>1. p \in Actors /\ UNCHANGED <<records, banned, unrecorded>>
      BY <2>1 DEF Actors, SendChat, log, history
    <3> QED BY <1>0, <1>2, <2>1, <3>1, SendChatBegins DEF ListChanges
  <2> QED BY <1>3, <2>1, DeletionLedger DEF PlayerStep
<1>4. CASE ModeratorStep
  <2>1. PICK m \in Moderators :
           \/ \E c \in Codes : \/ Say(m, c) \/ Sweeps(m, c)
                               \/ \E act \in Tools, p \in Players : Press(m, c, act, p)
           \/ \E p \in Players : ListBan(m, p) \/ ListUnban(m, p)
    BY <1>4 DEF ModeratorStep, Tools
  <2>2. m \in Actors
    BY DEF Actors
  <2>3. ASSUME NEW c \in Codes, Say(m, c)
        PROVE  Ledger'
    <3>1. UNCHANGED <<records, banned, unrecorded>>
      BY <2>3 DEF Say, log, history
    <3> QED BY <1>0, <1>2, <2>2, <2>3, <3>1, SayBegins DEF ListChanges
  <2>4. ASSUME NEW c \in Codes, Sweeps(m, c)
        PROVE  Ledger'
    <3>1. UNCHANGED <<records, banned, unrecorded>> /\ Begins(m, "find", "end", c)
      BY <1>0, <2>2, <2>4, EndBegins DEF Sweeps, Request, log, history
    <3> QED BY <1>2, <2>2, <3>1 DEF ListChanges
  <2>5. ASSUME NEW c \in Codes, NEW act \in Tools, NEW p \in Players, Press(m, c, act, p)
        PROVE  Ledger'
    <3>1. UNCHANGED <<records, banned, unrecorded>> /\ Begins(m, "look", act, c)
      BY <1>0, <2>5, PressBegins DEF Press, log, history
    <3> QED BY <1>2, <2>2, <3>1 DEF Early
  <2> QED BY <2>1, <2>3, <2>4, <2>5, ListsLedger
<1>5. CASE CloserStep
  <2>1. PICK e \in Closers, c \in Codes : Closes(e, c)
    BY <1>5 DEF CloserStep
  <2>2. /\ e \in Actors /\ UNCHANGED <<records, banned, unrecorded>>
        /\ Begins(e, "find", "end", c)
    BY <1>0, <2>1, EndBegins DEF Closes, Actors, log, history
  <2> QED BY <1>2, <2>2 DEF ListChanges
<1>6. CASE SessionStep \/ UNCHANGED vars
  <2>1. UNCHANGED <<records, banned, unrecorded, jobs>>
    BY <1>6 DEF SessionStep, Host, Expires, vars, log, history
  <2>2. ASSUME NEW p \in Players
        PROVE  Balanced(p)'
    BY <2>1, RecordedSame, OwedSame DEF Ledger, Balanced
  <2> QED BY <2>1, <2>2 DEF Ledger
<1> QED BY <1>1, <1>3, <1>4, <1>5, <1>6, BootLedger DEF Next

\* Who is banned is exactly whose bans outnumber their un-bans in the log, once what is
\* being written and what a fault or a deletion left out is counted in.
THEOREM LedgerAgrees == Spec => []LedgerMatchesList
<1>1. Spec => [](Typed /\ Ledger)
  BY TypedStart, TypedStep, LedgerStart, LedgerStep, PTL DEF Spec
<1>2. Ledger => LedgerMatchesList
  BY DEF Ledger, Balanced, LedgerMatchesList
<1> QED BY <1>1, <1>2, PTL

-----------------------------------------------------------------------------
(* The import *)

\* The import of one old list so far.
ImportOf(c) ==
    /\ \A n \in 1 .. Len(Legacy[c]) :
          (\E i \in DOMAIN records : Imports(i, c, n)) <=> n <= cursor[c] /\ Legacy[c][n] = "good"
    /\ \A i, j \in DOMAIN records, m, n \in 1 .. Len(Legacy[c]) :
          Imports(i, c, m) /\ Imports(j, c, n) => (i < j <=> m < n)

LEMMA ImportsMore ==
    ASSUME records \in Seq(Entry), NEW e \in Entry, records' = Append(records, e)
    PROVE  /\ DOMAIN records' = 1 .. Len(records) + 1 /\ DOMAIN records = 1 .. Len(records)
           /\ Len(records) \in Nat
           /\ \A i \in DOMAIN records : \A c, n : Imports(i, c, n)' <=> Imports(i, c, n)
           /\ \A i, c, n : i = Len(records) + 1 =>
                 (Imports(i, c, n)' <=> e.act = "legacy" /\ e.from = <<c, n>>)
<1>1. /\ DOMAIN records = 1 .. Len(records) /\ Len(records) \in Nat
      /\ DOMAIN records' = 1 .. Len(records) + 1
      /\ \A i \in 1 .. Len(records) : records'[i] = records[i]
      /\ records'[Len(records) + 1] = e
  BY AppendProperties, LenProperties
<1> QED BY <1>1 DEF Imports

LEMMA ImportFrame ==
    ASSUME Ledger, NEW c \in Categories, ImportOf(c), cursor'[c] = cursor[c],
           \/ UNCHANGED records
           \/ \E e \in Entry : /\ records' = Append(records, e)
                               /\ \A n : ~(e.act = "legacy" /\ e.from = <<c, n>>)
    PROVE  ImportOf(c)'
<1>1. CASE UNCHANGED records
  BY <1>1 DEF ImportOf, Imports
<1>2. ASSUME NEW e \in Entry, records' = Append(records, e),
             \A n : ~(e.act = "legacy" /\ e.from = <<c, n>>)
      PROVE  ImportOf(c)'
  <2>1. /\ \A i \in DOMAIN records' : \A n : Imports(i, c, n)' <=> i \in DOMAIN records /\ Imports(i, c, n)
        /\ DOMAIN records \subseteq DOMAIN records'
    BY <1>2, ImportsMore DEF Ledger
  <2>2. \A n \in 1 .. Len(Legacy[c]) :
          (\E i \in DOMAIN records' : Imports(i, c, n)') <=> n <= cursor'[c] /\ Legacy[c][n] = "good"
    BY <2>1 DEF ImportOf
  <2>3. \A i, j \in DOMAIN records', m, n \in 1 .. Len(Legacy[c]) :
          Imports(i, c, m)' /\ Imports(j, c, n)' => (i < j <=> m < n)
    BY <2>1 DEF ImportOf
  <2> QED BY <2>2, <2>3 DEF ImportOf
<1> QED BY <1>1, <1>2

LEMMA ImportsOwn ==
    ASSUME Typed, Ledger, NEW c \in Categories, ImportOf(c), Import(c)
    PROVE  ImportOf(c)'
<1> DEFINE n == cursor[c] + 1
           e == [act |-> "legacy", from |-> <<c, n>>, list |-> c = "list"]
           L == Len(Legacy[c])
<1>1. /\ cursor[c] \in Nat /\ L \in Nat /\ n \in 1 .. L /\ cursor'[c] = n
  <2>1. cursor[c] \in Nat /\ L \in Nat /\ cursor \in [Categories -> Nat]
    BY ChatAssumption, LenProperties DEF Typed, Kept
  <2> QED BY <2>1 DEF Import, Pending, Advance
<1>2. records' = IF Legacy[c][n] = "corrupt" THEN records ELSE Append(records, e)
  BY DEF Import
<1>3. Legacy[c][n] \in {"good", "corrupt"}
  BY <1>1, ChatAssumption, ElementOfSeq
<1>4. e \in Entry /\ e.act = "legacy" /\ e.from = <<c, n>>
  <2>1. (c = "list") \in BOOLEAN
    OBVIOUS
  <2> QED BY <1>1, <2>1 DEF Entry
<1> HIDE DEF e, n, L
<1>5. CASE Legacy[c][n] = "corrupt"
  <2>1. \A k \in 1 .. L :
          (\E i \in DOMAIN records' : Imports(i, c, k)') <=> k <= cursor'[c] /\ Legacy[c][k] = "good"
    <3>1. \A k \in 1 .. L : k <= n /\ Legacy[c][k] = "good" <=> k <= cursor[c] /\ Legacy[c][k] = "good"
      BY <1>1, <1>5 DEF n
    <3> QED BY <1>1, <1>2, <1>5, <3>1 DEF ImportOf, Imports, L
  <2>2. \A i, j \in DOMAIN records', k, l \in 1 .. L :
          Imports(i, c, k)' /\ Imports(j, c, l)' => (i < j <=> k < l)
    BY <1>2, <1>5 DEF ImportOf, Imports, L
  <2> QED BY <2>1, <2>2 DEF ImportOf, L
<1>6. CASE Legacy[c][n] = "good"
  <2>1. records' = Append(records, e)
    BY <1>2, <1>6
  <2>2. /\ DOMAIN records' = 1 .. Len(records) + 1 /\ DOMAIN records = 1 .. Len(records)
        /\ Len(records) \in Nat
        /\ \A i \in DOMAIN records : \A k : Imports(i, c, k)' <=> Imports(i, c, k)
        /\ \A i, k : i = Len(records) + 1 => (Imports(i, c, k)' <=> k = n)
    BY <1>4, <2>1, ImportsMore DEF Ledger
  <2>3. \A k \in 1 .. L : (\E i \in DOMAIN records : Imports(i, c, k))
                              <=> k <= cursor[c] /\ Legacy[c][k] = "good"
    BY DEF ImportOf, L
  <2>4. ASSUME NEW k \in 1 .. L
        PROVE  (\E i \in DOMAIN records' : Imports(i, c, k)')
                  <=> k <= cursor'[c] /\ Legacy[c][k] = "good"
    <3>1. (\E i \in DOMAIN records' : Imports(i, c, k)')
             <=> k = n \/ \E i \in DOMAIN records : Imports(i, c, k)
      BY <2>2
    <3> QED BY <1>1, <1>6, <2>3, <3>1 DEF n
  <2>5. ASSUME NEW i \in DOMAIN records', NEW j \in DOMAIN records',
               NEW k \in 1 .. L, NEW l \in 1 .. L, Imports(i, c, k)', Imports(j, c, l)'
        PROVE  i < j <=> k < l
    <3>1. \A b \in DOMAIN records, d \in 1 .. L : Imports(b, c, d) => d < n
      BY <1>1, <2>3 DEF n
    <3>2. \/ i \in DOMAIN records /\ k < n
          \/ i = Len(records) + 1 /\ k = n
      BY <2>2, <2>5, <3>1
    <3>3. \/ j \in DOMAIN records /\ l < n
          \/ j = Len(records) + 1 /\ l = n
      BY <2>2, <2>5, <3>1
    <3>4. CASE i \in DOMAIN records /\ j \in DOMAIN records
      BY <2>2, <2>5, <3>4 DEF ImportOf, L
    <3>5. CASE ~(i \in DOMAIN records /\ j \in DOMAIN records)
      <4>1. n \in Nat
        BY <1>1
      <4> QED BY <2>2, <3>2, <3>3, <3>5, <4>1
    <3> QED BY <3>4, <3>5
  <2> QED BY <2>4, <2>5 DEF ImportOf, L
<1> QED BY <1>3, <1>5, <1>6

LEMMA ImportStart == Init => \A c \in Categories : ImportOf(c)
<1> SUFFICES ASSUME Init, NEW c \in Categories
             PROVE  ImportOf(c)
  OBVIOUS
<1>1. DOMAIN records = {} /\ cursor[c] = 0
  BY DEF Init
<1>2. \A n \in 1 .. Len(Legacy[c]) : ~(n <= cursor[c])
  BY <1>1, ChatAssumption, LenProperties
<1> QED BY <1>1, <1>2 DEF ImportOf

LEMMA ImportStep ==
    ASSUME Typed, Ledger, NEW c \in Categories, ImportOf(c), [Next]_vars
    PROVE  ImportOf(c)'
<1>1. CASE \E d \in Categories : Import(d)
  <2>1. PICK d \in Categories : Import(d)
    BY <1>1
  <2>2. CASE d # c
    <3>1. cursor'[c] = cursor[c]
      BY <2>1, <2>2 DEF Import, Advance, Typed, Kept
    <3> DEFINE e == [act |-> "legacy", from |-> <<d, cursor[d] + 1>>, list |-> d = "list"]
    <3>2. e \in Entry
      <4>1. (d = "list") \in BOOLEAN /\ cursor[d] + 1 \in Nat
        BY DEF Typed, Kept
      <4> QED BY <4>1 DEF Entry
    <3>3. \A n : ~(e.act = "legacy" /\ e.from = <<c, n>>)
      BY <2>2
    <3>4. UNCHANGED records \/ records' = Append(records, e)
      BY <2>1 DEF Import
    <3> QED BY <3>1, <3>2, <3>3, <3>4, ImportFrame
  <2> QED BY <2>1, <2>2, ImportsOwn
<1>2. CASE \E a \in Actors : Writes(a)
  <2>1. PICK a \in Actors : Writes(a)
    BY <1>2
  <2>2. jobs[a] \in Requests
    BY <2>1, AtWork DEF Typed, Writes, At
  <2>3. RecordOf(jobs[a]) \in Entry /\ RecordOf(jobs[a]).act # "legacy"
    BY <2>2 DEF Entry, RecordOf, Requests
  <2>4. records' = Append(records, RecordOf(jobs[a])) /\ UNCHANGED cursor
    BY <2>1 DEF Writes
  <2> HIDE DEF Entry
  <2> QED BY <2>3, <2>4, ImportFrame
<1>3. CASE /\ [Next]_vars
           /\ ~\E d \in Categories : Import(d)
           /\ ~\E a \in Actors : Writes(a)
  <2>1. UNCHANGED <<records, cursor>>
    <3>1. CASE JobStep
      BY ZenonT(40), <1>3, <3>1 DEF JobStep, Resolve, Claim, Reread, AppendLine, AppendFails, Looks, Cuts, Marks,
                        Bans, WriteFails, Notices, RecordFails, Finds, Decides, Archives, Wipes,
                        Unlinks, log
    <3>2. CASE SessionStep \/ PlayerStep \/ ModeratorStep \/ CloserStep
      BY <3>2 DEF SessionStep, Host, Expires, PlayerStep, SendChat, AccountDeleted, ModeratorStep,
                  Say, Sweeps, Press, ListBan, ListUnban, CloserStep, Closes, log
    <3>3. CASE BootStep \/ UNCHANGED vars
      BY <1>3, <3>3 DEF BootStep, Boot, Crash, vars, log
    <3> QED BY <1>3, <3>1, <3>2, <3>3 DEF Next
  <2> QED BY <2>1, ImportFrame
<1> QED BY <1>1, <1>2, <1>3

\* However often the boot that imports it dies between two records, the old log is
\* imported whole, once and in its order, up to the cursor and not past it (migrate).
THEOREM OldLogImportedOnce == Spec => []ImportedOnce
<1> DEFINE Imported == \A c \in Categories : ImportOf(c)
<1>1. Init => Typed /\ Ledger /\ Imported
  BY TypedStart, LedgerStart, ImportStart
<1>2. Typed /\ Ledger /\ Imported /\ [Next]_vars => Typed' /\ Ledger' /\ Imported'
  BY TypedStep, LedgerStep, ImportStep
<1>3. Imported => ImportedOnce
  BY DEF ImportOf, ImportedOnce
<1> HIDE DEF Imported
<1> QED BY <1>1, <1>2, <1>3, PTL DEF Spec
=============================================================================
