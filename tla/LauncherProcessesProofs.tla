---------------------- MODULE LauncherProcessesProofs ----------------------
(***************************************************************************)
(* LauncherProcesses, proved for any processes, tasks and bounds: one      *)
(* launcher holds the slot, a revalidated list is current, and only time   *)
(* opens a closed gate.                                                    *)
(***************************************************************************)
EXTENDS LauncherProcesses, TLAPS

-----------------------------------------------------------------------------
(* The slot *)

Stages == {"unborn", "claims", "writes", "reads", "probes", "removes", "duplicate", "live",
           "exits", "gone"}

Files ==
    {Slot!Absent} \cup {Slot!Blank(p) : p \in Procs}
        \cup {Slot!Port(p) : p \in Procs \cup {"stranger"}}

Process == [at : Stages, tries : Nat, judged : Files, parent : BOOLEAN, owns : BOOLEAN]

SlotOK == proc \in [Procs -> Process] /\ slot \in Files

Writing(p) == proc[p].at = "writes"
Holding(p) == proc[p].owns /\ proc[p].at \in {"live", "exits"}

\* Once p has written its port it never claims again.
Settled(p) == proc[p].owns /\ proc[p].at \in {"live", "exits", "gone"}

\* A claim is a writer's, a holder's or a dead process's; what a process is about to
\* remove is a dead process's.
Judged(p) ==
    /\ proc[p].owns => proc[p].at \in {"live", "exits", "gone"}
    /\ proc[p].at = "probes" => proc[p].judged.is = "port"
    /\ \A q \in Procs :
          /\ proc[p].at = "probes" /\ proc[p].judged = Slot!Port(q) => Settled(q)
          /\ proc[p].at = "removes" /\ proc[p].judged \in {Slot!Blank(q), Slot!Port(q)}
                => proc[q].at = "gone"

Held ==
    /\ \A p \in Procs : Writing(p) => slot = Slot!Blank(p)
    /\ \A p \in Procs : Holding(p) => slot = Slot!Port(p)
    /\ \A q \in Procs : slot = Slot!Blank(q) => proc[q].at \in {"writes", "gone"}
    /\ \A q \in Procs : slot = Slot!Port(q) => Settled(q)
    /\ \A p \in Procs : Judged(p)

LEMMA Labels ==
    /\ Slot!Absent \in Files /\ Slot!Absent.is = "absent"
    /\ \A p : Slot!Blank(p).is = "blank" /\ Slot!Blank(p).by = p
    /\ \A p : Slot!Port(p).is = "port" /\ Slot!Port(p).by = p
    /\ \A p \in Procs : Slot!Blank(p) \in Files
    /\ \A p \in Procs \cup {"stranger"} : Slot!Port(p) \in Files
    /\ \A p, q : /\ Slot!Blank(p) = Slot!Blank(q) => p = q
                 /\ Slot!Port(p) = Slot!Port(q) => p = q
                 /\ Slot!Blank(p) # Slot!Port(q)
                 /\ Slot!Absent # Slot!Blank(p) /\ Slot!Absent # Slot!Port(p)
<1>1. /\ Slot!Absent.is = "absent"
      /\ \A p : Slot!Blank(p).is = "blank" /\ Slot!Blank(p).by = p
      /\ \A p : Slot!Port(p).is = "port" /\ Slot!Port(p).by = p
  BY DEF Slot!Absent, Slot!Blank, Slot!Port
<1> QED BY <1>1 DEF Files

Only(p) == \A q \in Procs \ {p} : proc'[q] = proc[q]

LEMMA MovesTurn ==
    ASSUME SlotOK, NEW p \in Procs, NEW at \in Stages, Slot!Moves(p, at)
    PROVE  /\ proc' \in [Procs -> Process] /\ Only(p)
           /\ proc'[p].at = at /\ proc'[p].owns = proc[p].owns /\ proc'[p].judged = proc[p].judged
BY DEF SlotOK, Process, Slot!Moves, Only

\* p's step leaves the slot alone, and p neither gains a claim nor gives up what it settled.
LEMMA KeepsHeld ==
    ASSUME Held, NEW p \in Procs, Only(p), slot' = slot,
           Writing(p)' => Writing(p), Holding(p)' => Holding(p), Settled(p) => Settled(p)',
           proc[p].at = "gone" => proc'[p].at = "gone",
           slot = Slot!Blank(p) => proc'[p].at \in {"writes", "gone"},
           proc'[p].owns => proc'[p].at \in {"live", "exits", "gone"},
           proc'[p].at = "probes" => proc'[p].judged.is = "port",
           \A q \in Procs :
              /\ proc'[p].at = "probes" /\ proc'[p].judged = Slot!Port(q) => Settled(q)
              /\ proc'[p].at = "removes" /\ proc'[p].judged \in {Slot!Blank(q), Slot!Port(q)}
                    => proc[q].at = "gone"
    PROVE  Held'
<1>1. \A q \in Procs : Settled(q) => Settled(q)'
  BY DEF Only, Settled
<1>2. \A q \in Procs : proc[q].at = "gone" => proc'[q].at = "gone"
  BY DEF Only
<1>3. \A q \in Procs : /\ Writing(q)' => slot' = Slot!Blank(q)
                       /\ Holding(q)' => slot' = Slot!Port(q)
  BY DEF Held, Only, Writing, Holding, Slot!Blank, Slot!Port
<1>4. \A q \in Procs : slot' = Slot!Blank(q) => proc'[q].at \in {"writes", "gone"}
  BY DEF Held, Only
<1>5. \A q \in Procs : slot' = Slot!Port(q) => Settled(q)'
  BY <1>1 DEF Held
<1>6. Judged(p)'
  BY <1>1, <1>2 DEF Judged
<1>7. ASSUME NEW r \in Procs \ {p}
      PROVE  Judged(r)'
  <2>1. Judged(r) /\ proc'[r] = proc[r]
    BY DEF Held, Only
  <2> QED BY <1>1, <1>2, <2>1 DEF Judged
<1> QED BY <1>3, <1>4, <1>5, <1>6, <1>7 DEF Held

SlotInv == SlotOK /\ raced \in BOOLEAN /\ (raced \/ Held)

LEMMA SlotStart == Init => SlotInv
<1> SUFFICES ASSUME Init
             PROVE  SlotInv
  OBVIOUS
<1>1. /\ proc = [p \in Procs |-> Slot!Fresh] /\ raced = FALSE
      /\ slot \in {Slot!Absent, [is |-> "port", by |-> "stranger"]}
  BY DEF Init, Slot!SlotInit
<1>2. Slot!Fresh \in Process /\ Slot!Fresh.at = "unborn" /\ ~Slot!Fresh.owns
  BY Labels DEF Slot!Fresh, Process, Stages
<1>3. slot = Slot!Absent \/ slot = Slot!Port("stranger")
  BY <1>1 DEF Slot!Port
<1>4. SlotOK
  BY <1>1, <1>2, <1>3, Labels DEF SlotOK
<1>5. \A p \in Procs : slot # Slot!Blank(p) /\ slot # Slot!Port(p)
  BY <1>3, Labels, SlotAssumption
<1>6. \A p \in Procs : ~Writing(p) /\ ~Holding(p) /\ Judged(p)
  BY <1>1, <1>2 DEF Writing, Holding, Judged
<1> QED BY <1>1, <1>4, <1>5, <1>6 DEF SlotInv, Held

\* A process that has only started knows nothing yet.
LEMMA FreshProcess ==
    LET r == [Slot!Fresh EXCEPT !.at = "claims", !.parent = TRUE]
    IN  r \in Process /\ r.at = "claims" /\ ~r.owns
BY Labels DEF Slot!Fresh, Process, Stages

LEMMA StartingSlot ==
    ASSUME SlotInv, NEW p \in Procs,
           \/ Slot!Starts(p) \/ Slot!ClaimFails(p) \/ Slot!Concedes(p) \/ Slot!ParentExits(p)
           \/ Slot!Dies(p)
    PROVE  SlotInv'
<1>1. /\ slot' = slot /\ raced' = raced
      /\ proc[p].at \in Stages \ {"gone"}
      /\ \/ Slot!Is(p, "unborn") /\ Slot!Moves(p, "claims")
         \/ ~Holding(p) /\ proc[p].at \notin {"gone", "writes", "exits", "live"} /\ Slot!Moves(p, "live")
         \/ Slot!Moves(p, "gone")
  BY DEF SlotInv, SlotOK, Process, Slot!Starts, Slot!ClaimFails, Slot!Concedes, Slot!ParentExits,
         Slot!Dies, Slot!Is, Holding, Stages
<1>2. ASSUME NEW at \in {"claims", "live", "gone"}, Slot!Moves(p, at)
      PROVE  /\ SlotOK' /\ Only(p)
             /\ proc'[p].at = at /\ proc'[p].owns = proc[p].owns
  BY <1>1, <1>2, MovesTurn DEF SlotInv, SlotOK, Stages
<1>3. ASSUME Held
      PROVE  Held'
  <2>0. proc[p].owns => proc[p].at \in {"live", "exits", "gone"}
    BY <1>3 DEF Held, Judged
  <2>1. CASE Slot!Is(p, "unborn") /\ Slot!Moves(p, "claims")
    <3>1. Only(p) /\ proc'[p].at = "claims" /\ ~proc'[p].owns /\ ~proc[p].owns
      BY <1>2, <2>0, <2>1 DEF Slot!Is
    <3>2. slot # Slot!Blank(p)
      BY <1>3, <2>1 DEF Held, Slot!Is
    <3> QED BY <1>1, <1>3, <2>1, <3>1, <3>2, KeepsHeld DEF Writing, Holding, Settled, Slot!Is
  <2>2. CASE ~Holding(p) /\ proc[p].at \notin {"gone", "writes", "exits", "live"} /\ Slot!Moves(p, "live")
    <3>1. Only(p) /\ proc'[p].at = "live" /\ ~proc'[p].owns /\ ~proc[p].owns
      BY <1>2, <2>0, <2>2
    <3>2. slot # Slot!Blank(p)
      BY <1>3, <2>2 DEF Held
    <3> QED BY <1>1, <1>3, <2>2, <3>1, <3>2, KeepsHeld DEF Writing, Holding, Settled
  <2>3. CASE Slot!Moves(p, "gone")
    <3>1. Only(p) /\ proc'[p].at = "gone" /\ proc'[p].owns = proc[p].owns
      BY <1>2, <2>3
    <3> QED BY <1>1, <1>3, <3>1, KeepsHeld DEF Writing, Holding, Settled
  <2> QED BY <1>1, <2>1, <2>2, <2>3
<1>4. SlotOK'
  BY <1>1, <1>2
<1> QED BY <1>1, <1>3, <1>4 DEF SlotInv

\* Reading the file, and hearing from the port in it.
LEMMA JudgingSlot ==
    ASSUME SlotInv, NEW p \in Procs, Slot!Reads(p) \/ Slot!Probes(p)
    PROVE  SlotInv'
<1>1. CASE Slot!Reads(p)
  <2> DEFINE at == IF slot.is = "port" THEN "probes" ELSE "removes"
             r == [proc[p] EXCEPT !.at = at, !.judged = slot]
  <2>1. /\ proc' = [proc EXCEPT ![p] = r] /\ slot' = slot /\ proc[p].at = "reads"
        /\ r \in Process /\ r.at = at /\ r.judged = slot /\ r.owns = proc[p].owns
    BY <1>1 DEF Slot!Reads, Slot!Is, SlotInv, SlotOK, Process, Stages
  <2>2. SlotOK' /\ Only(p) /\ proc'[p] = r
    BY <2>1 DEF SlotInv, SlotOK, Only
  <2>3. \/ raced' = TRUE
        \/ raced' = raced /\ ~(slot.is = "blank" /\ Slot!Is(slot.by, "writes"))
    BY <1>1 DEF Slot!Reads
  <2> HIDE DEF r, at
  <2>4. ASSUME Held, ~(slot.is = "blank" /\ Slot!Is(slot.by, "writes"))
        PROVE  Held'
    <3>1. ~proc[p].owns
      BY <2>1, <2>4 DEF Held, Judged
    <3>2. slot # Slot!Blank(p)
      BY <2>1, <2>4 DEF Held
    <3>3. \A q \in Procs : slot = Slot!Port(q) => Settled(q)
      BY <2>4 DEF Held
    <3>4. \A q \in Procs : slot = Slot!Blank(q) => proc[q].at = "gone"
      BY <2>4, Labels DEF Held, Slot!Is
    <3>5. at \in {"probes", "removes"} /\ (at = "probes" <=> slot.is = "port")
      BY DEF at
    <3>6. \A q \in Procs : slot = Slot!Port(q) => slot.is = "port"
      BY Labels
    <3> QED BY <2>1, <2>2, <2>4, <3>1, <3>2, <3>3, <3>4, <3>5, <3>6, KeepsHeld
            DEF Writing, Holding, Settled
  <2> QED BY <2>2, <2>3, <2>4 DEF SlotInv
<1>2. CASE Slot!Probes(p)
  <2>1. /\ slot' = slot /\ proc[p].at = "probes"
        /\ \/ Slot!Moves(p, "duplicate") /\ raced' = raced
           \/ /\ Slot!Moves(p, "removes") /\ raced' = raced
              /\ ~Slot!Answers(proc[p].judged.by)
           \/ Slot!Moves(p, "removes") /\ raced' = TRUE
    BY <1>2 DEF Slot!Probes, Slot!Is
  <2>2. ASSUME NEW at \in {"duplicate", "removes"}, Slot!Moves(p, at)
        PROVE  /\ SlotOK' /\ Only(p)
               /\ proc'[p].at = at /\ proc'[p].owns = proc[p].owns
               /\ proc'[p].judged = proc[p].judged
    BY <2>1, <2>2, MovesTurn DEF SlotInv, SlotOK, Stages
  <2>3. ASSUME Held
        PROVE  ~proc[p].owns /\ slot # Slot!Blank(p)
    BY <2>1, <2>3 DEF Held, Judged
  <2>4. ASSUME Held, Slot!Moves(p, "duplicate")
        PROVE  Held'
    BY <2>1, <2>2, <2>3, <2>4, KeepsHeld DEF Writing, Holding, Settled
  <2>5. ASSUME Held, Slot!Moves(p, "removes"), ~Slot!Answers(proc[p].judged.by)
        PROVE  Held'
    <3>1. \A q \in Procs : proc[p].judged = Slot!Port(q) => Settled(q)
      BY <2>1, <2>5 DEF Held, Judged
    <3>2. \A q \in Procs : proc[p].judged = Slot!Port(q) => proc[q].at = "gone"
      BY <2>5, <3>1, Labels DEF Settled, Slot!Answers, Slot!Is
    <3>3. \A q \in Procs : proc[p].judged # Slot!Blank(q)
      BY <2>1, <2>5, Labels DEF Held, Judged
    <3> QED BY <2>1, <2>2, <2>3, <2>5, <3>2, <3>3, KeepsHeld DEF Writing, Holding, Settled
  <2> QED BY <2>1, <2>2, <2>4, <2>5 DEF SlotInv
<1> QED BY <1>1, <1>2

\* create_new, and starting over with a new listener.
LEMMA ClaimingSlot ==
    ASSUME SlotInv, NEW p \in Procs, Slot!Claims(p) \/ Slot!TriesAgain(p)
    PROVE  SlotInv'
<1>1. CASE Slot!Claims(p) /\ slot # Slot!Absent
  <2>1. slot' = slot /\ raced' = raced /\ proc[p].at = "claims" /\ Slot!Moves(p, "reads")
    BY <1>1 DEF Slot!Claims, Slot!Is
  <2>2. SlotOK' /\ Only(p) /\ proc'[p].at = "reads" /\ proc'[p].owns = proc[p].owns
    BY <2>1, MovesTurn DEF SlotInv, SlotOK, Stages
  <2>3. ASSUME Held
        PROVE  Held'
    <3>1. ~proc[p].owns /\ slot # Slot!Blank(p)
      BY <2>1, <2>3 DEF Held, Judged
    <3> QED BY <2>1, <2>2, <2>3, <3>1, KeepsHeld DEF Writing, Holding, Settled
  <2> QED BY <2>1, <2>2, <2>3 DEF SlotInv
<1>2. CASE Slot!Claims(p) /\ slot = Slot!Absent
  <2>1. /\ slot' = Slot!Blank(p) /\ raced' = raced /\ proc[p].at = "claims"
        /\ Slot!Moves(p, "writes")
    BY <1>2 DEF Slot!Claims, Slot!Is
  <2>2. SlotOK' /\ Only(p) /\ proc'[p].at = "writes" /\ proc'[p].owns = proc[p].owns
    BY <2>1, MovesTurn, Labels DEF SlotInv, SlotOK, Stages
  <2>3. ASSUME Held
        PROVE  Held'
    <3>1. ~proc[p].owns
      BY <2>1, <2>3 DEF Held, Judged
    <3>2. \A q \in Procs : ~Writing(q) /\ ~Holding(q)
      BY <1>2, <2>3, Labels DEF Held
    <3>3. \A q \in Procs : /\ Writing(q)' => slot' = Slot!Blank(q)
                           /\ Holding(q)' => slot' = Slot!Port(q)
      BY <2>1, <2>2, <3>1, <3>2 DEF Only, Writing, Holding, Slot!Blank, Slot!Port
    <3>4. \A q \in Procs : slot' = Slot!Blank(q) => q = p
      BY <2>1, Labels
    <3>5. \A q \in Procs : slot' # Slot!Port(q)
      BY <2>1, Labels
    <3>6. \A q \in Procs : Settled(q) => Settled(q)'
      BY <2>1 , <2>2 DEF Only, Settled
    <3>7. \A q \in Procs : proc[q].at = "gone" => proc'[q].at = "gone"
      BY <2>1, <2>2 DEF Only
    <3>8. ASSUME NEW r \in Procs
          PROVE  Judged(r)'
      <4>1. CASE r = p
        BY <2>2, <3>1, <4>1 DEF Judged
      <4>2. CASE r # p
        <5>1. Judged(r) /\ proc'[r] = proc[r]
          BY <2>2, <2>3, <4>2 DEF Held, Only
        <5> QED BY <3>6, <3>7, <5>1 DEF Judged
      <4> QED BY <4>1, <4>2
    <3> QED BY <2>2, <3>3, <3>4, <3>5, <3>8 DEF Held
  <2> QED BY <2>1, <2>2, <2>3 DEF SlotInv
<1>3. CASE Slot!TriesAgain(p)
  <2> DEFINE r == [Slot!Fresh EXCEPT !.at = "claims", !.parent = TRUE]
  <2>1. /\ slot' = slot /\ raced' = raced /\ proc[p].at = "duplicate"
        /\ proc' = [proc EXCEPT ![p] = r]
    BY <1>3 DEF Slot!TriesAgain, Slot!Is
  <2>2. r \in Process /\ r.at = "claims" /\ ~r.owns
    BY FreshProcess
  <2> HIDE DEF r
  <2>3. SlotOK' /\ Only(p) /\ proc'[p] = r
    BY <2>1, <2>2 DEF SlotInv, SlotOK, Only
  <2>4. ASSUME Held
        PROVE  Held'
    <3>1. slot # Slot!Blank(p)
      BY <2>1, <2>4 DEF Held
    <3> QED BY <2>1, <2>2, <2>3, <2>4, <3>1, KeepsHeld DEF Writing, Holding, Settled
  <2> QED BY <2>1, <2>3, <2>4 DEF SlotInv
<1> QED BY <1>1, <1>2, <1>3

\* A step that leaves the slot to nobody, or to p.
LEMMA FreesHeld ==
    ASSUME Held, NEW p \in Procs, Only(p),
           slot' = Slot!Absent \/ (slot' = Slot!Port(p) /\ Settled(p)'),
           \A q \in Procs \ {p} : ~Writing(q) /\ ~Holding(q),
           ~Writing(p)', Holding(p)' => slot' = Slot!Port(p),
           Settled(p) => Settled(p)',
           proc[p].at = "gone" => proc'[p].at = "gone",
           proc'[p].owns => proc'[p].at \in {"live", "exits", "gone"},
           proc'[p].at \notin {"probes", "removes"}
    PROVE  Held'
<1>1. \A q \in Procs : Settled(q) => Settled(q)'
  BY DEF Only, Settled
<1>2. \A q \in Procs : proc[q].at = "gone" => proc'[q].at = "gone"
  BY DEF Only
<1>3. \A q \in Procs : /\ ~Writing(q)'
                       /\ Holding(q)' => slot' = Slot!Port(q)
  BY DEF Only, Writing, Holding, Slot!Port
<1>4. \A q \in Procs : slot' # Slot!Blank(q) /\ (slot' = Slot!Port(q) => Settled(q)')
  BY Labels
<1>5. ASSUME NEW r \in Procs
      PROVE  Judged(r)'
  <2>1. CASE r = p
    BY <2>1 DEF Judged
  <2>2. CASE r # p
    <3>1. Judged(r) /\ proc'[r] = proc[r]
      BY <2>2 DEF Held, Only
    <3> QED BY <1>1, <1>2, <3>1 DEF Judged
  <2> QED BY <2>1, <2>2
<1> QED BY <1>3, <1>4, <1>5 DEF Held

\* Writing the port into one's claim, and the removals: of a stale file, of one's own.
LEMMA ChangingSlot ==
    ASSUME SlotInv, NEW p \in Procs, Slot!Writes(p) \/ Slot!Quits(p)
    PROVE  SlotInv'
<1>1. CASE Slot!Writes(p)
  <2>1. proc[p].at = "writes"
    BY <1>1 DEF Slot!Writes, Slot!Is
  <2>2. ASSUME Held
        PROVE  /\ slot = Slot!Blank(p) /\ ~proc[p].owns
               /\ \A q \in Procs \ {p} : ~Writing(q) /\ ~Holding(q)
    BY <2>1, <2>2, Labels DEF Held, Writing, Holding, Judged
  <2>3. CASE /\ slot' = IF slot = Slot!Blank(p) THEN Slot!Port(p) ELSE slot
             /\ proc' = [proc EXCEPT ![p].at = "live", ![p].owns = TRUE] /\ raced' = raced
    <3>1. SlotOK' /\ Only(p) /\ proc'[p].at = "live" /\ proc'[p].owns
      BY ZenonT(40), <2>3, Labels DEF SlotInv, SlotOK, Process, Stages, Only
    <3>2. ASSUME Held
          PROVE  Held'
      BY <2>1, <2>2, <2>3, <3>1, <3>2, FreesHeld DEF Settled, Writing
    <3> QED BY <2>3, <3>1, <3>2 DEF SlotInv
  <2>4. CASE /\ slot' = Slot!Absent /\ Slot!Moves(p, "live")
             /\ raced' = (raced \/ slot \notin {Slot!Absent, Slot!Blank(p)})
    <3>1. SlotOK' /\ Only(p) /\ proc'[p].at = "live" /\ proc'[p].owns = proc[p].owns
      BY <2>4, MovesTurn, Labels DEF SlotInv, SlotOK, Stages
    <3>2. ASSUME Held
          PROVE  Held'
      BY <2>1, <2>2, <2>4, <3>1, <3>2, FreesHeld DEF Settled, Writing, Holding
    <3>3. raced' \in BOOLEAN /\ (raced => raced')
      BY <2>4 DEF SlotInv
    <3> QED BY <3>1, <3>2, <3>3 DEF SlotInv
  <2> QED BY <1>1, <2>3, <2>4 DEF Slot!Writes
<1>2. CASE Slot!Quits(p)
  <2>1. /\ proc[p].at = "live" /\ raced' = raced
        /\ SlotOK' /\ Only(p) /\ proc'[p].at = "gone" /\ proc'[p].owns = proc[p].owns
        /\ slot' = IF proc[p].owns THEN Slot!Absent ELSE slot
    BY <1>2, MovesTurn, Labels DEF Slot!Quits, Slot!Is, SlotInv, SlotOK, Stages
  <2>2. ASSUME Held, proc[p].owns
        PROVE  Held'
    <3>1. \A q \in Procs \ {p} : ~Writing(q) /\ ~Holding(q)
      BY <2>1, <2>2, Labels DEF Held, Holding
    <3> QED BY <2>1, <2>2, <3>1, FreesHeld DEF Settled, Writing, Holding
  <2>3. ASSUME Held, ~proc[p].owns
        PROVE  Held'
    BY <2>1, <2>3, KeepsHeld DEF Settled, Writing, Holding
  <2> QED BY <2>1, <2>2, <2>3 DEF SlotInv
<1> QED BY <1>1, <1>2

LEMMA RemovingSlot ==
    ASSUME SlotInv, NEW p \in Procs, Slot!RemovesStale(p)
    PROVE  SlotInv'
<1> DEFINE r == [proc[p] EXCEPT !.at = "claims", !.tries = @ + 1, !.judged = Slot!Absent]
<1>0. proc[p] \in Process /\ Slot!Absent \in Files
  BY Labels DEF SlotInv, SlotOK
<1>1. /\ proc[p].at = "removes" /\ slot' = Slot!Absent
      /\ raced' = (raced \/ slot \notin {Slot!Absent, proc[p].judged})
      /\ proc' = [proc EXCEPT ![p] = r]
  BY DEF Slot!RemovesStale, Slot!Is
<1>2. r \in Process /\ r.at = "claims" /\ r.owns = proc[p].owns
  <2> DEFINE n == proc[p].tries + 1
             s == [proc[p] EXCEPT !.at = "claims", !.tries = n]
  <2>1. n \in Nat
    BY <1>0 DEF Process
  <2> HIDE DEF n
  <2>2. s \in Process /\ s.at = "claims" /\ s.owns = proc[p].owns
    BY <1>0, <2>1 DEF Process, Stages
  <2>3. r = [s EXCEPT !.judged = Slot!Absent]
    BY <1>0 DEF n, Process
  <2> HIDE DEF s, r, Slot!Absent, Files
  <2> QED BY <1>0, <2>2, <2>3 DEF Process
<1> HIDE DEF r
<1>3. SlotOK' /\ Only(p) /\ proc'[p] = r
  BY <1>1, <1>2, Labels DEF SlotInv, SlotOK, Only
<1>4. ASSUME Held, slot \in {Slot!Absent, proc[p].judged}
      PROVE  Held'
  <2>1. ~proc[p].owns
    BY <1>1, <1>4 DEF Held, Judged
  <2>2. \A q \in Procs : ~Writing(q) /\ ~Holding(q)
    <3>1. \A q \in Procs : proc[p].judged \in {Slot!Blank(q), Slot!Port(q)} => proc[q].at = "gone"
      BY <1>1, <1>4 DEF Held, Judged
    <3> QED BY ZenonT(40), <1>4, <3>1, Labels DEF Held, Writing, Holding
  <2> QED BY <1>1, <1>2, <1>3, <1>4, <2>1, <2>2, FreesHeld DEF Settled, Writing, Holding
<1>5. raced' \in BOOLEAN /\ (raced' \/ (~raced /\ slot \in {Slot!Absent, proc[p].judged}))
  BY <1>1 DEF SlotInv
<1> QED BY <1>3, <1>4, <1>5 DEF SlotInv

\* A relaunch: the parent goes on holding what it held, its successor knows nothing yet.
LEMMA RelaunchingSlot ==
    ASSUME SlotInv, NEW p \in Procs, NEW q \in Procs, Slot!Relaunches(p, q)
    PROVE  SlotInv'
<1> DEFINE r == [Slot!Fresh EXCEPT !.at = "claims", !.parent = TRUE]
           s == [proc[p] EXCEPT !.at = "exits"]
<1>1. /\ proc[p].at = "live" /\ proc[q].at = "unborn" /\ p # q
      /\ slot' = slot /\ raced' = raced
      /\ proc' = [proc EXCEPT ![p] = s, ![q] = r]
  BY DEF Slot!Relaunches, Slot!Is, SlotInv, SlotOK
<1>2. r \in Process /\ r.at = "claims" /\ ~r.owns
  BY FreshProcess
<1>3. s \in Process /\ s.at = "exits" /\ s.owns = proc[p].owns
  BY DEF SlotInv, SlotOK, Process, Stages
<1> HIDE DEF r, s
<1>4. /\ SlotOK' /\ proc'[p] = s /\ proc'[q] = r
      /\ \A x \in Procs \ {p, q} : proc'[x] = proc[x]
  BY <1>1, <1>2, <1>3 DEF SlotInv, SlotOK
<1>5. ASSUME Held
      PROVE  Held'
  <2>1. \A x \in Procs : Settled(x) => Settled(x)'
    BY <1>1, <1>3, <1>4, <1>5 DEF Settled
  <2>2. \A x \in Procs : proc[x].at = "gone" => proc'[x].at = "gone"
    BY <1>1, <1>4
  <2>3. \A x \in Procs : /\ Writing(x)' => Writing(x)
                         /\ Holding(x)' => Holding(x)
    BY <1>1, <1>2, <1>3, <1>4 DEF Writing, Holding
  <2>4. slot # Slot!Blank(p) /\ slot # Slot!Blank(q)
    BY <1>1, <1>5 DEF Held
  <2>5. \A x \in Procs : /\ Writing(x)' => slot' = Slot!Blank(x)
                         /\ Holding(x)' => slot' = Slot!Port(x)
    BY <1>1, <1>5, <2>3 DEF Held, Slot!Blank, Slot!Port
  <2>6. \A x \in Procs : /\ slot' = Slot!Blank(x) => proc'[x].at \in {"writes", "gone"}
                         /\ slot' = Slot!Port(x) => Settled(x)'
    BY <1>1, <1>4, <1>5, <2>1, <2>4 DEF Held
  <2>7. ASSUME NEW x \in Procs
        PROVE  Judged(x)'
    <3>1. CASE x \in {p, q}
      BY <1>2, <1>3, <1>4, <3>1 DEF Judged
    <3>2. CASE x \notin {p, q}
      <4>1. Judged(x) /\ proc'[x] = proc[x]
        BY <1>4, <1>5, <3>2 DEF Held
      <4> QED BY <2>1, <2>2, <4>1 DEF Judged
    <3> QED BY <3>1, <3>2
  <2> QED BY <2>5, <2>6, <2>7 DEF Held
<1> QED BY <1>1, <1>4, <1>5 DEF SlotInv

LEMMA SlotStep == SlotInv /\ [Next]_vars => SlotInv'
<1> SUFFICES ASSUME SlotInv, [Next]_vars
             PROVE  SlotInv'
  OBVIOUS
<1>1. CASE UNCHANGED slotVars
  BY <1>1 DEF slotVars, SlotInv, SlotOK, Held, Judged, Writing, Holding, Settled,
              Slot!Absent, Slot!Blank, Slot!Port
<1>2. CASE Acquiring
  <2>1. PICK p \in Procs : Slot!Acquiring(p)
    BY <1>2 DEF Acquiring
  <2> QED BY <2>1, StartingSlot, JudgingSlot, ClaimingSlot, ChangingSlot, RemovingSlot
          DEF Slot!Acquiring
<1>3. CASE Ending
  <2>1. PICK p \in Procs : Slot!Ending(p)
    BY <1>3 DEF Ending
  <2> QED BY <2>1, StartingSlot, ChangingSlot, RelaunchingSlot DEF Slot!Ending
<1> QED BY <1>1, <1>2, <1>3 DEF Next, Calling, GitHub, vars

\* One launcher holds the slot: a holder's port is in the file, and a port is one
\* process's.  It rests on Held, which says whose claim, and whose removal, the file
\* and every process under way stand for.
THEOREM OneLauncherClaims == Spec => []OneClaim
<1>1. SlotInv => OneClaim
  BY Labels DEF SlotInv, Held, OneClaim, Slot!Owners, Slot!Running, Slot!Is, Holding
<1> QED BY SlotStart, SlotStep, <1>1, PTL DEF Spec
-----------------------------------------------------------------------------
(* The calls *)

Pages == Nat \X Nat
Snapshots == [list : Pages, etag : Nat, at : Nat]
Stations == {"idle", "waits"} \cup Cache!Locked
Statuses == {"ok", "unchanged", "whole", "more", "error"}
CallRecord ==
    [at : Stations, for : Cache!Purposes, since : Pages, list : Pages,
     etag : Nat, time : Nat, seen : Nat, low : BOOLEAN,
     status : Statuses]

CacheOK ==
    /\ now \in Nat \ {0} /\ blocked \in Nat
    /\ repo \in Pages /\ repo[1] > 0
    /\ disk \in Snapshots
    /\ memory \in [Procs -> [loaded : BOOLEAN, snap : Snapshots]]
    /\ call \in [Procs -> [Tasks -> CallRecord]]
    /\ outdated \in BOOLEAN

\* GitHub's list r either moved on from the tag e or is still the one page it tagged.
Vouches(e, r) == e # 0 => e <= r[1] /\ (e = r[1] => r[2] = 0)

Sound(s, r) == Vouches(s.etag, r) /\ (s.etag # 0 => s.list = <<s.etag, 0>>)

Half(c) == c.list[1] >= c.since[1] /\ c.list[1] # 0 /\ c.etag = 0

Whole(c) ==
    /\ c.list[1] >= c.since[1] /\ c.list[2] >= c.since[2]
    /\ c.etag # 0 => c.list = <<c.etag, 0>>

\* A list call under the lock, and what it has been told so far.
Told(c, s, r) ==
    /\ Vouches(c.etag, r)
    /\ c.at = "asks" => IF c.list[1] = 0 THEN c.etag = s.etag ELSE Half(c)
    /\ c.at # "asks" =>
          \/ /\ c.status = "unchanged" /\ c.etag = s.etag /\ c.etag # 0
             /\ c.since[1] <= c.etag /\ c.since[2] = 0
          \/ c.status = "more" /\ c.at # "stores" /\ Half(c)
          \/ c.status = "whole" /\ Whole(c)
          \/ c.status = "error" /\ c.at # "stores"

InLock(c) == c.for # "asset" /\ c.at \in Cache!Locked

Good(c, s, r) ==
    /\ c.since[1] <= r[1] /\ c.since[2] <= r[2]
    /\ c.for # "revalidate" => c.since = <<0, 0>>
    /\ c.at \in {"idle", "waits"} => c.list = <<0, 0>>
    /\ c.for = "asset" => c.at \in {"idle", "waits", "asks"}
    /\ InLock(c) => Told(c, s, r)

CacheInv ==
    /\ CacheOK
    /\ Sound(disk, repo) /\ \A p \in Procs : Sound(memory[p].snap, repo)
    /\ \A p \in Procs, t \in Tasks : Good(call[p][t], memory[p].snap, repo)
    /\ \A p \in Procs, t, u \in Tasks : InLock(call[p][t]) /\ InLock(call[p][u]) => t = u
    /\ ~outdated

LEMMA Nothing ==
    /\ Cache!NoSnapshot \in Snapshots
    /\ Cache!NoCall \in CallRecord /\ ~InLock(Cache!NoCall)
    /\ \A r \in Pages : Sound(Cache!NoSnapshot, r)
    /\ \A s, r : r \in Pages => Good(Cache!NoCall, s, r)
<1>1. <<Cache!None, Cache!None>> \in Pages
  BY DEF Pages, Cache!None
<1>2. Cache!NoSnapshot \in Snapshots /\ Cache!NoSnapshot.etag = 0
  BY <1>1 DEF Cache!NoSnapshot, Snapshots, Cache!None
<1>3. /\ Cache!NoCall \in CallRecord /\ Cache!NoCall.at = "idle"
      /\ Cache!NoCall.since = <<0, 0>> /\ Cache!NoCall.list = <<0, 0>>
  BY <1>1 DEF Cache!NoCall, CallRecord, Stations, Statuses, Cache!Purposes, Cache!None
<1>4. \A r \in Pages : r[1] \in Nat /\ r[2] \in Nat
  BY DEF Pages
<1> QED BY <1>2, <1>3, <1>4 DEF Sound, Vouches, Good, InLock, Cache!Locked

LEMMA CacheStart == Init => CacheInv
<1> SUFFICES ASSUME Init
             PROVE  CacheInv
  OBVIOUS
<1>1. /\ now = 1 /\ repo = <<1, 0>> /\ blocked = 0 /\ disk = Cache!NoSnapshot
      /\ memory = [p \in Procs |-> Cache!Unloaded]
      /\ call = [p \in Procs |-> [t \in Tasks |-> Cache!NoCall]]
      /\ outdated = FALSE
  BY DEF Init, Cache!CacheInit, Cache!None
<1>2. /\ Cache!Unloaded \in [loaded : BOOLEAN, snap : Snapshots]
      /\ Cache!Unloaded.snap = Cache!NoSnapshot
  BY Nothing DEF Cache!Unloaded
<1>3. CacheOK
  <2>1. /\ memory \in [Procs -> [loaded : BOOLEAN, snap : Snapshots]]
        /\ call \in [Procs -> [Tasks -> CallRecord]]
    BY <1>1, <1>2, Nothing
  <2>2. repo \in Pages /\ repo[1] > 0
    BY <1>1 DEF Pages
  <2>3. outdated \in BOOLEAN
    BY <1>1
  <2> QED BY <1>1, <2>1, <2>2, <2>3, Nothing DEF CacheOK
<1> QED BY <1>1, <1>2, <1>3, Nothing DEF CacheInv, CacheOK

\* One task p, t goes on to c; p's memory becomes m and the file d.  Whoever else is
\* under p's lock must find the tag it asked with.
LEMMA TaskMoves ==
    ASSUME CacheInv, NEW p \in Procs, NEW t \in Tasks, NEW c \in CallRecord,
           NEW m \in [loaded : BOOLEAN, snap : Snapshots],
           Cache!Becomes(p, t, c), memory' = [memory EXCEPT ![p] = m],
           repo' = repo, now' = now, blocked' \in Nat, disk' \in Snapshots,
           outdated' \in BOOLEAN, ~outdated',
           Sound(disk', repo), Sound(m.snap, repo), Good(c, m.snap, repo),
           \A u \in Tasks \ {t} : InLock(call[p][u]) =>
              ~InLock(c) /\ m.snap.etag = memory[p].snap.etag
    PROVE  CacheInv'
<1>1. /\ call' \in [Procs -> [Tasks -> CallRecord]]
      /\ call'[p][t] = c
      /\ \A q \in Procs, u \in Tasks : q # p \/ u # t => call'[q][u] = call[q][u]
  BY DEF Cache!Becomes, CacheInv, CacheOK
<1>2. /\ memory' \in [Procs -> [loaded : BOOLEAN, snap : Snapshots]]
      /\ memory'[p] = m /\ \A q \in Procs \ {p} : memory'[q] = memory[q]
  BY DEF CacheInv, CacheOK
<1>3. CacheOK'
  BY <1>1, <1>2 DEF CacheInv, CacheOK
<1>4. \A q \in Procs : Sound(memory'[q].snap, repo)
  BY <1>2 DEF CacheInv
<1>5. ASSUME NEW q \in Procs, NEW u \in Tasks
      PROVE  Good(call'[q][u], memory'[q].snap, repo)
  <2>0. Good(call[q][u], memory[q].snap, repo)
    BY DEF CacheInv
  <2>1. CASE q = p /\ u = t
    BY <1>1, <1>2, <2>1
  <2>2. CASE q # p
    BY <1>1, <1>2, <2>0, <2>2
  <2>3. CASE q = p /\ u # t
    <3>1. call'[q][u] = call[q][u] /\ memory'[q] = m
      BY <1>1, <1>2, <2>3
    <3>2. InLock(call[q][u]) => m.snap.etag = memory[q].snap.etag
      BY <2>3
    <3> QED BY <2>0, <3>1, <3>2 DEF Good, Told
  <2> QED BY <2>1, <2>2, <2>3
<1>6. ASSUME NEW q \in Procs, NEW u \in Tasks, NEW v \in Tasks,
             InLock(call'[q][u]), InLock(call'[q][v])
      PROVE  u = v
  <2>1. CASE q = p /\ (u = t \/ v = t)
    BY <1>1, <1>6, <2>1
  <2>2. CASE q # p \/ (u # t /\ v # t)
    <3>1. call'[q][u] = call[q][u] /\ call'[q][v] = call[q][v]
      BY <1>1, <2>2
    <3> QED BY <1>6, <3>1 DEF CacheInv
  <2> QED BY <2>1, <2>2
<1> QED BY <1>3, <1>4, <1>5, <1>6 DEF CacheInv

\* A call ends without a list older than it asked for.
LEMMA CallEnds ==
    ASSUME CacheInv, NEW p \in Procs, NEW t \in Tasks,
           NEW m \in [loaded : BOOLEAN, snap : Snapshots], memory' = [memory EXCEPT ![p] = m],
           repo' = repo, now' = now, blocked' \in Nat, disk' \in Snapshots,
           Sound(disk', repo), Sound(m.snap, repo),
           \A u \in Tasks \ {t} : InLock(call[p][u]) => m.snap.etag = memory[p].snap.etag,
           \/ Cache!Fails(p, t)
           \/ \E list \in Pages : /\ Cache!Returns(p, t, list)
                                  /\ list[1] >= call[p][t].since[1]
                                  /\ list[2] >= call[p][t].since[2]
    PROVE  CacheInv'
<1>1. Cache!Becomes(p, t, Cache!NoCall)
  BY DEF Cache!Fails, Cache!Returns
<1>2. ~outdated'
  <2>1. CASE Cache!Fails(p, t)
    BY <2>1 DEF Cache!Fails, CacheInv
  <2>2. ASSUME NEW list \in Pages, Cache!Returns(p, t, list),
               list[1] >= call[p][t].since[1], list[2] >= call[p][t].since[2]
        PROVE  ~outdated'
    <3>1. call[p][t].since \in Pages
      BY DEF CacheInv, CacheOK, CallRecord
    <3>2. ~(\E i \in 1 .. 2 : list[i] < call[p][t].since[i])
      BY <2>2, <3>1 DEF Pages
    <3> QED BY <2>2, <3>2 DEF Cache!Returns, CacheInv
  <2> QED BY <2>1, <2>2
<1>3. outdated' \in BOOLEAN
  BY DEF Cache!Fails, Cache!Returns, CacheInv, CacheOK
<1>4. Good(Cache!NoCall, m.snap, repo)
  BY Nothing DEF CacheInv, CacheOK
<1> QED BY <1>1, <1>2, <1>3, <1>4, Nothing, TaskMoves

Ended(p, t) ==
    \/ Cache!Fails(p, t)
    \/ \E list \in Pages : /\ Cache!Returns(p, t, list)
                           /\ list[1] >= call[p][t].since[1]
                           /\ list[2] >= call[p][t].since[2]

\* Whoever is served a stale list asked for no newer one.
LEMMA ServedStale ==
    ASSUME CacheInv, NEW p \in Procs, NEW t \in Tasks, NEW s \in Snapshots,
           \/ Cache!Failed(p, t, s)
           \/ call[p][t].for = "cached" /\ Cache!Returns(p, t, s.list)
    PROVE  Ended(p, t)
<1>1. call[p][t].for = "cached" => call[p][t].since = <<0, 0>>
  BY DEF CacheInv, Good
<1>2. s.list \in Pages /\ s.list[1] >= 0 /\ s.list[2] >= 0
  BY DEF Snapshots, Pages
<1>3. CASE Cache!Fails(p, t)
  BY <1>3 DEF Ended
<1>4. CASE call[p][t].for = "cached" /\ Cache!Returns(p, t, s.list)
  BY <1>1, <1>2, <1>4 DEF Ended
<1> QED BY <1>3, <1>4 DEF Cache!Failed

\* The record of a call, and what replacing a field of it keeps.
LEMMA TaskRecord ==
    ASSUME CacheInv, NEW p \in Procs, NEW t \in Tasks
    PROVE  /\ call[p][t] \in CallRecord
           /\ memory[p] \in [loaded : BOOLEAN, snap : Snapshots] /\ memory[p].snap \in Snapshots
           /\ memory = [memory EXCEPT ![p] = memory[p]]
           /\ Good(call[p][t], memory[p].snap, repo) /\ Sound(memory[p].snap, repo)
BY DEF CacheInv, CacheOK

\* A step of t that leaves the memory and the file alone.
LEMMA TaskTurns ==
    ASSUME CacheInv, NEW p \in Procs, NEW t \in Tasks, NEW c \in CallRecord,
           Cache!Becomes(p, t, c), UNCHANGED <<now, repo, memory, disk, outdated>>, blocked' \in Nat,
           Good(c, memory[p].snap, repo), InLock(c) => InLock(call[p][t])
    PROVE  CacheInv'
<1>1. \A u \in Tasks \ {t} : InLock(call[p][u]) => ~InLock(c)
  BY DEF CacheInv
<1>2. disk \in Snapshots /\ Sound(disk, repo) /\ outdated \in BOOLEAN /\ ~outdated
  BY DEF CacheInv, CacheOK
<1> QED BY <1>1, <1>2, TaskRecord, TaskMoves

LEMMA CallingCache ==
    ASSUME CacheInv, NEW p \in Procs, NEW t \in Tasks, NEW for \in Cache!Purposes,
           Cache!Calls(p, t, for)
    PROVE  CacheInv'
<1> DEFINE c == [Cache!NoCall EXCEPT !.at = "waits", !.for = for,
                                     !.since = IF for = "revalidate" THEN repo ELSE @]
<1>1. Cache!Becomes(p, t, c) /\ UNCHANGED <<now, repo, memory, disk, outdated, blocked>>
  BY DEF Cache!Calls
<1>2. repo \in Pages /\ blocked \in Nat /\ repo[1] \in Nat /\ repo[2] \in Nat
  BY DEF CacheInv, CacheOK, Pages
<1>3. <<0, 0>> \in Pages
  BY DEF Pages
<1>4. /\ c \in CallRecord /\ c.at = "waits" /\ c.for = for
      /\ c.since = IF for = "revalidate" THEN repo ELSE <<0, 0>>
      /\ c.list = <<0, 0>>
  BY <1>2, <1>3 DEF Cache!NoCall, Cache!None, CallRecord, Stations, Statuses, Cache!Purposes
<1> HIDE DEF c
<1>5. ~InLock(c)
  BY <1>4 DEF InLock, Cache!Locked
<1>6. Good(c, memory[p].snap, repo)
  BY <1>2, <1>4, <1>5 DEF Good
<1> QED BY <1>1, <1>2, <1>4, <1>5, <1>6, TaskTurns

LEMMA TakingCache ==
    ASSUME CacheInv, NEW p \in Procs, NEW t \in Tasks, Cache!Takes(p, t)
    PROVE  CacheInv'
<1> DEFINE snap == Cache!SnapshotOf(p)
           m == [loaded |-> TRUE, snap |-> snap]
           c == [call[p][t] EXCEPT !.at = "asks", !.etag = snap.etag, !.time = now]
<1>1. /\ call[p][t].at = "waits" /\ call[p][t].for # "asset"
      /\ \A u \in Tasks : ~InLock(call[p][u])
      /\ memory' = [memory EXCEPT ![p] = m]
      /\ UNCHANGED <<now, repo, blocked, disk>>
      /\ \/ call[p][t].for = "cached" /\ Cache!Returns(p, t, snap.list)
         \/ Cache!Failed(p, t, snap)
         \/ Cache!Becomes(p, t, c) /\ outdated' = outdated
  BY DEF Cache!Takes, Cache!Is, Cache!IsList, Cache!LockFree, InLock, Cache!ServesFromMemory
<1>2. snap \in Snapshots /\ Sound(snap, repo) /\ snap.etag \in Nat
  BY DEF CacheInv, CacheOK, Cache!SnapshotOf, Snapshots
<1> HIDE DEF snap
<1>3. m \in [loaded : BOOLEAN, snap : Snapshots] /\ m.snap = snap
  BY <1>2
<1>4. blocked' \in Nat /\ disk' \in Snapshots /\ Sound(disk', repo)
  BY <1>1 DEF CacheInv, CacheOK
<1> HIDE DEF m
<1>5. CASE Ended(p, t)
  BY <1>1, <1>2, <1>3, <1>4, <1>5, CallEnds DEF Ended
<1>6. CASE Cache!Becomes(p, t, c) /\ outdated' = outdated
  <2>1. call[p][t].list = <<0, 0>>
    BY <1>1, TaskRecord DEF Good
  <2>0. now \in Nat /\ call[p][t] \in CallRecord
    BY DEF CacheInv, CacheOK
  <2>2. /\ c \in CallRecord /\ c.at = "asks" /\ c.etag = snap.etag /\ c.for = call[p][t].for
        /\ c.since = call[p][t].since /\ c.list = call[p][t].list
    BY <1>2, <2>0 DEF CallRecord, Stations, Cache!Locked
  <2> HIDE DEF c
  <2>3. Good(c, m.snap, repo)
    BY <1>2, <1>3, <2>1, <2>2, TaskRecord DEF Good, Told, Sound
  <2>4. outdated' \in BOOLEAN /\ ~outdated'
    BY <1>6 DEF CacheInv, CacheOK
  <2> QED BY <1>1, <1>2, <1>3, <1>4, <1>6, <2>2, <2>3, <2>4, TaskMoves
<1> QED BY <1>1, <1>2, <1>5, <1>6, ServedStale

\* A call that fails, or an asset's that ends, wherever the back-off then stands.
LEMMA FailingCache ==
    ASSUME CacheInv, NEW p \in Procs, NEW t \in Tasks, blocked' \in Nat,
           Cache!Failed(p, t, memory[p].snap) \/ Cache!Fails(p, t),
           UNCHANGED <<now, repo, memory, disk>>
    PROVE  CacheInv'
<1>1. Ended(p, t)
  BY TaskRecord, ServedStale DEF Ended
<1>2. disk \in Snapshots /\ Sound(disk, repo)
  BY DEF CacheInv, CacheOK
<1> QED BY <1>1, <1>2, TaskRecord, CallEnds DEF Ended

LEMMA PassingCache ==
    ASSUME CacheInv, NEW p \in Procs, NEW t \in Tasks,
           Cache!PassesGate(p, t) \/ Cache!AnswersAsset(p, t)
    PROVE  CacheInv'
<1>0. blocked \in Nat
  BY DEF CacheInv, CacheOK
<1>1. CASE Cache!Fails(p, t) /\ UNCHANGED <<now, repo, memory, disk, blocked>>
  BY <1>0, <1>1, FailingCache
<1>2. CASE Cache!PassesGate(p, t) /\ Cache!Becomes(p, t, [call[p][t] EXCEPT !.at = "asks"])
  <2> DEFINE c == [call[p][t] EXCEPT !.at = "asks"]
  <2>1. /\ c \in CallRecord /\ c.at = "asks" /\ c.for = call[p][t].for
        /\ c.since = call[p][t].since
    BY TaskRecord DEF CallRecord, Stations, Cache!Locked
  <2>2. Cache!Becomes(p, t, c) /\ c.for = "asset"
        /\ UNCHANGED <<now, repo, memory, disk, blocked, outdated>>
    BY <1>2, <2>1 DEF Cache!PassesGate, Cache!IsList
  <2> HIDE DEF c
  <2>3. ~InLock(c) /\ Good(c, memory[p].snap, repo)
    BY <2>1, <2>2, TaskRecord DEF InLock, Good
  <2> QED BY <1>0, <2>1, <2>2, <2>3, TaskTurns
<1> QED BY <1>1, <1>2 DEF Cache!PassesGate, Cache!AnswersAsset, Cache!Fails

\* The end of a block that starts now lies ahead.
LEMMA BlockedAhead ==
    ASSUME CacheInv, NEW r, r = 0 \/ r = now + Window
    PROVE  Cache!ComputeBlockedUntil(r) \in Nat /\ Cache!ComputeBlockedUntil(r) > now
BY CacheAssumption DEF Cache!ComputeBlockedUntil, Cache!None, CacheInv, CacheOK

LEMMA LimitedCache ==
    ASSUME CacheInv, NEW p \in Procs, NEW t \in Tasks,
           Cache!AnswersLimited(p, t) \/ Cache!AnswersNothing(p, t)
    PROVE  CacheInv'
<1>1. blocked' \in Nat
  BY BlockedAhead DEF Cache!AnswersLimited, Cache!AnswersNothing, Cache!NoteRateLimited,
                      Cache!None, CacheInv, CacheOK
<1>2. /\ Cache!Failed(p, t, memory[p].snap)
      /\ UNCHANGED <<now, repo, memory, disk>>
  BY DEF Cache!AnswersLimited, Cache!AnswersNothing
<1> QED BY <1>1, <1>2, FailingCache

\* The record c is o with these fields in place of its own.
Turned(c, o, at, list, status, etag) ==
    /\ c \in CallRecord /\ c.for = o.for /\ c.since = o.since
    /\ c.at = at /\ c.list = list /\ c.status = status /\ c.etag = etag

LEMMA Records ==
    \A o \in CallRecord :
       /\ \A l \in Pages, st \in Statuses :
             Turned([o EXCEPT !.list = l, !.status = st], o, o.at, l, st, o.etag)
       /\ \A l \in Pages, st \in Statuses, n \in Nat :
             Turned([o EXCEPT !.list = l, !.status = st, !.etag = n], o, o.at, l, st, n)
       /\ \A st \in Statuses :
             Turned([o EXCEPT !.status = st], o, o.at, o.list, st, o.etag)
       /\ \A at \in Stations, low \in BOOLEAN :
             Turned([o EXCEPT !.at = at, !.low = low], o, at, o.list, o.status, o.etag)
       /\ \A at \in Stations, low \in BOOLEAN, st \in Statuses :
             Turned([o EXCEPT !.at = at, !.low = low, !.status = st],
                    o, at, o.list, st, o.etag)
       /\ \A at \in Stations, n \in Nat :
             Turned([o EXCEPT !.at = at, !.seen = n], o, at, o.list, o.status, o.etag)
       /\ \A at \in Stations :
             Turned([o EXCEPT !.at = at], o, at, o.list, o.status, o.etag)
<1> USE DEF Turned, CallRecord
<1> TAKE o \in CallRecord
<1>1. \A l \in Pages, st \in Statuses :
       Turned([o EXCEPT !.list = l, !.status = st], o, o.at, l, st, o.etag)
  OBVIOUS
<1>2. \A l \in Pages, st \in Statuses, n \in Nat :
       Turned([o EXCEPT !.list = l, !.status = st, !.etag = n], o, o.at, l, st, n)
  OBVIOUS
<1>3. \A st \in Statuses :
       Turned([o EXCEPT !.status = st], o, o.at, o.list, st, o.etag)
  OBVIOUS
<1>4. \A at \in Stations, low \in BOOLEAN :
       Turned([o EXCEPT !.at = at, !.low = low], o, at, o.list, o.status, o.etag)
  OBVIOUS
<1>5. \A at \in Stations, low \in BOOLEAN, st \in Statuses :
       Turned([o EXCEPT !.at = at, !.low = low, !.status = st],
              o, at, o.list, st, o.etag)
  OBVIOUS
<1>6. \A at \in Stations, n \in Nat :
       Turned([o EXCEPT !.at = at, !.seen = n], o, at, o.list, o.status, o.etag)
  OBVIOUS
<1>7. \A at \in Stations :
       Turned([o EXCEPT !.at = at], o, at, o.list, o.status, o.etag)
  OBVIOUS
<1> HIDE DEF Turned, CallRecord
<1> QED BY <1>1, <1>2, <1>3, <1>4, <1>5, <1>6, <1>7

\* What a page, or a 304, lets the caller conclude.
LEMMA Answering ==
    ASSUME CacheInv, NEW p \in Procs, NEW t \in Tasks, NEW low \in BOOLEAN,
           call[p][t].at = "asks", call[p][t].for # "asset"
    PROVE  LET c == [Cache!Answer(call[p][t]) EXCEPT !.at = "reads", !.low = low]
           IN  c \in CallRecord /\ InLock(c) /\ Good(c, memory[p].snap, repo)
<1> DEFINE o == call[p][t]
           a == Cache!Answer(o)
           c == [a EXCEPT !.at = "reads", !.low = low]
           s == memory[p].snap
<1>1. o \in CallRecord /\ Good(o, s, repo) /\ Told(o, s, repo)
  BY TaskRecord DEF Good, InLock, Cache!Locked
<1>2. repo \in Pages /\ repo[1] \in Nat \ {0} /\ repo[2] \in Nat
  BY DEF CacheInv, CacheOK, Pages
<1>3. /\ o.list \in Pages /\ o.since \in Pages /\ o.etag \in Nat
      /\ o.list[1] \in Nat /\ o.since[1] \in Nat /\ o.since[2] \in Nat
      /\ o.since[1] <= repo[1] /\ o.since[2] <= repo[2]
  BY <1>1 DEF CallRecord, Pages, Good
<1>4. IF o.list[1] = 0 THEN o.etag = s.etag ELSE Half(o)
  BY <1>1 DEF Told
<1>5. /\ a \in CallRecord /\ a.for = o.for /\ a.since = o.since
      /\ Vouches(a.etag, repo)
      /\ \/ /\ a.status = "unchanged" /\ a.etag = s.etag /\ a.etag # 0
            /\ a.since[1] <= a.etag /\ a.since[2] = 0
         \/ a.status = "more" /\ Half(a)
         \/ a.status = "whole" /\ Whole(a)
  <2>1. CASE o.list[1] # 0
    <3> DEFINE l == <<o.list[1], repo[2]>>
    <3>1. l \in Pages /\ l[1] = o.list[1] /\ l[2] = repo[2]
      BY <1>2, <1>3 DEF Pages
    <3>2. a = [o EXCEPT !.list = l, !.status = "whole"]
      BY <1>1, <2>1 DEF Cache!Answer, Cache!None, CallRecord
    <3> HIDE DEF l
    <3>3. Turned(a, o, o.at, l, "whole", o.etag)
      BY <1>1, <3>1, <3>2, Records DEF Statuses
    <3> QED BY <1>3, <1>4, <2>1, <3>1, <3>3 DEF Turned, Vouches, Whole, Half
  <2>2. CASE o.list[1] = 0 /\ o.etag = repo[1]
    <3>1. a = [o EXCEPT !.status = "unchanged"]
      BY <2>2 DEF Cache!Answer, Cache!None
    <3>2. Turned(a, o, o.at, o.list, "unchanged", o.etag)
      BY <1>1, <3>1, Records DEF Statuses
    <3> QED BY <1>1, <1>2, <1>3, <1>4, <2>2, <3>2 DEF Turned, Told, Vouches
  <2>3. CASE o.list[1] = 0 /\ o.etag # repo[1]
    <3> DEFINE l == <<repo[1], 0>>
               st == IF repo[2] = 0 THEN "whole" ELSE "more"
               e == IF repo[2] = 0 THEN repo[1] ELSE 0
    <3>1. l \in Pages /\ l[1] = repo[1] /\ l[2] = 0 /\ st \in Statuses /\ e \in Nat
      BY <1>2 DEF Pages, Statuses
    <3>2. a = [o EXCEPT !.list = l, !.status = st, !.etag = e]
      BY <2>3 DEF Cache!Answer, Cache!None
    <3>3. Vouches(e, repo) /\ (e # 0 => l = <<e, 0>>)
      BY <1>2 DEF Vouches
    <3> HIDE DEF l, st, e
    <3>4. Turned([o EXCEPT !.list = l, !.status = st, !.etag = e], o, o.at, l, st, e)
      BY <1>1, <3>1, Records
    <3>5. Turned(a, o, o.at, l, st, e)
      BY <3>2, <3>4
    <3> QED BY <1>2, <1>3, <3>1, <3>3, <3>5 DEF Turned, Whole, Half, st, e
  <2> QED BY <2>1, <2>2, <2>3
<1> HIDE DEF a, c
<1>6. Turned(c, a, "reads", a.list, a.status, a.etag)
  BY <1>5, Records DEF c, Cache!Locked, Stations
<1>7. InLock(c)
  BY <1>5, <1>6 DEF Turned, InLock, Cache!Locked
<1>8. Told(c, s, repo)
  BY <1>5, <1>6 DEF Turned, Told, Half, Whole
<1>9. c \in CallRecord /\ Good(c, s, repo)
  BY <1>1, <1>5, <1>6, <1>7, <1>8 DEF Turned, Good
<1> QED BY <1>7, <1>9 DEF a, c

LEMMA AnsweredCache ==
    ASSUME CacheInv, NEW p \in Procs, NEW t \in Tasks, Cache!AnswersList(p, t)
    PROVE  CacheInv'
<1>1. /\ call[p][t].at = "asks" /\ call[p][t].for # "asset"
      /\ InLock(call[p][t]) /\ blocked' \in Nat
      /\ UNCHANGED <<now, repo, memory, disk, outdated>>
  BY DEF Cache!AnswersList, Cache!Is, Cache!IsList, InLock, Cache!Locked, CacheInv, CacheOK
<1>2. ASSUME NEW low \in BOOLEAN,
             Cache!Becomes(p, t, [Cache!Answer(call[p][t]) EXCEPT !.at = "reads", !.low = low])
      PROVE  CacheInv'
  BY <1>1, <1>2, Answering, TaskTurns
<1>3. ASSUME Cache!Becomes(p, t, [call[p][t] EXCEPT !.at = "reads", !.low = FALSE,
                                                    !.status = "error"])
      PROVE  CacheInv'
  <2> DEFINE c == [call[p][t] EXCEPT !.at = "reads", !.low = FALSE, !.status = "error"]
  <2>1. Turned(c, call[p][t], "reads", call[p][t].list, "error", call[p][t].etag)
    BY TaskRecord, Records DEF Stations, Statuses, Cache!Locked
  <2> HIDE DEF c
  <2>2. Good(c, memory[p].snap, repo)
    BY <1>1, <2>1, TaskRecord DEF Good, Told, Turned
  <2>3. c \in CallRecord
    BY <2>1 DEF Turned
  <2>4. Cache!Becomes(p, t, c)
    BY <1>3 DEF c
  <2> QED BY <1>1, <2>2, <2>3, <2>4, TaskTurns
<1> QED BY <1>2, <1>3 DEF Cache!AnswersList

LEMMA NotesReadsCache ==
    ASSUME CacheInv, NEW p \in Procs, NEW t \in Tasks, Cache!NotesReads(p, t)
    PROVE  CacheInv'
<1> DEFINE c == [call[p][t] EXCEPT !.at = "writes", !.seen = blocked]
<1>1. /\ call[p][t].at = "reads" /\ blocked \in Nat /\ Cache!Becomes(p, t, c)
      /\ UNCHANGED <<now, repo, memory, disk, outdated, blocked>>
  BY DEF Cache!NotesReads, Cache!Is, CacheInv, CacheOK
<1>2. Turned(c, call[p][t], "writes", call[p][t].list, call[p][t].status, call[p][t].etag)
  BY <1>1, TaskRecord, Records DEF Stations, Cache!Locked
<1> HIDE DEF c
<1>3. InLock(c) => InLock(call[p][t])
  BY <1>1, <1>2 DEF Turned, InLock, Cache!Locked
<1>4. Good(c, memory[p].snap, repo)
  BY <1>1, <1>2, <1>3, TaskRecord DEF Good, Told, Turned, Half, Whole
<1>5. c \in CallRecord
  BY <1>2 DEF Turned
<1> QED BY <1>1, <1>3, <1>4, <1>5, TaskTurns

LEMMA NotesWritesCache ==
    ASSUME CacheInv, NEW p \in Procs, NEW t \in Tasks, Cache!NotesWrites(p, t)
    PROVE  CacheInv'
<1> DEFINE o == call[p][t]
<1>1. /\ o.at = "writes" /\ o \in CallRecord /\ Good(o, memory[p].snap, repo)
      /\ o.low \in BOOLEAN /\ o.seen \in Nat
      /\ UNCHANGED <<now, repo, memory, disk>>
      /\ blocked' = Cache!ResolveBlockedUntil(o.low, o.seen)
  BY TaskRecord DEF Cache!NotesWrites, Cache!Is, CallRecord
<1>2. blocked' \in Nat
  BY <1>1, BlockedAhead DEF Cache!ResolveBlockedUntil, Cache!None
<1>3. CASE Cache!Failed(p, t, memory[p].snap)
  BY <1>1, <1>2, <1>3, FailingCache
<1>4. CASE /\ o.status # "error" /\ outdated' = outdated
           /\ Cache!Becomes(p, t, [o EXCEPT !.at = IF o.status = "more" THEN "asks" ELSE "stores"])
  <2> DEFINE at == IF o.status = "more" THEN "asks" ELSE "stores"
             c == [o EXCEPT !.at = at]
  <2>1. Cache!Becomes(p, t, c)
    BY <1>4
  <2>2. at \in Stations /\ at \in Cache!Locked
    BY DEF Stations, Cache!Locked
  <2>3. Turned(c, o, at, o.list, o.status, o.etag)
    BY <1>1, <2>2, Records
  <2> HIDE DEF c
  <2>4. InLock(c) => InLock(o)
    BY <1>1, <2>3 DEF Turned, InLock, Cache!Locked
  <2>5. InLock(c) => Told(c, memory[p].snap, repo)
    BY <1>1, <1>4, <2>3, <2>4 DEF Good, Told, Turned, Half, Whole
  <2>6. Good(c, memory[p].snap, repo)
    BY <1>1, <2>3, <2>5 DEF Good, Turned
  <2>7. c \in CallRecord
    BY <2>3 DEF Turned
  <2> QED BY <1>1, <1>2, <1>4, <2>1, <2>4, <2>6, <2>7, TaskTurns
<1> QED BY <1>3, <1>4 DEF Cache!NotesWrites

LEMMA StoresCache ==
    ASSUME CacheInv, NEW p \in Procs, NEW t \in Tasks, Cache!Stores(p, t)
    PROVE  CacheInv'
<1> DEFINE c == call[p][t]
           old == memory[p].snap
           snap == IF c.status = "unchanged" THEN [old EXCEPT !.at = c.time]
                   ELSE [list |-> c.list, etag |-> c.etag, at |-> c.time]
           m == [memory[p] EXCEPT !.snap = snap]
<1>1. /\ c.at = "stores" /\ InLock(c)
      /\ memory' = [memory EXCEPT ![p] = m]
      /\ Cache!Returns(p, t, snap.list)
      /\ UNCHANGED <<now, repo, blocked>>
      /\ \/ disk' = disk
         \/ c.status # "unchanged" /\ disk' = snap
  BY TaskRecord DEF Cache!Stores, Cache!Is, Cache!Persist, Good, InLock, Cache!Locked
<1>2. /\ c \in CallRecord /\ Told(c, old, repo) /\ old \in Snapshots /\ Sound(old, repo)
      /\ c.list \in Pages /\ c.etag \in Nat /\ c.time \in Nat
  BY <1>1, TaskRecord DEF Good, CallRecord
<1>3. /\ snap \in Snapshots
      /\ c.status = "unchanged" => snap.list = old.list /\ snap.etag = old.etag
      /\ c.status # "unchanged" => snap.list = c.list /\ snap.etag = c.etag
  BY <1>2 DEF Snapshots
<1> HIDE DEF snap
<1>4. \/ c.status = "unchanged" /\ c.etag = old.etag /\ c.etag # 0
         /\ c.since[1] <= c.etag /\ c.since[2] = 0
      \/ c.status = "whole" /\ Whole(c)
  BY <1>1, <1>2 DEF Told
<1>5. Sound(snap, repo)
  BY <1>2, <1>3, <1>4 DEF Sound, Told, Whole
<1>6. snap.list \in Pages /\ snap.list[1] >= c.since[1] /\ snap.list[2] >= c.since[2]
  <2>1. snap.list \in Pages
    BY <1>3 DEF Snapshots
  <2>2. CASE c.status = "unchanged"
    BY <1>2, <1>3, <1>4, <2>1, <2>2 DEF Sound
  <2>3. CASE c.status = "whole"
    BY <1>3, <1>4, <2>1, <2>3 DEF Whole
  <2> QED BY <1>4, <2>1, <2>2, <2>3
<1>7. m \in [loaded : BOOLEAN, snap : Snapshots] /\ m.snap = snap
  BY <1>3, TaskRecord
<1> HIDE DEF m
<1>8. disk' \in Snapshots /\ Sound(disk', repo) /\ blocked' \in Nat
  BY <1>1, <1>3, <1>5 DEF CacheInv, CacheOK
<1>9. \A u \in Tasks \ {t} : ~InLock(call[p][u])
  BY <1>1 DEF CacheInv
<1> QED BY <1>1, <1>5, <1>6, <1>7, <1>8, <1>9, CallEnds

LEMMA ForgettingCache ==
    ASSUME CacheInv, NEW p \in Procs, Cache!Forgets(p)
    PROVE  CacheInv'
<1> DEFINE m == Cache!Unloaded
           none == [t \in Tasks |-> Cache!NoCall]
<1>1. /\ memory' = [memory EXCEPT ![p] = m]
      /\ call' = [call EXCEPT ![p] = none]
      /\ UNCHANGED <<now, repo, blocked, disk, outdated>>
  BY DEF Cache!Forgets
<1>2. m \in [loaded : BOOLEAN, snap : Snapshots] /\ Sound(m.snap, repo)
  BY Nothing DEF Cache!Unloaded, CacheInv, CacheOK
<1>3. none \in [Tasks -> CallRecord] /\ \A t \in Tasks : none[t] = Cache!NoCall
  BY Nothing
<1> HIDE DEF m, none
<1>4. /\ memory' \in [Procs -> [loaded : BOOLEAN, snap : Snapshots]]
      /\ call' \in [Procs -> [Tasks -> CallRecord]]
      /\ memory'[p] = m /\ \A t \in Tasks : call'[p][t] = Cache!NoCall
      /\ \A q \in Procs \ {p} : memory'[q] = memory[q] /\ call'[q] = call[q]
  BY <1>1, <1>2, <1>3 DEF CacheInv, CacheOK
<1>5. CacheOK'
  BY <1>1, <1>4 DEF CacheInv, CacheOK
<1>6. \A q \in Procs : Sound(memory'[q].snap, repo)
  BY <1>2, <1>4 DEF CacheInv
<1>7. \A q \in Procs, t \in Tasks : Good(call'[q][t], memory'[q].snap, repo)
  <2>1. \A s : Good(Cache!NoCall, s, repo)
    BY Nothing DEF CacheInv, CacheOK
  <2> QED BY <1>4, <2>1 DEF CacheInv
<1>8. \A q \in Procs, t, u \in Tasks :
         InLock(call'[q][t]) /\ InLock(call'[q][u]) => t = u
  BY <1>4, Nothing DEF CacheInv
<1> QED BY <1>1, <1>5, <1>6, <1>7, <1>8 DEF CacheInv

\* GitHub's list only grows, and a tag it has left behind says nothing false.
LEMMA ListGrows ==
    ASSUME NEW r \in Pages, NEW n \in Pages, r[1] <= n[1], r[2] <= n[2],
           n[1] = r[1] /\ r[2] = 0 => n[2] = 0
    PROVE  /\ \A e \in Nat : Vouches(e, r) => Vouches(e, n)
           /\ \A s \in Snapshots : Sound(s, r) => Sound(s, n)
           /\ \A c \in CallRecord : \A s : Good(c, s, r) => Good(c, s, n)
<1>1. r[1] \in Nat /\ r[2] \in Nat /\ n[1] \in Nat /\ n[2] \in Nat
  BY DEF Pages
<1>2. \A e \in Nat : Vouches(e, r) => Vouches(e, n)
  BY <1>1 DEF Vouches
<1>3. \A s \in Snapshots : Sound(s, r) => Sound(s, n)
  BY <1>2 DEF Sound, Snapshots
<1>4. ASSUME NEW c \in CallRecord, NEW s, Good(c, s, r)
      PROVE  Good(c, s, n)
  <2>1. c.since[1] \in Nat /\ c.since[2] \in Nat /\ c.etag \in Nat
    BY DEF CallRecord, Pages
  <2>2. Told(c, s, r) => Told(c, s, n)
    BY <1>2, <2>1 DEF Told
  <2> QED BY <1>1, <1>4, <2>1, <2>2 DEF Good
<1> QED BY <1>2, <1>3, <1>4

LEMMA GitHubCache == CacheInv /\ Cache!GitHubStep => CacheInv'
<1> SUFFICES ASSUME CacheInv, Cache!GitHubStep
             PROVE  CacheInv'
  OBVIOUS
<1>0. repo \in Pages /\ repo[1] \in Nat \ {0} /\ repo[2] \in Nat
  BY DEF CacheInv, CacheOK, Pages
<1>1. /\ UNCHANGED <<blocked, disk, memory, call, outdated>>
      /\ now' \in Nat \ {0}
      /\ repo' \in Pages /\ repo'[1] >= repo[1] /\ repo'[2] >= repo[2]
      /\ repo'[1] = repo[1] /\ repo[2] = 0 => repo'[2] = 0
  <2>1. CASE Cache!Publish
    <3>1. PICK b \in BOOLEAN :
             repo' = <<repo[1] + 1, IF b \/ repo[2] # 0 THEN repo[2] + 1 ELSE 0>>
      BY <2>1 DEF Cache!Publish, Cache!None
    <3> DEFINE n == IF b \/ repo[2] # 0 THEN repo[2] + 1 ELSE 0
    <3>2. n \in Nat /\ n >= repo[2]
      BY <1>0
    <3>3. repo' = <<repo[1] + 1, n>>
      BY <3>1
    <3> HIDE DEF n
    <3> QED BY <1>0, <2>1, <3>2, <3>3 DEF Cache!Publish, Pages, CacheInv, CacheOK
  <2>2. CASE Cache!EditOld
    BY <1>0, <2>2 DEF Cache!EditOld, Cache!None, Pages, CacheInv, CacheOK
  <2>3. CASE Cache!Tick
    BY <1>0, <2>3 DEF Cache!Tick, CacheInv, CacheOK
  <2> QED BY <2>1, <2>2, <2>3 DEF Cache!GitHubStep
<1>2. CacheOK'
  <2>1. repo'[1] \in Nat /\ repo'[1] > 0
    BY <1>0, <1>1 DEF Pages
  <2> QED BY <1>1, <2>1 DEF CacheInv, CacheOK
<1>3. Sound(disk, repo') /\ \A p \in Procs : Sound(memory[p].snap, repo')
  BY <1>0, <1>1, ListGrows DEF CacheInv, CacheOK
<1>4. \A p \in Procs, t \in Tasks : Good(call[p][t], memory[p].snap, repo')
  BY <1>0, <1>1, ListGrows DEF CacheInv, CacheOK
<1> QED BY <1>1, <1>2, <1>3, <1>4 DEF CacheInv

LEMMA CacheStep == CacheInv /\ [Next]_vars => CacheInv'
<1> SUFFICES ASSUME CacheInv, [Next]_vars
             PROVE  CacheInv'
  OBVIOUS
<1>1. CASE UNCHANGED cacheVars
  BY <1>1 DEF cacheVars, CacheInv, CacheOK
<1>2. CASE Ending
  BY <1>2, ForgettingCache DEF Ending
<1>3. CASE Calling
  <2>1. PICK p \in Procs : Cache!CallStep(p)
    BY <1>3 DEF Calling, Slot!Running
  <2>2. PICK t \in Tasks :
           \/ \E for \in Cache!Purposes : Cache!Calls(p, t, for)
           \/ Cache!Takes(p, t) \/ Cache!PassesGate(p, t)
           \/ Cache!AnswersLimited(p, t) \/ Cache!AnswersNothing(p, t)
           \/ Cache!AnswersAsset(p, t) \/ Cache!AnswersList(p, t)
           \/ Cache!NotesReads(p, t) \/ Cache!NotesWrites(p, t) \/ Cache!Stores(p, t)
    BY <2>1 DEF Cache!CallStep
  <2> QED BY <2>2, CallingCache, TakingCache, PassingCache, LimitedCache, AnsweredCache,
             NotesReadsCache, NotesWritesCache, StoresCache
<1>4. CASE GitHub
  BY <1>4, GitHubCache DEF GitHub
<1> QED BY <1>1, <1>2, <1>3, <1>4 DEF Next, Acquiring, vars

\* A 304 proves the whole cached list current.  It rests on what a tag, wherever it is
\* kept, vouches for: GitHub's list has moved on from it, or is still that one page.
THEOREM RevalidatedListIsCurrent == Spec => []RevalidatedIsCurrent
<1>1. CacheInv => RevalidatedIsCurrent
  BY DEF CacheInv, RevalidatedIsCurrent
<1> QED BY CacheStart, CacheStep, <1>1, PTL DEF Spec

\* Only time opens a closed gate, but for the task that had read an older block.
THEOREM GateOpensWithTime == Spec => OnlyTimeReopens
<1> DEFINE Wrote == \E p \in Procs, t \in Tasks :
                       call[p][t].at = "writes" /\ call[p][t].seen # blocked
           Opens == now < blocked /\ now' >= blocked' => now' # now \/ Wrote
<1>1. ASSUME CacheInv, [Next]_vars
      PROVE  [Opens]_vars
  <2>0. now \in Nat /\ blocked \in Nat
    BY <1>1 DEF CacheInv, CacheOK
  <2>1. CASE UNCHANGED <<now, blocked>> \/ now' # now
    BY <2>0, <2>1
  <2>2. CASE Calling
    <3>1. PICK p \in Procs, t \in Tasks :
             \/ \E for \in Cache!Purposes : Cache!Calls(p, t, for)
             \/ Cache!Takes(p, t) \/ Cache!PassesGate(p, t)
             \/ Cache!AnswersLimited(p, t) \/ Cache!AnswersNothing(p, t)
             \/ Cache!AnswersAsset(p, t) \/ Cache!AnswersList(p, t)
             \/ Cache!NotesReads(p, t) \/ Cache!NotesWrites(p, t) \/ Cache!Stores(p, t)
      BY <2>2 DEF Calling, Slot!Running, Cache!CallStep
    <3>2. CASE UNCHANGED <<now, blocked>>
      BY <2>1, <3>2
    <3>3. CASE Cache!AnswersLimited(p, t)
      <4>1. now' = now /\ blocked' \in Nat /\ blocked' > now
        BY <1>1, <3>3, BlockedAhead DEF Cache!AnswersLimited, Cache!NoteRateLimited, Cache!None
      <4> QED BY <2>0, <4>1
    <3>4. CASE Cache!NotesWrites(p, t)
      <4>1. /\ call[p][t].at = "writes" /\ now' = now
            /\ call[p][t].low \in BOOLEAN /\ call[p][t].seen \in Nat
            /\ blocked' = Cache!ResolveBlockedUntil(call[p][t].low, call[p][t].seen)
        BY <1>1, <3>4, TaskRecord DEF Cache!NotesWrites, Cache!Is, CallRecord
      <4>2. now < call[p][t].seen => blocked' \in Nat /\ blocked' > now
        BY <1>1, <2>0, <4>1, BlockedAhead DEF Cache!ResolveBlockedUntil
      <4> QED BY <2>0, <4>1, <4>2
    <3> QED BY <3>1, <3>2, <3>3, <3>4 DEF Cache!Calls, Cache!Takes, Cache!PassesGate,
               Cache!AnswersNothing, Cache!AnswersAsset, Cache!AnswersList,
               Cache!NotesReads, Cache!Stores
  <2>3. CASE GitHub
    BY <2>0, <2>1, <2>3 DEF GitHub, Cache!GitHubStep, Cache!Publish, Cache!EditOld, Cache!Tick
  <2> QED BY <1>1, <2>1, <2>2, <2>3 DEF Next, Acquiring, Ending, Cache!Forgets, vars, cacheVars
<1> QED BY CacheStart, CacheStep, <1>1, PTL DEF Spec, OnlyTimeReopens
=============================================================================
