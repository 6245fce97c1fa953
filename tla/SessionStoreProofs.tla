------------------------- MODULE SessionStoreProofs -------------------------
(***************************************************************************)
(* What holds of SessionStore for every set of players and capacities:     *)
(* its invariants are inductive together, and its action properties follow *)
(* from them.                                                              *)
(***************************************************************************)
EXTENDS SessionStore, SequenceTheorems, WellFoundedInduction, TLAPS

-----------------------------------------------------------------------------
(* Sequences *)

\* Removing position i shifts what is behind it down by one.
LEMMA RemoveAtShifts ==
    ASSUME NEW S, NEW s \in Seq(S), NEW i \in 1 .. Len(s)
    PROVE  /\ RemoveAt(s, i) \in Seq(S)
           /\ Len(RemoveAt(s, i)) = Len(s) - 1
           /\ \A j \in 1 .. (Len(s) - 1) :
                 RemoveAt(s, i)[j] = s[IF j < i THEN j ELSE j + 1]
<1> DEFINE front == SubSeq(s, 1, i - 1)
           back == SubSeq(s, i + 1, Len(s))
<1>1. Len(s) \in Nat /\ \A j \in 1 .. Len(s) : s[j] \in S
  BY LenProperties, ElementOfSeq
<1>2. /\ front \in Seq(S)
      /\ Len(front) = i - 1
      /\ \A j \in 1 .. (i - 1) : front[j] = s[j]
  <2>1. \A j \in 1 .. (i - 1) : s[j] \in S
    BY <1>1
  <2> QED BY <2>1, <1>1, SubSeqProperties, Z3
<1>3. /\ back \in Seq(S)
      /\ Len(back) = Len(s) - i
      /\ \A j \in 1 .. (Len(s) - i) : back[j] = s[i + j]
  <2>1. \A j \in (i + 1) .. Len(s) : s[j] \in S
    BY <1>1
  <2> QED BY <2>1, <1>1, SubSeqProperties
<1>4. RemoveAt(s, i) = front \o back
  BY DEF RemoveAt
<1> HIDE DEF front, back
<1>5. /\ RemoveAt(s, i) \in Seq(S)
      /\ Len(RemoveAt(s, i)) = Len(s) - 1
      /\ \A j \in 1 .. (Len(s) - 1) :
            RemoveAt(s, i)[j] = IF j <= i - 1 THEN front[j] ELSE back[j - (i - 1)]
  BY <1>1, <1>2, <1>3, <1>4, ConcatProperties
<1> QED BY <1>1, <1>2, <1>3, <1>5

\* What a sequence without duplicates keeps when one position is removed.
LEMMA RemoveAtDistinct ==
    ASSUME NEW S, NEW s \in Seq(S), Distinct(s), NEW i \in 1 .. Len(s)
    PROVE  /\ Distinct(RemoveAt(s, i))
           /\ ToSet(RemoveAt(s, i)) = ToSet(s) \ {s[i]}
<1> DEFINE t == RemoveAt(s, i)
<1>1. /\ t \in Seq(S) /\ Len(t) = Len(s) - 1
      /\ \A j \in 1 .. (Len(s) - 1) : t[j] = s[IF j < i THEN j ELSE j + 1]
  BY RemoveAtShifts
<1> HIDE DEF t
<1>2. /\ Len(s) \in Nat /\ DOMAIN s = 1 .. Len(s)
      /\ DOMAIN t = 1 .. (Len(s) - 1)
  BY <1>1, LenProperties
<1>3. Distinct(t)
  BY <1>1, <1>2 DEF Distinct
<1>4. ToSet(t) \subseteq ToSet(s) \ {s[i]}
  BY <1>1, <1>2 DEF Distinct, ToSet
<1>5. ASSUME NEW e \in ToSet(s) \ {s[i]}
      PROVE  e \in ToSet(t)
  <2>1. PICK j \in 1 .. Len(s) : s[j] = e
    BY <1>2 DEF ToSet
  <2>2. CASE j < i
    BY <2>1, <2>2, <1>1, <1>2 DEF ToSet
  <2>3. CASE j > i
    <3>1. j - 1 \in 1 .. (Len(s) - 1) /\ t[j - 1] = s[j]
      BY <2>3, <1>1, <1>2
    <3> QED BY <3>1, <2>1, <1>2 DEF ToSet
  <2> QED BY <2>1, <2>2, <2>3, <1>2
<1> QED BY <1>3, <1>4, <1>5 DEF t

\* Appending adds one element at the end.
LEMMA AppendFacts ==
    ASSUME NEW S, NEW s \in Seq(S), NEW e \in S
    PROVE  /\ Append(s, e) \in Seq(S)
           /\ Len(Append(s, e)) = Len(s) + 1
           /\ \A j \in 1 .. Len(s) : Append(s, e)[j] = s[j]
           /\ ToSet(Append(s, e)) = ToSet(s) \cup {e}
           /\ Distinct(s) /\ e \notin ToSet(s) => Distinct(Append(s, e))
<1> DEFINE t == Append(s, e)
<1>1. /\ t \in Seq(S) /\ Len(t) = Len(s) + 1
      /\ \A j \in 1 .. Len(s) : t[j] = s[j]
      /\ t[Len(s) + 1] = e
  OBVIOUS
<1>2. /\ Len(s) \in Nat /\ DOMAIN s = 1 .. Len(s)
      /\ DOMAIN t = 1 .. (Len(s) + 1)
  BY <1>1, LenProperties
<1> HIDE DEF t
<1>3. ToSet(t) = ToSet(s) \cup {e}
  BY <1>1, <1>2 DEF ToSet
<1>4. Distinct(s) /\ e \notin ToSet(s) => Distinct(t)
  BY <1>1, <1>2 DEF Distinct, ToSet
<1> QED BY <1>1, <1>3, <1>4 DEF t
\* The same at the front.
LEMMA PrependFacts ==
    ASSUME NEW S, NEW s \in Seq(S), NEW e \in S
    PROVE  /\ <<e>> \o s \in Seq(S)
           /\ Len(<<e>> \o s) = Len(s) + 1
           /\ ToSet(<<e>> \o s) = ToSet(s) \cup {e}
           /\ Distinct(s) /\ e \notin ToSet(s) => Distinct(<<e>> \o s)
<1> DEFINE t == <<e>> \o s
<1>1. Len(s) \in Nat /\ DOMAIN s = 1 .. Len(s) /\ <<e>> \in Seq(S)
  BY LenProperties
<1>2. /\ t \in Seq(S) /\ Len(t) = Len(s) + 1
      /\ \A j \in 1 .. (Len(s) + 1) : t[j] = IF j <= 1 THEN e ELSE s[j - 1]
  BY <1>1, ConcatProperties
<1> HIDE DEF t
<1>3. DOMAIN t = 1 .. (Len(s) + 1)
  BY <1>2, LenProperties
<1>4. t[1] = e /\ \A j \in 1 .. Len(s) : t[j + 1] = s[j]
  BY <1>1, <1>2
<1>5. ToSet(t) = ToSet(s) \cup {e}
  <2>1. ToSet(t) \subseteq ToSet(s) \cup {e}
    BY <1>1, <1>2, <1>3 DEF ToSet
  <2>2. \A j \in 1 .. Len(s) : j + 1 \in DOMAIN t
    BY <1>1, <1>3
  <2>3. ToSet(s) \cup {e} \subseteq ToSet(t)
    BY <1>1, <1>3, <1>4, <2>2 DEF ToSet
  <2> QED BY <2>1, <2>3
<1>6. ASSUME Distinct(s), e \notin ToSet(s), NEW i \in DOMAIN t, NEW j \in DOMAIN t,
             t[i] = t[j], i < j
      PROVE  FALSE
  <2>1. j - 1 \in DOMAIN s /\ t[j] = s[j - 1]
    BY <1>1, <1>2, <1>3, <1>6
  <2>2. CASE i = 1
    BY <1>4, <1>6, <2>1, <2>2 DEF ToSet
  <2>3. CASE i > 1
    <3>1. i - 1 \in DOMAIN s /\ t[i] = s[i - 1]
      BY <1>1, <1>2, <1>3, <2>3
    <3> QED BY <1>1, <1>3, <1>6, <2>1, <3>1 DEF Distinct
  <2> QED BY <1>1, <1>3, <2>2, <2>3
<1>7. Distinct(s) /\ e \notin ToSet(s) => Distinct(t)
  <2> SUFFICES ASSUME Distinct(s), e \notin ToSet(s),
                      NEW i \in DOMAIN t, NEW j \in DOMAIN t, t[i] = t[j], i # j
               PROVE  FALSE
    BY DEF Distinct
  <2>1. i < j \/ j < i
    BY <1>1, <1>3
  <2> QED BY <1>6, <2>1
<1> QED BY <1>2, <1>5, <1>7 DEF t

-----------------------------------------------------------------------------
(* Positions of joiners *)

\* JoinerAt finds a position that holds p, the only one if there are no duplicates.
LEMMA JoinerAtFacts ==
    ASSUME NEW s \in Session, NEW p \in ToSet(s.joiners)
    PROVE  /\ JoinerAt(s, p) \in 1 .. Len(s.joiners)
           /\ s.joiners[JoinerAt(s, p)] = p
           /\ Distinct(s.joiners) =>
                 \A i \in 1 .. Len(s.joiners) : s.joiners[i] = p => i = JoinerAt(s, p)
<1>1. DOMAIN s.joiners = 1 .. Len(s.joiners)
  BY LenProperties DEF Session
<1>2. \E i \in DOMAIN s.joiners : s.joiners[i] = p
  BY DEF ToSet
<1>3. JoinerAt(s, p) \in DOMAIN s.joiners /\ s.joiners[JoinerAt(s, p)] = p
  BY <1>2 DEF JoinerAt
<1> QED BY <1>1, <1>3 DEF Distinct

\* A promotion has an heir, and somebody else was connected too.
LEMMA HeirFacts ==
    ASSUME NEW s \in Session, NEW seen, Playable(s, seen)
    PROVE  OldestAt(s, seen) \in 1 .. Len(s.joiners) /\ Len(s.joiners) >= 2
<1> DEFINE T == ConnectedAt(s, seen)
           R == {ss \in Nat \X Nat : ss[1] < ss[2]}
<1>1. Len(s.joiners) \in Nat /\ DOMAIN s.joiners = 1 .. Len(s.joiners)
  BY LenProperties DEF Session
<1>2. T \subseteq 1 .. Len(s.joiners) /\ T \subseteq Nat
  BY <1>1 DEF ConnectedAt
<1>3. PICK i, j \in T : i # j
  BY DEF Playable
<1>0. IsWellFoundedOn(R, Nat)
  BY NatLessThanWellFounded DEF OpToRel
<1> HIDE DEF T, R
<1>4. \E m \in T : \A n \in T : ~(<<n, m>> \in R)
  BY <1>0, <1>2, <1>3, WFMin
<1>5. \E m \in T : \A n \in T : m <= n
  <2>1. \A n, m \in Nat : n < m => <<n, m>> \in R
    BY DEF R
  <2>2. \A n, m \in T : ~(n < m) => m <= n
    BY <1>2
  <2> QED BY <1>2, <1>4, <2>1, <2>2
<1>6. OldestAt(s, seen) \in T
  BY <1>5 DEF OldestAt, T
<1>7. i \in 1 .. Len(s.joiners) /\ j \in 1 .. Len(s.joiners)
  BY <1>2, <1>3
<1>8. Len(s.joiners) >= 2
  BY <1>1, <1>3, <1>7
<1> QED BY <1>2, <1>6, <1>8
-----------------------------------------------------------------------------
(* Type correctness *)

LEMMA SessionFields ==
    ASSUME NEW s \in Session
    PROVE  /\ s.host \in Players
           /\ s.joiners \in Seq(Players) /\ Len(s.joiners) \in Nat
           /\ DOMAIN s.joiners = 1 .. Len(s.joiners)
           /\ s.status \in Statuses
           /\ s.seat_order \in Seq(Players)
           /\ s.player_count \in Capacities
BY LenProperties DEF Session

\* The joiners left once one position is empty are joiners.
LEMMA RestFacts ==
    ASSUME NEW s \in Session, NEW i \in 1 .. Len(s.joiners)
    PROVE  /\ RemoveAt(s.joiners, i) \in Seq(Players)
           /\ Len(RemoveAt(s.joiners, i)) = Len(s.joiners) - 1
           /\ s.joiners[i] \in Players
BY RemoveAtShifts, SessionFields, ElementOfSeq

LEMMA TypeInit == Init => TypeOK
BY DEF Init, TypeOK

LEMMA TypeNext == TypeOK /\ [Next]_session => TypeOK'
<1> SUFFICES ASSUME TypeOK, [Next]_session
             PROVE  TypeOK'
  OBVIOUS
<1> USE DEF TypeOK
<1>0. session # NoSession => session \in Session
  OBVIOUS
<1>1. ASSUME NEW p \in Players, NEW n \in Capacities, Host(p, n)
      PROVE  TypeOK'
  BY <1>1 DEF Host, Session, Statuses
<1>2. ASSUME NEW p \in Players, Join(p)
      PROVE  TypeOK'
  <2>1. session \in Session
    BY <1>0, <1>2 DEF Join
  <2>2. Append(session.joiners, p) \in Seq(Players)
    BY <2>1, SessionFields, AppendFacts
  <2> QED BY <1>2, <2>1, <2>2 DEF Join, Session
<1>3. ASSUME NEW p \in Players, NEW target \in Players, TransferHost(p, target)
      PROVE  TypeOK'
  <2>1. session \in Session
    BY <1>0, <1>3 DEF TransferHost
  <2> DEFINE rest == RemoveAt(session.joiners, JoinerAt(session, target))
  <2>2. rest \in Seq(Players)
    BY <1>3, <2>1, JoinerAtFacts, RestFacts DEF TransferHost
  <2>3. Append(rest, p) \in Seq(Players)
    BY <2>2, AppendFacts
  <2> HIDE DEF rest
  <2> QED BY <1>3, <2>1, <2>3 DEF TransferHost, Session, rest
<1>4. ASSUME NEW p \in Players, NEW counted \in Counts, Start(p, counted)
      PROVE  TypeOK'
  <2>1. session \in Session
    BY <1>0, <1>4 DEF Start, StartAllowed
  <2>2. <<session.host>> \o session.joiners \in Seq(Players)
    BY <2>1, SessionFields, ConcatProperties
  <2> QED BY <1>4, <2>1, <2>2 DEF Start, Session, Statuses
<1>5. CASE Activate
  BY <1>0, <1>5 DEF Activate, Session, Statuses
<1>6. CASE EndIfWaiting \/ Delete \/ Expire
  BY <1>6 DEF EndIfWaiting, Delete, Expire
<1>7. ASSUME NEW p \in Players, RemoveJoiner(p)
      PROVE  TypeOK'
  <2>1. session \in Session
    BY <1>0, <1>7 DEF RemoveJoiner
  <2> DEFINE rest == RemoveAt(session.joiners, JoinerAt(session, p))
  <2>2. rest \in Seq(Players)
    BY <1>7, <2>1, JoinerAtFacts, RestFacts DEF RemoveJoiner
  <2> HIDE DEF rest
  <2> QED BY <1>7, <2>1, <2>2 DEF RemoveJoiner, Session, rest
<1>8. ASSUME NEW p \in Players, NEW seen \in SUBSET Players, NEW keep \in BOOLEAN,
             PromoteOrEnd(p, seen, keep)
      PROVE  TypeOK'
  <2>1. session \in Session
    BY <1>0, <1>8 DEF PromoteOrEnd, Live
  <2> DEFINE heir == OldestAt(session, seen)
             rest == RemoveAt(session.joiners, heir)
  <2>2. CASE Playable(session, seen)
    <3>1. session.joiners[heir] \in Players /\ rest \in Seq(Players)
      BY <2>1, <2>2, HeirFacts, RestFacts
    <3>2. Append(rest, p) \in Seq(Players)
      BY <3>1, AppendFacts
    <3> HIDE DEF heir, rest
    <3> QED BY <1>8, <2>1, <2>2, <3>1, <3>2 DEF PromoteOrEnd, Session, heir, rest
  <2>3. CASE ~Playable(session, seen)
    BY <1>8, <2>3 DEF PromoteOrEnd
  <2> QED BY <2>2, <2>3
<1>9. CASE UNCHANGED session
  BY <1>9
<1> QED BY <1>1, <1>2, <1>3, <1>4, <1>5, <1>6, <1>7, <1>8, <1>9 DEF Next

\* The record always has the shape the scripts expect of it.
THEOREM TypeCorrect == Spec => []TypeOK
BY TypeInit, TypeNext, PTL DEF Spec
-----------------------------------------------------------------------------
(* The roster *)

\* A sound roster, whoever's it is.
Sound(s) ==
    /\ s.host \notin ToSet(s.joiners)
    /\ Distinct(s.joiners)
    /\ 1 + Len(s.joiners) <= s.player_count

LEMMA CapacityFacts == \A n \in Capacities : n \in Nat /\ n >= 2
BY CapacityAssumption

\* The joiners but one: still distinct, and who was taken out is gone.
LEMMA RestDistinct ==
    ASSUME NEW s \in Session, Sound(s), NEW i \in 1 .. Len(s.joiners)
    PROVE  /\ Distinct(RemoveAt(s.joiners, i))
           /\ ToSet(RemoveAt(s.joiners, i)) = ToSet(s.joiners) \ {s.joiners[i]}
           /\ s.joiners[i] \in ToSet(s.joiners)
<1>1. s.joiners \in Seq(Players) /\ DOMAIN s.joiners = 1 .. Len(s.joiners)
  BY SessionFields
<1>2. s.joiners[i] \in ToSet(s.joiners)
  BY <1>1 DEF ToSet
<1> QED BY <1>1, <1>2, RemoveAtDistinct DEF Sound

LEMMA RosterInit == Init => RosterSound
BY DEF Init, RosterSound

\* Every operation that leaves a session leaves a sound one.
LEMMA RosterNext == TypeOK /\ RosterSound /\ [Next]_session => RosterSound'
<1> SUFFICES ASSUME TypeOK, RosterSound, [Next]_session, session' # NoSession
             PROVE  Sound(session')
  BY DEF RosterSound, Sound
<1>0. session # NoSession => session \in Session /\ Sound(session)
  BY DEF TypeOK, RosterSound, Sound
<1>1. ASSUME NEW p \in Players, NEW n \in Capacities, Host(p, n)
      PROVE  Sound(session')
  <2>1. /\ session'.host = p /\ session'.joiners = <<>>
        /\ session'.player_count = n
    BY <1>1 DEF Host
  <2>2. ToSet(<<>>) = {} /\ Distinct(<<>>) /\ Len(<<>>) = 0
    BY DEF ToSet, Distinct
  <2> QED BY <2>1, <2>2, CapacityFacts DEF Sound
<1>2. ASSUME NEW p \in Players, Join(p)
      PROVE  Sound(session')
  <2>1. session \in Session /\ Sound(session)
    BY <1>0, <1>2 DEF Join
  <2>2. /\ session'.host = session.host
        /\ session'.player_count = session.player_count
        /\ session'.joiners = Append(session.joiners, p)
    BY <1>2, <2>1 DEF Join, Session
  <2>3. /\ ToSet(session'.joiners) = ToSet(session.joiners) \cup {p}
        /\ Distinct(session'.joiners)
        /\ Len(session'.joiners) = Len(session.joiners) + 1
    BY <1>2, <2>1, <2>2, SessionFields, AppendFacts DEF Join, Sound
  <2>4. Len(session.joiners) \in Nat /\ session.player_count \in Nat
    BY <2>1, SessionFields, CapacityFacts
  <2> QED BY <1>2, <2>1, <2>2, <2>3, <2>4 DEF Join, Sound
<1>3. ASSUME NEW p \in Players, NEW target \in Players, TransferHost(p, target)
      PROVE  Sound(session')
  <2>1. session \in Session /\ Sound(session)
    BY <1>0, <1>3 DEF TransferHost
  <2> DEFINE i == JoinerAt(session, target)
             rest == RemoveAt(session.joiners, i)
  <2>0. i \in 1 .. Len(session.joiners) /\ session.joiners[i] = target
    BY <1>3, <2>1, JoinerAtFacts DEF TransferHost
  <2> HIDE DEF i
  <2>2. /\ rest \in Seq(Players) /\ Len(rest) = Len(session.joiners) - 1
        /\ Distinct(rest) /\ ToSet(rest) = ToSet(session.joiners) \ {target}
    BY <2>1, <2>0, RestFacts, RestDistinct
  <2> HIDE DEF rest
  <2>3. /\ session'.host = target
        /\ session'.player_count = session.player_count
        /\ session'.joiners = Append(rest, p)
    BY <1>3, <2>1 DEF TransferHost, Session, rest, i
  <2>4. p \notin ToSet(rest) /\ p # target
    BY <1>3, <2>1, <2>2 DEF TransferHost, Sound
  <2>5. /\ ToSet(session'.joiners) = ToSet(rest) \cup {p}
        /\ Distinct(session'.joiners)
        /\ Len(session'.joiners) = Len(rest) + 1
    BY <2>2, <2>3, <2>4, AppendFacts
  <2>6. Len(session.joiners) \in Nat
    BY <2>1, SessionFields
  <2> QED BY <2>1, <2>2, <2>3, <2>4, <2>5, <2>6 DEF Sound
<1>4. ASSUME NEW p \in Players, NEW counted \in Counts, Start(p, counted)
      PROVE  Sound(session')
  BY <1>0, <1>4 DEF Start, StartAllowed, Session, Sound
<1>5. CASE Activate
  BY <1>0, <1>5 DEF Activate, Session, Sound
<1>6. CASE EndIfWaiting \/ Delete \/ Expire
  BY <1>6 DEF EndIfWaiting, Delete, Expire
<1>7. ASSUME NEW p \in Players, RemoveJoiner(p)
      PROVE  Sound(session')
  <2>1. session \in Session /\ Sound(session)
    BY <1>0, <1>7 DEF RemoveJoiner
  <2> DEFINE i == JoinerAt(session, p)
             rest == RemoveAt(session.joiners, i)
  <2>0. i \in 1 .. Len(session.joiners)
    BY <1>7, <2>1, JoinerAtFacts DEF RemoveJoiner
  <2> HIDE DEF i
  <2>2. /\ Len(rest) = Len(session.joiners) - 1
        /\ Distinct(rest) /\ ToSet(rest) \subseteq ToSet(session.joiners)
    BY <2>1, <2>0, RestFacts, RestDistinct
  <2> HIDE DEF rest
  <2>3. /\ session'.host = session.host
        /\ session'.player_count = session.player_count
        /\ session'.joiners = rest
    BY <1>7, <2>1 DEF RemoveJoiner, Session, rest, i
  <2>4. Len(session.joiners) \in Nat /\ session.player_count \in Nat
    BY <2>1, SessionFields, CapacityFacts
  <2> QED BY <2>1, <2>2, <2>3, <2>4 DEF Sound
<1>8. ASSUME NEW p \in Players, NEW seen \in SUBSET Players, NEW keep \in BOOLEAN,
             PromoteOrEnd(p, seen, keep)
      PROVE  Sound(session')
  <2>1. session \in Session /\ Sound(session) /\ Playable(session, seen)
    BY <1>0, <1>8 DEF PromoteOrEnd, Live
  <2> DEFINE heir == OldestAt(session, seen)
             rest == RemoveAt(session.joiners, heir)
             next == session.joiners[heir]
  <2>2. /\ rest \in Seq(Players) /\ Len(rest) = Len(session.joiners) - 1
        /\ Distinct(rest) /\ ToSet(rest) = ToSet(session.joiners) \ {next}
        /\ next \in ToSet(session.joiners)
    BY <2>1, HeirFacts, RestFacts, RestDistinct
  <2> HIDE DEF heir, rest
  <2>3. /\ session'.host = next
        /\ session'.player_count = session.player_count
        /\ session'.joiners = IF keep THEN Append(rest, p) ELSE rest
    BY <1>8, <2>1 DEF PromoteOrEnd, Session, rest, heir
  <2>4. p \notin ToSet(rest) /\ p # next
    BY <1>8, <2>1, <2>2 DEF PromoteOrEnd, Sound
  <2> HIDE DEF next
  <2>5. /\ ToSet(Append(rest, p)) = ToSet(rest) \cup {p}
        /\ Distinct(Append(rest, p))
        /\ Len(Append(rest, p)) = Len(rest) + 1
    BY <2>2, <2>4, AppendFacts
  <2>6. Len(session.joiners) \in Nat /\ session.player_count \in Nat
    BY <2>1, SessionFields, CapacityFacts
  <2>7. CASE keep
    BY <2>1, <2>2, <2>3, <2>4, <2>5, <2>6, <2>7 DEF Sound
  <2>8. CASE ~keep
    BY <2>1, <2>2, <2>3, <2>6, <2>8 DEF Sound
  <2> QED BY <2>7, <2>8
<1>9. CASE UNCHANGED session
  BY <1>0, <1>9
<1> QED BY <1>1, <1>2, <1>3, <1>4, <1>5, <1>6, <1>7, <1>8, <1>9 DEF Next

\* Who is removed is a joiner no more; nobody else's place changes hands.
LEMMA RemovalStep ==
    ASSUME TypeOK, RosterSound, NEW p, RemoveJoiner(p), session' # NoSession
    PROVE  session'.host = session.host /\ ToSet(session'.joiners) = ToSet(session.joiners) \ {p}
<1>1. session \in Session /\ Sound(session) /\ p \in ToSet(session.joiners)
  BY DEF RemoveJoiner, TypeOK, RosterSound, Sound
<1> DEFINE i == JoinerAt(session, p)
           rest == RemoveAt(session.joiners, i)
<1>2. i \in 1 .. Len(session.joiners) /\ session.joiners[i] = p
  BY <1>1, JoinerAtFacts
<1>3. ToSet(rest) = ToSet(session.joiners) \ {p}
  BY <1>1, <1>2, RestDistinct
<1>4. session'.host = session.host /\ session'.joiners = rest
  BY <1>1 DEF RemoveJoiner, Session
<1> QED BY <1>3, <1>4

\* A promotion takes the heir from the joiners and may add the old host to them.
LEMMA PromotionStep ==
    ASSUME TypeOK, RosterSound, NEW p \in Players, NEW seen, NEW keep \in BOOLEAN,
           PromoteOrEnd(p, seen, keep), session' # NoSession
    PROVE  /\ session'.host \in ToSet(session.joiners)
           /\ ToSet(session'.joiners) \subseteq ToSet(session.joiners) \cup {p}
<1>1. session \in Session /\ Sound(session) /\ Playable(session, seen)
  BY DEF PromoteOrEnd, Live, TypeOK, RosterSound, Sound
<1> DEFINE heir == OldestAt(session, seen)
           rest == RemoveAt(session.joiners, heir)
<1>2. /\ rest \in Seq(Players) /\ ToSet(rest) \subseteq ToSet(session.joiners)
      /\ session.joiners[heir] \in ToSet(session.joiners)
  BY <1>1, HeirFacts, RestFacts, RestDistinct
<1> HIDE DEF heir, rest
<1>3. /\ session'.host = session.joiners[heir]
      /\ session'.joiners = IF keep THEN Append(rest, p) ELSE rest
  BY <1>1 DEF PromoteOrEnd, Session, rest, heir
<1>4. ToSet(Append(rest, p)) = ToSet(rest) \cup {p}
  BY <1>2, AppendFacts
<1> QED BY <1>2, <1>3, <1>4

\* No order of joins, handoffs, demotions and leaves lists a player twice, lists
\* the host among its joiners or outgrows the lobby.
THEOREM RosterSafe == Spec => []RosterSound
<1>1. TypeOK /\ RosterSound /\ [Next]_session => (TypeOK /\ RosterSound)'
  BY TypeNext, RosterNext
<1> QED BY <1>1, TypeInit, RosterInit, PTL DEF Spec
-----------------------------------------------------------------------------
(* The seating *)

Seated(s) ==
    /\ s.joiners # <<>>
    /\ Len(s.seat_order) >= MinPlayers
    /\ Distinct(s.seat_order)
    /\ Members(s) \subseteq ToSet(s.seat_order)

\* MatchSeated of one record.
SeatedIfLive(s) ==
    IF s.status = "waiting" THEN s.seat_order = <<>> ELSE Seated(s)

\* A match whose seating is kept and whose members are among those it had stays
\* seated, as long as the host is not left alone.
LEMMA StaysSeated ==
    ASSUME NEW s, NEW t, Seated(s), t.seat_order = s.seat_order, t.joiners # <<>>,
           Members(t) \subseteq Members(s)
    PROVE  Seated(t)
BY DEF Seated

LEMMA SeatedInit == Init => MatchSeated
BY DEF Init, MatchSeated

\* Start seats every member once, and nobody who joins a match was never seated.
LEMMA SeatedNext ==
    TypeOK /\ RosterSound /\ MatchSeated /\ [Next]_session => MatchSeated'
<1> SUFFICES ASSUME TypeOK, RosterSound, MatchSeated, [Next]_session,
                    session' # NoSession
             PROVE  SeatedIfLive(session')
  BY DEF MatchSeated, SeatedIfLive, Seated
<1>0. session # NoSession =>
        session \in Session /\ Sound(session) /\ SeatedIfLive(session)
  BY DEF TypeOK, RosterSound, Sound, MatchSeated, SeatedIfLive, Seated
<1>1. ASSUME NEW p \in Players, NEW n \in Capacities, Host(p, n)
      PROVE  SeatedIfLive(session')
  BY <1>1 DEF Host, SeatedIfLive
<1>2. ASSUME NEW p \in Players, Join(p)
      PROVE  SeatedIfLive(session')
  BY <1>0, <1>2 DEF Join, SeatedIfLive, Session
<1>3. ASSUME NEW p \in Players, NEW target \in Players, TransferHost(p, target)
      PROVE  SeatedIfLive(session')
  BY <1>0, <1>3 DEF TransferHost, SeatedIfLive, Session
<1>4. ASSUME NEW p \in Players, NEW counted \in Counts, Start(p, counted)
      PROVE  SeatedIfLive(session')
  <2>1. session \in Session /\ Sound(session) /\ 1 + Len(session.joiners) >= MinPlayers
    BY <1>0, <1>4 DEF Start, StartAllowed
  <2> DEFINE seats == <<session.host>> \o session.joiners
  <2>2. /\ session'.status = "starting" /\ session'.seat_order = seats
        /\ session'.joiners = session.joiners /\ session'.host = session.host
    BY <1>4, <2>1 DEF Start, Session
  <2>3. session.joiners \in Seq(Players) /\ session.host \in Players
    BY <2>1, SessionFields
  <2>4. /\ Len(seats) = Len(session.joiners) + 1 /\ Distinct(seats)
        /\ ToSet(seats) = ToSet(session.joiners) \cup {session.host}
    BY <2>1, <2>3, PrependFacts DEF Sound
  <2> HIDE DEF seats
  <2>5. Len(session.joiners) \in Nat /\ session.joiners # <<>>
    BY <2>1, SessionFields, CapacityAssumption
  <2> QED BY <2>1, <2>2, <2>4, <2>5 DEF SeatedIfLive, Seated, Members
<1>5. CASE Activate
  <2>1. session \in Session /\ Seated(session)
    BY <1>0, <1>5 DEF Activate, SeatedIfLive
  <2>2. /\ session'.seat_order = session.seat_order /\ session'.joiners = session.joiners
        /\ Members(session') = Members(session) /\ session'.status # "waiting"
    BY <1>5, <2>1 DEF Activate, Session, Members
  <2> QED BY <2>1, <2>2 DEF SeatedIfLive, Seated
<1>6. CASE EndIfWaiting \/ Delete \/ Expire
  BY <1>6 DEF EndIfWaiting, Delete, Expire
<1>7. ASSUME NEW p \in Players, RemoveJoiner(p)
      PROVE  SeatedIfLive(session')
  <2>1. session \in Session /\ Sound(session) /\ SeatedIfLive(session)
    BY <1>0, <1>7 DEF RemoveJoiner
  <2> DEFINE i == JoinerAt(session, p)
             rest == RemoveAt(session.joiners, i)
  <2>2. i \in 1 .. Len(session.joiners)
    BY <1>7, <2>1, JoinerAtFacts DEF RemoveJoiner
  <2> HIDE DEF i
  <2>3. ToSet(rest) \subseteq ToSet(session.joiners)
    BY <2>1, <2>2, RestDistinct
  <2> HIDE DEF rest
  <2>4. /\ session'.seat_order = session.seat_order /\ session'.joiners = rest
        /\ session'.host = session.host /\ session'.status = session.status
        /\ session.status # "waiting" => rest # <<>>
    BY <1>7, <2>1 DEF RemoveJoiner, Session, rest, i
  <2>5. Members(session') \subseteq Members(session)
    BY <2>3, <2>4 DEF Members
  <2> QED BY <2>1, <2>4, <2>5, StaysSeated DEF SeatedIfLive
<1>8. ASSUME NEW p \in Players, NEW seen \in SUBSET Players, NEW keep \in BOOLEAN,
             PromoteOrEnd(p, seen, keep)
      PROVE  SeatedIfLive(session')
  <2>1. /\ session \in Session /\ Sound(session) /\ Playable(session, seen)
        /\ Seated(session) /\ session.status # "waiting" /\ session.host = p
    BY <1>0, <1>8 DEF PromoteOrEnd, Live, SeatedIfLive
  <2> DEFINE heir == OldestAt(session, seen)
             rest == RemoveAt(session.joiners, heir)
             next == session.joiners[heir]
  <2>2. /\ rest \in Seq(Players) /\ Len(rest) = Len(session.joiners) - 1
        /\ ToSet(rest) \subseteq ToSet(session.joiners)
        /\ next \in ToSet(session.joiners) /\ Len(session.joiners) >= 2
    BY <2>1, HeirFacts, RestFacts, RestDistinct
  <2> HIDE DEF heir, rest
  <2>3. /\ session'.host = next /\ session'.seat_order = session.seat_order
        /\ session'.status = session.status
        /\ session'.joiners = IF keep THEN Append(rest, p) ELSE rest
    BY <1>8, <2>1 DEF PromoteOrEnd, Session, rest, heir
  <2> HIDE DEF next
  <2>4. /\ ToSet(Append(rest, p)) = ToSet(rest) \cup {p}
        /\ Len(Append(rest, p)) = Len(rest) + 1
    BY <2>2, AppendFacts
  <2>5. session'.joiners # <<>>
    BY <2>1, <2>2, <2>3, <2>4, SessionFields
  <2>6. Members(session') \subseteq Members(session)
    BY <2>1, <2>2, <2>3, <2>4 DEF Members
  <2> QED BY <2>1, <2>3, <2>5, <2>6, StaysSeated DEF SeatedIfLive
<1>9. CASE UNCHANGED session
  BY <1>0, <1>9
<1> QED BY <1>1, <1>2, <1>3, <1>4, <1>5, <1>6, <1>7, <1>8, <1>9 DEF Next

-----------------------------------------------------------------------------
(* The inductive invariant and its consequences *)

IInv == TypeOK /\ RosterSound /\ MatchSeated

LEMMA Inductive == Spec => []IInv
<1>1. Init => IInv
  BY TypeInit, RosterInit, SeatedInit DEF IInv
<1>2. IInv /\ [Next]_session => IInv'
  BY TypeNext, RosterNext, SeatedNext DEF IInv
<1> QED BY <1>1, <1>2, PTL DEF Spec

\* Every member of a live match, promoted or demoted, has a seat of its own in a
\* seating of at least MinPlayers, and the host is never left alone.
THEOREM SeatsSafe == Spec => []MatchSeated
<1>1. IInv => MatchSeated
  BY DEF IInv
<1> QED BY Inductive, <1>1, PTL

\* One step of SeatingFrozen.
FrozenStep ==
    session # NoSession /\ session' # NoSession =>
        /\ Phase(session') >= Phase(session)
        /\ session.status # "waiting" => session'.seat_order = session.seat_order

LEMMA FrozenNext == TypeOK /\ [Next]_session => FrozenStep
<1> SUFFICES ASSUME TypeOK, [Next]_session, session # NoSession, session' # NoSession
             PROVE  /\ Phase(session') >= Phase(session)
                    /\ session.status # "waiting" =>
                          session'.seat_order = session.seat_order
  BY DEF FrozenStep
<1>0. session \in Session /\ Phase(session) \in Nat
  BY DEF TypeOK, Phase
<1>1. ASSUME NEW p \in Players, NEW n \in Capacities, Host(p, n)
      PROVE  FALSE
  BY <1>1 DEF Host
<1>2. ASSUME NEW p \in Players, Join(p)
      PROVE  session'.status = session.status /\ session'.seat_order = session.seat_order
  BY <1>0, <1>2 DEF Join, Session
<1>3. ASSUME NEW p \in Players, NEW target \in Players, TransferHost(p, target)
      PROVE  session'.status = session.status /\ session'.seat_order = session.seat_order
  BY <1>0, <1>3 DEF TransferHost, Session
<1>4. ASSUME NEW p \in Players, NEW counted \in Counts, Start(p, counted)
      PROVE  session.status = "waiting" /\ session'.status = "starting"
  BY <1>0, <1>4 DEF Start, StartAllowed, Session
<1>5. CASE Activate
  <2>1. /\ session.status = "starting" /\ session'.status = "active"
        /\ session'.seat_order = session.seat_order
    BY <1>0, <1>5 DEF Activate, Session
  <2> QED BY <2>1 DEF Phase
<1>6. CASE EndIfWaiting \/ Delete \/ Expire
  BY <1>6 DEF EndIfWaiting, Delete, Expire
<1>7. ASSUME NEW p \in Players, RemoveJoiner(p)
      PROVE  session'.status = session.status /\ session'.seat_order = session.seat_order
  BY <1>0, <1>7 DEF RemoveJoiner, Session
<1>8. ASSUME NEW p \in Players, NEW seen \in SUBSET Players, NEW keep \in BOOLEAN,
             PromoteOrEnd(p, seen, keep)
      PROVE  session'.status = session.status /\ session'.seat_order = session.seat_order
  BY <1>0, <1>8 DEF PromoteOrEnd, Session
<1>9. CASE UNCHANGED session
  BY <1>0, <1>9
<1>10. session'.status = session.status =>
          Phase(session') >= Phase(session)
  BY <1>0 DEF Phase
<1>11. session.status = "waiting" /\ session'.status = "starting" =>
          Phase(session') >= Phase(session)
  BY DEF Phase
<1> QED BY <1>1, <1>2, <1>3, <1>4, <1>5, <1>6, <1>7, <1>8, <1>9, <1>10, <1>11 DEF Next

\* The seating Start froze is the seating of the whole match, and a match never
\* goes back to the lobby.
THEOREM SeatingIsFrozen == Spec => SeatingFrozen
<1>1. IInv /\ [Next]_session => [FrozenStep]_session
  BY FrozenNext DEF IInv
<1> QED BY Inductive, <1>1, PTL DEF Spec, SeatingFrozen, FrozenStep

-----------------------------------------------------------------------------
(* Seniority *)

\* Of two joiners of s that are joiners of t, the one ahead is still ahead.
KeepsOrder(s, t) ==
    \A p, q \in ToSet(s.joiners) \cap ToSet(t.joiners) :
        JoinerAt(s, p) < JoinerAt(s, q) => JoinerAt(t, p) < JoinerAt(t, q)

\* Adding joiners behind those there are keeps the order.
LEMMA PrefixKeepsOrder ==
    ASSUME NEW s \in Session, NEW t \in Session, Distinct(t.joiners),
           Len(s.joiners) <= Len(t.joiners),
           \A j \in 1 .. Len(s.joiners) : t.joiners[j] = s.joiners[j]
    PROVE  KeepsOrder(s, t)
<1>1. Len(s.joiners) \in Nat /\ Len(t.joiners) \in Nat
  BY SessionFields
<1>2. ASSUME NEW p \in ToSet(s.joiners) \cap ToSet(t.joiners)
      PROVE  JoinerAt(s, p) = JoinerAt(t, p)
  <2>1. JoinerAt(s, p) \in 1 .. Len(s.joiners) /\ s.joiners[JoinerAt(s, p)] = p
    BY JoinerAtFacts
  <2>2. JoinerAt(s, p) \in 1 .. Len(t.joiners) /\ t.joiners[JoinerAt(s, p)] = p
    BY <1>1, <2>1
  <2> QED BY <2>2, JoinerAtFacts
<1> QED BY <1>2 DEF KeepsOrder

\* So does taking one out, whatever is added behind.
LEMMA ShiftKeepsOrder ==
    ASSUME NEW s \in Session, NEW t \in Session, Distinct(t.joiners),
           NEW i \in 1 .. Len(s.joiners), s.joiners[i] \notin ToSet(t.joiners),
           Len(t.joiners) >= Len(s.joiners) - 1,
           \A j \in 1 .. (Len(s.joiners) - 1) :
              t.joiners[j] = s.joiners[IF j < i THEN j ELSE j + 1]
    PROVE  KeepsOrder(s, t)
<1> DEFINE moved(j) == IF j < i THEN j ELSE j - 1
<1>1. Len(s.joiners) \in Nat /\ Len(t.joiners) \in Nat
  BY SessionFields
<1>2. ASSUME NEW p \in ToSet(s.joiners) \cap ToSet(t.joiners)
      PROVE  /\ JoinerAt(s, p) \in 1 .. Len(s.joiners) /\ JoinerAt(s, p) # i
             /\ JoinerAt(t, p) = moved(JoinerAt(s, p))
  <2> DEFINE a == JoinerAt(s, p)
  <2>1. a \in 1 .. Len(s.joiners) /\ s.joiners[a] = p
    BY JoinerAtFacts
  <2> HIDE DEF a
  <2>2. a # i
    BY <2>1
  <2>3. moved(a) \in 1 .. (Len(s.joiners) - 1) /\ moved(a) \in 1 .. Len(t.joiners)
    BY <1>1, <2>1, <2>2
  <2>4. (IF moved(a) < i THEN moved(a) ELSE moved(a) + 1) = a
    BY <1>1, <2>1, <2>2
  <2> HIDE DEF moved
  <2>5. t.joiners[moved(a)] = p
    BY <2>1, <2>3, <2>4
  <2>6. JoinerAt(t, p) = moved(a)
    BY <2>3, <2>5, JoinerAtFacts
  <2> QED BY <2>1, <2>2, <2>6 DEF a
<1>3. \A a, b \in 1 .. Len(s.joiners) : a # i /\ b # i /\ a < b => moved(a) < moved(b)
  BY <1>1
<1> HIDE DEF moved
<1> QED BY <1>2, <1>3 DEF KeepsOrder

\* One step of SeniorityStable.
SeniorityStep ==
    session # NoSession /\ session' # NoSession => KeepsOrder(session, session')

LEMMA SeniorityNext == IInv /\ IInv' /\ [Next]_session => SeniorityStep
<1> SUFFICES ASSUME IInv, IInv', [Next]_session,
                    session # NoSession, session' # NoSession
             PROVE  KeepsOrder(session, session')
  BY DEF SeniorityStep
<1>0. /\ session \in Session /\ Sound(session)
      /\ session' \in Session /\ Sound(session')
  BY DEF IInv, TypeOK, RosterSound, Sound
<1>1. ASSUME NEW p \in Players, NEW n \in Capacities, Host(p, n)
      PROVE  FALSE
  BY <1>1 DEF Host
<1>2. ASSUME NEW p \in Players, Join(p)
      PROVE  KeepsOrder(session, session')
  <2>1. session'.joiners = Append(session.joiners, p)
    BY <1>0, <1>2 DEF Join, Session
  <2>2. /\ Len(session'.joiners) = Len(session.joiners) + 1
        /\ \A j \in 1 .. Len(session.joiners) : session'.joiners[j] = session.joiners[j]
    BY <1>0, <2>1, SessionFields, AppendFacts
  <2>3. Len(session.joiners) <= Len(session'.joiners)
    BY <1>0, <2>2, SessionFields
  <2> QED BY <1>0, <2>2, <2>3, PrefixKeepsOrder DEF Sound
<1>3. ASSUME session'.joiners = session.joiners
      PROVE  KeepsOrder(session, session')
  <2>1. Len(session.joiners) <= Len(session'.joiners)
    BY <1>0, <1>3, SessionFields
  <2> QED BY <1>0, <1>3, <2>1, PrefixKeepsOrder DEF Sound
<1>4. ASSUME NEW i \in 1 .. Len(session.joiners), NEW q \in Players,
             q \notin ToSet(session.joiners),
             \/ session'.joiners = RemoveAt(session.joiners, i)
             \/ session'.joiners = Append(RemoveAt(session.joiners, i), q)
      PROVE  KeepsOrder(session, session')
  <2> DEFINE rest == RemoveAt(session.joiners, i)
  <2>1. /\ rest \in Seq(Players) /\ Len(rest) = Len(session.joiners) - 1
        /\ \A j \in 1 .. (Len(session.joiners) - 1) :
              rest[j] = session.joiners[IF j < i THEN j ELSE j + 1]
        /\ ToSet(rest) = ToSet(session.joiners) \ {session.joiners[i]}
        /\ session.joiners[i] \in ToSet(session.joiners)
        /\ Len(session.joiners) \in Nat
    BY <1>0, RestFacts, RestDistinct, RemoveAtShifts, SessionFields
  <2> HIDE DEF rest
  <2>2. /\ Len(Append(rest, q)) = Len(rest) + 1
        /\ \A j \in 1 .. Len(rest) : Append(rest, q)[j] = rest[j]
        /\ ToSet(Append(rest, q)) = ToSet(rest) \cup {q}
    BY <2>1, AppendFacts
  <2>3. session'.joiners = rest \/ session'.joiners = Append(rest, q)
    BY <1>4 DEF rest
  <2>4. /\ Len(session'.joiners) >= Len(session.joiners) - 1
        /\ \A j \in 1 .. (Len(session.joiners) - 1) :
              session'.joiners[j] = session.joiners[IF j < i THEN j ELSE j + 1]
        /\ session.joiners[i] \notin ToSet(session'.joiners)
    <3>1. CASE session'.joiners = rest
      BY SMTT(20), <2>1, <3>1
    <3>2. CASE session'.joiners = Append(rest, q)
      <4>1. session.joiners[i] \notin ToSet(Append(rest, q))
        BY <1>4, <2>1, <2>2
      <4>2. Len(Append(rest, q)) >= Len(session.joiners) - 1
        BY <2>1, <2>2
      <4>3. \A j \in 1 .. (Len(session.joiners) - 1) :
               Append(rest, q)[j] = session.joiners[IF j < i THEN j ELSE j + 1]
        BY <2>1, <2>2
      <4> QED BY <3>2, <4>1, <4>2, <4>3
    <3> QED BY <2>3, <3>1, <3>2
  <2> QED BY <1>0, <2>4, ShiftKeepsOrder DEF Sound
<1>5. ASSUME NEW p \in Players, NEW target \in Players, TransferHost(p, target)
      PROVE  KeepsOrder(session, session')
  <2>1. JoinerAt(session, target) \in 1 .. Len(session.joiners)
    BY <1>0, <1>5, JoinerAtFacts DEF TransferHost
  <2>2. session'.joiners = Append(RemoveAt(session.joiners, JoinerAt(session, target)), p)
    BY <1>0, <1>5 DEF TransferHost, Session
  <2> QED BY <1>0, <1>4, <1>5, <2>1, <2>2 DEF TransferHost, Sound
<1>6. ASSUME NEW p \in Players, RemoveJoiner(p)
      PROVE  KeepsOrder(session, session')
  <2>1. JoinerAt(session, p) \in 1 .. Len(session.joiners)
    BY <1>0, <1>6, JoinerAtFacts DEF RemoveJoiner
  <2>2. session'.joiners = RemoveAt(session.joiners, JoinerAt(session, p))
    BY <1>0, <1>6 DEF RemoveJoiner, Session
  <2>3. session.host \in Players /\ session.host \notin ToSet(session.joiners)
    BY <1>0, SessionFields DEF Sound
  <2> QED BY <1>4, <2>1, <2>2, <2>3
<1>7. ASSUME NEW p \in Players, NEW seen \in SUBSET Players, NEW keep \in BOOLEAN,
             PromoteOrEnd(p, seen, keep)
      PROVE  KeepsOrder(session, session')
  <2> DEFINE heir == OldestAt(session, seen)
  <2>1. Playable(session, seen) /\ p \notin ToSet(session.joiners)
    BY <1>0, <1>7 DEF PromoteOrEnd, Sound
  <2>2. heir \in 1 .. Len(session.joiners)
    BY <1>0, <2>1, HeirFacts
  <2> HIDE DEF heir
  <2>3. session'.joiners = IF keep THEN Append(RemoveAt(session.joiners, heir), p)
                           ELSE RemoveAt(session.joiners, heir)
    BY <1>0, <1>7, <2>1 DEF PromoteOrEnd, Session, heir
  <2> QED BY <1>4, <2>1, <2>2, <2>3
<1>8. ASSUME NEW p \in Players, NEW counted \in Counts, Start(p, counted)
      PROVE  session'.joiners = session.joiners
  BY <1>0, <1>8 DEF Start, Session
<1>9. CASE Activate
  BY <1>0, <1>3, <1>9 DEF Activate, Session
<1>10. CASE EndIfWaiting \/ Delete \/ Expire
  BY <1>10 DEF EndIfWaiting, Delete, Expire
<1>11. CASE UNCHANGED session
  BY <1>3, <1>11
<1> QED BY <1>1, <1>2, <1>3, <1>5, <1>6, <1>7, <1>8, <1>9, <1>10, <1>11 DEF Next

\* "The oldest connected joiner" is the one that has been a joiner longest.
THEOREM SeniorityIsStable == Spec => SeniorityStable
<1>1. IInv /\ IInv' /\ [Next]_session => [SeniorityStep]_session
  BY SeniorityNext
<1> QED BY Inductive, <1>1, PTL DEF Spec, SeniorityStable, SeniorityStep, KeepsOrder
=============================================================================
