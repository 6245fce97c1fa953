---------------------------- MODULE AccountsProofs ----------------------------
(***************************************************************************)
(* Accounts, proved for any launchers, connections, moderators and number  *)
(* of registrations: a number never has two holders, a launcher's identity *)
(* lasts until an admin deletes it, and a ban does not pass to the next    *)
(* account of its number.                                                  *)
(***************************************************************************)
EXTENDS Accounts, WellFoundedInduction, TLAPS

-----------------------------------------------------------------------------
(* The invariant *)

Pcs == {"idle", "register", "pop", "count", "issue", "name", "registered", "rename", "write",
        "refused", "wipe", "unban", "recycle", "ban"}

Issued == [number : Numbers, token : Nat \ {0}]
Identities == {NoCreds} \cup Issued

\* What a call carries at a stage.
Fits(pc, n, t) ==
    /\ pc \in {"register", "rename", "refused"} => Creds(n, t) \in Identities
    /\ pc \in {"name", "registered", "write", "wipe"} => Creds(n, t) \in Issued
    /\ pc \in {"issue", "unban", "recycle", "ban"} => n \in Numbers

StoreOK ==
    /\ hash \in [Numbers -> Nat]
    /\ banned \in [Numbers -> [by : Moderators \cup {Nobody}, token : Nat]]
    /\ freelist \in SUBSET Numbers
    /\ counter \in 0 .. MaxNumbers
    /\ tokens \in Nat
    /\ disk \in [Launchers -> Identities]
    /\ identity \in [Launchers -> Identities]

TypeOK ==
    /\ StoreOK
    /\ calls \in [Callers -> [pc : Pcs, number : Nat, token : Nat, heard : BOOLEAN]]
    /\ \A x \in Callers : Fits(calls[x].pc, calls[x].number, calls[x].token)

Issuing(s, n) == At(s, "issue") /\ Of(s) = n
Freeing(a, n) == (At(a, "unban") \/ At(a, "recycle")) /\ Of(a) = n

\* Nobody has the number: not the pool, a registration, a deletion or an account.
Unclaimed(n) ==
    /\ n \notin freelist
    /\ hash[n] = None
    /\ \A s \in Slots : ~Issuing(s, n)
    /\ \A a \in Admins : ~Freeing(a, n)

\* The four holders exclude each other.
Claims ==
    /\ \A n \in Numbers :
          /\ n \in freelist =>
                /\ hash[n] = None
                /\ \A s \in Slots : ~Issuing(s, n)
                /\ \A a \in Admins : ~Freeing(a, n)
          /\ \A s, r \in Slots : Issuing(s, n) /\ Issuing(r, n) => s = r
          /\ \A s \in Slots : Issuing(s, n) =>
                hash[n] = None /\ \A a \in Admins : ~Freeing(a, n)
          /\ \A a \in Admins : Freeing(a, n) => hash[n] = None
          /\ n > counter => Unclaimed(n)
    /\ \A a \in Admins : At(a, "wipe") => hash[Of(a)] = calls[a].token

\* An identity is the account's, or was deleted by an admin.
Good(c) == c = NoCreds \/ c.token \in wiped \/ hash[c.number] = c.token

Keeps ==
    /\ \A l \in Launchers : Good(disk[l]) /\ Good(identity[l])
    /\ \A s \in Slots : At(s, "name") \/ At(s, "registered") => Good(Carried(s))
    /\ \A a \in Admins : At(a, "wipe") => calls[a].token \in wiped

\* A ban that names an account gone by now is on a number nobody can be handed.
Stale(n) == banned[n].token \notin spared \cup {None} /\ hash[n] # banned[n].token

Bound ==
    \A n \in Numbers : Stale(n) =>
        /\ hash[n] = None /\ n \notin freelist /\ n <= counter
        /\ \A s \in Slots : ~Issuing(s, n)
        /\ \A a \in Admins : ~(At(a, "recycle") /\ Of(a) = n)

-----------------------------------------------------------------------------
(* Helpers *)

\* ZPOPMIN takes a number of the pool.
LEMMA MinOfPool == ASSUME NEW S, S \subseteq Nat, S # {}
                   PROVE  Min(S) \in S
<1> DEFINE R == {ss \in Nat \X Nat : ss[1] < ss[2]}
<1>1. IsWellFoundedOn(R, Nat)
  BY NatLessThanWellFounded DEF OpToRel
<1>2. \A n, m \in Nat : n < m => <<n, m>> \in R
  OBVIOUS
<1> HIDE DEF R
<1>3. \E m \in S : \A n \in S : ~(<<n, m>> \in R)
  BY <1>1, WFMin
<1>4. \E m \in S : \A n \in S : m =< n
  <2>1. \A n, m \in S : ~(n < m) => m =< n
    OBVIOUS
  <2> QED BY <1>2, <1>3, <2>1
<1> QED BY <1>4 DEF Min

LEMMA Kinds == /\ Slots \subseteq Callers /\ Admins \subseteq Callers /\ Moderators \subseteq Callers
               /\ Slots \cap Admins = {} /\ Slots \cap Moderators = {}
               /\ Admins \cap Moderators = {}
               /\ MaxNumbers \in Nat
               /\ Numbers \subseteq Nat \ {0}
               /\ \A s \in Slots : s[1] \in Launchers
BY AccountsAssumption DEF Callers, Slots, Numbers

-----------------------------------------------------------------------------
(* What a step does to the calls *)

CallType == [pc : Pcs, number : Nat, token : Nat, heard : BOOLEAN]

\* x's call alone moves: to pc, with number n and token t.
Moves(x, pc, n, t) ==
    /\ calls' \in [Callers -> CallType]
    /\ calls'[x].pc = pc /\ calls'[x].number = n /\ calls'[x].token = t
    /\ \A y \in Callers \ {x} : /\ calls'[y].pc = calls[y].pc
                                /\ calls'[y].number = calls[y].number
                                /\ calls'[y].token = calls[y].token

Puts(x, c) == calls' = [calls EXCEPT ![x] = c]

LEMMA Sets == ASSUME calls \in [Callers -> CallType], NEW x \in Callers, NEW c \in CallType,
                     Puts(x, c)
              PROVE  Moves(x, c.pc, c.number, c.token)
BY DEF Moves, Puts

LEMMA GoesMoves == ASSUME calls \in [Callers -> CallType], NEW x \in Callers, NEW pc \in Pcs,
                          Goes(x, pc)
                   PROVE  Moves(x, pc, Of(x), calls[x].token)
<1> DEFINE c == [calls[x] EXCEPT !.pc = pc]
<1>1. c \in CallType /\ c.pc = pc /\ c.number = Of(x) /\ c.token = calls[x].token
  BY DEF CallType, Of, Pcs
<1>2. Puts(x, c)
  BY DEF Goes, Puts
<1> HIDE DEF c
<1> QED BY <1>1, <1>2, Sets

LEMMA DrawsMoves == ASSUME calls \in [Callers -> CallType], NEW x \in Callers, NEW n \in Nat,
                           Draws(x, n)
                    PROVE  Moves(x, "issue", n, calls[x].token)
<1> DEFINE c == [calls[x] EXCEPT !.pc = "issue", !.number = n]
<1>1. c \in CallType /\ c.pc = "issue" /\ c.number = n /\ c.token = calls[x].token
  BY DEF CallType, Pcs
<1>2. Puts(x, c)
  BY DEF Draws, Puts
<1> HIDE DEF c
<1> QED BY <1>1, <1>2, Sets

LEMMA CallMoves == ASSUME calls \in [Callers -> CallType], NEW x \in Callers, NEW pc \in Pcs,
                          NEW creds, creds.number \in Nat, creds.token \in Nat,
                          Puts(x, Call(pc, creds))
                   PROVE  Moves(x, pc, creds.number, creds.token)
<1> DEFINE c == Call(pc, creds)
<1>1. c \in CallType /\ c.pc = pc /\ c.number = creds.number /\ c.token = creds.token
  BY DEF CallType, Call, Pcs
<1>2. Puts(x, c)
  OBVIOUS
<1> HIDE DEF c
<1> QED BY <1>1, <1>2, Sets

LEMMA DoneMoves == ASSUME calls \in [Callers -> CallType], NEW x \in Callers, Done(x)
                   PROVE  Moves(x, "idle", 0, 0)
<1>1. Idle \in CallType /\ Idle.pc = "idle" /\ Idle.number = 0 /\ Idle.token = 0
  BY DEF Idle, Call, NoCreds, Creds, None, CallType, Pcs
<1>2. Puts(x, Idle)
  BY DEF Done, Puts
<1> QED BY <1>1, <1>2, Sets

LEMMA BootMoves == ASSUME calls \in [Callers -> CallType], NEW s \in Slots,
                          disk[s[1]].number \in Nat, disk[s[1]].token \in Nat, Boot(s)
                   PROVE  Moves(s, "register", disk[s[1]].number, disk[s[1]].token)
<1> DEFINE c == Call("register", disk[s[1]])
           Before(x) == x \in Slots /\ x[1] = s[1] /\ ~At(x, "idle")
           d(x) == [calls[x] EXCEPT !.heard = FALSE]
<1>1. c \in CallType /\ c.pc = "register" /\ c.number = disk[s[1]].number /\ c.token = disk[s[1]].token
  BY DEF CallType, Call, Pcs
<1>2. \A x \in Callers : /\ d(x) \in CallType
                         /\ d(x).pc = calls[x].pc
                         /\ d(x).number = calls[x].number
                         /\ d(x).token = calls[x].token
  BY DEF CallType, Pcs
<1>3. calls' = [x \in Callers |-> IF x = s THEN c ELSE IF Before(x) THEN d(x) ELSE calls[x]]
  BY Zenon DEF Boot
<1> HIDE DEF c, d, Before
<1> QED BY <1>1, <1>2, <1>3, Kinds DEF Moves

LEMMA IdentityType == ASSUME NEW c \in Identities
                      PROVE  c.number \in Nat /\ c.token \in Nat
<1>1. CASE c = NoCreds
  BY <1>1 DEF NoCreds, Creds, None
<1>2. CASE c \in Issued
  BY <1>2, Kinds DEF Issued
<1> QED BY <1>1, <1>2 DEF Identities

LEMMA SlotMoves ==
    ASSUME TypeOK, NEW s \in Slots
    PROVE  /\ Boot(s) => Moves(s, "register", disk[s[1]].number, disk[s[1]].token)
           /\ Rename(s) => Moves(s, "rename", identity[s[1]].number, identity[s[1]].token)
           /\ Register(s) => IF Valid(Carried(s)) THEN Moves(s, "name", Of(s), calls[s].token)
                             ELSE Moves(s, "pop", 0, 0)
           /\ Pops(s) => IF freelist = {} THEN Moves(s, "count", Of(s), calls[s].token)
                         ELSE Moves(s, "issue", Min(freelist), calls[s].token)
           /\ Counts(s) => Moves(s, "issue", counter + 1, calls[s].token)
           /\ Issues(s) => Moves(s, "name", Of(s), tokens + 1)
           /\ Names(s) => Moves(s, "registered", Of(s), calls[s].token)
           /\ RegisterFails(s) \/ RegisterDone(s) \/ Renames(s) \/ RenameFails(s) => Moves(s, "idle", 0, 0)
           /\ Admits(s) => IF Valid(Carried(s)) THEN Moves(s, "write", Of(s), calls[s].token)
                           ELSE Moves(s, "refused", Of(s), calls[s].token)
           /\ Heals(s) => \/ Moves(s, "register", identity[s[1]].number, identity[s[1]].token)
                          \/ Moves(s, "idle", 0, 0)
<1>1. calls \in [Callers -> CallType] /\ s \in Callers /\ s[1] \in Launchers
  BY Kinds DEF TypeOK, CallType
<1>2. /\ disk[s[1]] \in Identities /\ identity[s[1]] \in Identities
      /\ counter + 1 \in Nat /\ tokens + 1 \in Nat
      /\ freelist \subseteq Nat
  BY <1>1, Kinds DEF TypeOK, StoreOK
<1>3. /\ identity[s[1]].number \in Nat /\ identity[s[1]].token \in Nat
      /\ disk[s[1]].number \in Nat /\ disk[s[1]].token \in Nat
  BY <1>2, IdentityType
<1>4. Boot(s) => Moves(s, "register", disk[s[1]].number, disk[s[1]].token)
  BY <1>1, <1>3, BootMoves
<1>5. \A pc \in Pcs : Puts(s, Call(pc, identity[s[1]]))
         => Moves(s, pc, identity[s[1]].number, identity[s[1]].token)
  BY <1>1, <1>3, CallMoves
<1>6. Rename(s) => Moves(s, "rename", identity[s[1]].number, identity[s[1]].token)
  <2>1. Rename(s) => Puts(s, Call("rename", identity[s[1]]))
    BY Zenon DEF Rename, Begins, Puts
  <2> QED BY <1>5, <2>1 DEF Pcs
<1>7. Register(s) => IF Valid(Carried(s)) THEN Moves(s, "name", Of(s), calls[s].token)
                     ELSE Moves(s, "pop", 0, 0)
  <2>1. CASE Valid(Carried(s))
    BY <1>1, <2>1, GoesMoves DEF Pcs, Register
  <2>2. CASE ~Valid(Carried(s)) /\ Register(s)
    <3> DEFINE c == [calls[s] EXCEPT !.pc = "pop", !.number = None, !.token = None]
    <3>1. c \in CallType /\ c.pc = "pop" /\ c.number = 0 /\ c.token = 0
      BY <1>1 DEF CallType, None, Pcs
    <3>2. Puts(s, c)
      BY <2>2, Zenon DEF Puts, Register
    <3> HIDE DEF c
    <3>3. Moves(s, "pop", 0, 0)
      BY <1>1, <3>1, <3>2, Sets
    <3> QED BY <2>2, <3>3
  <2> QED BY <2>1, <2>2
<1>8. Pops(s) => IF freelist = {} THEN Moves(s, "count", Of(s), calls[s].token)
                 ELSE Moves(s, "issue", Min(freelist), calls[s].token)
  <2>1. CASE freelist = {}
    BY <1>1, <2>1, GoesMoves DEF Pcs, Pops
  <2>2. CASE freelist # {}
    <3>1. Min(freelist) \in Nat
      BY <1>2, <2>2, MinOfPool
    <3>2. Pops(s) => Draws(s, Min(freelist))
      BY <2>2 DEF Pops
    <3> QED BY <1>1, <2>2, <3>1, <3>2, DrawsMoves
  <2> QED BY <2>1, <2>2
<1>9. Counts(s) => Moves(s, "issue", counter + 1, calls[s].token)
  BY <1>1, <1>2, DrawsMoves DEF Counts
<1>10. Issues(s) => Moves(s, "name", Of(s), tokens + 1)
  <2> SUFFICES ASSUME Issues(s) PROVE Moves(s, "name", Of(s), tokens + 1)
    OBVIOUS
  <2> DEFINE c == [calls[s] EXCEPT !.pc = "name", !.token = tokens + 1]
  <2>1. c \in CallType /\ c.pc = "name" /\ c.number = Of(s) /\ c.token = tokens + 1
    BY <1>1, <1>2 DEF CallType, Of, Pcs
  <2>2. Puts(s, c)
    BY Zenon DEF Puts, Issues
  <2> HIDE DEF c
  <2> QED BY <1>1, <2>1, <2>2, Sets
<1>11. Names(s) => Moves(s, "registered", Of(s), calls[s].token)
  BY <1>1, GoesMoves DEF Pcs, Names
<1>12. RegisterFails(s) \/ RegisterDone(s) \/ Renames(s) \/ RenameFails(s) => Moves(s, "idle", 0, 0)
  BY <1>1, DoneMoves DEF RegisterFails, RegisterDone, Renames, RenameFails
<1>13. Admits(s) => IF Valid(Carried(s)) THEN Moves(s, "write", Of(s), calls[s].token)
                    ELSE Moves(s, "refused", Of(s), calls[s].token)
  <2>1. CASE Valid(Carried(s))
    BY <1>1, <2>1, GoesMoves DEF Pcs, Admits
  <2>2. CASE ~Valid(Carried(s))
    BY <1>1, <2>2, GoesMoves DEF Pcs, Admits
  <2> QED BY <2>1, <2>2
<1>14. Heals(s) => \/ Moves(s, "register", identity[s[1]].number, identity[s[1]].token)
                   \/ Moves(s, "idle", 0, 0)
  <2>1. Heals(s) => Puts(s, Call("register", identity[s[1]])) \/ Done(s)
    BY Zenon DEF Heals, Puts
  <2> QED BY <1>1, <1>5, <2>1, DoneMoves DEF Pcs
<1> QED BY <1>4, <1>6, <1>7, <1>8, <1>9, <1>10, <1>11, <1>12, <1>13, <1>14

LEMMA OfficeMoves ==
    ASSUME TypeOK, NEW x \in Admins \cup Moderators
    PROVE  /\ \A n \in Numbers : Delete(x, n) => Moves(x, "wipe", n, hash[n])
           /\ Wipes(x) => Moves(x, "unban", Of(x), calls[x].token)
           /\ Unbans(x) \/ UnbanFails(x) => Moves(x, "recycle", Of(x), calls[x].token)
           /\ Recycles(x) \/ DeleteFails(x) \/ Bans(x) => Moves(x, "idle", 0, 0)
           /\ \A n \in Numbers : Ban(x, n) => Moves(x, "ban", n, hash[n])
<1>1. calls \in [Callers -> CallType] /\ x \in Callers
  BY Kinds DEF TypeOK, CallType
<1>2. \A n \in Numbers : /\ Creds(n, hash[n]).number \in Nat /\ Creds(n, hash[n]).token \in Nat
                         /\ Creds(n, hash[n]).number = n /\ Creds(n, hash[n]).token = hash[n]
  BY Kinds DEF TypeOK, StoreOK, Creds
<1>3. \A n \in Numbers : /\ Delete(x, n) => Puts(x, Call("wipe", Creds(n, hash[n])))
                         /\ Ban(x, n) => Puts(x, Call("ban", Creds(n, hash[n])))
  BY Zenon DEF Delete, Ban, Begins, Puts
<1>4. \A n \in Numbers : /\ Delete(x, n) => Moves(x, "wipe", n, hash[n])
                         /\ Ban(x, n) => Moves(x, "ban", n, hash[n])
  BY <1>1, <1>2, <1>3, CallMoves DEF Pcs
<1>5. At(x, "wipe") /\ Then(x) => Goes(x, "unban")
  BY DEF At, Then, BanFirst
<1>6. At(x, "unban") /\ Then(x) => Goes(x, "recycle")
  BY DEF At, Then, BanFirst
<1>7. At(x, "recycle") /\ Then(x) => Done(x)
  BY DEF At, Then, BanFirst
<1>8. Wipes(x) => Moves(x, "unban", Of(x), calls[x].token)
  BY <1>1, <1>5, GoesMoves DEF Pcs, Wipes
<1>9. Unbans(x) \/ UnbanFails(x) => Moves(x, "recycle", Of(x), calls[x].token)
  BY <1>1, <1>6, GoesMoves DEF Pcs, Unbans, UnbanFails
<1>10. Recycles(x) \/ DeleteFails(x) \/ Bans(x) => Moves(x, "idle", 0, 0)
  BY <1>1, <1>7, DoneMoves DEF Recycles, DeleteFails, Bans
<1> QED BY <1>4, <1>8, <1>9, <1>10

-----------------------------------------------------------------------------
(* Types *)

LEMMA TypeInit == Init => TypeOK
<1> SUFFICES ASSUME Init PROVE TypeOK
  OBVIOUS
<1>1. Idle \in CallType /\ Idle.pc = "idle"
  BY DEF Idle, Call, NoCreds, Creds, None, CallType, Pcs
<1>2. calls \in [Callers -> CallType] /\ \A x \in Callers : calls[x].pc = "idle"
  BY <1>1 DEF Init
<1>3. \A n, t : Fits("idle", n, t)
  BY DEF Fits
<1>4. NotBanned \in [by : Moderators \cup {Nobody}, token : Nat]
  BY DEF NotBanned, None
<1> QED BY <1>2, <1>3, <1>4, Kinds DEF Init, TypeOK, StoreOK, CallType, Identities, None

\* A call that moves to a stage it fits keeps the types.
LEMMA MoveKeepsTypes ==
    ASSUME TypeOK, NEW x \in Callers, NEW pc \in Pcs, NEW n, NEW t, Moves(x, pc, n, t), Fits(pc, n, t),
           StoreOK'
    PROVE  TypeOK'
<1>1. \A y \in Callers \ {x} : Fits(calls'[y].pc, calls'[y].number, calls'[y].token)
  BY DEF TypeOK, Moves
<1>2. Fits(calls'[x].pc, calls'[x].number, calls'[x].token)
  BY DEF Moves
<1>3. calls' \in [Callers -> CallType]
  BY DEF Moves
<1> QED BY <1>1, <1>2, <1>3 DEF TypeOK, CallType

LEMMA SameCreds == \A c \in Identities : Creds(c.number, c.token) = c
<1>1. \A c \in Issued : Creds(c.number, c.token) = c
  BY DEF Issued, Creds
<1>2. Creds(NoCreds.number, NoCreds.token) = NoCreds
  BY DEF NoCreds, Creds
<1> QED BY <1>1, <1>2 DEF Identities

\* A number and token the store holds are an account's.
LEMMA ValidIsIssued == ASSUME TypeOK, NEW c \in Identities, Valid(c) PROVE c \in Issued
BY DEF Identities, Valid

LEMMA TypeSlot == ASSUME TypeOK, NEW s \in Slots, Step(s) PROVE TypeOK'
<1>0. /\ s \in Callers /\ s[1] \in Launchers /\ StoreOK
      /\ Fits(calls[s].pc, Of(s), calls[s].token)
  BY Kinds DEF TypeOK, Of
<1>a. /\ disk[s[1]] \in Identities /\ Creds(disk[s[1]].number, disk[s[1]].token) \in Identities
      /\ identity[s[1]] \in Identities
      /\ Creds(identity[s[1]].number, identity[s[1]].token) \in Identities
  BY <1>0, SameCreds DEF StoreOK
<1>b. \A n, t : Fits("idle", n, t) /\ Fits("pop", n, t) /\ Fits("count", n, t)
  BY DEF Fits
<1>c. \A pc \in Pcs : \A n, t : Moves(s, pc, n, t) /\ Fits(pc, n, t) /\ StoreOK' => TypeOK'
  BY <1>0, MoveKeepsTypes
<1>1. CASE Boot(s)
  <2>1. Fits("register", disk[s[1]].number, disk[s[1]].token)
    BY <1>a DEF Fits
  <2>2. StoreOK'
    BY <1>0, <1>1, <1>a DEF Boot, store, StoreOK
  <2> QED BY <1>1, <1>c, <2>1, <2>2, SlotMoves DEF Pcs
<1>2. CASE Rename(s)
  <2>1. Fits("rename", identity[s[1]].number, identity[s[1]].token)
    BY <1>a DEF Fits
  <2>2. StoreOK'
    BY <1>0, <1>2 DEF Rename, store, launchers, StoreOK
  <2> QED BY <1>2, <1>c, <2>1, <2>2, SlotMoves DEF Pcs
<1>3. CASE Register(s)
  <2>1. Valid(Carried(s)) => Fits("name", Of(s), calls[s].token)
    <3>1. Carried(s) \in Identities
      BY <1>0, <1>3 DEF Register, At, Fits, Carried
    <3> QED BY <3>1, ValidIsIssued DEF Fits, Carried
  <2>2. StoreOK'
    BY <1>0, <1>3 DEF Register, store, launchers, StoreOK
  <2> QED BY <1>3, <1>b, <1>c, <2>1, <2>2, SlotMoves DEF Pcs
<1>4. CASE Pops(s)
  <2>1. freelist # {} => Min(freelist) \in freelist
    BY <1>0, Kinds, MinOfPool DEF StoreOK
  <2>2. freelist # {} => Fits("issue", Min(freelist), calls[s].token)
    BY <1>0, <2>1 DEF Fits, StoreOK
  <2>3. StoreOK'
    BY <1>0, <1>4 DEF Pops, Left, launchers, StoreOK
  <2> QED BY <1>4, <1>b, <1>c, <2>2, <2>3, SlotMoves DEF Pcs
<1>5. CASE Counts(s)
  <2>1. counter + 1 \in Numbers /\ counter + 1 \in 0 .. MaxNumbers
    BY <1>0, <1>5, Kinds DEF Counts, StoreOK, Numbers
  <2>2. Fits("issue", counter + 1, calls[s].token)
    BY <2>1 DEF Fits
  <2>3. StoreOK'
    BY <1>0, <1>5, <2>1 DEF Counts, launchers, StoreOK
  <2> QED BY <1>5, <1>c, <2>2, <2>3, SlotMoves DEF Pcs
<1>6. CASE Issues(s)
  <2>1. tokens + 1 \in Nat \ {0} /\ Of(s) \in Numbers
    BY <1>0, <1>6 DEF Issues, At, Fits, StoreOK
  <2>2. Fits("name", Of(s), tokens + 1)
    BY <2>1 DEF Fits, Creds, Issued
  <2>3. StoreOK'
    BY <1>0, <1>6, <2>1 DEF Issues, launchers, StoreOK
  <2> QED BY <1>6, <1>c, <2>2, <2>3, SlotMoves DEF Pcs
<1>7. CASE Names(s)
  <2>1. Fits("registered", Of(s), calls[s].token)
    BY <1>0, <1>7 DEF Names, At, Fits
  <2>2. StoreOK'
    BY <1>0, <1>7 DEF Names, launchers, StoreOK
  <2> QED BY <1>7, <1>c, <2>1, <2>2, SlotMoves DEF Pcs
<1>8. CASE RegisterFails(s) \/ Renames(s) \/ RenameFails(s)
  <2>1. StoreOK'
    BY <1>0, <1>8 DEF RegisterFails, Renames, RenameFails, store, launchers, StoreOK
  <2> QED BY <1>8, <1>b, <1>c, <2>1, SlotMoves DEF Pcs
<1>9. CASE RegisterDone(s)
  <2>1. Carried(s) \in Identities
    BY <1>0, <1>9 DEF RegisterDone, At, Fits, Carried, Identities
  <2>2. StoreOK'
    BY <1>0, <1>9, <2>1 DEF RegisterDone, store, launchers, StoreOK
  <2> QED BY <1>9, <1>b, <1>c, <2>2, SlotMoves DEF Pcs
<1>10. CASE Admits(s)
  <2>1. Carried(s) \in Identities
    BY <1>0, <1>10 DEF Admits, At, Fits, Carried
  <2>2. Fits("refused", Of(s), calls[s].token)
    BY <2>1 DEF Fits, Carried
  <2>3. Valid(Carried(s)) => Fits("write", Of(s), calls[s].token)
    BY <2>1, ValidIsIssued DEF Fits, Carried
  <2>4. StoreOK'
    BY <1>0, <1>10 DEF Admits, store, launchers, StoreOK
  <2> QED BY <1>10, <1>c, <2>2, <2>3, <2>4, SlotMoves DEF Pcs
<1>11. CASE Heals(s)
  <2>1. Fits("register", identity[s[1]].number, identity[s[1]].token)
    BY <1>a DEF Fits
  <2>2. StoreOK'
    BY <1>0, <1>11 DEF Heals, store, launchers, StoreOK
  <2> QED BY <1>11, <1>b, <1>c, <2>1, <2>2, SlotMoves DEF Pcs
<1> QED BY <1>1, <1>2, <1>3, <1>4, <1>5, <1>6, <1>7, <1>8, <1>9, <1>10, <1>11 DEF Step

LEMMA TypeOffice ==
    ASSUME TypeOK, NEW x \in Admins \cup Moderators
    PROVE  /\ AdminStep(x) => TypeOK'
           /\ x \in Moderators /\ ModeratorStep(x) => TypeOK'
<1>0. x \in Callers /\ StoreOK /\ Fits(calls[x].pc, Of(x), calls[x].token)
  BY Kinds DEF TypeOK, Of
<1>b. \A n, t : Fits("idle", n, t)
  BY DEF Fits
<1>c. \A pc \in Pcs : \A n, t : Moves(x, pc, n, t) /\ Fits(pc, n, t) /\ StoreOK' => TypeOK'
  BY <1>0, MoveKeepsTypes
<1>1. ASSUME NEW n \in Numbers, Delete(x, n)
      PROVE  TypeOK'
  <2>1. Fits("wipe", n, hash[n])
    BY <1>0, <1>1 DEF Delete, Deletable, Fits, Creds, Issued, StoreOK, None
  <2>2. StoreOK'
    BY <1>0, <1>1 DEF Delete, store, launchers, StoreOK
  <2> QED BY <1>1, <1>c, <2>1, <2>2, OfficeMoves DEF Pcs
<1>2. CASE Wipes(x)
  <2>1. Of(x) \in Numbers
    BY <1>0, <1>2 DEF Wipes, At, Fits, Issued, Creds
  <2>2. Fits("unban", Of(x), calls[x].token)
    BY <2>1 DEF Fits
  <2>3. StoreOK'
    BY <1>0, <1>2, <2>1 DEF Wipes, launchers, StoreOK, None
  <2> QED BY <1>2, <1>c, <2>2, <2>3, OfficeMoves DEF Pcs
<1>3. CASE Unbans(x) \/ UnbanFails(x)
  <2>1. Of(x) \in Numbers
    BY <1>0, <1>3 DEF Unbans, UnbanFails, At, Fits
  <2>2. Fits("recycle", Of(x), calls[x].token)
    BY <2>1 DEF Fits
  <2>3. StoreOK'
    BY <1>0, <1>3, <2>1 DEF Unbans, UnbanFails, launchers, store, StoreOK, None, NotBanned
  <2> QED BY <1>3, <1>c, <2>2, <2>3, OfficeMoves DEF Pcs
<1>4. CASE Recycles(x) \/ DeleteFails(x)
  <2>1. Recycles(x) => Of(x) \in Numbers
    BY <1>0, <1>4 DEF Recycles, At, Fits
  <2>2. StoreOK'
    BY <1>0, <1>4, <2>1 DEF Recycles, DeleteFails, launchers, store, StoreOK
  <2> QED BY <1>4, <1>b, <1>c, <2>2, OfficeMoves DEF Pcs
<1>5. ASSUME NEW n \in Numbers, Ban(x, n)
      PROVE  TypeOK'
  <2>1. Fits("ban", n, hash[n])
    BY DEF Fits
  <2>2. StoreOK'
    BY <1>0, <1>5 DEF Ban, store, launchers, StoreOK
  <2> QED BY <1>5, <1>c, <2>1, <2>2, OfficeMoves DEF Pcs
<1>6. CASE Bans(x) /\ x \in Moderators
  <2>1. Of(x) \in Numbers
    BY <1>0, <1>6 DEF Bans, At, Fits
  <2>2. StoreOK'
    BY <1>0, <1>6, <2>1 DEF Bans, launchers, StoreOK
  <2> QED BY <1>6, <1>b, <1>c, <2>2, OfficeMoves DEF Pcs
<1>7. ASSUME NEW n \in Numbers, Lifts(x, n)
      PROVE  TypeOK'
  BY <1>0, <1>7 DEF Lifts, launchers, NotBanned, None, TypeOK, StoreOK
<1> QED BY <1>1, <1>2, <1>3, <1>4, <1>5, <1>6, <1>7 DEF AdminStep, ModeratorStep

LEMMA TypeNext == TypeOK /\ [Next]_vars => TypeOK'
<1>1. TypeOK /\ UNCHANGED vars => TypeOK'
  BY DEF vars, store, launchers, TypeOK, StoreOK
<1>2. ASSUME TypeOK, Next
      PROVE  TypeOK'
  <2>1. ASSUME NEW s \in Slots, Step(s) PROVE TypeOK'
    BY <1>2, <2>1, TypeSlot
  <2>2. ASSUME NEW a \in Admins, AdminStep(a) PROVE TypeOK'
    BY <1>2, <2>2, TypeOffice
  <2>3. ASSUME NEW m \in Moderators, ModeratorStep(m) PROVE TypeOK'
    BY <1>2, <2>3, TypeOffice
  <2> QED BY <1>2, <2>1, <2>2, <2>3 DEF Next
<1> QED BY <1>1, <1>2

-----------------------------------------------------------------------------
(* A number has one holder *)

LEMMA ClaimsInit == Init => Claims
<1> SUFFICES ASSUME Init PROVE Claims
  OBVIOUS
<1>1. \A x \in Callers : calls[x].pc = "idle"
  BY DEF Init, Idle, Call
<1> QED BY <1>1, Kinds DEF Init, Claims, Unclaimed, Issuing, Freeing, At

\* The claims of everybody else, when x's call moves.
Elsewhere(x) ==
    /\ \A s \in Slots \ {x}, n \in Numbers : Issuing(s, n)' <=> Issuing(s, n)
    /\ \A a \in Admins \ {x}, n \in Numbers : Freeing(a, n)' <=> Freeing(a, n)
    /\ \A a \in Admins \ {x} : (At(a, "wipe")' <=> At(a, "wipe")) /\ Of(a)' = Of(a)
                               /\ (calls[a].token)' = calls[a].token

LEMMA MovesElsewhere == ASSUME NEW x \in Callers, NEW pc, NEW n, NEW t, Moves(x, pc, n, t)
                        PROVE  Elsewhere(x)
BY Kinds DEF Moves, Elsewhere, Issuing, Freeing, At, Of

LEMMA ClaimsSlot == ASSUME TypeOK, Claims, NEW s \in Slots, Step(s) PROVE Claims'
<1>0. /\ s \in Callers /\ s \notin Admins /\ StoreOK
      /\ Fits(calls[s].pc, Of(s), calls[s].token)
  BY Kinds DEF TypeOK, Of
<1>a. \A pc, n, t : Moves(s, pc, n, t) => /\ Elsewhere(s)
                                          /\ \A m : Issuing(s, m)' <=> pc = "issue" /\ m = n
  BY <1>0, MovesElsewhere DEF Moves, Issuing, At, Of
<1>1. CASE \/ Boot(s) \/ Rename(s) \/ Register(s) \/ Names(s) \/ RegisterFails(s) \/ RegisterDone(s)
           \/ Admits(s) \/ Renames(s) \/ Heals(s) \/ RenameFails(s)
  <2>1. Elsewhere(s) /\ \A n : ~Issuing(s, n)'
    <3>1. \E pc \in Pcs \ {"issue"} : \E n, t : Moves(s, pc, n, t)
      BY <1>1, SlotMoves DEF Pcs
    <3> QED BY <1>a, <3>1
  <2>2. UNCHANGED <<hash, freelist, counter>>
    BY <1>1 DEF Boot, Rename, Register, Names, RegisterFails, RegisterDone, Admits, Renames,
                Heals, RenameFails, store
  <2> QED BY <1>0, <2>1, <2>2 DEF Claims, Unclaimed, Elsewhere
<1>2. CASE Pops(s)
  <2>1. CASE freelist = {}
    <3>1. Elsewhere(s) /\ \A n : ~Issuing(s, n)'
      BY <1>2, <1>a, <2>1, SlotMoves
    <3> QED BY <1>0, <1>2, <2>1, <3>1 DEF Pops, Claims, Unclaimed, Elsewhere
  <2>2. CASE freelist # {}
    <3>1. Min(freelist) \in freelist /\ Min(freelist) \in Numbers
      BY <1>0, <2>2, Kinds, MinOfPool DEF StoreOK
    <3>2. Elsewhere(s) /\ \A n : Issuing(s, n)' <=> n = Min(freelist)
      BY <1>2, <1>a, <2>2, SlotMoves
    <3>3. UNCHANGED <<hash, counter>> /\ freelist' = freelist \ {Min(freelist)}
      BY <1>2, <2>2 DEF Pops, Left
    <3> HIDE DEF Claims
    <3>4. \A n \in Numbers : ~Issuing(s, n)
      BY <1>2 DEF Pops, Issuing, At
    <3> QED BY <1>0, <3>1, <3>2, <3>3, <3>4 DEF Claims, Unclaimed, Elsewhere
  <2> QED BY <2>1, <2>2
<1>3. CASE Counts(s)
  <2>1. counter + 1 \in Numbers /\ counter \in Nat /\ \A n \in Numbers : n \in Nat
    BY <1>0, <1>3, Kinds DEF Counts, StoreOK, Numbers
  <2>2. Elsewhere(s) /\ \A n : Issuing(s, n)' <=> n = counter + 1
    BY <1>3, <1>a, SlotMoves
  <2>3. UNCHANGED <<hash, freelist>> /\ counter' = counter + 1
    BY <1>3 DEF Counts
  <2>4. Unclaimed(counter + 1) /\ \A n \in Numbers : n > counter + 1 => n > counter
    BY <2>1 DEF Claims
  <2> QED BY <1>0, <2>1, <2>2, <2>3, <2>4 DEF Claims, Unclaimed, Elsewhere
<1>4. CASE Issues(s)
  <2>1. Issuing(s, Of(s)) /\ Of(s) \in Numbers
    BY <1>0, <1>4 DEF Issues, Issuing, At, Fits
  <2>2. Elsewhere(s) /\ \A n : ~Issuing(s, n)'
    BY <1>4, <1>a, SlotMoves
  <2>3. /\ UNCHANGED <<freelist, counter>> /\ tokens + 1 # None
        /\ hash' = [hash EXCEPT ![Of(s)] = tokens + 1] /\ hash \in [Numbers -> Nat]
    BY <1>0, <1>4 DEF Issues, StoreOK, None
  <2>4. \A a \in Admins : At(a, "wipe") => Of(a) # Of(s)
    <3> SUFFICES ASSUME NEW a \in Admins, At(a, "wipe"), Of(a) = Of(s) PROVE FALSE
      OBVIOUS
    <3>1. hash[Of(a)] = calls[a].token /\ hash[Of(s)] = None
      BY <2>1 DEF Claims
    <3>2. calls[a].token # None
      BY Kinds DEF TypeOK, At, Fits, Creds, Issued, None
    <3> QED BY <3>1, <3>2
  <2>5. \A a \in Admins : At(a, "wipe") => Of(a) \in Numbers
    BY Kinds DEF TypeOK, At, Fits, Creds, Issued, Of
  <2> QED BY <1>0, <2>1, <2>2, <2>3, <2>4, <2>5 DEF Claims, Unclaimed, Elsewhere
<1> QED BY <1>1, <1>2, <1>3, <1>4 DEF Step

LEMMA ClaimsAdmin == ASSUME TypeOK, Claims, NEW a \in Admins, AdminStep(a) PROVE Claims'
<1>0. /\ a \in Callers /\ a \notin Slots /\ StoreOK
      /\ Fits(calls[a].pc, Of(a), calls[a].token)
      /\ \A b \in Admins : b = a
  BY Kinds, AccountsAssumption DEF TypeOK, Of
<1>a. \A pc, n, t : Moves(a, pc, n, t) =>
         /\ Elsewhere(a)
         /\ \A m : Freeing(a, m)' <=> pc \in {"unban", "recycle"} /\ m = n
         /\ At(a, "wipe")' <=> pc = "wipe"
         /\ Of(a)' = n /\ (calls[a].token)' = t
  BY <1>0, MovesElsewhere DEF Moves, Freeing, At, Of
<1>1. ASSUME NEW n \in Numbers, Delete(a, n)
      PROVE  Claims'
  <2>1. Moves(a, "wipe", n, hash[n])
    BY <1>1, OfficeMoves
  <2>2. /\ Elsewhere(a) /\ \A m : ~Freeing(a, m)'
        /\ Of(a)' = n /\ (calls[a].token)' = hash[n]
    BY <1>a, <2>1
  <2>3. UNCHANGED <<hash, freelist, counter>>
    BY <1>1 DEF Delete, store
  <2> QED BY <1>0, <2>2, <2>3 DEF Claims, Unclaimed, Elsewhere
<1>2. CASE Wipes(a)
  <2>1. Moves(a, "unban", Of(a), calls[a].token)
    BY <1>2, OfficeMoves
  <2>2. /\ Elsewhere(a) /\ ~At(a, "wipe")'
        /\ \A m : Freeing(a, m)' <=> m = Of(a)
    BY <1>a, <2>1
  <2>3. /\ UNCHANGED <<freelist, counter>>
        /\ hash' = [hash EXCEPT ![Of(a)] = None] /\ hash \in [Numbers -> Nat]
    BY <1>0, <1>2 DEF Wipes, StoreOK
  <2>4. At(a, "wipe") /\ Of(a) \in Numbers /\ hash[Of(a)] # None
    BY <1>0, <1>2 DEF Wipes, At, Fits, Issued, Creds, Claims, None
  <2> QED BY <1>0, <2>2, <2>3, <2>4 DEF Claims, Unclaimed, Elsewhere
<1>3. CASE Unbans(a) \/ UnbanFails(a)
  <2>1. Moves(a, "recycle", Of(a), calls[a].token)
    BY <1>3, OfficeMoves
  <2>2. /\ Elsewhere(a) /\ ~At(a, "wipe")'
        /\ \A m : Freeing(a, m)' <=> m = Of(a)
    BY <1>a, <2>1
  <2>3. Freeing(a, Of(a)) /\ \A m : Freeing(a, m) <=> m = Of(a)
    BY <1>3 DEF Unbans, UnbanFails, Freeing
  <2>4. UNCHANGED <<hash, freelist, counter>>
    BY <1>3 DEF Unbans, UnbanFails, store
  <2> QED BY <1>0, <2>2, <2>3, <2>4 DEF Claims, Unclaimed, Elsewhere
<1>4. CASE Recycles(a) \/ DeleteFails(a)
  <2>1. Moves(a, "idle", 0, 0)
    BY <1>4, OfficeMoves
  <2>2. Elsewhere(a) /\ ~At(a, "wipe")' /\ \A m : ~Freeing(a, m)'
    BY <1>a, <2>1
  <2>3. CASE Recycles(a)
    <3>1. Freeing(a, Of(a)) /\ Of(a) \in Numbers
      BY <1>0, <2>3 DEF Recycles, Freeing, At, Fits
    <3>2. UNCHANGED <<hash, counter>> /\ freelist' = freelist \cup {Of(a)}
      BY <2>3 DEF Recycles
    <3> QED BY <1>0, <2>2, <3>1, <3>2 DEF Claims, Unclaimed, Elsewhere
  <2>4. CASE DeleteFails(a)
    <3>1. UNCHANGED <<hash, freelist, counter>>
      BY <2>4 DEF DeleteFails, store
    <3> QED BY <1>0, <2>2, <3>1 DEF Claims, Unclaimed, Elsewhere
  <2> QED BY <1>4, <2>3, <2>4
<1> QED BY <1>1, <1>2, <1>3, <1>4 DEF AdminStep

LEMMA ClaimsModerator == ASSUME TypeOK, Claims, NEW m \in Moderators, ModeratorStep(m)
                         PROVE  Claims'
<1>1. UNCHANGED <<hash, freelist, counter>>
  BY DEF ModeratorStep, Ban, Bans, Lifts, store
<1>2. m \in Callers /\ m \notin Slots /\ m \notin Admins
  BY Kinds
<1>3. Elsewhere(m)
  <2>1. ASSUME NEW n \in Numbers, Ban(m, n) PROVE Elsewhere(m)
    BY <1>2, <2>1, OfficeMoves, MovesElsewhere
  <2>2. CASE Bans(m)
    BY <1>2, <2>2, OfficeMoves, MovesElsewhere
  <2>3. ASSUME NEW n \in Numbers, Lifts(m, n) PROVE Elsewhere(m)
    BY <2>3 DEF Lifts, Elsewhere, Issuing, Freeing, At, Of
  <2> QED BY <2>1, <2>2, <2>3 DEF ModeratorStep
<1> QED BY <1>1, <1>2, <1>3 DEF Claims, Unclaimed, Elsewhere

LEMMA ClaimsNext == TypeOK /\ Claims /\ [Next]_vars => Claims'
<1>1. Claims /\ UNCHANGED vars => Claims'
  BY DEF vars, store, Claims, Unclaimed, Issuing, Freeing, At, Of
<1>2. TypeOK /\ Claims /\ Next => Claims'
  BY ClaimsSlot, ClaimsAdmin, ClaimsModerator DEF Next
<1> QED BY <1>1, <1>2

LEMMA ClaimsMeanOneHolder == Claims => OneHolder
<1> SUFFICES ASSUME Claims, NEW n \in Numbers
             PROVE  /\ \A g, h \in HoldersOf(n) : g = h
                    /\ n > counter => HoldersOf(n) = {}
  BY DEF OneHolder
<1>1. \A a, b \in Admins : a = b
  BY AccountsAssumption
<1> QED BY <1>1 DEF Claims, HoldersOf, Unclaimed, Issuing, Freeing

-----------------------------------------------------------------------------
(* An identity lasts *)

LEMMA KeepsInit == Init => Keeps
<1> SUFFICES ASSUME Init PROVE Keeps
  OBVIOUS
<1>1. \A x \in Callers : calls[x].pc = "idle"
  BY DEF Init, Idle, Call
<1> QED BY <1>1, Kinds DEF Init, Keeps, Good, At

\* The keys that may change hold no identity's token, unless an admin asked for it.
LEMMA GoodStays ==
    ASSUME TypeOK, wiped \subseteq wiped',
           \A n \in Numbers : \/ hash'[n] = hash[n] 
                              \/ hash[n] = None
                              \/ hash[n] \in wiped'
    PROVE  \A c \in Identities : Good(c) => Good(c)'
<1> SUFFICES ASSUME NEW c \in Identities, Good(c) PROVE Good(c)'
  OBVIOUS
<1>1. CASE c = NoCreds
  BY <1>1 DEF Good
<1>2. CASE c \in Issued
  BY <1>2 DEF Good, Issued, None
<1> QED BY <1>1, <1>2 DEF Identities

LEMMA KeepsSlot == ASSUME TypeOK, Claims, Keeps, NEW s \in Slots, Step(s) PROVE Keeps'
<1>0. /\ s \in Callers /\ s \notin Admins /\ s[1] \in Launchers /\ StoreOK
      /\ Fits(calls[s].pc, Of(s), calls[s].token)
      /\ wiped' = wiped
  BY Kinds DEF TypeOK, Of, Step, Boot, Rename, Register, Pops, Counts, Issues, Names, RegisterFails,
               RegisterDone, Admits, Renames, Heals, RenameFails, history
<1>a. \A pc, n, t : Moves(s, pc, n, t) =>
         /\ (At(s, "name") \/ At(s, "registered"))' <=> pc \in {"name", "registered"}
         /\ Carried(s)' = Creds(n, t)
         /\ \A r \in Slots \ {s} : /\ (At(r, "name") \/ At(r, "registered"))'
                                         <=> At(r, "name") \/ At(r, "registered")
                                   /\ Carried(r)' = Carried(r)
         /\ \A a \in Admins : /\ At(a, "wipe")' <=> At(a, "wipe")
                              /\ (calls[a].token)' = calls[a].token
  BY <1>0, Kinds DEF Moves, At, Of, Carried
<1>b. /\ \A r \in Slots : At(r, "name") \/ At(r, "registered") => Carried(r) \in Identities
      /\ \A l \in Launchers : disk[l] \in Identities /\ identity[l] \in Identities
  BY <1>0, Kinds DEF TypeOK, StoreOK, At, Fits, Carried, Of, Identities
<1>c. ASSUME \A c \in Identities : Good(c) => Good(c)',
             NEW pc, NEW n, NEW t, Moves(s, pc, n, t),
             pc \in {"name", "registered"} => Good(Creds(n, t))',
             \A l \in Launchers : Good(disk[l])' /\ Good(identity[l])'
      PROVE  Keeps'
  <2>1. \A r \in Slots : (At(r, "name") \/ At(r, "registered"))' => Good(Carried(r))'
    <3> SUFFICES ASSUME NEW r \in Slots, (At(r, "name") \/ At(r, "registered"))'
                 PROVE  Good(Carried(r))'
      OBVIOUS
    <3>1. CASE r = s
      BY <1>a, <1>c, <3>1 DEF Good
    <3>2. CASE r # s
      <4>1. Good(Carried(r)) /\ Carried(r) \in Identities /\ Carried(r)' = Carried(r)
        BY <1>a, <1>b, <1>c, <3>2 DEF Keeps
      <4> QED BY <1>c, <4>1 DEF Good
    <3> QED BY <3>1, <3>2
  <2>2. \A a \in Admins : At(a, "wipe")' => (calls[a].token)' \in wiped'
    BY <1>0, <1>a, <1>c DEF Keeps
  <2> QED BY <1>c, <2>1, <2>2 DEF Keeps
<1>1. CASE Boot(s)
  <2>1. UNCHANGED <<hash, disk>> /\ identity' = [identity EXCEPT ![s[1]] = disk[s[1]]]
    BY <1>1 DEF Boot, store
  <2>2. \A c : Good(c) => Good(c)'
    BY <1>0, <2>1 DEF Good
  <2>3. \A l \in Launchers : Good(disk[l])' /\ Good(identity[l])'
    <3> SUFFICES ASSUME NEW l \in Launchers PROVE Good(disk[l])' /\ Good(identity[l])'
      OBVIOUS
    <3>1. disk'[l] = disk[l] /\ identity'[l] \in {disk[l], identity[l]}
      BY <1>0, <2>1 DEF StoreOK
    <3> QED BY <1>0, <2>1, <3>1 DEF Keeps, Good
  <2> QED BY <1>1, <1>c, <2>2, <2>3, SlotMoves
<1>2. CASE Rename(s) \/ Register(s) \/ Pops(s) \/ Counts(s) \/ Names(s) \/ RegisterFails(s)
           \/ Admits(s) \/ Renames(s) \/ Heals(s) \/ RenameFails(s)
  <2>1. UNCHANGED <<hash, disk, identity>>
    BY <1>2 DEF Rename, Register, Pops, Counts, Names, RegisterFails, Admits, Renames, Heals,
                RenameFails, store, launchers
  <2>2. \A c : Good(c) <=> Good(c)'
    BY <1>0, <2>1 DEF Good
  <2>3. \A l \in Launchers : Good(disk[l])' /\ Good(identity[l])'
    BY <1>0, <2>1, <2>2 DEF Keeps, Good
  <2>4. \E pc, n, t : Moves(s, pc, n, t) /\ (pc \in {"name", "registered"} => Good(Creds(n, t)))
    <3>1. CASE Register(s)
      <4>1. CASE Valid(Carried(s))
        <5>1. Good(Creds(Of(s), calls[s].token))
          BY <4>1 DEF Valid, Good, Carried
        <5> QED BY <3>1, <4>1, <5>1, SlotMoves
      <4> QED BY <3>1, <4>1, SlotMoves
    <3>2. CASE Names(s)
      <4>1. Good(Creds(Of(s), calls[s].token))
        BY <3>2 DEF Names, Keeps, Carried
      <4> QED BY <3>2, <4>1, SlotMoves
    <3> QED BY <1>2, <3>1, <3>2, SlotMoves
  <2> QED BY <1>c, <2>2, <2>3, <2>4
<1>3. CASE Issues(s)
  <2>1. /\ UNCHANGED <<disk, identity>>
        /\ hash' = [hash EXCEPT ![Of(s)] = tokens + 1]
        /\ Of(s) \in Numbers /\ hash[Of(s)] = None
    BY <1>0, <1>3, Kinds DEF Issues, launchers, At, Fits, Claims, Issuing
  <2>2. \A c \in Identities : Good(c) => Good(c)'
    BY <1>0, <2>1, GoodStays DEF StoreOK
  <2>3. \A l \in Launchers : Good(disk[l])' /\ Good(identity[l])'
    BY <1>b, <2>1, <2>2 DEF Keeps, Good
  <2>4. \A n, t : n = Of(s) /\ t = tokens + 1 => Good(Creds(n, t))'
    BY <1>0, <2>1 DEF Good, Creds, StoreOK
  <2> QED BY <1>3, <1>c, <2>2, <2>3, <2>4, SlotMoves
<1>4. CASE RegisterDone(s)
  <2>1. UNCHANGED hash /\ Good(Carried(s))
    BY <1>4 DEF RegisterDone, store, Keeps
  <2>2. \A c : Good(c) => Good(c)'
    BY <1>0, <2>1 DEF Good
  <2>3. \A l \in Launchers : Good(disk[l])' /\ Good(identity[l])'
    <3> SUFFICES ASSUME NEW l \in Launchers PROVE Good(disk[l])' /\ Good(identity[l])'
      OBVIOUS
    <3>1. disk'[l] \in {disk[l], Carried(s)} /\ identity'[l] \in {identity[l], Carried(s)}
      BY <1>0, <1>4 DEF RegisterDone, launchers, StoreOK
    <3> QED BY <1>0, <2>1, <3>1 DEF Keeps, Good
  <2> QED BY <1>4, <1>c, <2>2, <2>3, SlotMoves
<1> QED BY <1>1, <1>2, <1>3, <1>4 DEF Step

LEMMA KeepsAdmin == ASSUME TypeOK, Claims, Keeps, NEW a \in Admins, AdminStep(a) PROVE Keeps'
<1>0. /\ a \in Callers /\ a \notin Slots /\ StoreOK /\ UNCHANGED launchers
      /\ Fits(calls[a].pc, Of(a), calls[a].token)
      /\ \A b \in Admins : b = a
  BY Kinds, AccountsAssumption DEF TypeOK, Of, AdminStep, Delete, Wipes, Unbans, UnbanFails,
                                   Recycles, DeleteFails
<1>a. \A pc, n, t : Moves(a, pc, n, t) =>
         /\ At(a, "wipe")' <=> pc = "wipe"
         /\ (calls[a].token)' = t
         /\ \A r \in Slots : /\ (At(r, "name") \/ At(r, "registered"))'
                                   <=> At(r, "name") \/ At(r, "registered")
                             /\ Carried(r)' = Carried(r)
  BY <1>0, Kinds DEF Moves, At, Of, Carried
<1>b. /\ \A r \in Slots : At(r, "name") \/ At(r, "registered") => Carried(r) \in Identities
      /\ \A l \in Launchers : disk[l] \in Identities /\ identity[l] \in Identities
  BY <1>0, Kinds DEF TypeOK, StoreOK, At, Fits, Carried, Of, Identities
<1>c. ASSUME \A c \in Identities : Good(c) => Good(c)',
             NEW pc, NEW n, NEW t, Moves(a, pc, n, t),
             pc = "wipe" => t \in wiped'
      PROVE  Keeps'
  <2>1. \A r \in Slots : (At(r, "name") \/ At(r, "registered"))' => Good(Carried(r))'
    BY <1>a, <1>b, <1>c DEF Keeps, Good
  <2>2. \A l \in Launchers : Good(disk[l])' /\ Good(identity[l])'
    BY <1>0, <1>b, <1>c DEF Keeps, Good, launchers
  <2> QED BY <1>0, <1>a, <1>c, <2>1, <2>2 DEF Keeps
<1>1. ASSUME NEW n \in Numbers, Delete(a, n)
      PROVE  Keeps'
  <2>1. UNCHANGED hash /\ wiped' = wiped \cup {hash[n]}
    BY <1>1 DEF Delete, store
  <2>2. \A c \in Identities : Good(c) => Good(c)'
    BY <2>1 DEF Good
  <2> QED BY <1>1, <1>c, <2>1, <2>2, OfficeMoves
<1>2. CASE Wipes(a)
  <2>1. /\ hash' = [hash EXCEPT ![Of(a)] = None] /\ wiped' = wiped
        /\ Of(a) \in Numbers /\ hash[Of(a)] \in wiped
    BY <1>0, <1>2 DEF Wipes, history, At, Fits, Issued, Creds, Claims, Keeps
  <2>2. \A c \in Identities : Good(c) => Good(c)'
    BY <1>0, <2>1, GoodStays DEF StoreOK
  <2> QED BY <1>2, <1>c, <2>2, OfficeMoves
<1>3. CASE Unbans(a) \/ UnbanFails(a) \/ Recycles(a) \/ DeleteFails(a)
  <2>1. UNCHANGED hash /\ wiped' = wiped
    BY <1>3 DEF Unbans, UnbanFails, Recycles, DeleteFails, store, history
  <2>2. \A c \in Identities : Good(c) => Good(c)'
    BY <2>1 DEF Good
  <2> QED BY <1>3, <1>c, <2>2, OfficeMoves
<1> QED BY <1>1, <1>2, <1>3 DEF AdminStep

LEMMA KeepsModerator == ASSUME Keeps, NEW m \in Moderators, ModeratorStep(m), TypeOK
                        PROVE  Keeps'
<1>1. UNCHANGED <<hash, disk, identity, wiped>>
  BY DEF ModeratorStep, Ban, Bans, Lifts, store, launchers, history
<1>2. \A y \in Slots \cup Admins : /\ calls'[y].pc = calls[y].pc /\ calls'[y].number = calls[y].number
                                   /\ calls'[y].token = calls[y].token
  <2>1. ASSUME NEW pc, NEW n, NEW t, Moves(m, pc, n, t) PROVE <1>2
    BY <2>1, Kinds DEF Moves
  <2>2. ASSUME NEW n \in Numbers, Ban(m, n) PROVE <1>2
    BY <2>1, <2>2, OfficeMoves
  <2>3. CASE Bans(m)
    BY <2>1, <2>3, OfficeMoves
  <2>4. ASSUME NEW n \in Numbers, Lifts(m, n) PROVE <1>2
    BY <2>4 DEF Lifts
  <2> QED BY <2>2, <2>3, <2>4 DEF ModeratorStep
<1> QED BY <1>1, <1>2 DEF Keeps, Good, At, Of, Carried

LEMMA KeepsNext == TypeOK /\ Claims /\ Keeps /\ [Next]_vars => Keeps'
<1>1. Keeps /\ UNCHANGED vars => Keeps'
  BY DEF vars, store, launchers, history, Keeps, Good, At, Of, Carried
<1>2. TypeOK /\ Claims /\ Keeps /\ Next => Keeps'
  BY KeepsSlot, KeepsAdmin, KeepsModerator DEF Next
<1> QED BY <1>1, <1>2

-----------------------------------------------------------------------------
(* A ban stays with its account *)

LEMMA BoundInit == Init => Bound
BY DEF Init, Bound, Stale, NotBanned, None

LEMMA BoundSlot == ASSUME TypeOK, Claims, Bound, NEW s \in Slots, Step(s) PROVE Bound'
<1>0. /\ s \in Callers /\ s \notin Admins /\ StoreOK
      /\ Fits(calls[s].pc, Of(s), calls[s].token)
      /\ banned' = banned /\ spared' = spared
  BY Kinds DEF TypeOK, Of, Step, Boot, Rename, Register, Pops, Counts, Issues, Names, RegisterFails,
               RegisterDone, Admits, Renames, Heals, RenameFails, history, store
<1>a. \A pc, n, t : Moves(s, pc, n, t) =>
         /\ \A r \in Slots \ {s} : \A m : Issuing(r, m)' <=> Issuing(r, m)
         /\ \A m : Issuing(s, m)' <=> pc = "issue" /\ m = n
         /\ \A a \in Admins : At(a, "recycle")' <=> At(a, "recycle")
         /\ \A a \in Admins : Of(a)' = Of(a)
  BY <1>0, Kinds DEF Moves, Issuing, At, Of
<1>1. CASE \/ Boot(s) \/ Rename(s) \/ Register(s) \/ Names(s) \/ RegisterFails(s) \/ RegisterDone(s)
           \/ Admits(s) \/ Renames(s) \/ Heals(s) \/ RenameFails(s)
  <2>1. UNCHANGED <<hash, freelist, counter>>
    BY <1>1 DEF Boot, Rename, Register, Names, RegisterFails, RegisterDone, Admits, Renames,
                Heals, RenameFails, store
  <2>2. \E pc \in Pcs \ {"issue"} : \E n, t : Moves(s, pc, n, t)
    BY <1>1, SlotMoves DEF Pcs
  <2> QED BY <1>0, <1>a, <2>1, <2>2 DEF Bound, Stale
<1>2. CASE Pops(s)
  <2>1. CASE freelist = {}
    BY <1>0, <1>2, <1>a, <2>1, SlotMoves DEF Pops, Bound, Stale
  <2>2. CASE freelist # {}
    <3>1. Min(freelist) \in freelist /\ Min(freelist) \in Numbers
      BY <1>0, <2>2, Kinds, MinOfPool DEF StoreOK
    <3>2. /\ UNCHANGED <<hash, counter>> /\ freelist' = freelist \ {Min(freelist)}
          /\ Moves(s, "issue", Min(freelist), calls[s].token)
      BY <1>2, <2>2, SlotMoves DEF Pops, Left
    <3> QED BY <1>0, <1>a, <3>1, <3>2 DEF Bound, Stale
  <2> QED BY <2>1, <2>2
<1>3. CASE Counts(s)
  <2>1. /\ UNCHANGED <<hash, freelist>> /\ counter' = counter + 1 /\ counter \in Nat
        /\ Moves(s, "issue", counter + 1, calls[s].token)
    BY <1>0, <1>3, Kinds, SlotMoves DEF Counts, StoreOK
  <2>2. \A n \in Numbers : n \in Nat /\ (n <= counter => n <= counter + 1 /\ n # counter + 1)
    <3>1. Numbers \subseteq Nat
      BY Kinds
    <3>2. \A n \in Nat : n <= counter => n <= counter + 1 /\ n # counter + 1
      <4> HIDE DEF Numbers
      <4>1. counter \in Nat
        BY <2>1
      <4> QED BY ONLY <4>1
    <3> QED BY <3>1, <3>2
  <2>3. \A n \in Numbers : Stale(n)' <=> Stale(n)
    BY <1>0, <2>1 DEF Stale
  <2>4. \A r \in Slots, n \in Numbers : Issuing(r, n)' => Issuing(r, n) \/ n = counter + 1
    BY <1>a, <2>1
  <2>5. \A a \in Admins, n \in Numbers : (At(a, "recycle") /\ Of(a) = n)' <=> At(a, "recycle") /\ Of(a) = n
    BY <1>a, <2>1
  <2> QED BY <2>1, <2>2, <2>3, <2>4, <2>5 DEF Bound
<1>4. CASE Issues(s)
  <2>1. /\ hash' = [hash EXCEPT ![Of(s)] = tokens + 1] /\ UNCHANGED <<freelist, counter>>
        /\ Issuing(s, Of(s)) /\ Of(s) \in Numbers
        /\ Moves(s, "name", Of(s), tokens + 1)
    BY <1>0, <1>4, SlotMoves DEF Issues, Issuing, At, Fits
  <2>2. ~Stale(Of(s)) /\ hash[Of(s)] = None
    BY <2>1 DEF Bound, Claims
  <2>3. \A n \in Numbers : Stale(n)' => n # Of(s) /\ Stale(n) /\ hash'[n] = hash[n]
    BY <1>0, <2>1, <2>2 DEF Stale, StoreOK
  <2> QED BY <1>0, <1>a, <2>1, <2>3 DEF Bound
<1> QED BY <1>1, <1>2, <1>3, <1>4 DEF Step

LEMMA BoundAdmin == ASSUME TypeOK, Claims, Bound, NEW a \in Admins, AdminStep(a) PROVE Bound'
<1>0. /\ a \in Callers /\ a \notin Slots /\ StoreOK /\ counter' = counter
      /\ Fits(calls[a].pc, Of(a), calls[a].token)
      /\ \A b \in Admins : b = a
  BY Kinds, AccountsAssumption DEF TypeOK, Of, AdminStep, Delete, Wipes, Unbans, UnbanFails,
                                   Recycles, DeleteFails, store
<1>a. \A pc, n, t : Moves(a, pc, n, t) =>
         /\ \A s \in Slots : \A m : Issuing(s, m)' <=> Issuing(s, m)
         /\ At(a, "recycle")' <=> pc = "recycle"
         /\ Of(a)' = n
  BY <1>0, Kinds DEF Moves, Issuing, At, Of
<1>1. ASSUME NEW n \in Numbers, Delete(a, n)
      PROVE  Bound'
  <2>1. UNCHANGED <<hash, banned, freelist, spared>> /\ Moves(a, "wipe", n, hash[n])
    BY <1>1, OfficeMoves DEF Delete, store
  <2> QED BY <1>0, <1>a, <2>1 DEF Bound, Stale
<1>2. CASE Wipes(a)
  <2>1. /\ hash' = [hash EXCEPT ![Of(a)] = None] /\ UNCHANGED <<banned, freelist, spared>>
        /\ Of(a) \in Numbers /\ hash[Of(a)] # None
        /\ Moves(a, "unban", Of(a), calls[a].token)
    BY <1>0, <1>2, OfficeMoves DEF Wipes, history, At, Fits, Issued, Creds, Claims, None
  <2>2. /\ Of(a) \notin freelist /\ Of(a) <= counter
        /\ \A s \in Slots : ~Issuing(s, Of(a))
    <3>1. ~(Of(a) > counter) /\ Of(a) \notin freelist /\ \A s \in Slots : ~Issuing(s, Of(a))
      BY <2>1 DEF Claims, Unclaimed
    <3>2. counter \in Nat
      BY <1>0, Kinds DEF StoreOK
    <3>3. \A n \in Numbers : ~(n > counter) => n <= counter
      BY <3>2, Kinds
    <3> QED BY <2>1, <3>1, <3>3
  <2>3. \A n \in Numbers \ {Of(a)} : Stale(n)' <=> Stale(n)
    BY <1>0, <2>1 DEF Stale, StoreOK
  <2> QED BY <1>0, <1>a, <2>1, <2>2, <2>3 DEF Bound, StoreOK
<1>3. CASE Unbans(a) \/ UnbanFails(a)
  <2>1. /\ UNCHANGED <<hash, freelist>> /\ Of(a) \in Numbers
        /\ Moves(a, "recycle", Of(a), calls[a].token)
    BY <1>0, <1>3, OfficeMoves DEF Unbans, UnbanFails, store, At, Fits
  <2>2. \A n \in Numbers : Stale(n)' => Stale(n) /\ n # Of(a)
    <3>1. CASE Unbans(a)
      <4>1. /\ spared' = spared /\ banned' = [banned EXCEPT ![Of(a)] = NotBanned]
            /\ NotBanned.token = None
        BY <3>1 DEF Unbans, history, NotBanned
      <4> QED BY <1>0, <2>1, <4>1 DEF Stale, StoreOK
    <3>2. CASE UnbanFails(a)
      <4>1. banned' = banned /\ spared' = spared \cup {banned[Of(a)].token}
        BY <3>2 DEF UnbanFails, store
      <4> QED BY <1>0, <2>1, <4>1 DEF Stale
    <3> QED BY <1>3, <3>1, <3>2
  <2> QED BY <1>0, <1>a, <2>1, <2>2 DEF Bound
<1>4. CASE Recycles(a)
  <2>1. /\ UNCHANGED <<hash, banned, spared>> /\ freelist' = freelist \cup {Of(a)}
        /\ Of(a) \in Numbers /\ At(a, "recycle")
        /\ Moves(a, "idle", 0, 0)
    BY <1>0, <1>4, OfficeMoves DEF Recycles, history, At, Fits
  <2>2. ~Stale(Of(a))
    BY <2>1 DEF Bound
  <2> QED BY <1>0, <1>a, <2>1, <2>2 DEF Bound, Stale
<1>5. CASE DeleteFails(a)
  <2>1. UNCHANGED <<hash, banned, freelist, spared>> /\ Moves(a, "idle", 0, 0)
    BY <1>5, OfficeMoves DEF DeleteFails, store, history
  <2> QED BY <1>0, <1>a, <2>1 DEF Bound, Stale
<1> QED BY <1>1, <1>2, <1>3, <1>4, <1>5 DEF AdminStep

LEMMA BoundModerator == ASSUME TypeOK, Bound, NEW m \in Moderators, ModeratorStep(m)
                        PROVE  Bound'
<1>0. StoreOK /\ UNCHANGED <<hash, freelist, counter, spared>> /\ m \notin Slots /\ m \notin Admins
  BY Kinds DEF TypeOK, ModeratorStep, Ban, Bans, Lifts, store, history
<1>1. /\ \A s \in Slots, n \in Numbers : Issuing(s, n)' <=> Issuing(s, n)
      /\ \A a \in Admins : (At(a, "recycle")' <=> At(a, "recycle")) /\ Of(a)' = Of(a)
  <2>1. \A y \in Slots \cup Admins : calls'[y].pc = calls[y].pc /\ calls'[y].number = calls[y].number
    <3>1. ASSUME NEW pc, NEW n, NEW t, Moves(m, pc, n, t) PROVE <2>1
      BY <1>0, <3>1, Kinds DEF Moves
    <3>2. ASSUME NEW n \in Numbers, Ban(m, n) PROVE <2>1
      BY <3>1, <3>2, OfficeMoves
    <3>3. CASE Bans(m)
      BY <3>1, <3>3, OfficeMoves
    <3>4. ASSUME NEW n \in Numbers, Lifts(m, n) PROVE <2>1
      BY <3>4 DEF Lifts
    <3> QED BY <3>2, <3>3, <3>4 DEF ModeratorStep
  <2> QED BY <2>1 DEF Issuing, At, Of
<1>2. \A n \in Numbers : Stale(n)' => Stale(n)
  <2>1. ASSUME NEW k \in Numbers, Ban(m, k) PROVE <1>2
    BY <1>0, <2>1 DEF Ban, store, Stale
  <2>2. CASE Bans(m)
    BY <1>0, <2>2 DEF Bans, Stale, StoreOK
  <2>3. ASSUME NEW k \in Numbers, Lifts(m, k) PROVE <1>2
    BY <1>0, <2>3 DEF Lifts, Stale, StoreOK, NotBanned
  <2> QED BY <2>1, <2>2, <2>3 DEF ModeratorStep
<1> QED BY <1>0, <1>1, <1>2 DEF Bound

LEMMA BoundNext == TypeOK /\ Claims /\ Bound /\ [Next]_vars => Bound'
<1>1. Bound /\ UNCHANGED vars => Bound'
  BY DEF vars, store, history, Bound, Stale, Issuing, At, Of
<1>2. TypeOK /\ Claims /\ Bound /\ Next => Bound'
  BY BoundSlot, BoundAdmin, BoundModerator DEF Next
<1> QED BY <1>1, <1>2

-----------------------------------------------------------------------------
(* The theorems *)

IInv == TypeOK /\ Claims /\ Keeps /\ Bound

LEMMA Inductive == Spec => []IInv
<1>1. Init => IInv
  BY TypeInit, ClaimsInit, KeepsInit, BoundInit DEF IInv
<1>2. IInv /\ [Next]_vars => IInv'
  BY TypeNext, ClaimsNext, KeepsNext, BoundNext DEF IInv
<1> QED BY <1>1, <1>2, PTL DEF Spec

\* /register and the admin's delete never leave one number with two holders.
THEOREM NumbersHaveOneHolder == Spec => []OneHolder
<1>1. IInv => OneHolder
  BY ClaimsMeanOneHolder DEF IInv
<1> QED BY Inductive, <1>1, PTL

\* No registration, rename or deletion of another takes an account from its launcher,
\* whatever replies were lost and whatever the file holds.
THEOREM IdentitiesLast == Spec => []IdentityLasts
<1>1. IInv => IdentityLasts
  BY DEF IInv, Keeps, Good, IdentityLasts
<1> QED BY Inductive, <1>1, PTL

\* The next holder of a number is not silenced by a ban on the one before.
THEOREM BansStayWithAccounts == Spec => []BanStaysWithAccount
<1>1. IInv => BanStaysWithAccount
  BY DEF IInv, Bound, Stale, BanStaysWithAccount
<1> QED BY Inductive, <1>1, PTL
=============================================================================
