------------------------------- MODULE Accounts -------------------------------
(***************************************************************************)
(* Player accounts: a number and a secret token, issued by /register,      *)
(* wiped by the admin panel's delete, which returns the number to a pool   *)
(* for the next registration.  A ban is keyed by the number, so it must    *)
(* not outlive the account.  Every handler issues its Redis commands one   *)
(* at a time and they interleave.                                          *)
(*                                                                         *)
(* The launcher registers at every start with what its identity file       *)
(* holds, and again by itself when a rename is answered 401.  A request    *)
(* carries the identity it was made from, and its reply may find another.  *)
(*                                                                         *)
(* Tokens are numbered in the order they are drawn: 32 random bytes never  *)
(* repeat.                                                                 *)
(***************************************************************************)
EXTENDS Naturals, FiniteSets, FiniteSetsExt

CONSTANTS
    Launchers, Admins, Moderators,
    Lines,         \* a launcher's connections: as many requests of it are under way at once
    MaxNumbers,    \* bound: numbers the counter hands out
    MaxRequests,   \* bound: requests of launchers, admins and moderators
    MaxLost        \* bound: replies lost, handlers and best-effort writes that fail

Slots == Launchers \X Lines
Callers == Slots \cup Admins \cup Moderators

\* Two deletions of one number at once are outside the model: see the README.
ASSUME AccountsAssumption ==
    /\ IsFiniteSet(Callers)
    /\ {MaxNumbers, MaxRequests, MaxLost} \subseteq Nat
    /\ \A a, b \in Admins : a = b
    /\ Slots \cap Admins = {} /\ Slots \cap Moderators = {} /\ Admins \cap Moderators = {}

VARIABLES
    hash,      \* player:{n}:token_hash; 0 is no key
    username,  \* player:{n}:username: the launcher whose name it is
    banned,    \* chat:banned, with the account the ban was placed on
    freelist, counter,  \* player:freelist, player:counter
    tokens,    \* tokens drawn
    disk, identity,     \* per launcher: identity.json, and AppState's copy
    calls,     \* the requests under way
    wiped,     \* history: accounts an admin asked to delete
    spared,    \* history: accounts whose ban a failed HDEL left in place
    requests, lost      \* bounds used up

store == <<hash, username, banned, freelist, counter>>
launchers == <<disk, identity>>
bounds == <<requests, lost>>
history == <<wiped, spared>>
vars == <<store, tokens, launchers, calls, history, bounds>>

None == 0
Numbers == 1 .. MaxNumbers
Nobody == "nobody"

\* An identity, as the file keeps it.
Creds(n, t) == [number |-> n, token |-> t]
NoCreds == Creds(None, None)
NotBanned == [by |-> Nobody, token |-> None]

\* A request: the number and token it brings or hands out, and whether the process
\* that sent it still runs.
Call(pc, creds) == [pc |-> pc, number |-> creds.number, token |-> creds.token, heard |-> TRUE]
Idle == Call("idle", NoCreds)

Request == requests < MaxRequests /\ requests' = requests + 1
Lose == lost < MaxLost /\ lost' = lost + 1

At(x, pc) == calls[x].pc = pc
Of(x) == calls[x].number
Carried(x) == Creds(Of(x), calls[x].token)
Done(x) == calls' = [calls EXCEPT ![x] = Idle]
Goes(x, pc) == calls' = [calls EXCEPT ![x].pc = pc]
Draws(x, n) == calls' = [calls EXCEPT ![x] = [@ EXCEPT !.pc = "issue", !.number = n]]
Begins(x, pc, creds) == At(x, "idle") /\ Request /\ calls' = [calls EXCEPT ![x] = Call(pc, creds)]

\* validate_player: the number's key is there and is this token's.
Valid(creds) == creds # NoCreds /\ hash[creds.number] = creds.token

-----------------------------------------------------------------------------
(* The launcher asks *)

\* A start, the first one past the welcome screen: the state is what the file holds, and
\* the requests of the process before it have nobody to answer to.
Boot(s) ==
    /\ At(s, "idle") /\ Request
    /\ identity' = [identity EXCEPT ![s[1]] = disk[s[1]]]
    /\ calls' = [x \in Callers |->
                    IF x = s THEN Call("register", disk[s[1]])
                    ELSE IF x \in Slots /\ x[1] = s[1] /\ ~At(x, "idle")
                         THEN [calls[x] EXCEPT !.heard = FALSE] ELSE calls[x]]
    /\ UNCHANGED <<store, tokens, disk, history, lost>>

\* A confirmed rename is sent with the identity the state holds.
Rename(s) ==
    /\ identity[s[1]] # NoCreds
    /\ Begins(s, "rename", identity[s[1]])
    /\ UNCHANGED <<store, tokens, launchers, history, lost>>

-----------------------------------------------------------------------------
(* POST /register *)

\* A match keeps the number, anything else draws a new one.
Register(s) ==
    /\ At(s, "register")
    /\ IF Valid(Carried(s)) THEN Goes(s, "name")
       ELSE calls' = [calls EXCEPT ![s] = [@ EXCEPT !.pc = "pop", !.number = None, !.token = None]]
    /\ UNCHANGED <<store, tokens, launchers, history, bounds>>

\* Faulty: the pool is read, not popped.
Taken(n) == freelist

\* What ZPOPMIN leaves.
Left(n) == freelist \ {n}

\* ZPOPMIN: the lowest freed number, and it is gone from the pool.
Pops(s) ==
    /\ At(s, "pop")
    /\ IF freelist = {}
       THEN Goes(s, "count") /\ UNCHANGED freelist
       ELSE /\ Draws(s, Min(freelist))
            /\ freelist' = Left(Min(freelist))
    /\ UNCHANGED <<hash, username, banned, counter, tokens, launchers, history, bounds>>

Counts(s) ==
    /\ At(s, "count")
    /\ counter < MaxNumbers
    /\ counter' = counter + 1
    /\ Draws(s, counter + 1)
    /\ UNCHANGED <<hash, username, banned, freelist, tokens, launchers, history, bounds>>

Issues(s) ==
    /\ At(s, "issue")
    /\ tokens' = tokens + 1
    /\ hash' = [hash EXCEPT ![Of(s)] = tokens + 1]
    /\ calls' = [calls EXCEPT ![s] = [@ EXCEPT !.pc = "name", !.token = tokens + 1]]
    /\ UNCHANGED <<username, banned, freelist, counter, launchers, history, bounds>>

Names(s) ==
    /\ At(s, "name")
    /\ username' = [username EXCEPT ![Of(s)] = s[1]]
    /\ Goes(s, "registered")
    /\ UNCHANGED <<hash, banned, freelist, counter, tokens, launchers, history, bounds>>

\* The handler fails between its commands, or its reply is lost: a popped number is in
\* no pool any more.
RegisterFails(s) ==
    /\ \E pc \in {"register", "pop", "count", "issue", "name", "registered"} : At(s, pc)
    /\ Lose
    /\ Done(s)
    /\ UNCHANGED <<store, tokens, launchers, history, requests>>

\* register_done: the state takes the reply whatever it holds by now, then the file,
\* unless saving fails.
RegisterDone(s) ==
    /\ At(s, "registered")
    /\ IF calls[s].heard
       THEN /\ identity' = [identity EXCEPT ![s[1]] = Carried(s)]
            /\ \/ disk' = [disk EXCEPT ![s[1]] = Carried(s)] /\ UNCHANGED lost
               \/ Lose /\ UNCHANGED disk
       ELSE UNCHANGED <<launchers, lost>>
    /\ Done(s)
    /\ UNCHANGED <<store, tokens, history, requests>>

-----------------------------------------------------------------------------
(* POST /me/username *)

Admits(s) ==
    /\ At(s, "rename")
    /\ Goes(s, IF Valid(Carried(s)) THEN "write" ELSE "refused")
    /\ UNCHANGED <<store, tokens, launchers, history, bounds>>

Renames(s) ==
    /\ At(s, "write")
    /\ username' = [username EXCEPT ![Of(s)] = s[1]]
    /\ Done(s)
    /\ UNCHANGED <<hash, banned, freelist, counter, tokens, launchers, history, bounds>>

\* update_username_done, Unauthorized: the launcher registers again by itself, with
\* what the state holds now.
Heals(s) ==
    /\ At(s, "refused")
    /\ IF calls[s].heard THEN calls' = [calls EXCEPT ![s] = Call("register", identity[s[1]])]
       ELSE Done(s)
    /\ UNCHANGED <<store, tokens, launchers, history, bounds>>

RenameFails(s) ==
    /\ \E pc \in {"rename", "write", "refused"} : At(s, pc)
    /\ Lose
    /\ Done(s)
    /\ UNCHANGED <<store, tokens, launchers, history, requests>>

-----------------------------------------------------------------------------
(* POST /admin/users/delete *)

\* EXISTS on the token's key.
Deletable(n) == hash[n] # None

Delete(a, n) ==
    /\ Deletable(n)
    /\ Begins(a, "wipe", Creds(n, hash[n]))
    /\ wiped' = wiped \cup {hash[n]}
    /\ UNCHANGED <<store, tokens, launchers, spared, lost>>

\* What each command of the handler is followed by: keys, then the ban, then the pool.
\* Faulty: the number is free before its ban is dropped.
PoolFirst == [wipe |-> "recycle", recycle |-> "unban", unban |-> "idle"]

BanFirst == [wipe |-> "unban", unban |-> "recycle", recycle |-> "idle"]

Then(a) ==
    LET next == BanFirst[calls[a].pc]
    IN IF next = "idle" THEN Done(a) ELSE Goes(a, next)

Wipes(a) ==
    /\ At(a, "wipe")
    /\ hash' = [hash EXCEPT ![Of(a)] = None]
    /\ username' = [username EXCEPT ![Of(a)] = Nobody]
    /\ Then(a)
    /\ UNCHANGED <<banned, freelist, counter, tokens, launchers, history, bounds>>

Unbans(a) ==
    /\ At(a, "unban")
    /\ banned' = [banned EXCEPT ![Of(a)] = NotBanned]
    /\ Then(a)
    /\ UNCHANGED <<hash, username, freelist, counter, tokens, launchers, history, bounds>>

\* clear swallows the error, and the number is freed all the same.
UnbanFails(a) ==
    /\ At(a, "unban")
    /\ Lose
    /\ spared' = spared \cup {banned[Of(a)].token}
    /\ Then(a)
    /\ UNCHANGED <<store, tokens, launchers, wiped, requests>>

Recycles(a) ==
    /\ At(a, "recycle")
    /\ freelist' = freelist \cup {Of(a)}
    /\ Then(a)
    /\ UNCHANGED <<hash, username, banned, counter, tokens, launchers, history, bounds>>

\* The pool's write is best effort, and the handler may stop anywhere.
DeleteFails(a) ==
    /\ \E pc \in {"wipe", "unban", "recycle"} : At(a, pc)
    /\ Lose
    /\ Done(a)
    /\ UNCHANGED <<store, tokens, launchers, history, requests>>

-----------------------------------------------------------------------------
(* Bans, by number: the session's tool checks the target first, the lists page does not *)

Ban(m, n) ==
    /\ Begins(m, "ban", Creds(n, hash[n]))
    /\ UNCHANGED <<store, tokens, launchers, history, lost>>

\* HSETNX.
Bans(m) ==
    /\ At(m, "ban")
    /\ banned' = IF banned[Of(m)] = NotBanned
                 THEN [banned EXCEPT ![Of(m)] = [by |-> m, token |-> hash[Of(m)]]] ELSE banned
    /\ Done(m)
    /\ UNCHANGED <<hash, username, freelist, counter, tokens, launchers, history, bounds>>

\* HDEL, from the lists page.
Lifts(m, n) ==
    /\ banned[n] # NotBanned
    /\ Request
    /\ banned' = [banned EXCEPT ![n] = NotBanned]
    /\ UNCHANGED <<hash, username, freelist, counter, tokens, launchers, calls, history, lost>>

-----------------------------------------------------------------------------
Init ==
    /\ hash = [n \in Numbers |-> None]
    /\ username = [n \in Numbers |-> Nobody]
    /\ banned = [n \in Numbers |-> NotBanned]
    /\ freelist = {}
    /\ counter = 0
    /\ tokens = 0
    /\ disk = [l \in Launchers |-> NoCreds]
    /\ identity = disk
    /\ calls = [x \in Callers |-> Idle]
    /\ wiped = {} /\ spared = {}
    /\ requests = 0 /\ lost = 0

Step(s) ==
    \/ Boot(s) \/ Rename(s)
    \/ Register(s) \/ Pops(s) \/ Counts(s) \/ Issues(s) \/ Names(s) \/ RegisterFails(s) \/ RegisterDone(s)
    \/ Admits(s) \/ Renames(s) \/ Heals(s) \/ RenameFails(s)

AdminStep(a) ==
    \/ \E n \in Numbers : Delete(a, n)
    \/ Wipes(a) \/ Unbans(a) \/ UnbanFails(a) \/ Recycles(a) \/ DeleteFails(a)

ModeratorStep(m) == (\E n \in Numbers : Ban(m, n) \/ Lifts(m, n)) \/ Bans(m)

Next ==
    \/ \E s \in Slots : Step(s)
    \/ \E a \in Admins : AdminStep(a)
    \/ \E m \in Moderators : ModeratorStep(m)

Spec == Init /\ [][Next]_vars

-----------------------------------------------------------------------------
(* Properties *)

\* A number has one holder at most: the pool, a registration that has not issued it,
\* a deletion that has not freed it, or an account; and none above the counter has one
\* (allocate_player_number, delete_user).
HoldersOf(n) ==
    (IF n \in freelist THEN {"pool"} ELSE {})
    \cup {s \in Slots : At(s, "issue") /\ Of(s) = n}
    \cup {a \in Admins : (At(a, "unban") \/ At(a, "recycle")) /\ Of(a) = n}
    \cup (IF hash[n] # None THEN {"account"} ELSE {})

OneHolder ==
    \A n \in Numbers :
        /\ \A g, h \in HoldersOf(n) : g = h
        /\ n > counter => HoldersOf(n) = {}

\* A launcher's identity is good until an admin deletes it: no registration or deletion
\* of another account takes its number away.
IdentityLasts ==
    \A l \in Launchers : \A c \in {disk[l], identity[l]} :
        c = NoCreds \/ c.token \in wiped \/ hash[c.number] = c.token

\* A ban placed on an account never silences its successor, unless dropping it failed
\* ("one left behind would transfer to whoever /register next hands this number to").
BanStaysWithAccount ==
    \A n \in Numbers :
        banned[n].token \notin spared \cup {None} /\ hash[n] # None => banned[n].token = hash[n]

=============================================================================
