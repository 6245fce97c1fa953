------------------------------ MODULE MatchFlow ------------------------------
(***************************************************************************)
(* One game client's way through a session: MatchFlow's state machine over *)
(* its signaling socket, its mesh and its chat log, against the server as  *)
(* one client sees it.                                                     *)
(*                                                                         *)
(* The client is single-threaded (Godot's main loop): a frame, a mesh      *)
(* event, a timer or an answered request is one action.  The server half   *)
(* is what SessionServer's tasks do to this client's session, without the  *)
(* races inside the server.  Frames are first-in first-out on one socket   *)
(* and are lost with it.                                                   *)
(***************************************************************************)
EXTENDS Naturals, Sequences, FiniteSets, SequencesExt

CONSTANTS
    Me, Peers,     \* this player and the others of the session
    CarryLimit,    \* ChatLog.CarryLimit
    MaxDrops,      \* bound: lost sockets and failed polls
    MaxDeaths,     \* bound: deaths of the client's process
    MaxSessions,   \* bound: sessions entered from the menus
    MaxEvents      \* bound: drops, deaths and chat lines together

ASSUME MeAssumption == Me \notin Peers
ASSUME LimitAssumption ==
    {CarryLimit, MaxDrops, MaxDeaths, MaxSessions, MaxEvents} \subseteq Nat

VARIABLES
    flow,       \* MatchFlow.State
    isRejoin,   \* MatchFlow.IsRejoin
    error,      \* LastFlowError is set
    transport,  \* MatchFlow.Transport # null
    expected, connected, failed,  \* MatchFlow's per-peer sets
    readySent,
    links,      \* the data channel to each peer
    sock,       \* the signaling socket
    sig,        \* SignalingClient's flags
    poll,       \* the lobby poll in flight
    chat,       \* ChatLog._entries
    up, down,   \* frames of the live socket, to and from the server
    late,       \* frames of a closed socket that may still reach the server
    srv,        \* the session on the server
    spent,      \* bounds used up
    heard       \* history: chat lines received since the log was last empty

meshVars == <<transport, expected, connected, failed, readySent, links>>
clientVars == <<flow, isRejoin, error, meshVars, sig, poll, chat, heard>>
netVars == <<sock, up, down, late>>
flowVars == <<clientVars, netVars, srv, spent>>

States == {"Idle", "InLobby", "Preparing", "InMatch", "PostMatch"}
Legal == [Idle |-> {"InLobby", "Preparing"}, InLobby |-> {"Preparing", "Idle"},
          Preparing |-> {"InMatch", "Idle"}, InMatch |-> {"PostMatch", "Idle"},
          PostMatch |-> {"Idle"}]

Everyone == {Me} \cup Peers
NoPoll == [code |-> 0, answer |-> "none"]
NoSig == [on |-> FALSE, rejoin |-> FALSE, reconnecting |-> FALSE]
Live == srv.status \in {"starting", "active"}

-----------------------------------------------------------------------------
(* What the pieces of a handler do *)

\* Bound: whether one more drop, death or chat line is looked at.
RoomForMore == srv.lines + spent.drops + spent.deaths < MaxEvents

Spend(what) == spent' = [spent EXCEPT ![what] = @ + 1]

Frame(type) == [t |-> type]

\* The server's frame reaches this client only through the socket it has bound.
Pushed(frames) == IF srv.bound = "live" THEN down \o frames ELSE down

\* Opening replaces no socket: CloseSignaling or an Idle flow came first.
OpenSignaling(rejoin) ==
    /\ sig' = [on |-> TRUE, rejoin |-> rejoin, reconnecting |-> FALSE]
    /\ sock' = "connecting"
    /\ up' = <<>> /\ down' = <<>>

\* What the server may still get of a socket that closes, and its view of it.
SocketGone(more) ==
    /\ \E got \in SUBSET (({up[i].t : i \in DOMAIN up} \cap {"ready"}) \cup more) :
          late' = late \cup got
    /\ srv' = IF srv.bound = "live" THEN [srv EXCEPT !.bound = "dead"] ELSE srv

CloseSignaling(sendLeave) ==
    SocketGone(IF sendLeave /\ sock = "open" THEN {"leave"} ELSE {})

ClearedMesh ==
    /\ transport' = FALSE
    /\ links' = [p \in Peers |-> "none"]
    /\ expected' = {} /\ connected' = {} /\ failed' = {}

\* Faulty: the ready flag survives the session.
TeardownKeepsReady(sendLeave) ==
    /\ CloseSignaling(sendLeave)
    /\ sig' = NoSig /\ sock' = "none" /\ up' = <<>> /\ down' = <<>>
    /\ ClearedMesh
    /\ isRejoin' = FALSE /\ chat' = <<>> /\ heard' = <<>>
    /\ UNCHANGED readySent
    /\ flow' = "Idle"

Teardown(sendLeave) ==
    /\ CloseSignaling(sendLeave)
    /\ sig' = NoSig /\ sock' = "none" /\ up' = <<>> /\ down' = <<>>
    /\ ClearedMesh
    /\ isRejoin' = FALSE /\ chat' = <<>> /\ heard' = <<>>
    /\ readySent' = FALSE
    /\ flow' = "Idle"

FailFlow == flow # "Idle" /\ Teardown(FALSE) /\ error' = TRUE

\* Faulty: the line at the limit goes too.
CarryOneShort(entries) ==
    IF Len(entries) < CarryLimit THEN entries
    ELSE SubSeq(entries, Len(entries) - CarryLimit + 2, Len(entries))

CarryIntoMatch(entries) ==
    IF Len(entries) <= CarryLimit THEN entries
    ELSE SubSeq(entries, Len(entries) - CarryLimit + 1, Len(entries))

\* CheckPreparingComplete on the sets exp and conn: the ready goes out once, and
\* is dropped when the socket is not open.
CheckPreparingComplete(exp, conn, sent) ==
    LET done == exp \subseteq conn /\ ~sent
    IN  /\ readySent' = (sent \/ done)
        /\ up' = IF done /\ sock = "open" THEN Append(up, Frame("ready")) ELSE up

StartMesh(peers) ==
    /\ expected' = peers \ {Me}
    /\ connected' = {} /\ failed' = {}
    /\ transport' = TRUE
    /\ links' = [p \in Peers |-> IF p \in peers THEN "new" ELSE "none"]
    /\ CheckPreparingComplete(peers \ {Me}, {}, FALSE)

-----------------------------------------------------------------------------
(* The menus *)

FreshSession(code) ==
    [code |-> code, status |-> "waiting", members |-> Everyone,
     roster |-> {}, ready |-> {}, announced |-> FALSE, started |-> FALSE,
     hold |-> FALSE, bound |-> "none", lines |-> 0, withdrawn |-> 0]

\* POST /session or /join succeeded, then EnterLobby.
EnterLobby ==
    /\ flow = "Idle"
    /\ spent.sessions < MaxSessions
    /\ Spend("sessions")
    /\ srv' = FreshSession(spent.sessions + 1)
    /\ flow' = "InLobby" /\ error' = FALSE
    /\ OpenSignaling(isRejoin)
    /\ late' = {}
    /\ UNCHANGED <<isRejoin, meshVars, poll, chat, heard>>

\* JoinMenu: the session is live, so this process joins it as a rejoin.
BeginRejoin ==
    /\ flow = "Idle"
    /\ Live
    /\ flow' = "Preparing" /\ isRejoin' = TRUE /\ error' = FALSE
    /\ OpenSignaling(TRUE)
    /\ UNCHANGED <<meshVars, poll, chat, heard, late, srv, spent>>

\* A joiner's Leave; Preparing's Cancel and Return to Setup send no frame.
UserLeaves(sendLeave) ==
    /\ flow # "Idle"
    /\ sendLeave => flow = "InLobby"
    /\ Teardown(sendLeave)
    /\ UNCHANGED <<error, poll, spent>>

\* The process dies with everything in it.
ClientDies ==
    /\ flow # "Idle"
    /\ spent.deaths < MaxDeaths /\ RoomForMore
    /\ Spend("deaths")
    /\ Teardown(FALSE)
    /\ poll' = NoPoll
    /\ UNCHANGED error

-----------------------------------------------------------------------------
(* SignalingClient *)

\* Open: identify first; a healed blip re-sends the ready before anything is read.
SocketOpensQuietly ==
    /\ sock = "connecting"
    /\ sock' = "open"
    /\ up' = <<[t |-> "identify", rejoin |-> sig.rejoin]>>
    /\ sig' = [sig EXCEPT !.reconnecting = FALSE]
    /\ UNCHANGED <<flow, isRejoin, error, meshVars, poll, chat, heard, down, late, srv,
                   spent>>

SocketOpens ==
    /\ sock = "connecting"
    /\ sock' = "open"
    /\ up' = <<[t |-> "identify", rejoin |-> sig.rejoin]>>
             \o (IF sig.reconnecting /\ flow = "Preparing" /\ readySent
                 THEN <<Frame("ready")>> ELSE <<>>)
    /\ sig' = [sig EXCEPT !.reconnecting = FALSE]
    /\ UNCHANGED <<flow, isRejoin, error, meshVars, poll, chat, heard, down, late, srv,
                   spent>>

\* Closed for no terminal reason: OnSocketClosed starts to reconnect.
SocketDrops ==
    /\ sock \in {"connecting", "open"}
    /\ spent.drops < MaxDrops /\ RoomForMore
    /\ Spend("drops")
    /\ sock' = "lost" /\ up' = <<>> /\ down' = <<>>
    /\ sig' = [sig EXCEPT !.reconnecting = TRUE]
    /\ SocketGone({})
    /\ UNCHANGED <<flow, isRejoin, error, meshVars, poll, chat, heard>>

AttemptReconnect ==
    /\ sock = "lost"
    /\ sock' = "connecting"
    /\ UNCHANGED <<clientVars, up, down, late, srv, spent>>

\* OnClosed: 4401, 4403 and 4404 at once, or the reconnect window is over.
OnClosed ==
    /\ sock \in {"lost", "refused"}
    /\ IF flow = "PostMatch"
       THEN /\ sock' = "closed"
            /\ sig' = [sig EXCEPT !.reconnecting = FALSE]
            /\ UNCHANGED <<flow, isRejoin, error, meshVars, chat, heard, up, down, late, srv>>
       ELSE FailFlow
    /\ UNCHANGED <<poll, spent>>

-----------------------------------------------------------------------------
(* Frames from the server *)

Receives(type) == down # <<>> /\ sock = "open" /\ Head(down).t = type
Consume == down' = Tail(down)

\* Only the roster on screen changes once there is a transport.
OnIdentified ==
    /\ Receives("identified")
    /\ IF flow = "Preparing" /\ ~transport
       THEN IF ~Head(down).seated
            THEN FailFlow
            ELSE /\ StartMesh(Head(down).peers)
                 /\ Consume
                 /\ UNCHANGED <<flow, isRejoin, error, sig, chat, heard, sock, late, srv>>
       ELSE /\ Consume
            /\ UNCHANGED <<flow, isRejoin, error, meshVars, sig, chat, heard, sock, up, late,
                           srv>>
    /\ UNCHANGED <<poll, spent>>

OnStartSignaling ==
    /\ Receives("start_signaling")
    /\ Consume
    /\ IF "Preparing" \in Legal[flow]
       THEN /\ flow' = "Preparing"
            /\ chat' = CarryIntoMatch(chat)
            /\ StartMesh(Head(down).peers)
       ELSE UNCHANGED <<flow, chat, meshVars, up>>
    /\ UNCHANGED <<isRejoin, error, sig, poll, heard, sock, late, srv, spent>>

\* Faulty: the socket goes on identifying as a rejoin.
OnMatchStartedStillRejoin ==
    /\ Receives("match_started")
    /\ Consume
    /\ flow' = IF flow = "Preparing" /\ readySent THEN "InMatch" ELSE flow
    /\ UNCHANGED <<isRejoin, error, meshVars, sig, poll, chat, heard, sock, up, late, srv,
                   spent>>

OnMatchStarted ==
    /\ Receives("match_started")
    /\ Consume
    /\ IF flow = "Preparing" /\ readySent
       THEN flow' = "InMatch" /\ sig' = [sig EXCEPT !.rejoin = FALSE]
       ELSE UNCHANGED <<flow, sig>>
    /\ UNCHANGED <<isRejoin, error, meshVars, poll, chat, heard, sock, up, late, srv, spent>>

\* Faulty: the peer is forgotten, what it was awaited for is not looked at again.
OnPeerLeftNoCheck ==
    /\ Receives("peer_left")
    /\ Consume
    /\ LET p == Head(down).peer
       IN  IF flow = "Preparing" /\ p \in expected
           THEN /\ expected' = expected \ {p}
                /\ connected' = connected \ {p}
                /\ failed' = failed \ {p}
           ELSE UNCHANGED <<expected, connected, failed>>
    /\ UNCHANGED <<flow, isRejoin, error, transport, readySent, links, sig, poll, chat, heard,
                   sock, up, late, srv, spent>>

OnPeerLeft ==
    /\ Receives("peer_left")
    /\ Consume
    /\ LET p == Head(down).peer
       IN  IF flow = "Preparing" /\ p \in expected
           THEN /\ expected' = expected \ {p}
                /\ connected' = connected \ {p}
                /\ failed' = failed \ {p}
                /\ CheckPreparingComplete(expected \ {p}, connected \ {p}, readySent)
           ELSE UNCHANGED <<expected, connected, failed, readySent, up>>
    /\ UNCHANGED <<flow, isRejoin, error, transport, links, sig, poll, chat, heard, sock, late,
                   srv, spent>>

OnGameOver ==
    /\ Receives("game_over")
    /\ IF flow = "Preparing"
       THEN FailFlow
       ELSE /\ Consume
            /\ flow' = IF "PostMatch" \in Legal[flow] THEN "PostMatch" ELSE flow
            /\ UNCHANGED <<isRejoin, error, meshVars, sig, chat, heard, sock, up, late, srv>>
    /\ UNCHANGED <<poll, spent>>

\* Faulty: the end of the session takes the end screen away.
OnSessionEndedAlways ==
    /\ Receives("session_ended")
    /\ FailFlow
    /\ UNCHANGED <<poll, spent>>

OnSessionEnded ==
    /\ Receives("session_ended")
    /\ IF flow = "PostMatch"
       THEN /\ Consume
            /\ UNCHANGED <<flow, isRejoin, error, meshVars, sig, chat, heard, sock, up, late,
                           srv>>
       ELSE FailFlow
    /\ UNCHANGED <<poll, spent>>

\* A chat line is delivered at once: no other handler reads the log, so where it
\* stands among the other frames shows nowhere.
OnChatMessage ==
    /\ sock = "open" /\ srv.bound = "live"
    /\ RoomForMore
    /\ srv' = [srv EXCEPT !.lines = @ + 1]
    /\ chat' = Append(chat, [body |-> srv.lines + 1, deleted |-> FALSE])
    /\ heard' = Append(heard, srv.lines + 1)
    /\ UNCHANGED <<flow, isRejoin, error, meshVars, sig, poll, netVars, spent>>

\* MarkDeleted wipes the entry and keeps its place; a trimmed one is not found.
OnChatBodyDeleted(body) ==
    /\ sock = "open" /\ srv.bound = "live"
    /\ body <= srv.lines /\ body # srv.withdrawn
    /\ srv' = [srv EXCEPT !.withdrawn = body]
    /\ chat' = [i \in DOMAIN chat |->
                  [chat[i] EXCEPT !.deleted = @ \/ chat[i].body = body]]
    /\ UNCHANGED <<flow, isRejoin, error, meshVars, sig, poll, heard, netVars, spent>>

-----------------------------------------------------------------------------
(* The mesh: what the transport's poll tells a flow that is preparing; what it
   tells one in a match is GameMesh's *)

OnMeshPeerConnected(p) ==
    /\ flow = "Preparing" /\ links[p] = "new"
    /\ links' = [links EXCEPT ![p] = "open"]
    /\ connected' = connected \cup {p}
    /\ failed' = failed \ {p}
    /\ CheckPreparingComplete(expected, connected \cup {p}, readySent)
    /\ UNCHANGED <<flow, isRejoin, error, transport, expected, sig, poll, chat, heard, sock,
                   down, late, srv, spent>>

OnMeshPeerFailed(p) ==
    /\ flow = "Preparing" /\ links[p] \in {"new", "open"}
    /\ links' = [links EXCEPT ![p] = "failed"]
    /\ failed' = failed \cup {p}
    /\ connected' = connected \ {p}
    /\ UNCHANGED <<flow, isRejoin, error, transport, expected, readySent, sig, poll, chat,
                   heard, netVars, srv, spent>>

OnMeshPeerDisconnected(p) ==
    /\ flow = "Preparing" /\ links[p] = "open"
    /\ links' = [links EXCEPT ![p] = "closed"]
    /\ connected' = connected \ {p}
    /\ UNCHANGED <<flow, isRejoin, error, transport, expected, failed, readySent, sig, poll,
                   chat, heard, netVars, srv, spent>>

-----------------------------------------------------------------------------
(* MatchFlow._Process *)

PrepareFails ==
    /\ flow = "Preparing"
    /\ expected \cap failed # {}
    /\ expected \subseteq connected \cup failed
    /\ FailFlow
    /\ UNCHANGED <<poll, spent>>

\* PrepareTimeoutMsec.
PrepareTimesOut ==
    /\ flow = "Preparing"
    /\ FailFlow
    /\ UNCHANGED <<poll, spent>>

MaybePollLobby ==
    /\ flow = "InLobby"
    /\ poll = NoPoll
    /\ poll' = [code |-> srv.code, answer |-> "pending"]
    /\ UNCHANGED <<flow, isRejoin, error, meshVars, sig, chat, heard, netVars, srv, spent>>

\* GET /session answers for the session asked about, which may be an earlier one.
PollAnswered(answer) ==
    /\ poll.answer = "pending"
    /\ \/ poll.code = srv.code /\ answer = srv.status
       \/ poll.code # srv.code /\ answer \in {"starting", "active", "over"}
       \/ answer = "error" /\ spent.drops < MaxDrops /\ RoomForMore
    /\ poll' = [poll EXCEPT !.answer = answer]
    /\ IF answer = "error" THEN Spend("drops") ELSE UNCHANGED spent
    /\ UNCHANGED <<flow, isRejoin, error, meshVars, sig, chat, heard, netVars, srv>>

PollCounts ==
    /\ poll.answer \in {"starting", "active"}
    /\ flow = "InLobby"
    /\ poll.code = srv.code

\* Faulty: an answer that leads nowhere leaves the poll in flight.
OnLobbyPollResultStuck ==
    /\ PollCounts
    /\ poll' = NoPoll
    /\ isRejoin' = (poll.answer = "active")
    /\ CloseSignaling(FALSE)
    /\ flow' = "Preparing"
    /\ chat' = CarryIntoMatch(chat)
    /\ OpenSignaling(poll.answer = "active")
    /\ UNCHANGED <<error, meshVars, heard, spent>>

\* RecoverMissedStart replaces the lobby's socket; the old one leaves no frame.
OnLobbyPollResult ==
    /\ poll.answer \notin {"none", "pending"}
    /\ poll' = NoPoll
    /\ IF PollCounts
       THEN /\ isRejoin' = (poll.answer = "active")
            /\ CloseSignaling(FALSE)
            /\ flow' = "Preparing"
            /\ chat' = CarryIntoMatch(chat)
            /\ OpenSignaling(poll.answer = "active")
       ELSE UNCHANGED <<isRejoin, flow, chat, sig, netVars, srv>>
    /\ UNCHANGED <<error, meshVars, heard, spent>>

-----------------------------------------------------------------------------
(* The server, as this client sees it *)

Serves(type) == up # <<>> /\ Head(up).t = type

\* Registration, the Identified frame, the pause hold; or a 4403 or 4404 close.
ServerIdentifies ==
    /\ Serves("identify")
    /\ IF srv.status # "over" /\ Me \in srv.members
       THEN /\ up' = Tail(up)
            /\ srv' = [srv EXCEPT !.bound = "live",
                                  !.hold = @ \/ (Head(up).rejoin /\ srv.started)]
            /\ down' = Append(down, [t |-> "identified", peers |-> srv.members \ {Me},
                                     seated |-> srv.status # "waiting"])
            /\ UNCHANGED sock
       ELSE /\ sock' = "refused" /\ up' = <<>>
            /\ UNCHANGED <<srv, down>>
    /\ UNCHANGED <<clientVars, late, spent>>

Start(s) == [s EXCEPT !.started = TRUE]

\* record_ready, and the broadcast or the direct reply.
Readied(p) ==
    LET ready == srv.ready \cup {p}
        done == srv.roster \subseteq ready
    IN  IF srv.started
        THEN /\ srv' = [srv EXCEPT !.hold = @ /\ p # Me]
             /\ down' = IF p = Me THEN Pushed(<<Frame("match_started")>>) ELSE down
        ELSE /\ srv' = [srv EXCEPT !.ready = ready, !.started = done]
             /\ down' = IF done THEN Pushed(<<Frame("match_started")>>) ELSE down

ServerGetsReady ==
    /\ Serves("ready")
    /\ up' = Tail(up)
    /\ IF srv.roster # {} /\ Me \in srv.roster /\ srv.status # "over"
       THEN Readied(Me) ELSE UNCHANGED <<srv, down>>
    /\ UNCHANGED <<clientVars, sock, late, spent>>

\* A frame the old socket's task had not read yet.
ServerGetsLate(f) ==
    /\ f \in late
    /\ late' = late \ {f}
    /\ CASE f = "ready" /\ Live -> Readied(Me)
         [] f = "leave" -> /\ srv' = [srv EXCEPT !.members = @ \ {Me}]
                           /\ UNCHANGED down
         [] OTHER -> UNCHANGED <<srv, down>>
    /\ UNCHANGED <<clientVars, sock, up, spent>>

PeerGetsReady(p) ==
    /\ srv.status = "starting" /\ srv.announced
    /\ p \in srv.roster \ srv.ready
    /\ p \in srv.members
    /\ Readied(p)
    /\ UNCHANGED <<clientVars, sock, up, late, spent>>

\* The cleanup of a dead socket: it releases the hold, and the slot stays.
ServerSeesDrop ==
    /\ srv.bound = "dead"
    /\ srv' = [srv EXCEPT !.bound = "none", !.hold = FALSE]
    /\ UNCHANGED <<clientVars, netVars, spent>>

\* The slot's hold runs out.
ServerFreesSlot ==
    /\ srv.bound = "none" /\ Live /\ Me \in srv.members
    /\ srv' = [srv EXCEPT !.members = @ \ {Me}]
    /\ UNCHANGED <<clientVars, netVars, spent>>

\* /start needs everyone on a socket the hub still has.
ServerStarts ==
    /\ srv.status = "waiting"
    /\ srv.bound # "none" /\ Me \in srv.members
    /\ Cardinality(srv.members) > 1
    /\ srv' = [srv EXCEPT !.status = "starting", !.roster = srv.members]
    /\ UNCHANGED <<clientVars, netVars, spent>>

\* After the credentials' mint.
ServerAnnounces ==
    /\ srv.status = "starting" /\ ~srv.announced
    /\ srv' = [srv EXCEPT !.announced = TRUE]
    /\ down' = Pushed(<<[t |-> "start_signaling", peers |-> srv.roster]>>)
    /\ UNCHANGED <<clientVars, sock, up, late, spent>>

\* The barrier's valve.
ServerForcesStart ==
    /\ Live /\ srv.announced /\ ~srv.started
    /\ srv' = Start(srv)
    /\ down' = Pushed(<<Frame("match_started")>>)
    /\ UNCHANGED <<clientVars, sock, up, late, spent>>

ServerActivates ==
    /\ srv.status = "starting" /\ srv.started
    /\ srv' = [srv EXCEPT !.status = "active"]
    /\ UNCHANGED <<clientVars, netVars, spent>>

\* The pause valve.
ServerReleasesHold ==
    /\ srv.hold
    /\ srv' = [srv EXCEPT !.hold = FALSE]
    /\ UNCHANGED <<clientVars, netVars, spent>>

\* A peer leaves for good; a live match does not go on with one member.
ServerLosesPeer(p) ==
    /\ p \in srv.members
    /\ srv.status # "over"
    /\ LET left == srv.members \ {p}
           alone == Live /\ Cardinality(left) < 2
       IN  /\ srv' = [srv EXCEPT !.members = left,
                                 !.status = IF alone THEN "over" ELSE @]
           /\ down' = Pushed(<<[t |-> "peer_left", peer |-> p]>>
                             \o (IF alone THEN <<Frame("session_ended")>> ELSE <<>>))
    /\ UNCHANGED <<clientVars, sock, up, late, spent>>

ServerDecidesMatch ==
    /\ Live /\ srv.started
    /\ srv' = [srv EXCEPT !.status = "over"]
    /\ down' = Pushed(<<Frame("game_over"), Frame("session_ended")>>)
    /\ UNCHANGED <<clientVars, sock, up, late, spent>>

\* The host closes it, or its host is gone.
ServerEndsSession ==
    /\ srv.status # "over"
    /\ srv' = [srv EXCEPT !.status = "over"]
    /\ down' = Pushed(<<Frame("session_ended")>>)
    /\ UNCHANGED <<clientVars, sock, up, late, spent>>

-----------------------------------------------------------------------------
(* The specification *)

FlowInit ==
    /\ flow = "Idle" /\ isRejoin = FALSE /\ error = FALSE
    /\ transport = FALSE /\ links = [p \in Peers |-> "none"]
    /\ expected = {} /\ connected = {} /\ failed = {} /\ readySent = FALSE
    /\ sock = "none" /\ sig = NoSig /\ poll = NoPoll
    /\ chat = <<>> /\ heard = <<>>
    /\ up = <<>> /\ down = <<>> /\ late = {}
    /\ srv = [FreshSession(0) EXCEPT !.status = "over"]
    /\ spent = [sessions |-> 0, drops |-> 0, deaths |-> 0]

UserNext ==
    \/ EnterLobby \/ BeginRejoin \/ ClientDies
    \/ \E sendLeave \in BOOLEAN : UserLeaves(sendLeave)

SocketNext == SocketOpens \/ SocketDrops \/ AttemptReconnect \/ OnClosed

FrameNext ==
    \/ OnIdentified \/ OnStartSignaling \/ OnMatchStarted \/ OnPeerLeft
    \/ OnGameOver \/ OnSessionEnded

ChatNext == OnChatMessage \/ \E body \in 1 .. MaxEvents : OnChatBodyDeleted(body)

PeerNext ==
    \E p \in Peers :
       OnMeshPeerConnected(p) \/ OnMeshPeerFailed(p) \/ OnMeshPeerDisconnected(p)

PollAnswers == {"waiting", "starting", "active", "over", "error"}

PollNext ==
    \/ MaybePollLobby \/ OnLobbyPollResult
    \/ \E answer \in PollAnswers : PollAnswered(answer)

ServerNext ==
    \/ ServerIdentifies \/ ServerGetsReady \/ ServerSeesDrop \/ ServerFreesSlot
    \/ ServerStarts \/ ServerAnnounces \/ ServerForcesStart \/ ServerActivates
    \/ ServerReleasesHold \/ ServerDecidesMatch \/ ServerEndsSession
    \/ \E f \in {"ready", "leave"} : ServerGetsLate(f)
    \/ \E p \in Peers : PeerGetsReady(p) \/ ServerLosesPeer(p)

FlowNext ==
    \/ UserNext \/ SocketNext \/ FrameNext \/ ChatNext \/ PeerNext
    \/ PrepareFails \/ PrepareTimesOut
    \/ PollNext \/ ServerNext

FlowSpec == FlowInit /\ [][FlowNext]_flowVars

\* The main loop runs every frame and a request is answered; the network heals
\* once its bound is used up; the server reads its sockets and its valve fires.
\* Nothing makes a user, a peer, the deadline or the reconnect window act.
Fairness ==
    /\ WF_flowVars(SocketOpens) /\ WF_flowVars(AttemptReconnect)
    /\ WF_flowVars(sock = "refused" /\ OnClosed)
    /\ WF_flowVars(FrameNext) /\ WF_flowVars(PollNext)
    /\ WF_flowVars(ServerIdentifies) /\ WF_flowVars(ServerGetsReady)
    /\ WF_flowVars(ServerAnnounces) /\ WF_flowVars(ServerForcesStart)

FairSpec == FlowSpec /\ Fairness

-----------------------------------------------------------------------------
(* Properties *)

UpFrames == [t : {"identify"}, rejoin : BOOLEAN] \cup [t : {"ready"}]

DownFrames ==
    [t : {"identified"}, peers : SUBSET Peers, seated : BOOLEAN]
        \cup [t : {"start_signaling"}, peers : SUBSET Everyone]
        \cup [t : {"peer_left"}, peer : Peers]
        \cup [t : {"match_started", "game_over", "session_ended"}]

Lines == [body : Nat, deleted : BOOLEAN]

SessionViews ==
    [code : Nat, status : {"waiting", "starting", "active", "over"},
     members : SUBSET Everyone, roster : SUBSET Everyone, ready : SUBSET Everyone,
     announced : BOOLEAN, started : BOOLEAN, hold : BOOLEAN,
     bound : {"none", "live", "dead"}, lines : Nat, withdrawn : Nat]

FlowTypeOK ==
    /\ flow \in States
    /\ isRejoin \in BOOLEAN /\ error \in BOOLEAN
    /\ transport \in BOOLEAN /\ readySent \in BOOLEAN
    /\ expected \subseteq Peers /\ connected \subseteq Peers /\ failed \subseteq Peers
    /\ links \in [Peers -> {"none", "new", "open", "failed", "closed"}]
    /\ sock \in {"none", "connecting", "open", "lost", "refused", "closed"}
    /\ sig \in [on : BOOLEAN, rejoin : BOOLEAN, reconnecting : BOOLEAN]
    /\ poll \in [code : Nat, answer : PollAnswers \cup {"none", "pending"}]
    /\ chat \in Seq(Lines) /\ heard \in Seq(Nat)
    /\ up \in Seq(UpFrames) /\ down \in Seq(DownFrames)
    /\ late \subseteq {"ready", "leave"}
    /\ srv \in SessionViews
    /\ spent \in [sessions : Nat, drops : Nat, deaths : Nat]

\* The mesh decides who gets in.  Once every peer still awaited is connected the
\* client has sent its ready, even if what completed the mesh was the last missing peer
\* leaving (OnPeerLeft); and whoever is in a match has announced itself, holds a mesh,
\* was let in by the server and identifies as an ordinary member from then on, however
\* late or often match_started came (OnMatchStarted).
MeshDecidesEntry ==
    /\ flow = "Preparing" /\ transport /\ expected \subseteq connected => readySent
    /\ flow = "InMatch" => srv.started /\ readySent /\ transport /\ ~sig.rejoin

\* What one session leaves behind never reaches the next: an idle or lobby flow
\* has no mesh, no ready, no rejoin and awaits nobody.
FreshFlowIsClean ==
    /\ flow \in {"Idle", "InLobby"} =>
          /\ ~transport /\ ~readySent /\ ~isRejoin
          /\ expected = {} /\ connected = {} /\ failed = {}
    /\ flow = "Idle" => chat = <<>> /\ ~sig.on

\* The chat is what this client has heard since it entered, in order, with at
\* most the oldest lines dropped and never fewer than CarryLimit kept.
ChatIsRecentPast ==
    /\ Len(chat) <= Len(heard)
    /\ Len(chat) >= IF Len(heard) < CarryLimit THEN Len(heard) ELSE CarryLimit
    /\ \A i \in 1 .. Len(chat) : chat[i].body = heard[Len(heard) - Len(chat) + i]

\* A blip of a client that is in the match never pauses it for everyone: the
\* server places a hold for it only while it is on its way in or gone.
BlipNeverPauses == [][flow = "InMatch" => (srv'.hold => srv.hold)]_flowVars

\* The end screen stays until the user leaves it: neither the session's deletion
\* behind GameOver nor the socket's loss turns it into an error.
EndScreenStays == [][flow = "PostMatch" /\ flow' = "Idle" => error' = error]_flowVars

\* A client that has announced itself is let in or let go without its deadline:
\* a lost ready is sent again and a lost match_started is answered again.
ReadyResolves == (flow = "Preparing" /\ readySent) ~> flow # "Preparing"

\* A client that missed start_signaling does not stay in the lobby of a live match.
LobbyRecovers ==
    (flow = "InLobby" /\ Live) ~> (flow # "InLobby" \/ srv.status = "over")
=============================================================================
