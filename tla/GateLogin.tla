------------------------------ MODULE GateLogin ------------------------------
(***************************************************************************)
(* Client sessions on the gates: connections, the session table, pending   *)
(* logins, player routes, the account owner in Redis, the kick of an older *)
(* session, disconnects, player messages and pushes; and the game at the   *)
(* other end of the IPC.                                                   *)
(*                                                                         *)
(* A gate has a worker thread, which reads the client sockets, and a       *)
(* reader thread, which handles IPC messages.  Each service has its own    *)
(* mutex and none is held across calls of two services: a handler is a     *)
(* sequence of steps.  gate_session_id is the connection id.               *)
(***************************************************************************)
EXTENDS Integers, Sequences, FiniteSets

CONSTANTS
    Gates,          \* gate instances
    Accounts,       \* accounts; a player has the name of its account
    Game,           \* the game process
    None,           \* no session, no owner, nothing pending
    MaxConns,       \* bound on the connections a gate accepts
    MaxClients,     \* bound on the connections all gates accept
    MaxReqs,        \* bound on the logins all clients ask for
    MaxEvents       \* bound on faults, player messages and pushes together

ASSUME GateAssumption ==
    /\ None \notin Accounts /\ Game \notin Gates
    /\ {MaxConns, MaxClients, MaxReqs, MaxEvents} \subseteq Nat

VARIABLES
    accepted,   \* mNextConnectionId - 1 of each gate
    sock,       \* mSocketByConnectionId
    sessions,   \* mSessions
    routes,     \* mRoutes
    pending,    \* mPendingLogins
    nextReq,    \* mNextRequestId
    asking,     \* mPendingMessages of the player message service
    thread,     \* the worker and the reader of each gate
    owner,      \* Redis: the account directory
    net,        \* frames under way between two processes
    attach,     \* the game: the session each online player is attached to
    used,       \* how much of each bound is used up
    asked,      \* history: the account a connection's client logged in with
    told,       \* history: players a connection's client has been told of
    gone,       \* history: how each session ended
    lost        \* history: players whose lease the game has lost

gateVars == <<accepted, sock, sessions, routes, pending, nextReq, asking>>
historyVars == <<asked, told, gone, lost>>
vars == <<gateVars, thread, owner, net, attach, used, historyVars>>

Conn == 1..MaxConns
Req == 1..MaxReqs
Session == [gate : Gates, conn : Conn]
Procs == Gates \cup {Game}
Threads == {"worker", "reader"}

\* GateSessionRecord: anonymous until a login response activates it.
Anonymous == [account |-> None, player |-> None]
SessionRecord == {Anonymous} \cup [account : Accounts, player : Accounts]

\* The IPC messages.  Each names the session it is about and the player.
Message == [type : {"login", "response", "kick", "disconnected", "unbind", "forward",
                    "forwarded", "push"},
            session : Session, player : Accounts, req : Nat, ok : BOOLEAN]

Msg(type, session, player, req) ==
    [type |-> type, session |-> session, player |-> player, req |-> req, ok |-> TRUE]

\* A thread: what it does next, for which connection, account and request, what
\* it has read, and where it goes on when it has closed a connection.
Steps == {"idle", "kick", "open", "send", "record", "ask", "remove", "disc", "unbind", "del",
          "activate", "bind"}
Thread == [at : Steps, conn : {0} \cup Conn, account : Accounts \cup {None}, req : Nat,
           read : {None} \cup Session \cup Accounts \cup [account : Accounts, player : Accounts],
           closing : {0} \cup Conn, then : Steps]
Idle == [at |-> "idle", conn |-> 0, account |-> None, req |-> 0, read |-> None,
         closing |-> 0, then |-> "idle"]

\* The shape of the state.
GateTypeOK ==
    /\ accepted \in [Gates -> 0..MaxConns] /\ sock \in [Gates -> SUBSET Conn]
    /\ sessions \in [Gates -> [Conn -> SessionRecord \cup {None}]]
    /\ routes \in [Gates -> [Accounts -> {0} \cup Conn]]
    /\ pending \in [Gates -> [Req -> [conn : Conn, account : Accounts] \cup {None}]]
    /\ nextReq \in [Gates -> 1..(MaxReqs + 1)] /\ asking \in [Gates -> [1..MaxEvents -> {0} \cup Conn]]
    /\ thread \in [Gates -> [Threads -> Thread]]
    /\ owner \in [Accounts -> Session \cup {None}]
    /\ net \in [Procs -> [Procs -> Seq(Message)]]
    /\ attach \in [Accounts -> Session \cup {None}]
    /\ used \in [logins : 0..MaxReqs, events : 0..MaxEvents]
    /\ asked \in [Gates -> [Conn -> Accounts \cup {None}]]
    /\ told \in [Gates -> [Conn -> SUBSET Accounts]]
    /\ gone \in [Gates -> [Conn -> {"no", "during login", "after login", "unsent"}]]
    /\ lost \subseteq Accounts

Init ==
    /\ accepted = [g \in Gates |-> 0]
    /\ sock = [g \in Gates |-> {}]
    /\ sessions = [g \in Gates |-> [c \in Conn |-> None]]
    /\ routes = [g \in Gates |-> [a \in Accounts |-> 0]]
    /\ pending = [g \in Gates |-> [r \in Req |-> None]]
    /\ nextReq = [g \in Gates |-> 1]
    /\ asking = [g \in Gates |-> [r \in 1..MaxEvents |-> 0]]
    /\ thread = [g \in Gates |-> [t \in Threads |-> Idle]]
    /\ owner = [a \in Accounts |-> None]
    /\ net = [src \in Procs |-> [dst \in Procs |-> <<>>]]
    /\ attach = [a \in Accounts |-> None]
    /\ used = [logins |-> 0, events |-> 0]
    /\ asked = [g \in Gates |-> [c \in Conn |-> None]]
    /\ told = [g \in Gates |-> [c \in Conn |-> {}]]
    /\ gone = [g \in Gates |-> [c \in Conn |-> "no"]]
    /\ lost = {}

-----------------------------------------------------------------------------
(* Sending and helpers.                                                    *)

S(g, c) == [gate |-> g, conn |-> c]
At(g, t, label) == thread[g][t].at = label
Goto(g, t, label) == thread' = [thread EXCEPT ![g][t].at = label]
Finish(g, t) == thread' = [thread EXCEPT ![g][t] = Idle]

\* A failing send or Redis command, a lost link or lease; or a player message.
Fault == used.events < MaxEvents /\ used' = [used EXCEPT !.events = @ + 1]
Messaging == Fault

\* SendProcessPayload: the frame is on its way, or the caller is told it failed.
Send(src, dst, m) == net' = [net EXCEPT ![src][dst] = Append(@, m)]

\* What the client of a connection is told, while it is connected.
Tell(g, c, p) == told' = IF c \in sock[g] THEN [told EXCEPT ![g][c] = @ \cup {p}] ELSE told

SessionsOf(g, a) == {c \in Conn : sessions[g][c] # None /\ sessions[g][c].account = a}

Active(g, c) == sessions[g][c] \notin {None, Anonymous}

\* Close of a connection: its socket first, then the disconnect handler, after
\* which the thread goes on at `then`.
Closing(g, t, c, label) ==
    /\ sock' = [sock EXCEPT ![g] = @ \ {c}]
    /\ thread' = [thread EXCEPT ![g][t].at = "remove", ![g][t].closing = c,
                                ![g][t].then = label]

Return(g, t) ==
    LET me == thread[g][t] IN
    thread' = [thread EXCEPT ![g][t] = IF me.then = "idle" THEN Idle
                  ELSE [me EXCEPT !.at = me.then, !.closing = 0, !.then = "idle"]]

-----------------------------------------------------------------------------
(* A connection ends: FinalizeConnection, the disconnect handler, and      *)
(* HandleSessionDisconnected, on the thread t that closes it.              *)

Me(g, t) == thread[g][t]

\* RemoveByConnection; the game is told only of a session that is logged in.
RemoveByConnection(g, t) ==
    LET c == Me(g, t).closing  record == sessions[g][c] IN
    /\ At(g, t, "remove")
    /\ sessions' = [sessions EXCEPT ![g][c] = None]
    /\ IF record \in {None, Anonymous} THEN Return(g, t)
       ELSE thread' = [thread EXCEPT ![g][t].at = "disc", ![g][t].read = record]
    /\ gone' = IF record = None THEN gone
               ELSE [gone EXCEPT ![g][c] = IF record = Anonymous \/ Me(g, "worker").conn = c
                                           THEN "during login" ELSE "after login"]
    /\ UNCHANGED <<accepted, sock, routes, pending, nextReq, asking, owner, net, attach,
                   used, asked, told, lost>>

\* Mutant: the game is not told of a session whose route is another's.
SendDisconnectedIfRouted(g, t) ==
    LET c == Me(g, t).closing  p == Me(g, t).read.player IN
    /\ At(g, t, "disc")
    /\ IF routes[g][p] = c
       THEN Send(g, Game, Msg("disconnected", S(g, c), p, 0)) /\ Goto(g, t, "unbind")
       ELSE UNCHANGED net /\ Return(g, t)
    /\ UNCHANGED <<gateVars, owner, attach, used, historyVars>>

\* A send that fails ends the handler: route and owner stay.
SendDisconnected(g, t) ==
    LET c == Me(g, t).closing  p == Me(g, t).read.player IN
    /\ At(g, t, "disc")
    /\ \/ /\ Send(g, Game, Msg("disconnected", S(g, c), p, 0))
          /\ Goto(g, t, "unbind") /\ UNCHANGED <<used, gone>>
       \/ /\ Fault /\ Return(g, t) /\ UNCHANGED net
          /\ gone' = [gone EXCEPT ![g][c] = "unsent"]
    /\ UNCHANGED <<gateVars, owner, attach, asked, told, lost>>

\* UnbindPlayer, then RemoveAccountIfMatches: GET and compare, then DEL.  A GET
\* or DEL that fails leaves the entry.  No handler reads the routes, so that
\* UnbindPlayer and the GET are one step.
CompareOwner(g, t) ==
    LET me == Me(g, t)  mine == S(g, me.closing) IN
    /\ At(g, t, "unbind")
    /\ routes' = [routes EXCEPT ![g][me.read.player] = IF @ = me.closing THEN 0 ELSE @]
    /\ \/ owner[me.read.account] = mine /\ Goto(g, t, "del") /\ UNCHANGED used
       \/ owner[me.read.account] # mine /\ Return(g, t) /\ UNCHANGED used
       \/ Fault /\ Return(g, t)
    /\ UNCHANGED <<accepted, sock, sessions, pending, nextReq, asking, owner, net, attach,
                   historyVars>>

DeleteOwner(g, t) ==
    /\ At(g, t, "del")
    /\ owner' = [owner EXCEPT ![Me(g, t).read.account] = None]
    /\ Return(g, t)
    /\ UNCHANGED <<gateVars, net, attach, used, historyVars>>

HandleSessionDisconnected(g, t) ==
    RemoveByConnection(g, t) \/ SendDisconnected(g, t) \/ CompareOwner(g, t) \/ DeleteOwner(g, t)

-----------------------------------------------------------------------------
(* The worker: clients connect, log in, send messages and leave.           *)

AcceptReadySocket(g) ==
    LET c == accepted[g] + 1 IN
    /\ At(g, "worker", "idle") /\ c <= MaxConns
    /\ Cardinality({s \in Session : s.conn <= accepted[s.gate]}) < MaxClients
    /\ accepted' = [accepted EXCEPT ![g] = c]
    /\ sock' = [sock EXCEPT ![g] = @ \cup {c}]
    /\ UNCHANGED <<sessions, routes, pending, nextReq, asking, thread, owner, net, attach,
                   used, historyVars>>

\* The client has gone: HandleReadable cannot read from its socket.
ClientLeaves(g, c) ==
    /\ At(g, "worker", "idle") /\ c \in sock[g]
    /\ Closing(g, "worker", c, "idle")
    /\ UNCHANGED <<accepted, sessions, routes, pending, nextReq, asking, owner, net, attach,
                   used, historyVars>>

\* HandleClientLogin up to LookupAccount.  A client stays with its account.  A
\* GET that fails reads as no owner.
HandleClientLogin(g, c, a) ==
    /\ At(g, "worker", "idle") /\ c \in sock[g]
    /\ asked[g][c] \in {None, a} /\ used.logins < MaxReqs
    /\ asked' = [asked EXCEPT ![g][c] = a]
    /\ \E o \in {owner[a], None} :
          /\ used' = [used EXCEPT !.logins = @ + 1, !.events = IF o = owner[a] THEN @ ELSE @ + 1]
          /\ used'.events <= MaxEvents
          /\ thread' = [thread EXCEPT ![g]["worker"] =
                           [Idle EXCEPT !.at = "kick", !.conn = c, !.account = a, !.read = o]]
    /\ UNCHANGED <<gateVars, owner, net, attach, told, gone, lost>>

\* Mutant: any session that is logged in is taken for the account's.
OldSessionsAny(g) ==
    LET o == Me(g, "worker").read IN
    IF o = None THEN {c \in Conn : Active(g, c)}
    ELSE {c \in {o.conn} : sessions[g][c] # None}

\* The session of this gate to be kicked: FindByAccount without an owner, else
\* the session the owner entry names.
OldSessions(g) ==
    LET o == Me(g, "worker").read IN
    IF o = None THEN SessionsOf(g, Me(g, "worker").account)
    ELSE {c \in {o.conn} : sessions[g][c] # None}

\* KickExistingAccountSession: the notification must reach the old client, else
\* the login ends here.
KickLocal(g) ==
    LET me == Me(g, "worker") IN
    /\ At(g, "worker", "kick") /\ (me.read # None => me.read.gate = g)
    /\ \/ /\ OldSessions(g) \subseteq {me.conn}
          /\ Goto(g, "worker", "open") /\ UNCHANGED sock
       \/ \E c \in OldSessions(g) \ {me.conn} :
             IF c \in sock[g] THEN Closing(g, "worker", c, "open")
             ELSE Finish(g, "worker") /\ UNCHANGED sock
    /\ UNCHANGED <<accepted, sessions, routes, pending, nextReq, asking, owner, net, attach,
                   used, historyVars>>

KickRemote(g) ==
    LET me == Me(g, "worker") IN
    /\ At(g, "worker", "kick") /\ me.read # None /\ me.read.gate # g
    /\ \/ /\ Send(g, me.read.gate, Msg("kick", me.read, me.account, 0))
          /\ Goto(g, "worker", "open") /\ UNCHANGED used
       \/ Fault /\ Finish(g, "worker") /\ UNCHANGED net
    /\ UNCHANGED <<gateVars, owner, attach, historyVars>>

OpenAnonymous(g) ==
    LET c == Me(g, "worker").conn IN
    /\ At(g, "worker", "open")
    /\ sessions' = [sessions EXCEPT ![g][c] = IF @ = None THEN Anonymous ELSE @]
    /\ Goto(g, "worker", "send")
    /\ UNCHANGED <<accepted, sock, routes, pending, nextReq, asking, owner, net, attach,
                   used, historyVars>>

\* RequestLogin: the request is sent, then recorded.
RequestLogin(g) ==
    LET me == Me(g, "worker") IN
    /\ At(g, "worker", "send")
    /\ nextReq' = [nextReq EXCEPT ![g] = @ + 1]
    /\ \/ /\ Send(g, Game, Msg("login", S(g, me.conn), me.account, nextReq[g]))
          /\ thread' = [thread EXCEPT ![g]["worker"].at = "record",
                                      ![g]["worker"].req = nextReq[g]]
          /\ UNCHANGED used
       \/ Fault /\ Finish(g, "worker") /\ UNCHANGED net
    /\ UNCHANGED <<accepted, sock, sessions, routes, pending, asking, owner, attach, historyVars>>

RecordPending(g) ==
    LET me == Me(g, "worker") IN
    /\ At(g, "worker", "record")
    /\ pending' = [pending EXCEPT ![g][me.req] = [conn |-> me.conn, account |-> me.account]]
    /\ Finish(g, "worker")
    /\ UNCHANGED <<accepted, sock, sessions, routes, nextReq, asking, owner, net, attach,
                   used, historyVars>>

\* HandleClientPlayerMessage: sent to the game, then recorded.
HandleClientPlayerMessage(g, c) ==
    /\ At(g, "worker", "idle") /\ c \in sock[g] /\ Active(g, c)
    /\ Messaging
    /\ Send(g, Game, Msg("forward", S(g, c), sessions[g][c].player, used.events + 1))
    /\ thread' = [thread EXCEPT ![g]["worker"] =
                     [Idle EXCEPT !.at = "ask", !.conn = c, !.req = used.events + 1]]
    /\ UNCHANGED <<gateVars, owner, attach, historyVars>>

RecordAsking(g) ==
    LET me == Me(g, "worker") IN
    /\ At(g, "worker", "ask")
    /\ asking' = [asking EXCEPT ![g][me.req] = me.conn]
    /\ Finish(g, "worker")
    /\ UNCHANGED <<accepted, sock, sessions, routes, pending, nextReq, owner, net, attach,
                   used, historyVars>>

Worker(g) ==
    \/ AcceptReadySocket(g) \/ KickLocal(g) \/ KickRemote(g) \/ OpenAnonymous(g)
    \/ RequestLogin(g) \/ RecordPending(g) \/ RecordAsking(g)
    \/ HandleSessionDisconnected(g, "worker")
    \/ \E c \in Conn :
          \/ ClientLeaves(g, c) \/ HandleClientPlayerMessage(g, c)
          \/ \E a \in Accounts : HandleClientLogin(g, c, a)

-----------------------------------------------------------------------------
(* The reader: messages from the game and from other gates.                *)

Receive(g, src, type) ==
    /\ At(g, "reader", "idle") /\ net[src][g] # <<>> /\ Head(net[src][g]).type = type
    /\ net' = [net EXCEPT ![src][g] = Tail(@)]

\* Mutant: a response belongs to any login that is pending.
PendingOfAny(g, m) ==
    IF \E r \in Req : pending[g][r] # None
    THEN CHOOSE r \in Req : pending[g][r] # None ELSE m.req

PendingOf(g, m) == m.req

\* HandleLoginResponse takes the pending login; without one it ends.
HandleLoginResponse(g) ==
    LET m == Head(net[Game][g])  r == PendingOf(g, m)  p == pending[g][r] IN
    /\ Receive(g, Game, "response")
    /\ pending' = [pending EXCEPT ![g][r] = None]
    /\ thread' = IF p # None /\ m.ok
                 THEN [thread EXCEPT ![g]["reader"] = [Idle EXCEPT !.at = "activate",
                          !.conn = p.conn, !.account = p.account, !.read = m.player]]
                 ELSE thread
    /\ UNCHANGED <<accepted, sock, sessions, routes, nextReq, asking, owner, attach, used, historyVars>>

\* Activate does nothing when the session is gone; the handler goes on.
Activate(g) ==
    LET me == Me(g, "reader") IN
    /\ At(g, "reader", "activate")
    /\ sessions' = [sessions EXCEPT ![g][me.conn] =
                       IF @ = None THEN None ELSE [account |-> me.account, player |-> me.read]]
    /\ Goto(g, "reader", "bind")
    /\ UNCHANGED <<accepted, sock, routes, pending, nextReq, asking, owner, net, attach,
                   used, historyVars>>

\* BindPlayer, and BindAccount, a plain SET whose failure is ignored; then the
\* client gets its answer.
BindAccount(g) ==
    LET me == Me(g, "reader") IN
    /\ At(g, "reader", "bind")
    /\ routes' = [routes EXCEPT ![g][me.read] = me.conn]
    /\ \/ owner' = [owner EXCEPT ![me.account] = S(g, me.conn)] /\ UNCHANGED used
       \/ Fault /\ UNCHANGED owner
    /\ Tell(g, me.conn, me.read)
    /\ Finish(g, "reader")
    /\ UNCHANGED <<accepted, sock, sessions, pending, nextReq, asking, net, attach, asked, gone, lost>>

\* HandleKickAccountSession and HandleUnbindPlayerSession: the session must still
\* be that account's or player's and its client must take the notification.
CloseOnRequest(g, src, type) ==
    LET m == Head(net[src][g])  c == m.session.conn  record == sessions[g][c] IN
    /\ Receive(g, src, type)
    /\ IF record # None /\ (IF type = "kick" THEN record.account ELSE record.player) = m.player
          /\ c \in sock[g]
       THEN Closing(g, "reader", c, "idle")
       ELSE UNCHANGED <<sock, thread>>
    /\ UNCHANGED <<accepted, sessions, routes, pending, nextReq, asking, owner, attach, used, historyVars>>

HandleForwardPlayerMessageResponse(g) ==
    LET m == Head(net[Game][g])  c == asking[g][m.req] IN
    /\ Receive(g, Game, "forwarded")
    /\ asking' = [asking EXCEPT ![g][m.req] = 0]
    /\ IF c = 0 THEN UNCHANGED told ELSE Tell(g, c, m.player)
    /\ UNCHANGED <<accepted, sock, sessions, routes, pending, nextReq, thread, owner, attach,
                   used, asked, gone, lost>>

HandlePushPlayerMessage(g) ==
    LET m == Head(net[Game][g])  c == m.session.conn IN
    /\ Receive(g, Game, "push")
    /\ IF Active(g, c) /\ sessions[g][c].player = m.player
       THEN Tell(g, c, m.player) ELSE UNCHANGED told
    /\ UNCHANGED <<gateVars, thread, owner, attach, used, asked, gone, lost>>

Reader(g) ==
    \/ HandleLoginResponse(g) \/ Activate(g) \/ BindAccount(g)
    \/ CloseOnRequest(g, Game, "unbind")
    \/ \E src \in Gates : CloseOnRequest(g, src, "kick")
    \/ HandleForwardPlayerMessageResponse(g) \/ HandlePushPlayerMessage(g)
    \/ HandleSessionDisconnected(g, "reader")

-----------------------------------------------------------------------------
(* The game: what PlayerSession does to a player, seen from the gates.     *)

Handle(g, type) == net[g][Game] # <<>> /\ Head(net[g][Game]).type = type
Reply(g, m) == net' = [net EXCEPT ![g][Game] = Tail(@), ![Game][g] = Append(@, m)]
GameOnly == UNCHANGED <<gateVars, thread, owner, asked, told>>

\* HandleLoginRequest: an activation attaches the player to the new session
\* whatever it was attached to, or fails.
HandleLoginRequest(g) ==
    LET m == Head(net[g][Game]) IN
    /\ Handle(g, "login")
    /\ \/ /\ attach' = [attach EXCEPT ![m.player] = m.session]
          /\ lost' = lost \ {m.player}
          /\ Reply(g, [m EXCEPT !.type = "response"])
          /\ UNCHANGED used
       \/ /\ Fault /\ Reply(g, [m EXCEPT !.type = "response", !.ok = FALSE])
          /\ UNCHANGED <<attach, lost>>
    /\ UNCHANGED gone /\ GameOnly

\* Mutant: DetachPlayer without the comparison of the session.
DetachPlayerAny(m) == [attach EXCEPT ![m.player] = None]

DetachPlayer(m) == [attach EXCEPT ![m.player] = IF @ = m.session THEN None ELSE @]

HandlePlayerDisconnected(g) ==
    /\ Handle(g, "disconnected")
    /\ attach' = DetachPlayer(Head(net[g][Game]))
    /\ net' = [net EXCEPT ![g][Game] = Tail(@)]
    /\ UNCHANGED <<used, gone, lost>> /\ GameOnly

HandleForwardPlayerMessageRequest(g) ==
    /\ Handle(g, "forward")
    /\ Reply(g, [Head(net[g][Game]) EXCEPT !.type = "forwarded"])
    /\ UNCHANGED <<attach, used, gone, lost>> /\ GameOnly

PushToPlayer(p) ==
    /\ attach[p] # None /\ Messaging
    /\ Send(Game, attach[p].gate, Msg("push", attach[p], p, 0))
    /\ UNCHANGED <<attach, gone, lost>> /\ GameOnly

\* ReconcileLeaseLosses of a player that is online.
LeaseLost(p) ==
    /\ attach[p] # None /\ Fault
    /\ Send(Game, attach[p].gate, Msg("unbind", attach[p], p, 0))
    /\ attach' = [attach EXCEPT ![p] = None]
    /\ lost' = lost \cup {p}
    /\ UNCHANGED gone /\ GameOnly

GameStep ==
    \/ \E g \in Gates : HandleLoginRequest(g) \/ HandlePlayerDisconnected(g)
                        \/ HandleForwardPlayerMessageRequest(g)
    \/ \E p \in Accounts : PushToPlayer(p) \/ LeaseLost(p)

\* A link breaks with the frames that are on it.
LinkLost(src, dst) ==
    /\ net[src][dst] # <<>> /\ Fault
    /\ net' = [net EXCEPT ![src][dst] = <<>>]
    /\ gone' = [g \in Gates |-> [c \in Conn |->
          IF \E i \in DOMAIN net[src][dst] : /\ net[src][dst][i].type = "disconnected"
                                            /\ net[src][dst][i].session = S(g, c)
          THEN "unsent" ELSE gone[g][c]]]
    /\ UNCHANGED <<attach, lost>> /\ GameOnly

Next == (\E g \in Gates : Worker(g) \/ Reader(g)) \/ GameStep
        \/ \E src, dst \in Procs : LinkLost(src, dst)

Spec == Init /\ [][Next]_vars

\* What is left to do: handlers under way and frames that have arrived.
Progress ==
    \E g \in Gates :
       \/ ~At(g, "worker", "idle") /\ Worker(g)
       \/ Reader(g)
       \/ HandleLoginRequest(g) \/ HandlePlayerDisconnected(g)
       \/ HandleForwardPlayerMessageRequest(g)

\* The threads do not stop while there is something left to do.  Clients, faults
\* and pushes need not happen.
FairSpec == Spec /\ WF_vars(Progress)

-----------------------------------------------------------------------------
(* Properties.                                                             *)

\* A client is served the player of the account it logged in with, and no other,
\* whatever overtakes what: HandleLoginResponse, the forwarding of messages, and
\* HandlePushPlayerMessage match what arrives with what was asked.
OwnPlayer ==
    \A g \in Gates, c \in Conn :
       /\ Active(g, c) => sessions[g][c] = [account |-> asked[g][c], player |-> asked[g][c]]
       /\ told[g][c] \subseteq {asked[g][c]}

\* Why the socket of connection c of gate g is closed: its client has gone, another
\* connection logged in with its account, or the game lost the player.
ClosedForGood(g, c) ==
    \/ thread'[g]["worker"].closing = c /\ thread'[g]["worker"].then = "idle"
    \/ \E s \in Session \ {S(g, c)} : asked[s.gate][s.conn] = asked[g][c]
    \/ net[Game][g] # <<>> /\ Head(net[Game][g]) = Msg("unbind", S(g, c), asked[g][c], 0)

\* A connection is closed by the server only for its own account: another
\* connection logged in with it, or the game lost the player (KickLocal,
\* HandleKickAccountSession, HandleUnbindPlayerSession).
OnlyOwnKicked == [][\A g \in Gates : \A c \in sock[g] \ sock'[g] : ClosedForGood(g, c)]_vars

\* The game and the gates implement PlayerAttachment: a player leaves a session
\* only for a newer one, when its client has gone, or with the lease.
Attachment == INSTANCE PlayerAttachment WITH
    Players <- Accounts, Sessions <- Session, NoSession <- None, attached <- attach,
    gone <- {s \in Session : gone[s.gate][s.conn] # "no"}

AttachmentKept == Attachment!AttachmentSpec

\* Players that the game serves to a session that has ended after its login.
Stranded ==
    {p \in Accounts : attach[p] # None /\ gone[attach[p].gate][attach[p].conn] = "after login"}

\* The game notices every session that ends after its login, with no other login
\* of its client under way, unless the message about it was lost: its player does
\* not stay online for ever (HandleSessionDisconnected, HandlePlayerDisconnected).
DisconnectReachesGame == Stranded # {} ~> Stranded = {}
=============================================================================
