--------------------------- MODULE GateLoginProofs ---------------------------
(***************************************************************************)
(* Theorems about client sessions and their players, for any number of     *)
(* gates, accounts, connections, logins and faults.                        *)
(***************************************************************************)
EXTENDS GateLogin, TLAPS

-----------------------------------------------------------------------------
(* The invariant.                                                          *)

\* A session that is logged in is that of the account its client asked for.
RecordOK(g, c, record) ==
    record \notin {None, Anonymous} =>
       record = [account |-> asked[g][c], player |-> asked[g][c]]

ToldOK(g, c, players) == players \subseteq {asked[g][c]}

\* The owner entry of an account names a session that asked for it.
OwnerOK(a, session) == session # None => asked[session.gate][session.conn] = a

\* A pending login is the connection's, and has had its number.
PendingOK(g, r, login) ==
    login # None => asked[g][login.conn] = login.account /\ r < nextReq[g]

\* A player message that is asked for has had its number.
AskingOK(r, c) == c # 0 => r <= used.events

\* What a thread knows at each of its steps.
LogsIn(me) == me.at \in {"kick", "open", "send", "record"} \/ me.then = "open"
Ends(me) == me.at \in {"remove", "disc", "unbind", "del"}

ThreadOK(g, me) ==
    /\ LogsIn(me) => me.conn \in Conn /\ me.account \in Accounts /\ asked[g][me.conn] = me.account
    /\ me.at = "kick" =>
          \/ me.read = None
          \/ me.read \in Session /\ asked[me.read.gate][me.read.conn] = me.account
    /\ me.at = "record" => me.req \in Req /\ me.req < nextReq[g]
    /\ me.at = "ask" => me.conn \in Conn /\ me.req \in 1..MaxEvents /\ me.req <= used.events
    /\ me.at \in {"activate", "bind"} =>
          /\ me.conn \in Conn /\ me.account \in Accounts
          /\ asked[g][me.conn] = me.account /\ me.read = me.account
    /\ IF Ends(me) THEN me.closing \in Conn /\ me.then \in {"idle", "open"} ELSE me.then = "idle"
    /\ me.at \in {"disc", "unbind", "del"} =>
          me.read \in [account : Accounts, player : Accounts] /\ gone[g][me.closing] # "no"

\* What a frame from src to dst says.
FrameOK(src, dst, m) ==
    /\ m.type \in {"login", "forward"} => src = m.session.gate
    /\ m.type \in {"response", "forwarded", "unbind"} => dst = m.session.gate
    /\ m.type \in {"login", "response", "forward", "forwarded"} =>
          asked[m.session.gate][m.session.conn] = m.player
    /\ m.type \in {"login", "response"} => m.req \in Req /\ m.req < nextReq[m.session.gate]
    /\ m.type \in {"forward", "forwarded"} => m.req \in 1..MaxEvents /\ m.req <= used.events
    /\ m.type = "disconnected" => gone[m.session.gate][m.session.conn] # "no"
    /\ m.type = "unbind" => m.req = 0 /\ m.ok
    /\ m.type = "kick" => src # dst /\ src \in Gates /\ \E c \in Conn : asked[src][c] = m.player

\* A request and its answer belong to the connection the gate has noted, or is
\* about to note, under their number.
Noted(m, logins, messages, worker) ==
    /\ m.type \in {"login", "response"} =>
          /\ logins[m.req] # None => logins[m.req].conn = m.session.conn
          /\ worker.at = "record" /\ worker.req = m.req => worker.conn = m.session.conn
    /\ m.type \in {"forward", "forwarded"} =>
          /\ messages[m.req] # 0 => messages[m.req] = m.session.conn
          /\ worker.at = "ask" /\ worker.req = m.req => worker.conn = m.session.conn

NotedBy(m) == LET g == m.session.gate IN Noted(m, pending[g], asking[g], thread[g]["worker"])

\* Every login that is under way has been counted.
Unsent(me) == me.at \in {"kick", "open", "send"} \/ me.then = "open"
CountOK(g) ==
    nextReq[g] <= used.logins + 1 /\ (Unsent(thread[g]["worker"]) => nextReq[g] <= used.logins)

GateInv ==
    /\ GateTypeOK
    /\ \A g \in Gates, c \in Conn : RecordOK(g, c, sessions[g][c]) /\ ToldOK(g, c, told[g][c])
    /\ \A a \in Accounts : OwnerOK(a, owner[a])
    /\ \A g \in Gates, r \in Req : PendingOK(g, r, pending[g][r])
    /\ \A g \in Gates, r \in 1..MaxEvents : AskingOK(r, asking[g][r])
    /\ \A g \in Gates, t \in Threads : ThreadOK(g, thread[g][t])
    /\ \A src, dst \in Procs : \A i \in 1..Len(net[src][dst]) :
          FrameOK(src, dst, net[src][dst][i]) /\ NotedBy(net[src][dst][i])
    /\ \A g \in Gates : CountOK(g)

-----------------------------------------------------------------------------
(* What no step takes back.                                                *)

Grows ==
    /\ \A g \in Gates, c \in Conn :
          /\ asked[g][c] \in Accounts => asked'[g][c] = asked[g][c]
          /\ gone[g][c] # "no" => gone'[g][c] # "no"
    /\ \A g \in Gates : nextReq[g] <= nextReq'[g]
    /\ used.events <= used'.events /\ used.logins <= used'.logins

LEMMA SessionFacts ==
    /\ \A s \in Session : s.gate \in Gates /\ s.conn \in Conn /\ s = S(s.gate, s.conn)
    /\ \A g \in Gates, c \in Conn : S(g, c) \in Session /\ S(g, c).gate = g /\ S(g, c).conn = c
    /\ \A m \in Message : m.session \in Session /\ m.player \in Accounts /\ m.req \in Nat
  BY DEF Session, S, Message

LEMMA MsgFacts ==
    ASSUME NEW type \in {"login", "response", "kick", "disconnected", "unbind", "forward",
                         "forwarded", "push"},
           NEW s \in Session, NEW p \in Accounts, NEW r \in Nat
    PROVE  \E m \in Message : /\ m = Msg(type, s, p, r)
                              /\ m.type = type /\ m.session = s /\ m.player = p /\ m.req = r /\ m.ok
<1> DEFINE m == Msg(type, s, p, r)
<1>1. /\ m \in Message
      /\ m.type = type /\ m.session = s /\ m.player = p /\ m.req = r /\ m.ok
  BY DEF Msg, Message
<1> QED
  BY <1>1

LEMMA TypeFacts ==
    ASSUME GateTypeOK
    PROVE  /\ accepted \in [Gates -> 0..MaxConns] /\ sock \in [Gates -> SUBSET Conn]
           /\ sessions \in [Gates -> [Conn -> SessionRecord \cup {None}]]
           /\ routes \in [Gates -> [Accounts -> {0} \cup Conn]]
           /\ pending \in [Gates -> [Req -> [conn : Conn, account : Accounts] \cup {None}]]
           /\ asking \in [Gates -> [1..MaxEvents -> {0} \cup Conn]]
           /\ thread \in [Gates -> [Threads -> Thread]]
           /\ owner \in [Accounts -> Session \cup {None}]
           /\ attach \in [Accounts -> Session \cup {None}]
           /\ net \in [Procs -> [Procs -> Seq(Message)]]
           /\ asked \in [Gates -> [Conn -> Accounts \cup {None}]]
           /\ told \in [Gates -> [Conn -> SUBSET Accounts]]
           /\ gone \in [Gates -> [Conn -> {"no", "during login", "after login", "unsent"}]]
           /\ lost \subseteq Accounts
           /\ nextReq \in [Gates -> 1..(MaxReqs + 1)]
           /\ used \in [logins : 0..MaxReqs, events : 0..MaxEvents]
  BY Zenon DEF GateTypeOK

LEMMA BoundFacts ==
    MaxConns \in Nat /\ MaxReqs \in Nat /\ MaxEvents \in Nat /\ MaxClients \in Nat
  BY GateAssumption

LEMMA NumberFacts ==
    ASSUME GateTypeOK
    PROVE  /\ \A g \in Gates : nextReq[g] \in Nat
           /\ used.events \in Nat /\ used.logins \in Nat
           /\ used.events <= MaxEvents /\ used.logins <= MaxReqs
<1>1. nextReq \in [Gates -> 1..(MaxReqs + 1)] /\ used \in [logins : 0..MaxReqs, events : 0..MaxEvents]
  BY TypeFacts
<1> QED
  BY <1>1, BoundFacts

LEMMA NumberFactsPrimed ==
    ASSUME GateTypeOK'
    PROVE  /\ \A g \in Gates : nextReq'[g] \in Nat
           /\ used'.events \in Nat /\ used'.logins \in Nat
           /\ used'.events <= MaxEvents /\ used'.logins <= MaxReqs
<1>1. /\ nextReq' \in [Gates -> 1..(MaxReqs + 1)]
      /\ used' \in [logins : 0..MaxReqs, events : 0..MaxEvents]
  BY Zenon DEF GateTypeOK
<1> QED
  BY <1>1, BoundFacts

LEMMA ElementFacts ==
    ASSUME GateTypeOK
    PROVE  /\ \A g \in Gates, c \in Conn :
                 /\ sessions[g][c] \in SessionRecord \cup {None}
                 /\ asked[g][c] \in Accounts \cup {None} /\ told[g][c] \subseteq Accounts
           /\ \A g \in Gates, r \in Req : pending[g][r] \in [conn : Conn, account : Accounts] \cup {None}
           /\ \A g \in Gates, r \in 1..MaxEvents : asking[g][r] \in {0} \cup Conn
           /\ \A g \in Gates, t \in Threads : thread[g][t] \in Thread
           /\ \A a \in Accounts : owner[a] \in Session \cup {None} /\ attach[a] \in Session \cup {None}
           /\ \A src, dst \in Procs :
                 /\ net[src][dst] \in Seq(Message)
                 /\ \A i \in 1..Len(net[src][dst]) : net[src][dst][i] \in Message
<1>1. /\ sessions \in [Gates -> [Conn -> SessionRecord \cup {None}]]
      /\ asked \in [Gates -> [Conn -> Accounts \cup {None}]]
      /\ told \in [Gates -> [Conn -> SUBSET Accounts]]
  BY TypeFacts
<1>2. /\ pending \in [Gates -> [Req -> [conn : Conn, account : Accounts] \cup {None}]]
      /\ asking \in [Gates -> [1..MaxEvents -> {0} \cup Conn]]
  BY TypeFacts
<1>3. /\ thread \in [Gates -> [Threads -> Thread]]
      /\ owner \in [Accounts -> Session \cup {None}]
      /\ attach \in [Accounts -> Session \cup {None}]
  BY TypeFacts
<1>4. net \in [Procs -> [Procs -> Seq(Message)]]
  BY TypeFacts
<1>5. \A g \in Gates, c \in Conn :
         /\ sessions[g][c] \in SessionRecord \cup {None}
         /\ asked[g][c] \in Accounts \cup {None} /\ told[g][c] \subseteq Accounts
  BY <1>1
<1>6. /\ \A g \in Gates, r \in Req : pending[g][r] \in [conn : Conn, account : Accounts] \cup {None}
      /\ \A g \in Gates, r \in 1..MaxEvents : asking[g][r] \in {0} \cup Conn
  BY <1>2
<1>7. /\ \A g \in Gates, t \in Threads : thread[g][t] \in Thread
      /\ \A a \in Accounts : owner[a] \in Session \cup {None} /\ attach[a] \in Session \cup {None}
  BY <1>3
<1>8. \A src, dst \in Procs :
         /\ net[src][dst] \in Seq(Message)
         /\ \A i \in 1..Len(net[src][dst]) : net[src][dst][i] \in Message
  BY <1>4
<1> QED
  BY <1>5, <1>6, <1>7, <1>8

LEMMA ThreadKept ==
    ASSUME GateTypeOK, GateTypeOK', Grows, NEW g \in Gates, NEW me \in Thread, ThreadOK(g, me)
    PROVE  ThreadOK(g, me)'
<1>1. /\ nextReq[g] \in Nat /\ used.events \in Nat /\ nextReq'[g] \in Nat /\ used'.events \in Nat
      /\ nextReq[g] <= nextReq'[g] /\ used.events <= used'.events
  BY NumberFacts, NumberFactsPrimed DEF Grows
<1>2. LogsIn(me)' <=> LogsIn(me)
  BY DEF LogsIn
<1>3. Ends(me)' <=> Ends(me)
  BY DEF Ends
<1>4. \A h \in Gates, c \in Conn, a \in Accounts : asked[h][c] = a => asked'[h][c] = a
  BY DEF Grows
<1>5. me.req \in Nat /\ me.account \in Accounts \cup {None}
  BY DEF Thread
<1>6. \A s \in Session : s.gate \in Gates /\ s.conn \in Conn
  BY SessionFacts
<1>7. Ends(me) /\ me.closing \in Conn /\ gone[g][me.closing] # "no" => gone'[g][me.closing] # "no"
  BY DEF Grows
<1>8. me.at = "kick" => LogsIn(me)
  BY DEF LogsIn
<1>9. me.at \in {"disc", "unbind", "del"} => Ends(me)
  BY DEF Ends
<1> QED
  BY <1>1, <1>2, <1>3, <1>4, <1>5, <1>6, <1>7, <1>8, <1>9 DEF ThreadOK

LEMMA FrameKept ==
    ASSUME GateTypeOK, GateTypeOK', Grows, NEW src \in Procs, NEW dst \in Procs, NEW m \in Message,
           FrameOK(src, dst, m)
    PROVE  FrameOK(src, dst, m)'
<1> DEFINE g == m.session.gate
           c == m.session.conn
<1>1. g \in Gates /\ c \in Conn /\ m.player \in Accounts /\ m.req \in Nat
  BY SessionFacts
<1> HIDE DEF g, c
<1>2. /\ nextReq[g] \in Nat /\ used.events \in Nat /\ nextReq'[g] \in Nat /\ used'.events \in Nat
      /\ nextReq[g] <= nextReq'[g] /\ used.events <= used'.events
  BY <1>1, NumberFacts, NumberFactsPrimed DEF Grows
<1>3. \A h \in Gates, b \in Conn, a \in Accounts : asked[h][b] = a => asked'[h][b] = a
  BY DEF Grows
<1>4. gone[g][c] # "no" => gone'[g][c] # "no"
  BY <1>1 DEF Grows
<1> QED
  BY <1>1, <1>2, <1>3, <1>4 DEF FrameOK, g, c

\* Threads and frames that are as they were, or again as they should be.
ThreadsGoOn ==
    /\ \A g \in Gates, t \in Threads :
          thread'[g][t] = thread[g][t] \/ ThreadOK(g, thread[g][t])'
    /\ \A g \in Gates :
          /\ \/ thread'[g]["worker"] = thread[g]["worker"]
             \/ thread'[g]["worker"].at \notin {"record", "ask"}
          /\ \/ Unsent(thread'[g]["worker"]) => Unsent(thread[g]["worker"])
             \/ nextReq[g] <= used'.logins

FramesGoOn ==
    \A src, dst \in Procs : \A i \in 1..Len(net'[src][dst]) :
       \/ \E j \in 1..Len(net[src][dst]) : net'[src][dst][i] = net[src][dst][j]
       \/ FrameOK(src, dst, net[src][dst][i])' /\ NotedBy(net[src][dst][i])'

\* What is noted about every frame goes on being so.
NotesGoOn ==
    \A m \in Message, src, dst \in Procs : FrameOK(src, dst, m) /\ NotedBy(m) => NotedBy(m)'

\* A step after which everything is as it was, less, or again as it should be.
LEMMA KeptAll ==
    ASSUME GateInv, GateTypeOK', Grows, FramesGoOn, NotesGoOn, \A g \in Gates : CountOK(g)',
           \A g \in Gates, t \in Threads :
              thread'[g][t] = thread[g][t] \/ ThreadOK(g, thread[g][t])',
           \A g \in Gates, c \in Conn :
              \/ sessions'[g][c] \in {sessions[g][c], None, Anonymous}
              \/ RecordOK(g, c, sessions[g][c])',
           \A g \in Gates, c \in Conn : told'[g][c] = told[g][c] \/ ToldOK(g, c, told[g][c])',
           \A a \in Accounts : owner'[a] \in {owner[a], None} \/ OwnerOK(a, owner[a])',
           \A g \in Gates, r \in Req :
              pending'[g][r] \in {pending[g][r], None} \/ PendingOK(g, r, pending[g][r])',
           \A g \in Gates, r \in 1..MaxEvents :
              asking'[g][r] \in {asking[g][r], 0} \/ AskingOK(r, asking[g][r])'
    PROVE  GateInv'
<1>1. GateTypeOK
  BY DEF GateInv
<1>2. \A h \in Gates, c \in Conn, a \in Accounts : asked[h][c] = a => asked'[h][c] = a
  BY DEF Grows
<1>3. ASSUME NEW g \in Gates, NEW c \in Conn
      PROVE  RecordOK(g, c, sessions[g][c])'
  <2>1. CASE sessions'[g][c] \in {None, Anonymous}
    BY <2>1 DEF RecordOK, Anonymous
  <2>2. CASE sessions'[g][c] = sessions[g][c] /\ sessions'[g][c] \notin {None, Anonymous}
    <3>1. sessions[g][c] \in [account : Accounts, player : Accounts]
      BY <1>1, <2>2, ElementFacts DEF SessionRecord
    <3>2. sessions[g][c] = [account |-> asked[g][c], player |-> asked[g][c]]
      BY <2>2 DEF GateInv, RecordOK
    <3>3. asked[g][c] \in Accounts
      BY <3>1, <3>2
    <3>4. asked'[g][c] = asked[g][c]
      BY <1>2, <3>3
    <3> QED
      BY <2>2, <3>2, <3>4 DEF RecordOK
  <2> QED
    BY <2>1, <2>2
<1>4. ASSUME NEW g \in Gates, NEW c \in Conn
      PROVE  ToldOK(g, c, told[g][c])'
  <2>1. told[g][c] \subseteq Accounts /\ ToldOK(g, c, told[g][c])
    BY <1>1, ElementFacts DEF GateInv
  <2> QED
    BY <1>2, <2>1 DEF ToldOK
<1>5. ASSUME NEW a \in Accounts
      PROVE  OwnerOK(a, owner[a])'
  <2>1. owner[a] \in Session \cup {None} /\ OwnerOK(a, owner[a])
    BY <1>1, ElementFacts DEF GateInv
  <2> QED
    BY <1>2, <2>1, SessionFacts DEF OwnerOK
<1>6. ASSUME NEW g \in Gates, NEW r \in Req
      PROVE  PendingOK(g, r, pending[g][r])'
  <2>1. pending[g][r] \in [conn : Conn, account : Accounts] \cup {None} /\ PendingOK(g, r, pending[g][r])
    BY <1>1, ElementFacts DEF GateInv
  <2>2. nextReq[g] \in Nat /\ nextReq'[g] \in Nat /\ nextReq[g] <= nextReq'[g] /\ r \in Int
    BY <1>1, NumberFacts, NumberFactsPrimed DEF Grows, Req
  <2> QED
    BY <1>2, <2>1, <2>2 DEF PendingOK
<1>7. ASSUME NEW g \in Gates, NEW r \in 1..MaxEvents
      PROVE  AskingOK(r, asking[g][r])'
  <2>1. AskingOK(r, asking[g][r]) /\ r \in Int
    BY DEF GateInv
  <2>2. used.events \in Int /\ used'.events \in Int
    BY <1>1, NumberFacts, NumberFactsPrimed
  <2> QED
    BY <2>1, <2>2 DEF AskingOK, Grows
<1>8. ASSUME NEW g \in Gates, NEW t \in Threads
      PROVE  ThreadOK(g, thread[g][t])'
  <2>1. thread[g][t] \in Thread /\ ThreadOK(g, thread[g][t])
    BY <1>1, ElementFacts DEF GateInv
  <2>2. CASE thread'[g][t] = thread[g][t]
    <3>1. PICK me \in Thread : me = thread[g][t] /\ ThreadOK(g, me)
      BY <2>1
    <3>2. ThreadOK(g, me)'
      BY <1>1, <3>1, ThreadKept
    <3> QED
      BY <2>2, <3>1, <3>2
  <2> QED
    BY <2>2
<1>9. ASSUME NEW src \in Procs, NEW dst \in Procs, NEW i \in 1..Len(net'[src][dst])
      PROVE  FrameOK(src, dst, net[src][dst][i])' /\ NotedBy(net[src][dst][i])'
  <2>1. SUFFICES ASSUME NEW j \in 1..Len(net[src][dst]), net'[src][dst][i] = net[src][dst][j]
                 PROVE  FrameOK(src, dst, net[src][dst][i])' /\ NotedBy(net[src][dst][i])'
    BY DEF FramesGoOn
  <2>2. PICK m \in Message : m = net[src][dst][j] /\ FrameOK(src, dst, m) /\ NotedBy(m)
    BY <1>1, ElementFacts DEF GateInv
  <2>3. FrameOK(src, dst, m)'
    BY <1>1, <2>2, FrameKept
  <2>4. NotedBy(m)'
    BY <2>2 DEF NotesGoOn
  <2> QED
    BY <2>1, <2>2, <2>3, <2>4
<1> QED
  BY <1>3, <1>4, <1>5, <1>6, <1>7, <1>8, <1>9 DEF GateInv

\* A step in which nothing new is noted, and everything else is as it was, less,
\* or again as it should be.
LEMMA Kept ==
    ASSUME GateInv, GateTypeOK', Grows, ThreadsGoOn, FramesGoOn,
           \A g \in Gates, c \in Conn :
              \/ sessions'[g][c] \in {sessions[g][c], None, Anonymous}
              \/ RecordOK(g, c, sessions[g][c])',
           \A g \in Gates, c \in Conn : told'[g][c] = told[g][c] \/ ToldOK(g, c, told[g][c])',
           \A a \in Accounts : owner'[a] \in {owner[a], None} \/ OwnerOK(a, owner[a])',
           \A g \in Gates, r \in Req : pending'[g][r] \in {pending[g][r], None},
           \A g \in Gates, r \in 1..MaxEvents : asking'[g][r] \in {asking[g][r], 0},
           nextReq' = nextReq
    PROVE  GateInv'
<1>1. GateTypeOK
  BY DEF GateInv
<1>2. ASSUME NEW m \in Message, NEW src \in Procs, NEW dst \in Procs, FrameOK(src, dst, m), NotedBy(m)
      PROVE  NotedBy(m)'
  <2> DEFINE g == m.session.gate
  <2>1. g \in Gates
    BY SessionFacts
  <2> HIDE DEF g
  <2>2. Noted(m, pending[g], asking[g], thread[g]["worker"])
    BY <1>2 DEF NotedBy, g
  <2>3. m.type \in {"login", "response"} => m.req \in Req
    BY <1>2 DEF FrameOK
  <2>4. m.type \in {"forward", "forwarded"} => m.req \in 1..MaxEvents
    BY <1>2 DEF FrameOK
  <2>5. Noted(m, pending'[g], asking'[g], thread'[g]["worker"])
    BY <2>1, <2>2, <2>3, <2>4 DEF Noted, ThreadsGoOn
  <2> QED
    BY <2>5 DEF NotedBy, g
<1>3. ASSUME NEW g \in Gates PROVE CountOK(g)'
  <2>1. CountOK(g)
    BY DEF GateInv
  <2>2. /\ nextReq[g] \in Nat /\ used.logins \in Nat /\ used'.logins \in Nat /\ nextReq'[g] = nextReq[g]
        /\ used.logins <= used'.logins
    BY <1>1, NumberFacts, NumberFactsPrimed DEF Grows
  <2> QED
    BY <2>1, <2>2 DEF CountOK, ThreadsGoOn
<1>4. NotesGoOn
  BY <1>2 DEF NotesGoOn
<1> QED
  BY <1>3, <1>4, KeptAll DEF ThreadsGoOn

\* The types after a step, one variable at a time.
LEMMA TypesKept ==
    ASSUME GateTypeOK,
           accepted' = accepted \/ accepted' \in [Gates -> 0..MaxConns],
           sock' = sock \/ sock' \in [Gates -> SUBSET Conn],
           sessions' = sessions \/ sessions' \in [Gates -> [Conn -> SessionRecord \cup {None}]],
           routes' = routes \/ routes' \in [Gates -> [Accounts -> {0} \cup Conn]],
           \/ pending' = pending
           \/ pending' \in [Gates -> [Req -> [conn : Conn, account : Accounts] \cup {None}]],
           nextReq' = nextReq \/ nextReq' \in [Gates -> 1..(MaxReqs + 1)],
           asking' = asking \/ asking' \in [Gates -> [1..MaxEvents -> {0} \cup Conn]],
           thread' = thread \/ thread' \in [Gates -> [Threads -> Thread]],
           owner' = owner \/ owner' \in [Accounts -> Session \cup {None}],
           net' = net \/ net' \in [Procs -> [Procs -> Seq(Message)]],
           attach' = attach \/ attach' \in [Accounts -> Session \cup {None}],
           used' = used \/ used' \in [logins : 0..MaxReqs, events : 0..MaxEvents],
           asked' = asked \/ asked' \in [Gates -> [Conn -> Accounts \cup {None}]],
           told' = told \/ told' \in [Gates -> [Conn -> SUBSET Accounts]],
           \/ gone' = gone
           \/ gone' \in [Gates -> [Conn -> {"no", "during login", "after login", "unsent"}]],
           lost' = lost \/ lost' \subseteq Accounts
    PROVE  GateTypeOK'
<1>1. accepted' \in [Gates -> 0..MaxConns]
  BY TypeFacts
<1>2. sock' \in [Gates -> SUBSET Conn]
  BY TypeFacts
<1>3. sessions' \in [Gates -> [Conn -> SessionRecord \cup {None}]]
  BY TypeFacts
<1>4. routes' \in [Gates -> [Accounts -> {0} \cup Conn]]
  BY TypeFacts
<1>5. pending' \in [Gates -> [Req -> [conn : Conn, account : Accounts] \cup {None}]]
  BY TypeFacts
<1>6. nextReq' \in [Gates -> 1..(MaxReqs + 1)]
  BY TypeFacts
<1>7. asking' \in [Gates -> [1..MaxEvents -> {0} \cup Conn]]
  BY TypeFacts
<1>8. thread' \in [Gates -> [Threads -> Thread]]
  BY TypeFacts
<1>9. owner' \in [Accounts -> Session \cup {None}]
  BY TypeFacts
<1>10. net' \in [Procs -> [Procs -> Seq(Message)]]
  BY TypeFacts
<1>11. attach' \in [Accounts -> Session \cup {None}]
  BY TypeFacts
<1>12. used' \in [logins : 0..MaxReqs, events : 0..MaxEvents]
  BY TypeFacts
<1>13. asked' \in [Gates -> [Conn -> Accounts \cup {None}]]
  BY TypeFacts
<1>14. told' \in [Gates -> [Conn -> SUBSET Accounts]]
  BY TypeFacts
<1>15. gone' \in [Gates -> [Conn -> {"no", "during login", "after login", "unsent"}]]
  BY TypeFacts
<1>16. lost' \subseteq Accounts
  BY TypeFacts
<1> QED
  BY <1>1, <1>2, <1>3, <1>4, <1>5, <1>6, <1>7, <1>8, <1>9, <1>10, <1>11, <1>12, <1>13, <1>14, <1>15, <1>16, Zenon DEF GateTypeOK

\* One thread goes on, to a new state.
Turns(g, t, new) ==
    /\ thread' \in [Gates -> [Threads -> Thread]]
    /\ \A h \in Gates, u \in Threads :
          thread'[h][u] = IF h = g /\ u = t THEN new ELSE thread[h][u]

LEMMA TurnFacts ==
    ASSUME GateTypeOK, NEW g \in Gates, NEW t \in Threads, NEW new \in Thread,
           thread' = [thread EXCEPT ![g][t] = new]
    PROVE  Turns(g, t, new)
<1>1. thread \in [Gates -> [Threads -> Thread]]
  BY TypeFacts
<1> QED
  BY <1>1 DEF Turns

LEMMA IdleFacts ==
    Idle \in Thread /\ ~Unsent(Idle) /\ \A g : ThreadOK(g, Idle)
  BY DEF Idle, Thread, Steps, Unsent, ThreadOK, LogsIn, Ends

LEMMA GotoFacts ==
    ASSUME GateTypeOK, NEW g \in Gates, NEW t \in Threads, NEW label \in Steps, Goto(g, t, label)
    PROVE  Turns(g, t, [thread[g][t] EXCEPT !.at = label])
<1>1. thread[g][t] \in Thread
  BY ElementFacts
<1>2. [thread[g][t] EXCEPT !.at = label] \in Thread
  BY <1>1 DEF Thread
<1>3. thread' = [thread EXCEPT ![g][t] = [thread[g][t] EXCEPT !.at = label]]
  BY DEF Goto
<1> QED
  BY <1>2, <1>3, TurnFacts

LEMMA FinishFacts ==
    ASSUME GateTypeOK, NEW g \in Gates, NEW t \in Threads, Finish(g, t)
    PROVE  Turns(g, t, Idle)
  BY TurnFacts, IdleFacts DEF Finish

LEMMA ClosingFacts ==
    ASSUME GateTypeOK, NEW g \in Gates, NEW t \in Threads, NEW c \in Conn, NEW label \in Steps,
           Closing(g, t, c, label)
    PROVE  /\ Turns(g, t, [thread[g][t] EXCEPT !.at = "remove", !.closing = c, !.then = label])
           /\ sock' \in [Gates -> SUBSET Conn]
           /\ \A h \in Gates : sock'[h] = IF h = g THEN sock[h] \ {c} ELSE sock[h]
<1> DEFINE new == [thread[g][t] EXCEPT !.at = "remove", !.closing = c, !.then = label]
<1>1. thread[g][t] \in Thread /\ thread \in [Gates -> [Threads -> Thread]]
      /\ sock \in [Gates -> SUBSET Conn]
  BY ElementFacts, TypeFacts
<1>2. new \in Thread
  BY <1>1 DEF Thread, Steps
<1>3. thread' = [thread EXCEPT ![g][t] = new]
  BY <1>1 DEF Closing
<1>4. sock' = [sock EXCEPT ![g] = @ \ {c}]
  BY DEF Closing
<1>5. Turns(g, t, new)
  BY <1>2, <1>3, TurnFacts
<1> QED
  BY <1>1, <1>4, <1>5

\* A thread that has ended a session goes on with the login it came from, if any.
LEMMA ReturnFacts ==
    ASSUME GateInv, NEW g \in Gates, NEW t \in Threads, Ends(thread[g][t]), Return(g, t)
    PROVE  \E new \in Thread :
              /\ Turns(g, t, new) /\ ThreadOK(g, new)
              /\ new.at \in {"idle", "open"} /\ (Unsent(new) => Unsent(thread[g][t]))
<1> DEFINE me == thread[g][t]
<1>1. me \in Thread /\ ThreadOK(g, me) /\ GateTypeOK
  BY ElementFacts DEF GateInv
<1>2. CASE me.then = "idle"
  <2>1. thread' = [thread EXCEPT ![g][t] = Idle]
    BY <1>2 DEF Return
  <2>2. Turns(g, t, Idle)
    BY <1>1, <2>1, IdleFacts, TurnFacts
  <2>3. Idle.at = "idle"
    BY DEF Idle
  <2> QED
    BY <2>2, <2>3, IdleFacts
<1>3. CASE me.then # "idle"
  <2> DEFINE new == [me EXCEPT !.at = me.then, !.closing = 0, !.then = "idle"]
  <2>1. me.then = "open" /\ LogsIn(me) /\ Unsent(me)
    BY <1>1, <1>3 DEF ThreadOK, LogsIn, Unsent
  <2>2. /\ new \in Thread /\ new.at = "open" /\ new.then = "idle" /\ new.conn = me.conn
        /\ new.account = me.account
    BY <1>1, <2>1 DEF Thread, Steps
  <2>3. thread' = [thread EXCEPT ![g][t] = new]
    BY <1>3 DEF Return
  <2>4. Turns(g, t, new)
    BY <1>1, <2>2, <2>3, TurnFacts
  <2> HIDE DEF new
  <2>5. ThreadOK(g, new)
    BY <1>1, <2>1, <2>2 DEF ThreadOK, Ends, LogsIn
  <2> QED
    BY <2>1, <2>2, <2>4, <2>5
<1> QED
  BY <1>2, <1>3

\* A turn to a state that is as it should be.
LEMMA TurnGoesOn ==
    ASSUME GateTypeOK, GateTypeOK', Grows, NEW g \in Gates, NEW t \in Threads, NEW new \in Thread,
           Turns(g, t, new), ThreadOK(g, new) \/ ThreadOK(g, new)', new.at \notin {"record", "ask"},
           \/ t = "reader"
           \/ Unsent(new) => Unsent(thread[g][t])
           \/ nextReq[g] <= used'.logins
    PROVE  ThreadsGoOn
<1>1. ThreadOK(g, new)'
  BY ThreadKept
<1>2. \A h \in Gates, u \in Threads : (h = g /\ u = t) \/ thread'[h][u] = thread[h][u]
  BY DEF Turns
<1>3. thread'[g][t] = new
  BY DEF Turns
<1>4. "worker" \in Threads /\ "worker" # "reader"
  BY DEF Threads
<1> QED
  BY <1>1, <1>2, <1>3, <1>4 DEF ThreadsGoOn

LEMMA FaultFacts ==
    ASSUME GateTypeOK, Fault
    PROVE  /\ used' \in [logins : 0..MaxReqs, events : 0..MaxEvents]
           /\ used'.logins = used.logins /\ used'.events = used.events + 1
           /\ used.events \in Nat /\ used.logins \in Nat /\ used.events + 1 \in 1..MaxEvents
<1>1. used \in [logins : 0..MaxReqs, events : 0..MaxEvents]
  BY TypeFacts
<1>2. used.events < MaxEvents /\ used' = [used EXCEPT !.events = @ + 1]
  BY DEF Fault
<1> QED
  BY <1>1, <1>2, BoundFacts

LEMMA GrowsFacts ==
    ASSUME GateTypeOK, UNCHANGED <<asked, nextReq>>, UNCHANGED used \/ Fault,
           \A g \in Gates, c \in Conn : gone'[g][c] = gone[g][c] \/ gone'[g][c] # "no"
    PROVE  Grows /\ (used' = used \/ used' \in [logins : 0..MaxReqs, events : 0..MaxEvents])
<1>1. used.events <= used'.events /\ used.logins <= used'.logins
  BY NumberFacts, FaultFacts
<1>2. \A g \in Gates : nextReq[g] <= nextReq'[g]
  BY NumberFacts
<1> QED
  BY <1>1, <1>2, FaultFacts DEF Grows

\* A frame is added to those from src to dst.
LEMMA SendFacts ==
    ASSUME GateTypeOK, NEW src \in Procs, NEW dst \in Procs, NEW m \in Message, Send(src, dst, m),
           FrameOK(src, dst, m)', NotedBy(m)'
    PROVE  FramesGoOn /\ net' \in [Procs -> [Procs -> Seq(Message)]]
<1>1. net \in [Procs -> [Procs -> Seq(Message)]] /\ net[src][dst] \in Seq(Message)
  BY TypeFacts, ElementFacts
<1>2. net' = [net EXCEPT ![src][dst] = Append(net[src][dst], m)]
  BY DEF Send
<1>3. \A s, d \in Procs : net'[s][d] = IF s = src /\ d = dst THEN Append(net[src][dst], m) ELSE net[s][d]
  BY <1>1, <1>2
<1>4. /\ Append(net[src][dst], m) \in Seq(Message)
      /\ \A i \in 1..Len(Append(net[src][dst], m)) :
            \/ Append(net[src][dst], m)[i] = m
            \/ i \in 1..Len(net[src][dst]) /\ Append(net[src][dst], m)[i] = net[src][dst][i]
  BY <1>1
<1>5. net' \in [Procs -> [Procs -> Seq(Message)]]
  BY <1>1, <1>2, <1>4
<1>6. ASSUME NEW s \in Procs, NEW d \in Procs, NEW i \in 1..Len(net'[s][d])
      PROVE  \/ \E j \in 1..Len(net[s][d]) : net'[s][d][i] = net[s][d][j]
             \/ FrameOK(s, d, net[s][d][i])' /\ NotedBy(net[s][d][i])'
  <2>1. CASE s = src /\ d = dst /\ net'[s][d][i] = m
    BY <2>1
  <2>2. CASE net'[s][d] = net[s][d]
    BY <2>2
  <2>3. CASE i \in 1..Len(net[s][d]) /\ net'[s][d][i] = net[s][d][i]
    BY <2>3
  <2> QED
    BY <1>3, <1>4, <2>1, <2>2, <2>3
<1> QED
  BY <1>5, <1>6 DEF FramesGoOn

\* The first frame from src to dst is taken off.
LEMMA TakeFacts ==
    ASSUME GateTypeOK, NEW src \in Procs, NEW dst \in Procs, net[src][dst] # <<>>,
           net' = [net EXCEPT ![src][dst] = Tail(@)]
    PROVE  FramesGoOn /\ net' \in [Procs -> [Procs -> Seq(Message)]]
<1>1. net \in [Procs -> [Procs -> Seq(Message)]] /\ net[src][dst] \in Seq(Message)
  BY TypeFacts, ElementFacts
<1>2. \A s, d \in Procs : net'[s][d] = IF s = src /\ d = dst THEN Tail(net[src][dst]) ELSE net[s][d]
  BY <1>1
<1>3. /\ Tail(net[src][dst]) \in Seq(Message)
      /\ \A i \in 1..Len(Tail(net[src][dst])) :
            i + 1 \in 1..Len(net[src][dst]) /\ Tail(net[src][dst])[i] = net[src][dst][i + 1]
  BY <1>1
<1>4. net' \in [Procs -> [Procs -> Seq(Message)]]
  BY <1>1, <1>3
<1>5. ASSUME NEW s \in Procs, NEW d \in Procs, NEW i \in 1..Len(net'[s][d])
      PROVE  \E j \in 1..Len(net[s][d]) : net'[s][d][i] = net[s][d][j]
  <2>1. CASE net'[s][d] = net[s][d]
    BY <2>1
  <2>2. CASE i + 1 \in 1..Len(net[s][d]) /\ net'[s][d][i] = net[s][d][i + 1]
    BY <2>2
  <2> QED
    BY <1>2, <1>3, <2>1, <2>2
<1> QED
  BY <1>4, <1>5 DEF FramesGoOn

LEMMA ReplyTyped ==
    ASSUME GateTypeOK, NEW g \in Gates, NEW m \in Message, net[g][Game] # <<>>, Reply(g, m)
    PROVE  net' \in [Procs -> [Procs -> Seq(Message)]]
<1>0. g \in Procs /\ Game \in Procs /\ g # Game
  BY GateAssumption DEF Procs
<1>1. net \in [Procs -> [Procs -> Seq(Message)]] /\ net[g][Game] \in Seq(Message) /\ net[Game][g] \in Seq(Message)
  BY <1>0, TypeFacts, ElementFacts
<1>2. Tail(net[g][Game]) \in Seq(Message) /\ Append(net[Game][g], m) \in Seq(Message)
  BY <1>1
<1>3. net' = [net EXCEPT ![g][Game] = Tail(net[g][Game]), ![Game][g] = Append(net[Game][g], m)]
  BY <1>0, <1>1 DEF Reply
<1> QED
  BY <1>0, <1>1, <1>2, <1>3

\* The game takes a frame off and answers it.
LEMMA ReplyFacts ==
    ASSUME GateTypeOK, NEW g \in Gates, NEW m \in Message, net[g][Game] # <<>>, Reply(g, m),
           FrameOK(Game, g, m)', NotedBy(m)'
    PROVE  FramesGoOn /\ net' \in [Procs -> [Procs -> Seq(Message)]]
<1>0. g \in Procs /\ Game \in Procs /\ g # Game
  BY GateAssumption DEF Procs
<1>1. net \in [Procs -> [Procs -> Seq(Message)]] /\ net[g][Game] \in Seq(Message) /\ net[Game][g] \in Seq(Message)
  BY <1>0, TypeFacts, ElementFacts
<1> DEFINE old == Tail(net[g][Game])
           new == Append(net[Game][g], m)
<1>2. /\ old \in Seq(Message)
      /\ \A i \in 1..Len(old) : i + 1 \in 1..Len(net[g][Game]) /\ old[i] = net[g][Game][i + 1]
  BY <1>1
<1>3. /\ new \in Seq(Message)
      /\ \A i \in 1..Len(new) :
            new[i] = m \/ (i \in 1..Len(net[Game][g]) /\ new[i] = net[Game][g][i])
  BY <1>1
<1>4. net' = [net EXCEPT ![g][Game] = old, ![Game][g] = new]
  BY <1>0, <1>1 DEF Reply
<1> HIDE DEF old, new
<1>5. net' \in [Procs -> [Procs -> Seq(Message)]]
  BY <1>0, <1>1, <1>2, <1>3, <1>4
<1>6. \A s, d \in Procs :
         \/ net'[s][d] = net[s][d]
         \/ s = g /\ d = Game /\ net'[s][d] = old
         \/ s = Game /\ d = g /\ net'[s][d] = new
  BY <1>0, <1>1, <1>4
<1>7. ASSUME NEW s \in Procs, NEW d \in Procs, NEW i \in 1..Len(net'[s][d])
      PROVE  \/ \E j \in 1..Len(net[s][d]) : net'[s][d][i] = net[s][d][j]
             \/ FrameOK(s, d, net[s][d][i])' /\ NotedBy(net[s][d][i])'
  <2>1. CASE s = Game /\ d = g /\ net'[s][d][i] = m
    BY <2>1
  <2>2. CASE net'[s][d] = net[s][d]
    BY <2>2
  <2>3. CASE i \in 1..Len(net[s][d]) /\ net'[s][d][i] = net[s][d][i]
    BY <2>3
  <2>4. CASE i + 1 \in 1..Len(net[s][d]) /\ net'[s][d][i] = net[s][d][i + 1]
    BY <2>4
  <2> QED
    BY <1>2, <1>3, <1>6, <2>1, <2>2, <2>3, <2>4
<1> QED
  BY <1>5, <1>7 DEF FramesGoOn

LEMMA NothingMoves ==
    ASSUME GateTypeOK
    PROVE  (thread' = thread => ThreadsGoOn) /\ (net' = net => FramesGoOn)
  BY DEF ThreadsGoOn, FramesGoOn

-----------------------------------------------------------------------------
(* The end of a connection.                                                *)

LEMMA RemoveByConnectionStep ==
    ASSUME GateInv, NEW g \in Gates, NEW t \in Threads, RemoveByConnection(g, t)
    PROVE  GateInv'
<1> DEFINE me == thread[g][t]
           c == me.closing
           record == sessions[g][c]
<1>1. me \in Thread /\ ThreadOK(g, me) /\ GateTypeOK
  BY ElementFacts DEF GateInv
<1>2. me.at = "remove" /\ Ends(me) /\ c \in Conn
  BY <1>1 DEF RemoveByConnection, At, ThreadOK, Ends
<1>3. /\ sessions' = [sessions EXCEPT ![g][c] = None]
      /\ UNCHANGED <<accepted, sock, routes, pending, nextReq, asking, owner, net, attach,
                     used, asked, told, lost>>
      /\ IF record \in {None, Anonymous} THEN Return(g, t)
         ELSE thread' = [thread EXCEPT ![g][t].at = "disc", ![g][t].read = record]
  BY DEF RemoveByConnection, Me
<1>4. PICK why \in {"no", "during login", "after login", "unsent"} :
         /\ gone' = [gone EXCEPT ![g][c] = why]
         /\ (record = None /\ why = gone[g][c]) \/ why # "no"
  <2>0. gone \in [Gates -> [Conn -> {"no", "during login", "after login", "unsent"}]]
    BY <1>1, TypeFacts
  <2>1. \/ record = None /\ gone' = gone
        \/ gone' = [gone EXCEPT ![g][c] = "during login"]
        \/ gone' = [gone EXCEPT ![g][c] = "after login"]
    BY DEF RemoveByConnection, Me
  <2>2. gone' = gone => gone' = [gone EXCEPT ![g][c] = gone[g][c]]
    BY <2>0
  <2>3. gone[g][c] \in {"no", "during login", "after login", "unsent"}
    BY <1>2, <2>0
  <2> QED
    BY <2>1, <2>2, <2>3
<1> HIDE DEF me, c, record
<1>5. /\ gone' \in [Gates -> [Conn -> {"no", "during login", "after login", "unsent"}]]
      /\ \A h \in Gates, d \in Conn : gone'[h][d] = gone[h][d] \/ gone'[h][d] # "no"
      /\ record # None => gone'[g][c] # "no"
  <2>1. gone \in [Gates -> [Conn -> {"no", "during login", "after login", "unsent"}]]
    BY <1>1, TypeFacts
  <2> QED
    BY <1>2, <1>4, <2>1
<1>6. /\ sessions' \in [Gates -> [Conn -> SessionRecord \cup {None}]]
      /\ \A h \in Gates, d \in Conn : sessions'[h][d] \in {sessions[h][d], None}
  <2>1. sessions \in [Gates -> [Conn -> SessionRecord \cup {None}]]
    BY <1>1, TypeFacts
  <2> QED
    BY <1>2, <1>3, <2>1
<1>7. Grows
  BY <1>1, <1>3, <1>5, GrowsFacts
<1>8. PICK new \in Thread :
         /\ Turns(g, t, new) /\ (ThreadOK(g, new) \/ ThreadOK(g, new)')
         /\ new.at \notin {"record", "ask"} /\ (Unsent(new) => Unsent(me))
  <2>1. CASE record \in {None, Anonymous}
    BY <1>2, <1>3, <2>1, ReturnFacts DEF me
  <2>2. CASE record \notin {None, Anonymous}
    <3>1. record \in [account : Accounts, player : Accounts]
      BY <1>1, <1>2, <2>2, ElementFacts DEF SessionRecord, record
    <3>2. PICK new \in Thread :
             /\ new = [me EXCEPT !.at = "disc", !.read = record]
             /\ new.at = "disc" /\ new.then = me.then /\ new.conn = me.conn
             /\ new.account = me.account /\ new.closing = c /\ new.read = record
      <4> DEFINE next == [me EXCEPT !.at = "disc", !.read = record]
      <4>1. /\ next \in Thread /\ next.at = "disc" /\ next.then = me.then /\ next.conn = me.conn
            /\ next.account = me.account /\ next.closing = me.closing /\ next.read = record
        BY <1>1, <3>1 DEF Thread, Steps
      <4> QED
        BY <4>1 DEF c
    <3>3. thread' = [thread EXCEPT ![g][t] = new]
      <4>1. thread \in [Gates -> [Threads -> Thread]]
        BY <1>1, TypeFacts
      <4> QED
        BY <1>3, <2>2, <3>2, <4>1 DEF me
    <3>4. Turns(g, t, new)
      BY <1>1, <3>2, <3>3, TurnFacts
    <3>5. ThreadOK(g, new)'
      <4>1. me.then \in {"idle", "open"} /\ (me.then = "open" => LogsIn(me)) /\ c = me.closing
        BY <1>1, <1>2 DEF ThreadOK, LogsIn, c
      <4>2. LogsIn(new) => LogsIn(me)
        BY <3>2 DEF LogsIn
      <4>3. LogsIn(me) => /\ me.conn \in Conn /\ me.account \in Accounts
                          /\ asked'[g][me.conn] = me.account
        BY <1>1, <1>3 DEF ThreadOK
      <4>4. Ends(new) /\ gone'[g][c] # "no" /\ (LogsIn(new) <=> LogsIn(new)') /\ (Ends(new) <=> Ends(new)')
        BY <1>5, <2>2, <3>2 DEF Ends, LogsIn
      <4> QED
        BY <1>2, <3>1, <3>2, <4>1, <4>2, <4>3, <4>4 DEF ThreadOK
    <3>6. new.at \notin {"record", "ask"} /\ (Unsent(new) => Unsent(me))
      BY <3>2 DEF Unsent
    <3> QED
      BY <3>2, <3>4, <3>5, <3>6
  <2> QED
    BY <2>1, <2>2
<1>9. GateTypeOK'
  BY <1>1, <1>3, <1>5, <1>6, <1>8, TypesKept DEF Turns
<1>10. ThreadsGoOn /\ FramesGoOn
  BY <1>1, <1>3, <1>7, <1>8, <1>9, TurnGoesOn, NothingMoves DEF me
<1> QED
  BY <1>3, <1>6, <1>7, <1>9, <1>10, Kept

\* A thread that goes from one step of ending a session to the next.
LEMMA EndsOn ==
    ASSUME GateInv, NEW g \in Gates, NEW t \in Threads, thread[g][t].at \in {"disc", "unbind"},
           NEW label \in {"unbind", "del"}, Goto(g, t, label)
    PROVE  \E new \in Thread :
              /\ Turns(g, t, new) /\ ThreadOK(g, new)
              /\ new.at = label /\ (Unsent(new) => Unsent(thread[g][t]))
<1> DEFINE me == thread[g][t]
           new == [me EXCEPT !.at = label]
<1>1. me \in Thread /\ ThreadOK(g, me) /\ GateTypeOK /\ label \in Steps
  BY ElementFacts DEF GateInv, Steps
<1>2. /\ new \in Thread /\ new.at = label /\ new.then = me.then /\ new.conn = me.conn
      /\ new.account = me.account /\ new.closing = me.closing /\ new.read = me.read
  BY <1>1 DEF Thread
<1>3. Turns(g, t, new)
  BY <1>1, GotoFacts
<1> HIDE DEF new
<1>4. LogsIn(new) => LogsIn(me)
  BY <1>2 DEF LogsIn
<1>5. Ends(new) /\ Ends(me)
  BY <1>2 DEF Ends
<1>6. ThreadOK(g, new)
  BY <1>1, <1>2, <1>4, <1>5 DEF ThreadOK
<1> QED
  BY <1>2, <1>3, <1>6 DEF Unsent

LEMMA SendDisconnectedStep ==
    ASSUME GateInv, NEW g \in Gates, NEW t \in Threads, SendDisconnected(g, t)
    PROVE  GateInv'
<1>1. PICK me \in Thread : me = thread[g][t] /\ ThreadOK(g, me)
  BY ElementFacts DEF GateInv
<1>2. /\ me.at = "disc" /\ Ends(me) /\ me.closing \in Conn /\ gone[g][me.closing] # "no" /\ GateTypeOK
      /\ me.read \in [account : Accounts, player : Accounts]
  BY <1>1 DEF SendDisconnected, At, ThreadOK, Ends, GateInv
<1>3. UNCHANGED <<accepted, sock, sessions, routes, pending, nextReq, asking, owner, attach,
                  asked, told, lost>>
  BY DEF SendDisconnected, gateVars
<1>4. CASE /\ Send(g, Game, Msg("disconnected", S(g, me.closing), me.read.player, 0))
           /\ Goto(g, t, "unbind") /\ UNCHANGED <<used, gone>>
  <2>1. Grows
    BY <1>2, <1>3, <1>4, GrowsFacts
  <2>2. PICK m \in Message : /\ m = Msg("disconnected", S(g, me.closing), me.read.player, 0)
                             /\ m.type = "disconnected" /\ m.session = S(g, me.closing)
    <3>1. S(g, me.closing) \in Session /\ me.read.player \in Accounts /\ 0 \in Nat
      BY <1>2, SessionFacts
    <3> QED
      BY <3>1, MsgFacts
  <2>3. FrameOK(g, Game, m)' /\ NotedBy(m)'
    <3>1. m.session.gate = g /\ m.session.conn = me.closing /\ gone' = gone
      BY <1>2, <1>4, <2>2, SessionFacts
    <3>2. gone'[m.session.gate][m.session.conn] # "no"
      BY <1>2, <3>1
    <3>3. FrameOK(g, Game, m)'
      BY <2>2, <3>2 DEF FrameOK
    <3>4. NotedBy(m)'
      BY <2>2 DEF NotedBy, Noted
    <3> QED
      BY <3>3, <3>4
  <2>4. g \in Procs /\ Game \in Procs
    BY DEF Procs
  <2>5. FramesGoOn /\ net' \in [Procs -> [Procs -> Seq(Message)]]
    BY <1>2, <1>4, <2>2, <2>3, <2>4, SendFacts
  <2>6. PICK new \in Thread : /\ Turns(g, t, new) /\ ThreadOK(g, new)
                              /\ new.at = "unbind" /\ (Unsent(new) => Unsent(me))
    BY <1>1, <1>2, <1>4, EndsOn
  <2>7. GateTypeOK'
    BY <1>2, <1>3, <1>4, <2>5, <2>6, TypesKept DEF Turns
  <2>8. ThreadsGoOn
    BY <1>1, <1>2, <2>1, <2>6, <2>7, TurnGoesOn
  <2> QED
    BY <1>3, <2>1, <2>5, <2>7, <2>8, Kept
<1>5. CASE /\ Fault /\ Return(g, t) /\ UNCHANGED net
           /\ gone' = [gone EXCEPT ![g][me.closing] = "unsent"]
  <2>1. /\ gone' \in [Gates -> [Conn -> {"no", "during login", "after login", "unsent"}]]
        /\ \A h \in Gates, c \in Conn : gone'[h][c] = gone[h][c] \/ gone'[h][c] # "no"
    <3>1. gone \in [Gates -> [Conn -> {"no", "during login", "after login", "unsent"}]]
      BY <1>2, TypeFacts
    <3> QED
      BY <1>2, <1>5, <3>1
  <2>2. Grows /\ (used' = used \/ used' \in [logins : 0..MaxReqs, events : 0..MaxEvents])
    BY <1>2, <1>3, <1>5, <2>1, GrowsFacts
  <2>3. PICK new \in Thread : /\ Turns(g, t, new) /\ ThreadOK(g, new)
                              /\ new.at \in {"idle", "open"} /\ (Unsent(new) => Unsent(me))
    BY <1>1, <1>2, <1>5, ReturnFacts
  <2>4. GateTypeOK'
    BY <1>2, <1>3, <1>5, <2>1, <2>2, <2>3, TypesKept DEF Turns
  <2>5. ThreadsGoOn /\ FramesGoOn
    BY <1>1, <1>2, <1>5, <2>2, <2>3, <2>4, TurnGoesOn, NothingMoves
  <2> QED
    BY <1>3, <2>2, <2>4, <2>5, Kept
<1> QED
  BY <1>1, <1>4, <1>5 DEF SendDisconnected, Me

LEMMA CompareOwnerStep ==
    ASSUME GateInv, NEW g \in Gates, NEW t \in Threads, CompareOwner(g, t)
    PROVE  GateInv'
<1>1. PICK me \in Thread : me = thread[g][t] /\ ThreadOK(g, me)
  BY ElementFacts DEF GateInv
<1>2. /\ me.at = "unbind" /\ Ends(me) /\ me.closing \in Conn /\ GateTypeOK
      /\ me.read \in [account : Accounts, player : Accounts]
  BY <1>1 DEF CompareOwner, At, ThreadOK, Ends, GateInv
<1>3. /\ UNCHANGED <<accepted, sock, sessions, pending, nextReq, asking, owner, net, attach,
                     asked, told, gone, lost>>
      /\ UNCHANGED used \/ Fault
      /\ Goto(g, t, "del") \/ Return(g, t)
      /\ routes' = [routes EXCEPT ![g][me.read.player] = IF @ = me.closing THEN 0 ELSE @]
  BY <1>1 DEF CompareOwner, historyVars, Me
<1>4. Grows /\ (used' = used \/ used' \in [logins : 0..MaxReqs, events : 0..MaxEvents])
  BY <1>2, <1>3, GrowsFacts
<1>5. routes' \in [Gates -> [Accounts -> {0} \cup Conn]]
  <2>1. routes \in [Gates -> [Accounts -> {0} \cup Conn]]
    BY <1>2, TypeFacts
  <2> QED
    BY <1>2, <1>3, <2>1
<1>6. PICK new \in Thread : /\ Turns(g, t, new) /\ ThreadOK(g, new)
                            /\ new.at \notin {"record", "ask"} /\ (Unsent(new) => Unsent(me))
  <2>1. CASE Goto(g, t, "del")
    BY <1>1, <1>2, <2>1, EndsOn
  <2>2. CASE Return(g, t)
    BY <1>1, <1>2, <2>2, ReturnFacts
  <2> QED
    BY <1>3, <2>1, <2>2
<1>7. GateTypeOK'
  BY <1>2, <1>3, <1>4, <1>5, <1>6, TypesKept DEF Turns
<1>8. ThreadsGoOn /\ FramesGoOn
  BY <1>1, <1>2, <1>3, <1>4, <1>6, <1>7, TurnGoesOn, NothingMoves
<1> QED
  BY <1>3, <1>4, <1>7, <1>8, Kept

LEMMA DeleteOwnerStep ==
    ASSUME GateInv, NEW g \in Gates, NEW t \in Threads, DeleteOwner(g, t)
    PROVE  GateInv'
<1>1. PICK me \in Thread : me = thread[g][t] /\ ThreadOK(g, me)
  BY ElementFacts DEF GateInv
<1>2. me.at = "del" /\ Ends(me) /\ me.read \in [account : Accounts, player : Accounts] /\ GateTypeOK
  BY <1>1 DEF DeleteOwner, At, ThreadOK, Ends, GateInv
<1>3. /\ UNCHANGED <<accepted, sock, sessions, routes, pending, nextReq, asking, net, attach, used,
                     asked, told, gone, lost>>
      /\ owner' = [owner EXCEPT ![me.read.account] = None]
      /\ Return(g, t)
  BY <1>1 DEF DeleteOwner, historyVars, gateVars, Me
<1>4. Grows
  BY <1>2, <1>3, GrowsFacts
<1>5. /\ owner' \in [Accounts -> Session \cup {None}]
      /\ \A a \in Accounts : owner'[a] \in {owner[a], None}
  <2>1. owner \in [Accounts -> Session \cup {None}]
    BY <1>2, TypeFacts
  <2> QED
    BY <1>3, <2>1
<1>6. PICK new \in Thread : /\ Turns(g, t, new) /\ ThreadOK(g, new)
                            /\ new.at \in {"idle", "open"} /\ (Unsent(new) => Unsent(me))
  BY <1>1, <1>2, <1>3, ReturnFacts
<1>7. GateTypeOK'
  BY <1>2, <1>3, <1>5, <1>6, TypesKept DEF Turns
<1>8. ThreadsGoOn /\ FramesGoOn
  BY <1>1, <1>2, <1>3, <1>4, <1>6, <1>7, TurnGoesOn, NothingMoves
<1> QED
  BY <1>3, <1>4, <1>5, <1>7, <1>8, Kept

-----------------------------------------------------------------------------
(* The worker.                                                             *)

LEMMA AcceptStep ==
    ASSUME GateInv, NEW g \in Gates, AcceptReadySocket(g)
    PROVE  GateInv'
<1>1. GateTypeOK
  BY DEF GateInv
<1>2. /\ UNCHANGED <<sessions, routes, pending, nextReq, asking, thread, owner, net, attach, used,
                     asked, told, gone, lost>>
      /\ accepted' = [accepted EXCEPT ![g] = accepted[g] + 1]
      /\ sock' = [sock EXCEPT ![g] = @ \cup {accepted[g] + 1}] /\ accepted[g] + 1 <= MaxConns
  BY DEF AcceptReadySocket, historyVars
<1>3. accepted \in [Gates -> 0..MaxConns] /\ sock \in [Gates -> SUBSET Conn]
  BY <1>1, TypeFacts
<1>4. accepted[g] + 1 \in Conn /\ accepted[g] + 1 \in 0..MaxConns
  BY <1>2, <1>3, BoundFacts DEF Conn
<1>5. accepted' \in [Gates -> 0..MaxConns] /\ sock' \in [Gates -> SUBSET Conn]
  BY <1>2, <1>3, <1>4
<1>6. Grows
  BY <1>1, <1>2, GrowsFacts
<1>7. GateTypeOK'
  BY <1>1, <1>2, <1>5, TypesKept
<1>8. ThreadsGoOn /\ FramesGoOn
  BY <1>1, <1>2, NothingMoves
<1> QED
  BY <1>2, <1>6, <1>7, <1>8, Kept

\* A connection is about to be closed.
LEMMA ClosingOn ==
    ASSUME GateInv, NEW g \in Gates, NEW t \in Threads, NEW c \in Conn, NEW label \in {"idle", "open"},
           Closing(g, t, c, label),
           \/ label = "idle" /\ thread[g][t].at = "idle"
           \/ label = "open" /\ thread[g][t].at = "kick"
    PROVE  /\ sock' \in [Gates -> SUBSET Conn]
           /\ \E new \in Thread :
                 /\ Turns(g, t, new) /\ ThreadOK(g, new)
                 /\ new.at = "remove" /\ (Unsent(new) => Unsent(thread[g][t]))
<1> DEFINE me == thread[g][t]
           new == [me EXCEPT !.at = "remove", !.closing = c, !.then = label]
<1>1. me \in Thread /\ ThreadOK(g, me) /\ GateTypeOK /\ label \in Steps
  BY ElementFacts DEF GateInv, Steps
<1>2. /\ new \in Thread /\ new.at = "remove" /\ new.then = label /\ new.conn = me.conn
      /\ new.account = me.account /\ new.closing = c
  BY <1>1 DEF Thread, Steps
<1>3. Turns(g, t, new) /\ sock' \in [Gates -> SUBSET Conn]
  BY <1>1, ClosingFacts
<1> HIDE DEF new
<1>4. LogsIn(new) => LogsIn(me)
  BY <1>2 DEF LogsIn
<1>5. Ends(new)
  BY <1>2 DEF Ends
<1>6. ThreadOK(g, new)
  BY <1>1, <1>2, <1>4, <1>5 DEF ThreadOK
<1> QED
  BY <1>2, <1>3, <1>6 DEF Unsent

LEMMA ClientLeavesStep ==
    ASSUME GateInv, NEW g \in Gates, NEW c \in Conn, ClientLeaves(g, c)
    PROVE  GateInv'
<1>1. GateTypeOK /\ "worker" \in Threads
  BY DEF GateInv, Threads
<1>2. /\ UNCHANGED <<accepted, sessions, routes, pending, nextReq, asking, owner, net, attach,
                     used, asked, told, gone, lost>>
      /\ Closing(g, "worker", c, "idle") /\ thread[g]["worker"].at = "idle"
  BY DEF ClientLeaves, historyVars, At
<1>3. Grows
  BY <1>1, <1>2, GrowsFacts
<1>4. /\ sock' \in [Gates -> SUBSET Conn]
      /\ \E new \in Thread :
            /\ Turns(g, "worker", new) /\ ThreadOK(g, new)
            /\ new.at = "remove" /\ (Unsent(new) => Unsent(thread[g]["worker"]))
  BY <1>1, <1>2, ClosingOn
<1>5. PICK new \in Thread :
            /\ Turns(g, "worker", new) /\ ThreadOK(g, new)
            /\ new.at = "remove" /\ (Unsent(new) => Unsent(thread[g]["worker"]))
  BY <1>4
<1>6. GateTypeOK'
  BY <1>1, <1>2, <1>4, <1>5, TypesKept DEF Turns
<1>7. ThreadsGoOn /\ FramesGoOn
  BY <1>1, <1>2, <1>3, <1>5, <1>6, TurnGoesOn, NothingMoves
<1> QED
  BY <1>2, <1>3, <1>6, <1>7, Kept

LEMMA HandleClientLoginStep ==
    ASSUME GateInv, NEW g \in Gates, NEW c \in Conn, NEW a \in Accounts, HandleClientLogin(g, c, a)
    PROVE  GateInv'
<1>1. GateTypeOK /\ "worker" \in Threads
  BY DEF GateInv, Threads
<1>2. /\ UNCHANGED <<accepted, sock, sessions, routes, pending, nextReq, asking, owner, net, attach,
                     told, gone, lost>>
      /\ thread[g]["worker"].at = "idle" /\ asked[g][c] \in {None, a} /\ used.logins < MaxReqs
      /\ asked' = [asked EXCEPT ![g][c] = a]
  BY DEF HandleClientLogin, gateVars, At
<1>3. PICK o \in {owner[a], None} :
          /\ used' = [used EXCEPT !.logins = @ + 1, !.events = IF o = owner[a] THEN @ ELSE @ + 1]
          /\ used'.events <= MaxEvents
          /\ thread' = [thread EXCEPT ![g]["worker"] =
                           [Idle EXCEPT !.at = "kick", !.conn = c, !.account = a, !.read = o]]
  BY DEF HandleClientLogin
<1>4. /\ used' \in [logins : 0..MaxReqs, events : 0..MaxEvents]
      /\ used'.logins = used.logins + 1 /\ used.events <= used'.events
  <2>1. used \in [logins : 0..MaxReqs, events : 0..MaxEvents]
    BY <1>1, TypeFacts
  <2>2. used'.logins = used.logins + 1 /\ used'.events \in {used.events, used.events + 1}
    BY <1>3, <2>1
  <2>3. used' = [logins |-> used'.logins, events |-> used'.events]
    BY <1>3, <2>1
  <2>4. used'.logins \in 0..MaxReqs /\ used'.events \in 0..MaxEvents
    BY <1>2, <1>3, <2>1, <2>2, BoundFacts
  <2> QED
    BY <2>1, <2>2, <2>3, <2>4, BoundFacts
<1>5. /\ asked' \in [Gates -> [Conn -> Accounts \cup {None}]]
      /\ \A h \in Gates, d \in Conn : asked'[h][d] = IF h = g /\ d = c THEN a ELSE asked[h][d]
  <2>1. asked \in [Gates -> [Conn -> Accounts \cup {None}]]
    BY <1>1, TypeFacts
  <2> QED
    BY <1>2, <2>1
<1>6. \A h \in Gates, d \in Conn : asked[h][d] \in Accounts => asked'[h][d] = asked[h][d]
  BY <1>2, <1>5, GateAssumption
<1>7. Grows
  BY <1>1, <1>2, <1>4, <1>6, NumberFacts DEF Grows
<1>8. PICK new \in Thread :
         /\ new = [Idle EXCEPT !.at = "kick", !.conn = c, !.account = a, !.read = o]
         /\ new.at = "kick" /\ new.conn = c /\ new.account = a /\ new.read = o /\ new.then = "idle"
  <2> DEFINE next == [Idle EXCEPT !.at = "kick", !.conn = c, !.account = a, !.read = o]
  <2>1. o \in Session \cup {None}
    BY <1>1, <1>3, ElementFacts
  <2>2. /\ next \in Thread /\ next.at = "kick" /\ next.conn = c /\ next.account = a /\ next.read = o
        /\ next.then = "idle"
    BY <2>1 DEF Idle, Thread, Steps
  <2> QED
    BY <2>2
<1>9. Turns(g, "worker", new)
  BY <1>1, <1>3, <1>8, TurnFacts
<1>10. ThreadOK(g, new)'
  <2>1. o # None => o \in Session /\ o = owner[a] /\ asked[o.gate][o.conn] = a
    BY <1>1, <1>3, ElementFacts DEF GateInv, OwnerOK
  <2>2. o # None => asked'[o.gate][o.conn] = a
    BY <1>6, <2>1, SessionFacts
  <2>3. asked'[g][c] = a
    BY <1>5
  <2>4. LogsIn(new) /\ LogsIn(new)' /\ ~Ends(new) /\ ~Ends(new)'
    BY <1>8 DEF LogsIn, Ends
  <2> QED
    BY <1>8, <2>1, <2>2, <2>3, <2>4 DEF ThreadOK
<1>11. GateTypeOK'
  BY <1>1, <1>2, <1>4, <1>5, <1>9, TypesKept DEF Turns
<1>12. nextReq[g] <= used'.logins
  <2>1. nextReq[g] <= used.logins + 1
    BY DEF GateInv, CountOK
  <2> QED
    BY <1>4, <2>1
<1>13. ThreadsGoOn /\ FramesGoOn
  BY <1>1, <1>2, <1>7, <1>8, <1>9, <1>10, <1>11, <1>12, TurnGoesOn, NothingMoves
<1> QED
  BY <1>2, <1>7, <1>11, <1>13, Kept

\* The worker goes on with its login.
LEMMA LoginOn ==
    ASSUME GateInv, NEW g \in Gates, thread[g]["worker"].at \in {"kick", "open"},
           NEW label \in {"open", "send"}, Goto(g, "worker", label)
    PROVE  \E new \in Thread :
              /\ Turns(g, "worker", new) /\ ThreadOK(g, new)
              /\ new.at = label /\ (Unsent(new) => Unsent(thread[g]["worker"]))
<1> DEFINE me == thread[g]["worker"]
           new == [me EXCEPT !.at = label]
<1>0. "worker" \in Threads
  BY DEF Threads
<1>1. me \in Thread /\ ThreadOK(g, me) /\ GateTypeOK /\ label \in Steps
  BY <1>0, ElementFacts DEF GateInv, Steps
<1>2. /\ new \in Thread /\ new.at = label /\ new.then = me.then /\ new.conn = me.conn
      /\ new.account = me.account
  BY <1>1 DEF Thread
<1>3. Turns(g, "worker", new)
  BY <1>0, <1>1, GotoFacts
<1> HIDE DEF new
<1>4. LogsIn(me) /\ LogsIn(new) /\ Unsent(me)
  BY <1>2 DEF LogsIn, Unsent
<1>5. ~Ends(new) /\ ~Ends(me)
  BY <1>2 DEF Ends
<1>6. ThreadOK(g, new)
  BY <1>1, <1>2, <1>4, <1>5 DEF ThreadOK
<1> QED
  BY <1>2, <1>3, <1>4, <1>6

LEMMA KickLocalStep ==
    ASSUME GateInv, NEW g \in Gates, KickLocal(g)
    PROVE  GateInv'
<1>1. GateTypeOK /\ "worker" \in Threads
  BY DEF GateInv, Threads
<1>2. /\ UNCHANGED <<accepted, sessions, routes, pending, nextReq, asking, owner, net, attach,
                     used, asked, told, gone, lost>>
      /\ thread[g]["worker"].at = "kick"
  BY DEF KickLocal, historyVars, At
<1>3. Grows
  BY <1>1, <1>2, GrowsFacts
<1>4. ASSUME NEW new \in Thread, Turns(g, "worker", new), ThreadOK(g, new),
             new.at \notin {"record", "ask"}, Unsent(new) => Unsent(thread[g]["worker"]),
             sock' = sock \/ sock' \in [Gates -> SUBSET Conn]
      PROVE  GateInv'
  <2>1. GateTypeOK'
    BY <1>1, <1>2, <1>4, TypesKept DEF Turns
  <2>2. ThreadsGoOn /\ FramesGoOn
    BY <1>1, <1>2, <1>3, <1>4, <2>1, TurnGoesOn, NothingMoves
  <2> QED
    BY <1>2, <1>3, <2>1, <2>2, Kept
<1>5. CASE Goto(g, "worker", "open") /\ UNCHANGED sock
  BY <1>2, <1>4, <1>5, LoginOn
<1>6. CASE \E c \in Conn : Closing(g, "worker", c, "open")
  <2>1. PICK c \in Conn : Closing(g, "worker", c, "open")
    BY <1>6
  <2>2. /\ sock' \in [Gates -> SUBSET Conn]
        /\ \E new \in Thread :
              /\ Turns(g, "worker", new) /\ ThreadOK(g, new)
              /\ new.at = "remove" /\ (Unsent(new) => Unsent(thread[g]["worker"]))
    BY <1>1, <1>2, <2>1, ClosingOn
  <2> QED
    BY <1>4, <2>2
<1>7. CASE Finish(g, "worker") /\ UNCHANGED sock
  <2>1. Turns(g, "worker", Idle) /\ Idle.at = "idle"
    BY <1>1, <1>7, FinishFacts DEF Idle
  <2> QED
    BY <1>4, <1>7, <2>1, IdleFacts
<1>8. \A c \in OldSessions(g) : c \in Conn
  <2>1. PICK me \in Thread : me = thread[g]["worker"] /\ ThreadOK(g, me)
    BY <1>1, ElementFacts DEF GateInv
  <2>2. me.read # None => me.read.conn \in Conn
    BY <1>2, <2>1, SessionFacts DEF ThreadOK
  <2> QED
    BY <2>1, <2>2 DEF OldSessions, SessionsOf, Me
<1> QED
  BY <1>5, <1>6, <1>7, <1>8 DEF KickLocal

LEMMA KickRemoteStep ==
    ASSUME GateInv, NEW g \in Gates, KickRemote(g)
    PROVE  GateInv'
<1>1. GateTypeOK /\ "worker" \in Threads
  BY DEF GateInv, Threads
<1>2. PICK me \in Thread : me = thread[g]["worker"] /\ ThreadOK(g, me)
  BY <1>1, ElementFacts DEF GateInv
<1>3. /\ UNCHANGED <<accepted, sock, sessions, routes, pending, nextReq, asking, owner, attach,
                     asked, told, gone, lost>>
      /\ me.at = "kick" /\ me.read # None /\ me.read.gate # g
  BY <1>2 DEF KickRemote, gateVars, historyVars, At, Me
<1>4. /\ me.read \in Session /\ me.account \in Accounts /\ me.conn \in Conn /\ 0 \in Nat
      /\ asked[g][me.conn] = me.account /\ me.read.gate \in Gates
  BY <1>2, <1>3, SessionFacts DEF ThreadOK, LogsIn
<1>5. CASE /\ Send(g, me.read.gate, Msg("kick", me.read, me.account, 0))
           /\ Goto(g, "worker", "open") /\ UNCHANGED used
  <2>1. Grows
    BY <1>1, <1>3, <1>5, GrowsFacts
  <2>2. PICK m \in Message : /\ m = Msg("kick", me.read, me.account, 0)
                             /\ m.type = "kick" /\ m.session = me.read /\ m.player = me.account
    BY <1>4, MsgFacts
  <2>3. PICK dst \in Gates : dst = me.read.gate
    BY <1>4
  <2>4. FrameOK(g, dst, m)' /\ NotedBy(m)'
    <3>1. asked'[g][me.conn] = m.player
      BY <1>3, <1>4, <2>2
    <3> QED
      BY <1>3, <1>4, <2>2, <2>3, <3>1 DEF FrameOK, NotedBy, Noted
  <2>5. g \in Procs /\ dst \in Procs
    BY DEF Procs
  <2>6. FramesGoOn /\ net' \in [Procs -> [Procs -> Seq(Message)]]
    BY <1>1, <1>5, <2>2, <2>3, <2>4, <2>5, SendFacts
  <2>7. PICK new \in Thread : /\ Turns(g, "worker", new) /\ ThreadOK(g, new)
                              /\ new.at = "open" /\ (Unsent(new) => Unsent(me))
    BY <1>2, <1>3, <1>5, LoginOn
  <2>8. GateTypeOK'
    BY <1>1, <1>3, <1>5, <2>6, <2>7, TypesKept DEF Turns
  <2>9. ThreadsGoOn
    BY <1>1, <1>2, <2>1, <2>7, <2>8, TurnGoesOn
  <2> QED
    BY <1>3, <2>1, <2>6, <2>8, <2>9, Kept
<1>6. CASE Fault /\ Finish(g, "worker") /\ UNCHANGED net
  <2>1. Grows /\ (used' = used \/ used' \in [logins : 0..MaxReqs, events : 0..MaxEvents])
    BY <1>1, <1>3, <1>6, GrowsFacts
  <2>2. Turns(g, "worker", Idle) /\ Idle.at = "idle"
    BY <1>1, <1>6, FinishFacts DEF Idle
  <2>3. GateTypeOK'
    BY <1>1, <1>3, <1>6, <2>1, <2>2, TypesKept DEF Turns
  <2>4. ThreadsGoOn /\ FramesGoOn
    BY <1>1, <1>6, <2>1, <2>2, <2>3, IdleFacts, TurnGoesOn, NothingMoves
  <2> QED
    BY <1>3, <2>1, <2>3, <2>4, Kept
<1> QED
  BY <1>2, <1>5, <1>6 DEF KickRemote, Me

LEMMA OpenAnonymousStep ==
    ASSUME GateInv, NEW g \in Gates, OpenAnonymous(g)
    PROVE  GateInv'
<1>1. GateTypeOK /\ "worker" \in Threads
  BY DEF GateInv, Threads
<1>2. PICK me \in Thread : me = thread[g]["worker"] /\ ThreadOK(g, me)
  BY <1>1, ElementFacts DEF GateInv
<1>3. /\ UNCHANGED <<accepted, sock, routes, pending, nextReq, asking, owner, net, attach,
                     used, asked, told, gone, lost>>
      /\ me.at = "open" /\ Goto(g, "worker", "send")
      /\ sessions' = [sessions EXCEPT ![g][me.conn] = IF @ = None THEN Anonymous ELSE @]
  BY <1>2 DEF OpenAnonymous, historyVars, At, Me
<1>4. Grows
  BY <1>1, <1>3, GrowsFacts
<1>5. /\ sessions' \in [Gates -> [Conn -> SessionRecord \cup {None}]]
      /\ \A h \in Gates, c \in Conn : sessions'[h][c] \in {sessions[h][c], Anonymous}
  <2>1. sessions \in [Gates -> [Conn -> SessionRecord \cup {None}]] /\ me.conn \in Conn
    BY <1>1, <1>2, <1>3, TypeFacts DEF ThreadOK, LogsIn
  <2>2. Anonymous \in SessionRecord
    BY DEF SessionRecord
  <2> QED
    BY <1>3, <2>1, <2>2
<1>6. PICK new \in Thread : /\ Turns(g, "worker", new) /\ ThreadOK(g, new)
                            /\ new.at = "send" /\ (Unsent(new) => Unsent(me))
  BY <1>2, <1>3, LoginOn
<1>7. GateTypeOK'
  BY <1>1, <1>3, <1>5, <1>6, TypesKept DEF Turns
<1>8. ThreadsGoOn /\ FramesGoOn
  BY <1>1, <1>2, <1>3, <1>4, <1>6, <1>7, TurnGoesOn, NothingMoves
<1> QED
  BY <1>3, <1>4, <1>5, <1>7, <1>8, Kept

LEMMA RequestLoginStep ==
    ASSUME GateInv, NEW g \in Gates, RequestLogin(g)
    PROVE  GateInv'
<1>1. GateTypeOK /\ "worker" \in Threads
  BY DEF GateInv, Threads
<1>2. PICK me \in Thread : me = thread[g]["worker"] /\ ThreadOK(g, me)
  BY <1>1, ElementFacts DEF GateInv
<1>3. /\ UNCHANGED <<accepted, sock, sessions, routes, pending, asking, owner, attach,
                     asked, told, gone, lost>>
      /\ me.at = "send" /\ nextReq' = [nextReq EXCEPT ![g] = @ + 1]
  BY <1>2 DEF RequestLogin, historyVars, At, Me
<1>4. /\ me.account \in Accounts /\ me.conn \in Conn /\ asked[g][me.conn] = me.account
      /\ Unsent(me) /\ me.then = "idle"
  BY <1>2, <1>3 DEF ThreadOK, LogsIn, Unsent, Ends
<1>5. PICK n \in Req : n = nextReq[g]
  <2>1. nextReq[g] <= used.logins
    BY <1>2, <1>4 DEF GateInv, CountOK
  <2>2. nextReq[g] \in 1..(MaxReqs + 1) /\ used.logins <= MaxReqs /\ used.logins \in Nat
    BY <1>1, TypeFacts, NumberFacts
  <2> QED
    BY <2>1, <2>2, BoundFacts DEF Req
<1>6. n \in Nat /\ n <= used.logins /\ n <= MaxReqs /\ n >= 1
  BY <1>2, <1>4, <1>5, BoundFacts DEF GateInv, CountOK, Req
<1>7. /\ nextReq' \in [Gates -> 1..(MaxReqs + 1)]
      /\ \A h \in Gates : nextReq'[h] = IF h = g THEN n + 1 ELSE nextReq[h]
  <2>1. nextReq \in [Gates -> 1..(MaxReqs + 1)]
    BY <1>1, TypeFacts
  <2> QED
    BY <1>3, <1>5, <1>6, <2>1, BoundFacts
<1>8. UNCHANGED used \/ Fault
  BY DEF RequestLogin
<1>9. Grows /\ (used' = used \/ used' \in [logins : 0..MaxReqs, events : 0..MaxEvents])
  <2>1. \A h \in Gates : nextReq[h] <= nextReq'[h]
    BY <1>1, <1>5, <1>7, NumberFacts
  <2>2. used.events <= used'.events /\ used.logins <= used'.logins
    BY <1>1, <1>8, NumberFacts, FaultFacts
  <2> QED
    BY <1>1, <1>3, <1>8, <2>1, <2>2, FaultFacts DEF Grows
<1>10. used'.logins = used.logins
  BY <1>1, <1>8, FaultFacts
<1>11. ASSUME NEW new \in Thread, Turns(g, "worker", new), ThreadOK(g, new)', ~Unsent(new),
              new.at = "record" => new.req = n, new.at # "ask", FramesGoOn, GateTypeOK'
       PROVE  GateInv'
  <2>1. /\ \A h \in Gates, t \in Threads : thread'[h][t] = thread[h][t] \/ ThreadOK(h, thread[h][t])'
        /\ thread'[g]["worker"] = new
        /\ \A h \in Gates : h # g => thread'[h]["worker"] = thread[h]["worker"]
    BY <1>1, <1>11 DEF Turns
  <2>2. ASSUME NEW h \in Gates PROVE CountOK(h)'
    <3>1. CountOK(h) /\ nextReq[h] \in Nat /\ used.logins \in Nat
      BY <1>1, NumberFacts DEF GateInv
    <3>2. CASE h = g
      BY <1>6, <1>7, <1>10, <1>11, <2>1, <3>1, <3>2 DEF CountOK
    <3>3. CASE h # g
      BY <1>7, <1>10, <2>1, <3>1, <3>3 DEF CountOK
    <3> QED
      BY <3>2, <3>3
  <2>3. NotesGoOn
    <3> SUFFICES ASSUME NEW m \in Message, NEW src \in Procs, NEW dst \in Procs,
                        FrameOK(src, dst, m), NotedBy(m)
                 PROVE  NotedBy(m)'
      BY DEF NotesGoOn
    <3> DEFINE h == m.session.gate
    <3>1. h \in Gates /\ Noted(m, pending[h], asking[h], thread[h]["worker"])
      BY SessionFacts DEF NotedBy
    <3>2. m.type \in {"login", "response"} => m.req < nextReq[h] /\ m.req \in Nat
      BY SessionFacts DEF FrameOK
    <3> HIDE DEF h
    <3>3. Noted(m, pending'[h], asking'[h], thread'[h]["worker"])
      BY <1>3, <1>5, <1>6, <1>11, <2>1, <3>1, <3>2 DEF Noted
    <3> QED
      BY <3>3 DEF NotedBy, h
  <2> QED
    BY <1>3, <1>9, <1>11, <2>1, <2>2, <2>3, KeptAll
<1>12. CASE /\ Send(g, Game, Msg("login", S(g, me.conn), me.account, nextReq[g]))
            /\ thread' = [thread EXCEPT ![g]["worker"].at = "record", ![g]["worker"].req = nextReq[g]]
            /\ UNCHANGED used
  <2>1. PICK new \in Thread :
           /\ new = [me EXCEPT !.at = "record", !.req = n]
           /\ new.at = "record" /\ new.req = n /\ new.conn = me.conn /\ new.account = me.account
           /\ new.then = "idle"
    <3> DEFINE next == [me EXCEPT !.at = "record", !.req = n]
    <3>1. /\ next \in Thread /\ next.at = "record" /\ next.req = n /\ next.conn = me.conn
          /\ next.account = me.account /\ next.then = "idle"
      BY <1>2, <1>4, <1>6 DEF Thread, Steps
    <3> QED
      BY <3>1
  <2>2. thread' = [thread EXCEPT ![g]["worker"] = new]
    <3>1. thread \in [Gates -> [Threads -> Thread]]
      BY <1>1, TypeFacts
    <3> QED
      BY <1>1, <1>2, <1>5, <1>12, <2>1, <3>1
  <2>3. Turns(g, "worker", new)
    BY <1>1, <2>2, TurnFacts
  <2>4. ThreadOK(g, new)'
    <3>1. LogsIn(new)' /\ ~Ends(new)'
      BY <2>1 DEF LogsIn, Ends
    <3>2. asked'[g][me.conn] = me.account /\ n < nextReq'[g]
      BY <1>3, <1>4, <1>6, <1>7
    <3> QED
      BY <1>4, <1>5, <2>1, <3>1, <3>2 DEF ThreadOK
  <2>5. PICK m \in Message : /\ m = Msg("login", S(g, me.conn), me.account, n)
                             /\ m.type = "login" /\ m.session = S(g, me.conn)
                             /\ m.player = me.account /\ m.req = n
    BY <1>4, <1>6, SessionFacts, MsgFacts
  <2>6. m.session.gate = g /\ m.session.conn = me.conn
    BY <1>4, <2>5, SessionFacts
  <2>7. FrameOK(g, Game, m)'
    BY <1>3, <1>4, <1>5, <1>6, <1>7, <2>5, <2>6 DEF FrameOK
  <2>8. NotedBy(m)'
    <3>1. pending[g][n] = None
      BY <1>5, <1>6 DEF GateInv, PendingOK
    <3>2. Noted(m, pending'[g], asking'[g], thread'[g]["worker"])
      BY <1>1, <1>3, <2>1, <2>3, <2>5, <2>6, <3>1 DEF Noted, Turns
    <3> QED
      BY <2>6, <3>2 DEF NotedBy
  <2>9. g \in Procs /\ Game \in Procs
    BY DEF Procs
  <2>10. FramesGoOn /\ net' \in [Procs -> [Procs -> Seq(Message)]]
    BY <1>1, <1>5, <1>12, <2>5, <2>7, <2>8, <2>9, SendFacts
  <2>11. GateTypeOK'
    BY <1>1, <1>3, <1>7, <1>12, <2>3, <2>10, TypesKept DEF Turns
  <2>12. ~Unsent(new)
    BY <2>1 DEF Unsent
  <2> QED
    BY <1>11, <2>1, <2>3, <2>4, <2>10, <2>11, <2>12
<1>13. CASE Fault /\ Finish(g, "worker") /\ UNCHANGED net
  <2>1. Turns(g, "worker", Idle) /\ Idle.at = "idle"
    BY <1>1, <1>13, FinishFacts DEF Idle
  <2>2. GateTypeOK'
    BY <1>1, <1>3, <1>7, <1>9, <1>13, <2>1, TypesKept DEF Turns
  <2>3. PICK new \in Thread : new = Idle
    BY IdleFacts
  <2>4. ThreadOK(g, new) /\ ~Unsent(new)
    BY <2>3, IdleFacts
  <2>5. ThreadOK(g, new)'
    BY <1>1, <1>9, <2>2, <2>4, ThreadKept
  <2>6. FramesGoOn
    BY <1>1, <1>13, NothingMoves
  <2> QED
    BY <1>11, <2>1, <2>2, <2>3, <2>4, <2>5, <2>6
<1> QED
  BY <1>2, <1>12, <1>13 DEF RequestLogin, Me

\* A thread that ends its handler.
LEMMA FinishGoesOn ==
    ASSUME GateTypeOK, GateTypeOK', Grows, NEW g \in Gates, NEW t \in Threads, Turns(g, t, Idle)
    PROVE  ThreadsGoOn
<1>1. Idle \in Thread /\ ThreadOK(g, Idle) /\ ~Unsent(Idle) /\ Idle.at = "idle"
  BY IdleFacts DEF Idle
<1> QED
  BY <1>1, TurnGoesOn

LEMMA RecordPendingStep ==
    ASSUME GateInv, NEW g \in Gates, RecordPending(g)
    PROVE  GateInv'
<1>1. GateTypeOK /\ "worker" \in Threads
  BY DEF GateInv, Threads
<1>2. PICK me \in Thread : me = thread[g]["worker"] /\ ThreadOK(g, me)
  BY <1>1, ElementFacts DEF GateInv
<1>3. /\ UNCHANGED <<accepted, sock, sessions, routes, nextReq, asking, owner, net, attach,
                     used, asked, told, gone, lost>>
      /\ me.at = "record" /\ Finish(g, "worker")
      /\ pending' = [pending EXCEPT ![g][me.req] = [conn |-> me.conn, account |-> me.account]]
  BY <1>2 DEF RecordPending, historyVars, At, Me
<1>4. /\ me.account \in Accounts /\ me.conn \in Conn /\ asked[g][me.conn] = me.account
      /\ me.req \in Req /\ me.req < nextReq[g]
  BY <1>2, <1>3 DEF ThreadOK, LogsIn
<1>5. PICK login \in [conn : Conn, account : Accounts] :
         /\ login = [conn |-> me.conn, account |-> me.account]
         /\ login.conn = me.conn /\ login.account = me.account
  <2> DEFINE new == [conn |-> me.conn, account |-> me.account]
  <2>1. new \in [conn : Conn, account : Accounts] /\ new.conn = me.conn /\ new.account = me.account
    BY <1>4
  <2> QED
    BY <2>1
<1>6. /\ pending' \in [Gates -> [Req -> [conn : Conn, account : Accounts] \cup {None}]]
      /\ \A h \in Gates, r \in Req :
            pending'[h][r] = IF h = g /\ r = me.req THEN login ELSE pending[h][r]
  <2>1. pending \in [Gates -> [Req -> [conn : Conn, account : Accounts] \cup {None}]]
    BY <1>1, TypeFacts
  <2> QED
    BY <1>3, <1>4, <1>5, <2>1
<1>7. Grows
  BY <1>1, <1>3, GrowsFacts
<1>8. Turns(g, "worker", Idle)
  BY <1>1, <1>3, FinishFacts
<1>9. GateTypeOK'
  BY <1>1, <1>3, <1>6, <1>8, TypesKept DEF Turns
<1>10. ThreadsGoOn /\ FramesGoOn
  BY <1>1, <1>3, <1>7, <1>8, <1>9, FinishGoesOn, NothingMoves
<1>11. \A h \in Gates, r \in Req :
          pending'[h][r] \in {pending[h][r], None} \/ PendingOK(h, r, pending[h][r])'
  BY <1>3, <1>4, <1>5, <1>6 DEF PendingOK
<1>12. NotesGoOn
  <2> SUFFICES ASSUME NEW m \in Message, NEW src \in Procs, NEW dst \in Procs,
                      FrameOK(src, dst, m), NotedBy(m)
               PROVE  NotedBy(m)'
    BY DEF NotesGoOn
  <2> DEFINE h == m.session.gate
  <2>1. h \in Gates /\ Noted(m, pending[h], asking[h], thread[h]["worker"])
    BY SessionFacts DEF NotedBy
  <2>2. m.type \in {"login", "response"} => m.req \in Req
    BY DEF FrameOK
  <2> HIDE DEF h
  <2>3. thread'[h]["worker"] = thread[h]["worker"] \/ thread'[h]["worker"].at \notin {"record", "ask"}
    BY <1>10, <2>1 DEF ThreadsGoOn
  <2>4. m.type \in {"login", "response"} /\ pending'[h][m.req] # None =>
           pending'[h][m.req].conn = m.session.conn
    BY <1>2, <1>3, <1>5, <1>6, <2>1, <2>2 DEF Noted
  <2>5. Noted(m, pending'[h], asking'[h], thread'[h]["worker"])
    BY <1>3, <2>1, <2>3, <2>4 DEF Noted
  <2> QED
    BY <2>5 DEF NotedBy, h
<1>13. ASSUME NEW h \in Gates PROVE CountOK(h)'
  <2>1. CountOK(h)
    BY DEF GateInv
  <2>2. Unsent(thread'[h]["worker"]) => Unsent(thread[h]["worker"])
    BY <1>1, <1>8, IdleFacts DEF Turns
  <2> QED
    BY <1>3, <2>1, <2>2 DEF CountOK
<1> QED
  BY <1>3, <1>7, <1>9, <1>10, <1>11, <1>12, <1>13, KeptAll DEF ThreadsGoOn

LEMMA HandleClientPlayerMessageStep ==
    ASSUME GateInv, NEW g \in Gates, NEW c \in Conn, HandleClientPlayerMessage(g, c)
    PROVE  GateInv'
<1>1. GateTypeOK /\ "worker" \in Threads
  BY DEF GateInv, Threads
<1>2. /\ UNCHANGED <<accepted, sock, sessions, routes, pending, nextReq, asking, owner, attach,
                     asked, told, gone, lost>>
      /\ Fault /\ Active(g, c) /\ thread[g]["worker"].at = "idle"
      /\ Send(g, Game, Msg("forward", S(g, c), sessions[g][c].player, used.events + 1))
      /\ thread' = [thread EXCEPT ![g]["worker"] =
                       [Idle EXCEPT !.at = "ask", !.conn = c, !.req = used.events + 1]]
  BY DEF HandleClientPlayerMessage, gateVars, historyVars, At, Messaging
<1>3. PICK n \in 1..MaxEvents : n = used.events + 1 /\ n \in Nat
  BY <1>1, <1>2, FaultFacts
<1>4. /\ Grows /\ (used' = used \/ used' \in [logins : 0..MaxReqs, events : 0..MaxEvents])
      /\ used'.events = n /\ used'.logins = used.logins /\ used.events < n
  BY <1>1, <1>2, <1>3, GrowsFacts, FaultFacts
<1>5. PICK p \in Accounts : p = sessions[g][c].player /\ p = asked[g][c]
  <2>1. sessions[g][c] \in [account : Accounts, player : Accounts]
    BY <1>1, <1>2, ElementFacts DEF Active, SessionRecord
  <2>2. sessions[g][c] = [account |-> asked[g][c], player |-> asked[g][c]]
    BY <1>2 DEF GateInv, RecordOK, Active
  <2> QED
    BY <2>1, <2>2
<1>6. PICK new \in Thread :
         /\ new = [Idle EXCEPT !.at = "ask", !.conn = c, !.req = n]
         /\ new.at = "ask" /\ new.conn = c /\ new.req = n /\ new.then = "idle"
  <2> DEFINE next == [Idle EXCEPT !.at = "ask", !.conn = c, !.req = n]
  <2>1. next \in Thread /\ next.at = "ask" /\ next.conn = c /\ next.req = n /\ next.then = "idle"
    BY <1>3 DEF Idle, Thread, Steps
  <2> QED
    BY <2>1
<1>7. Turns(g, "worker", new)
  BY <1>1, <1>2, <1>3, <1>6, TurnFacts
<1>8. ThreadOK(g, new)' /\ ~Unsent(new)
  <2>1. ~LogsIn(new)' /\ ~Ends(new)' /\ ~Unsent(new)
    BY <1>6 DEF LogsIn, Ends, Unsent
  <2> QED
    BY <1>3, <1>4, <1>6, <2>1 DEF ThreadOK
<1>9. PICK m \in Message : /\ m = Msg("forward", S(g, c), p, n)
                           /\ m.type = "forward" /\ m.session = S(g, c) /\ m.player = p /\ m.req = n
  BY <1>3, SessionFacts, MsgFacts
<1>10. m.session.gate = g /\ m.session.conn = c
  BY <1>9, SessionFacts
<1>11. FrameOK(g, Game, m)'
  BY <1>2, <1>3, <1>4, <1>5, <1>9, <1>10 DEF FrameOK
<1>12. NotedBy(m)'
  <2>1. asking[g][n] = 0
    <3>1. AskingOK(n, asking[g][n]) /\ used.events \in Nat
      BY <1>1, NumberFacts DEF GateInv
    <3> QED
      BY <1>3, <3>1 DEF AskingOK
  <2>2. Noted(m, pending'[g], asking'[g], thread'[g]["worker"])
    BY <1>1, <1>2, <1>6, <1>7, <1>9, <1>10, <2>1 DEF Noted, Turns
  <2> QED
    BY <1>10, <2>2 DEF NotedBy
<1>13. g \in Procs /\ Game \in Procs
  BY DEF Procs
<1>14. FramesGoOn /\ net' \in [Procs -> [Procs -> Seq(Message)]]
  BY <1>1, <1>2, <1>3, <1>5, <1>9, <1>11, <1>12, <1>13, SendFacts
<1>15. GateTypeOK'
  BY <1>1, <1>2, <1>4, <1>7, <1>14, TypesKept DEF Turns
<1>16. /\ \A h \in Gates, t \in Threads : thread'[h][t] = thread[h][t] \/ ThreadOK(h, thread[h][t])'
       /\ thread'[g]["worker"] = new
       /\ \A h \in Gates : h # g => thread'[h]["worker"] = thread[h]["worker"]
  BY <1>1, <1>7, <1>8 DEF Turns
<1>17. ASSUME NEW h \in Gates PROVE CountOK(h)'
  <2>1. CountOK(h)
    BY DEF GateInv
  <2>2. Unsent(thread'[h]["worker"]) => Unsent(thread[h]["worker"])
    BY <1>8, <1>16
  <2> QED
    BY <1>2, <1>4, <2>1, <2>2 DEF CountOK
<1>18. NotesGoOn
  <2> SUFFICES ASSUME NEW f \in Message, NEW src \in Procs, NEW dst \in Procs,
                      FrameOK(src, dst, f), NotedBy(f)
               PROVE  NotedBy(f)'
    BY DEF NotesGoOn
  <2> DEFINE h == f.session.gate
  <2>1. h \in Gates /\ Noted(f, pending[h], asking[h], thread[h]["worker"])
    BY SessionFacts DEF NotedBy
  <2>2. f.type \in {"forward", "forwarded"} => f.req # n
    <3>1. f.type \in {"forward", "forwarded"} => f.req <= used.events
      BY DEF FrameOK
    <3>2. used.events \in Nat /\ f.req \in Nat
      BY <1>1, NumberFacts, SessionFacts
    <3> QED
      BY <1>3, <3>1, <3>2
  <2> HIDE DEF h
  <2>3. Noted(f, pending'[h], asking'[h], thread'[h]["worker"])
    <3>1. CASE h # g
      BY <1>2, <1>16, <2>1, <3>1 DEF Noted
    <3>2. CASE h = g
      <4>1. thread'[h]["worker"] = new /\ pending'[h] = pending[h] /\ asking'[h] = asking[h]
        BY <1>2, <1>16, <3>2
      <4> QED
        BY <1>6, <2>1, <2>2, <4>1 DEF Noted
    <3> QED
      BY <3>1, <3>2
  <2> QED
    BY <2>3 DEF NotedBy, h
<1> QED
  BY <1>2, <1>4, <1>14, <1>15, <1>16, <1>17, <1>18, KeptAll

LEMMA RecordAskingStep ==
    ASSUME GateInv, NEW g \in Gates, RecordAsking(g)
    PROVE  GateInv'
<1>1. GateTypeOK /\ "worker" \in Threads
  BY DEF GateInv, Threads
<1>2. PICK me \in Thread : me = thread[g]["worker"] /\ ThreadOK(g, me)
  BY <1>1, ElementFacts DEF GateInv
<1>3. /\ UNCHANGED <<accepted, sock, sessions, routes, pending, nextReq, owner, net, attach,
                     used, asked, told, gone, lost>>
      /\ me.at = "ask" /\ Finish(g, "worker")
      /\ asking' = [asking EXCEPT ![g][me.req] = me.conn]
  BY <1>2 DEF RecordAsking, historyVars, At, Me
<1>4. me.conn \in Conn /\ me.req \in 1..MaxEvents /\ me.req <= used.events
  BY <1>2, <1>3 DEF ThreadOK
<1>5. /\ asking' \in [Gates -> [1..MaxEvents -> {0} \cup Conn]]
      /\ \A h \in Gates, r \in 1..MaxEvents :
            asking'[h][r] = IF h = g /\ r = me.req THEN me.conn ELSE asking[h][r]
  <2>1. asking \in [Gates -> [1..MaxEvents -> {0} \cup Conn]]
    BY <1>1, TypeFacts
  <2> QED
    BY <1>3, <1>4, <2>1
<1>6. Grows
  BY <1>1, <1>3, GrowsFacts
<1>7. Turns(g, "worker", Idle)
  BY <1>1, <1>3, FinishFacts
<1>8. GateTypeOK'
  BY <1>1, <1>3, <1>5, <1>7, TypesKept DEF Turns
<1>9. ThreadsGoOn /\ FramesGoOn
  BY <1>1, <1>3, <1>6, <1>7, <1>8, FinishGoesOn, NothingMoves
<1>10. \A h \in Gates, r \in 1..MaxEvents :
          asking'[h][r] \in {asking[h][r], 0} \/ AskingOK(r, asking[h][r])'
  BY <1>3, <1>4, <1>5 DEF AskingOK
<1>11. NotesGoOn
  <2> SUFFICES ASSUME NEW m \in Message, NEW src \in Procs, NEW dst \in Procs,
                      FrameOK(src, dst, m), NotedBy(m)
               PROVE  NotedBy(m)'
    BY DEF NotesGoOn
  <2> DEFINE h == m.session.gate
  <2>1. h \in Gates /\ Noted(m, pending[h], asking[h], thread[h]["worker"])
    BY SessionFacts DEF NotedBy
  <2>2. m.type \in {"forward", "forwarded"} => m.req \in 1..MaxEvents
    BY DEF FrameOK
  <2> HIDE DEF h
  <2>3. thread'[h]["worker"] = thread[h]["worker"] \/ thread'[h]["worker"].at \notin {"record", "ask"}
    BY <1>9, <2>1 DEF ThreadsGoOn
  <2>4. m.type \in {"forward", "forwarded"} /\ asking'[h][m.req] # 0 =>
           asking'[h][m.req] = m.session.conn
    BY <1>2, <1>3, <1>5, <2>1, <2>2 DEF Noted
  <2>5. Noted(m, pending'[h], asking'[h], thread'[h]["worker"])
    BY <1>3, <2>1, <2>3, <2>4 DEF Noted
  <2> QED
    BY <2>5 DEF NotedBy, h
<1>12. ASSUME NEW h \in Gates PROVE CountOK(h)'
  <2>1. CountOK(h)
    BY DEF GateInv
  <2>2. Unsent(thread'[h]["worker"]) => Unsent(thread[h]["worker"])
    BY <1>1, <1>7, IdleFacts DEF Turns
  <2> QED
    BY <1>3, <2>1, <2>2 DEF CountOK
<1> QED
  BY <1>3, <1>6, <1>8, <1>9, <1>10, <1>11, <1>12, KeptAll DEF ThreadsGoOn

-----------------------------------------------------------------------------
(* The reader.                                                             *)

\* The reader takes a frame.
LEMMA ReceiveFacts ==
    ASSUME GateInv, NEW g \in Gates, NEW src \in Procs, NEW type, Receive(g, src, type)
    PROVE  /\ FramesGoOn /\ net' \in [Procs -> [Procs -> Seq(Message)]]
           /\ thread[g]["reader"].at = "idle"
           /\ \E m \in Message : /\ m = Head(net[src][g]) /\ m.type = type
                                 /\ FrameOK(src, g, m) /\ NotedBy(m)
<1>1. GateTypeOK /\ g \in Procs
  BY DEF GateInv, Procs
<1>2. /\ net[src][g] # <<>> /\ Head(net[src][g]).type = type /\ thread[g]["reader"].at = "idle"
      /\ net' = [net EXCEPT ![src][g] = Tail(@)]
  BY DEF Receive, At
<1>3. FramesGoOn /\ net' \in [Procs -> [Procs -> Seq(Message)]]
  BY <1>1, <1>2, TakeFacts
<1>4. net[src][g] \in Seq(Message)
  BY <1>1, ElementFacts
<1>5. 1 \in 1..Len(net[src][g]) /\ Head(net[src][g]) = net[src][g][1]
  BY <1>2, <1>4
<1>6. Head(net[src][g]) \in Message
  BY <1>4, <1>5
<1>7. FrameOK(src, g, Head(net[src][g])) /\ NotedBy(Head(net[src][g]))
  BY <1>1, <1>5 DEF GateInv
<1> QED
  BY <1>2, <1>3, <1>6, <1>7

LEMMA HandleLoginResponseStep ==
    ASSUME GateInv, NEW g \in Gates, HandleLoginResponse(g)
    PROVE  GateInv'
<1>1. GateTypeOK /\ "reader" \in Threads /\ Game \in Procs
  BY DEF GateInv, Threads, Procs
<1>2. Receive(g, Game, "response")
  BY DEF HandleLoginResponse
<1>3. /\ FramesGoOn /\ net' \in [Procs -> [Procs -> Seq(Message)]]
      /\ \E m \in Message : /\ m = Head(net[Game][g]) /\ m.type = "response"
                            /\ FrameOK(Game, g, m) /\ NotedBy(m)
  BY <1>1, <1>2, ReceiveFacts
<1>4. PICK m \in Message : /\ m = Head(net[Game][g]) /\ m.type = "response"
                           /\ FrameOK(Game, g, m) /\ NotedBy(m)
  BY <1>3
<1>5. /\ UNCHANGED <<accepted, sock, sessions, routes, nextReq, asking, owner, attach, used,
                     asked, told, gone, lost>>
      /\ pending' = [pending EXCEPT ![g][m.req] = None]
      /\ thread' = IF pending[g][m.req] # None /\ m.ok
                   THEN [thread EXCEPT ![g]["reader"] = [Idle EXCEPT !.at = "activate",
                          !.conn = pending[g][m.req].conn, !.account = pending[g][m.req].account,
                          !.read = m.player]]
                   ELSE thread
  BY <1>4 DEF HandleLoginResponse, PendingOf, historyVars
<1>6. m.req \in Req /\ m.session.gate = g /\ asked[g][m.session.conn] = m.player /\ m.player \in Accounts
  BY <1>4, SessionFacts DEF FrameOK
<1>7. /\ pending' \in [Gates -> [Req -> [conn : Conn, account : Accounts] \cup {None}]]
      /\ \A h \in Gates, r \in Req : pending'[h][r] \in {pending[h][r], None}
  <2>1. pending \in [Gates -> [Req -> [conn : Conn, account : Accounts] \cup {None}]]
    BY <1>1, TypeFacts
  <2> QED
    BY <1>5, <1>6, <2>1
<1>8. Grows
  BY <1>1, <1>5, GrowsFacts
<1>9. CASE thread' = thread
  <2>1. GateTypeOK'
    BY <1>1, <1>3, <1>5, <1>7, <1>9, TypesKept
  <2>2. ThreadsGoOn
    BY <1>1, <1>9, NothingMoves
  <2> QED
    BY <1>3, <1>5, <1>7, <1>8, <2>1, <2>2, Kept
<1>10. CASE pending[g][m.req] # None /\ m.ok
  <2>1. PICK login \in [conn : Conn, account : Accounts] :
           /\ login = pending[g][m.req] /\ login.conn = m.session.conn /\ login.account = m.player
    <3>1. pending[g][m.req] \in [conn : Conn, account : Accounts]
      BY <1>1, <1>6, <1>10, ElementFacts
    <3>2. pending[g][m.req].conn = m.session.conn
      BY <1>4, <1>6, <1>10 DEF NotedBy, Noted
    <3>3. asked[g][pending[g][m.req].conn] = pending[g][m.req].account
      BY <1>6, <1>10 DEF GateInv, PendingOK
    <3> QED
      BY <1>6, <3>1, <3>2, <3>3
  <2>2. PICK new \in Thread :
           /\ new = [Idle EXCEPT !.at = "activate", !.conn = login.conn, !.account = login.account,
                                 !.read = m.player]
           /\ new.at = "activate" /\ new.conn = login.conn /\ new.account = login.account
           /\ new.read = m.player /\ new.then = "idle"
    <3> DEFINE next == [Idle EXCEPT !.at = "activate", !.conn = login.conn,
                                    !.account = login.account, !.read = m.player]
    <3>1. /\ next \in Thread /\ next.at = "activate" /\ next.conn = login.conn
          /\ next.account = login.account /\ next.read = m.player /\ next.then = "idle"
      BY <1>6 DEF Idle, Thread, Steps
    <3> QED
      BY <3>1
  <2>3. thread' = [thread EXCEPT ![g]["reader"] = new]
    BY <1>5, <1>10, <2>1, <2>2
  <2>4. Turns(g, "reader", new)
    BY <1>1, <2>3, TurnFacts
  <2>5. ThreadOK(g, new)
    <3>1. ~LogsIn(new) /\ ~Ends(new)
      BY <2>2 DEF LogsIn, Ends
    <3> QED
      BY <1>6, <2>1, <2>2, <3>1 DEF ThreadOK
  <2>6. GateTypeOK'
    BY <1>1, <1>3, <1>5, <1>7, <2>4, TypesKept DEF Turns
  <2>7. ThreadsGoOn
    BY <1>1, <1>8, <2>2, <2>4, <2>5, <2>6, TurnGoesOn
  <2> QED
    BY <1>3, <1>5, <1>7, <1>8, <2>6, <2>7, Kept
<1> QED
  BY <1>5, <1>9, <1>10

LEMMA ActivateStep ==
    ASSUME GateInv, NEW g \in Gates, Activate(g)
    PROVE  GateInv'
<1>1. GateTypeOK /\ "reader" \in Threads
  BY DEF GateInv, Threads
<1>2. PICK me \in Thread : me = thread[g]["reader"] /\ ThreadOK(g, me)
  BY <1>1, ElementFacts DEF GateInv
<1>3. /\ UNCHANGED <<accepted, sock, routes, pending, nextReq, asking, owner, net, attach,
                     used, asked, told, gone, lost>>
      /\ me.at = "activate" /\ Goto(g, "reader", "bind")
      /\ sessions' = [sessions EXCEPT ![g][me.conn] =
                         IF @ = None THEN None ELSE [account |-> me.account, player |-> me.read]]
  BY <1>2 DEF Activate, historyVars, At, Me
<1>4. /\ me.conn \in Conn /\ me.account \in Accounts /\ me.read = me.account
      /\ asked[g][me.conn] = me.account
  BY <1>2, <1>3 DEF ThreadOK
<1>5. PICK record \in SessionRecord : record = [account |-> me.account, player |-> me.read]
  BY <1>4 DEF SessionRecord
<1>6. /\ sessions' \in [Gates -> [Conn -> SessionRecord \cup {None}]]
      /\ \A h \in Gates, c \in Conn :
            sessions'[h][c] \in {sessions[h][c], None} \/ (h = g /\ c = me.conn /\ sessions'[h][c] = record)
  <2>1. sessions \in [Gates -> [Conn -> SessionRecord \cup {None}]]
    BY <1>1, TypeFacts
  <2> QED
    BY <1>3, <1>4, <1>5, <2>1
<1>7. Grows
  BY <1>1, <1>3, GrowsFacts
<1>8. \A h \in Gates, c \in Conn :
         sessions'[h][c] \in {sessions[h][c], None, Anonymous} \/ RecordOK(h, c, sessions[h][c])'
  BY <1>3, <1>4, <1>5, <1>6 DEF RecordOK
<1>9. PICK new \in Thread :
         /\ new = [me EXCEPT !.at = "bind"] /\ new.at = "bind" /\ new.conn = me.conn
         /\ new.account = me.account /\ new.read = me.read /\ new.then = me.then
  <2> DEFINE next == [me EXCEPT !.at = "bind"]
  <2>1. /\ next \in Thread /\ next.at = "bind" /\ next.conn = me.conn /\ next.account = me.account
        /\ next.read = me.read /\ next.then = me.then
    BY <1>2 DEF Thread, Steps
  <2> QED
    BY <2>1
<1>10. Turns(g, "reader", new)
  BY <1>1, <1>2, <1>3, <1>9, GotoFacts DEF Steps
<1>11. ThreadOK(g, new)
  <2>1. ~Ends(me) /\ ~Ends(new) /\ me.then = "idle"
    BY <1>2, <1>3, <1>9 DEF Ends, ThreadOK
  <2>2. ~LogsIn(new)
    BY <1>9, <2>1 DEF LogsIn
  <2> QED
    BY <1>4, <1>9, <2>1, <2>2 DEF ThreadOK
<1>12. GateTypeOK'
  BY <1>1, <1>3, <1>6, <1>10, TypesKept DEF Turns
<1>13. ThreadsGoOn /\ FramesGoOn
  BY <1>1, <1>3, <1>7, <1>9, <1>10, <1>11, <1>12, TurnGoesOn, NothingMoves
<1> QED
  BY <1>3, <1>7, <1>8, <1>12, <1>13, Kept

\* What a client is told of the account it asked for.
LEMMA TellFacts ==
    ASSUME GateTypeOK, NEW g \in Gates, NEW c \in Conn, NEW p \in Accounts, asked[g][c] = p,
           asked' = asked, Tell(g, c, p), ToldOK(g, c, told[g][c])
    PROVE  /\ told' \in [Gates -> [Conn -> SUBSET Accounts]]
           /\ \A h \in Gates, d \in Conn : told'[h][d] = told[h][d] \/ ToldOK(h, d, told[h][d])'
<1>1. told \in [Gates -> [Conn -> SUBSET Accounts]]
  BY TypeFacts
<1>2. told' = told \/ told' = [told EXCEPT ![g][c] = @ \cup {p}]
  BY DEF Tell
<1>3. CASE told' = told
  BY <1>1, <1>3
<1>4. CASE told' = [told EXCEPT ![g][c] = @ \cup {p}]
  <2>1. told' \in [Gates -> [Conn -> SUBSET Accounts]]
    BY <1>1, <1>4
  <2>2. \A h \in Gates, d \in Conn :
           told'[h][d] = IF h = g /\ d = c THEN told[g][c] \cup {p} ELSE told[h][d]
    BY <1>1, <1>4
  <2> QED
    BY <2>1, <2>2 DEF ToldOK
<1> QED
  BY <1>2, <1>3, <1>4

LEMMA BindAccountStep ==
    ASSUME GateInv, NEW g \in Gates, BindAccount(g)
    PROVE  GateInv'
<1>1. GateTypeOK /\ "reader" \in Threads
  BY DEF GateInv, Threads
<1>2. PICK me \in Thread : me = thread[g]["reader"] /\ ThreadOK(g, me)
  BY <1>1, ElementFacts DEF GateInv
<1>3. /\ UNCHANGED <<accepted, sock, sessions, pending, nextReq, asking, net, attach, asked, gone, lost>>
      /\ me.at = "bind" /\ Finish(g, "reader") /\ Tell(g, me.conn, me.read)
      /\ routes' = [routes EXCEPT ![g][me.read] = me.conn]
      /\ UNCHANGED used \/ Fault
      /\ owner' = owner \/ owner' = [owner EXCEPT ![me.account] = S(g, me.conn)]
  BY <1>2 DEF BindAccount, At, Me
<1>4. /\ me.conn \in Conn /\ me.account \in Accounts /\ me.read = me.account
      /\ asked[g][me.conn] = me.account
  BY <1>2, <1>3 DEF ThreadOK
<1>5. Grows /\ (used' = used \/ used' \in [logins : 0..MaxReqs, events : 0..MaxEvents])
  BY <1>1, <1>3, GrowsFacts
<1>6. routes' \in [Gates -> [Accounts -> {0} \cup Conn]]
  <2>1. routes \in [Gates -> [Accounts -> {0} \cup Conn]]
    BY <1>1, TypeFacts
  <2> QED
    BY <1>3, <1>4, <2>1
<1>7. /\ owner' \in [Accounts -> Session \cup {None}]
      /\ \A a \in Accounts : owner'[a] \in {owner[a], None} \/ OwnerOK(a, owner[a])'
  <2>1. owner \in [Accounts -> Session \cup {None}]
    BY <1>1, TypeFacts
  <2>2. S(g, me.conn) \in Session /\ S(g, me.conn).gate = g /\ S(g, me.conn).conn = me.conn
    BY <1>4, SessionFacts
  <2>3. \A a \in Accounts : owner'[a] = owner[a] \/ (a = me.account /\ owner'[a] = S(g, me.conn))
    BY <1>3, <1>4, <2>1
  <2>4. asked'[g][me.conn] = me.account
    BY <1>3, <1>4
  <2> QED
    BY <1>3, <2>1, <2>2, <2>3, <2>4 DEF OwnerOK
<1>8. /\ told' \in [Gates -> [Conn -> SUBSET Accounts]]
      /\ \A h \in Gates, d \in Conn : told'[h][d] = told[h][d] \/ ToldOK(h, d, told[h][d])'
  <2>1. ToldOK(g, me.conn, told[g][me.conn])
    BY <1>4 DEF GateInv
  <2> QED
    BY <1>1, <1>3, <1>4, <2>1, TellFacts
<1>9. Turns(g, "reader", Idle)
  BY <1>1, <1>3, FinishFacts
<1>10. GateTypeOK'
  BY <1>1, <1>3, <1>5, <1>6, <1>7, <1>8, <1>9, TypesKept DEF Turns
<1>11. ThreadsGoOn /\ FramesGoOn
  BY <1>1, <1>3, <1>5, <1>9, <1>10, FinishGoesOn, NothingMoves
<1> QED
  BY <1>3, <1>5, <1>7, <1>8, <1>10, <1>11, Kept

LEMMA CloseOnRequestStep ==
    ASSUME GateInv, NEW g \in Gates, NEW src \in Procs, NEW type, CloseOnRequest(g, src, type)
    PROVE  GateInv'
<1>1. GateTypeOK /\ "reader" \in Threads
  BY DEF GateInv, Threads
<1>2. Receive(g, src, type)
  BY DEF CloseOnRequest
<1>3. FramesGoOn /\ net' \in [Procs -> [Procs -> Seq(Message)]] /\ thread[g]["reader"].at = "idle"
  BY <1>1, <1>2, ReceiveFacts
<1>4. PICK m \in Message : m = Head(net[src][g])
  BY <1>1, <1>2, ReceiveFacts
<1>5. m.session.conn \in Conn
  BY SessionFacts
<1>6. /\ UNCHANGED <<accepted, sessions, routes, pending, nextReq, asking, owner, attach, used,
                     asked, told, gone, lost>>
      /\ Closing(g, "reader", m.session.conn, "idle") \/ UNCHANGED <<sock, thread>>
  BY <1>4 DEF CloseOnRequest, historyVars
<1>7. Grows
  BY <1>1, <1>6, GrowsFacts
<1>8. CASE UNCHANGED <<sock, thread>>
  <2>1. GateTypeOK'
    BY <1>1, <1>3, <1>6, <1>8, TypesKept
  <2>2. ThreadsGoOn
    BY <1>1, <1>8, NothingMoves
  <2> QED
    BY <1>3, <1>6, <1>7, <2>1, <2>2, Kept
<1>9. CASE Closing(g, "reader", m.session.conn, "idle")
  <2>1. /\ sock' \in [Gates -> SUBSET Conn]
        /\ \E new \in Thread : Turns(g, "reader", new) /\ ThreadOK(g, new) /\ new.at = "remove"
    BY <1>1, <1>3, <1>5, <1>9, ClosingOn
  <2>2. PICK new \in Thread : Turns(g, "reader", new) /\ ThreadOK(g, new) /\ new.at = "remove"
    BY <2>1
  <2>3. GateTypeOK'
    BY <1>1, <1>3, <1>6, <2>1, <2>2, TypesKept DEF Turns
  <2>4. ThreadsGoOn
    BY <1>1, <1>7, <2>2, <2>3, TurnGoesOn
  <2> QED
    BY <1>3, <1>6, <1>7, <2>3, <2>4, Kept
<1> QED
  BY <1>6, <1>8, <1>9

LEMMA ForwardedStep ==
    ASSUME GateInv, NEW g \in Gates, HandleForwardPlayerMessageResponse(g)
    PROVE  GateInv'
<1>1. GateTypeOK /\ Game \in Procs
  BY DEF GateInv, Procs
<1>2. Receive(g, Game, "forwarded")
  BY DEF HandleForwardPlayerMessageResponse
<1>3. FramesGoOn /\ net' \in [Procs -> [Procs -> Seq(Message)]]
  BY <1>1, <1>2, ReceiveFacts
<1>4. PICK m \in Message : /\ m = Head(net[Game][g]) /\ m.type = "forwarded"
                           /\ FrameOK(Game, g, m) /\ NotedBy(m)
  BY <1>1, <1>2, ReceiveFacts
<1>5. /\ UNCHANGED <<accepted, sock, sessions, routes, pending, nextReq, thread, owner, attach,
                     used, asked, gone, lost>>
      /\ asking' = [asking EXCEPT ![g][m.req] = 0]
      /\ told' = told \/ (asking[g][m.req] # 0 /\ Tell(g, asking[g][m.req], m.player))
  BY <1>4 DEF HandleForwardPlayerMessageResponse
<1>6. m.req \in 1..MaxEvents /\ m.session.gate = g /\ asked[g][m.session.conn] = m.player
      /\ m.player \in Accounts /\ m.session.conn \in Conn
  BY <1>4, SessionFacts DEF FrameOK
<1>7. /\ asking' \in [Gates -> [1..MaxEvents -> {0} \cup Conn]]
      /\ \A h \in Gates, r \in 1..MaxEvents : asking'[h][r] \in {asking[h][r], 0}
  <2>1. asking \in [Gates -> [1..MaxEvents -> {0} \cup Conn]]
    BY <1>1, TypeFacts
  <2> QED
    BY <1>5, <1>6, <2>1
<1>8. Grows
  BY <1>1, <1>5, GrowsFacts
<1>9. /\ told' = told \/ told' \in [Gates -> [Conn -> SUBSET Accounts]]
      /\ \A h \in Gates, d \in Conn : told'[h][d] = told[h][d] \/ ToldOK(h, d, told[h][d])'
  <2>1. CASE told' = told
    BY <2>1
  <2>2. CASE asking[g][m.req] # 0 /\ Tell(g, asking[g][m.req], m.player)
    <3>1. asking[g][m.req] = m.session.conn
      BY <1>4, <1>6, <2>2 DEF NotedBy, Noted
    <3>2. ToldOK(g, m.session.conn, told[g][m.session.conn])
      BY <1>6 DEF GateInv
    <3> QED
      BY <1>1, <1>5, <1>6, <2>2, <3>1, <3>2, TellFacts
  <2> QED
    BY <1>5, <2>1, <2>2
<1>10. GateTypeOK'
  BY <1>1, <1>3, <1>5, <1>7, <1>9, TypesKept
<1>11. ThreadsGoOn
  BY <1>1, <1>5, NothingMoves
<1> QED
  BY <1>3, <1>5, <1>7, <1>8, <1>9, <1>10, <1>11, Kept

LEMMA PushStep ==
    ASSUME GateInv, NEW g \in Gates, HandlePushPlayerMessage(g)
    PROVE  GateInv'
<1>1. GateTypeOK /\ Game \in Procs
  BY DEF GateInv, Procs
<1>2. Receive(g, Game, "push")
  BY DEF HandlePushPlayerMessage
<1>3. FramesGoOn /\ net' \in [Procs -> [Procs -> Seq(Message)]]
  BY <1>1, <1>2, ReceiveFacts
<1>4. PICK m \in Message : m = Head(net[Game][g])
  BY <1>1, <1>2, ReceiveFacts
<1>5. PICK c \in Conn : c = m.session.conn
  BY SessionFacts
<1>6. /\ UNCHANGED <<accepted, sock, sessions, routes, pending, nextReq, asking, thread, owner,
                     attach, used, asked, gone, lost>>
      /\ told' = told \/ (Active(g, c) /\ sessions[g][c].player = m.player /\ Tell(g, c, m.player))
  BY <1>4, <1>5 DEF HandlePushPlayerMessage, gateVars
<1>7. Grows
  BY <1>1, <1>6, GrowsFacts
<1>8. /\ told' = told \/ told' \in [Gates -> [Conn -> SUBSET Accounts]]
      /\ \A h \in Gates, d \in Conn : told'[h][d] = told[h][d] \/ ToldOK(h, d, told[h][d])'
  <2>1. CASE told' = told
    BY <2>1
  <2>2. CASE Active(g, c) /\ sessions[g][c].player = m.player /\ Tell(g, c, m.player)
    <3>1. sessions[g][c] = [account |-> asked[g][c], player |-> asked[g][c]]
      BY <2>2 DEF GateInv, RecordOK, Active
    <3>2. asked[g][c] = m.player /\ m.player \in Accounts
      BY <2>2, <3>1, SessionFacts
    <3>3. ToldOK(g, c, told[g][c])
      BY DEF GateInv
    <3> QED
      BY <1>1, <1>6, <2>2, <3>2, <3>3, TellFacts
  <2> QED
    BY <1>6, <2>1, <2>2
<1>9. GateTypeOK'
  BY <1>1, <1>3, <1>6, <1>8, TypesKept
<1>10. ThreadsGoOn
  BY <1>1, <1>6, NothingMoves
<1> QED
  BY <1>3, <1>6, <1>7, <1>8, <1>9, <1>10, Kept

-----------------------------------------------------------------------------
(* The game, and the links.                                                *)

\* The frame the game takes from a gate.
LEMMA HandleFacts ==
    ASSUME GateInv, NEW g \in Gates, NEW type, Handle(g, type)
    PROVE  \E m \in Message : /\ m = Head(net[g][Game]) /\ m.type = type
                              /\ FrameOK(g, Game, m) /\ NotedBy(m)
<1>1. GateTypeOK /\ g \in Procs /\ Game \in Procs
  BY DEF GateInv, Procs
<1>2. net[g][Game] \in Seq(Message) /\ net[g][Game] # <<>> /\ Head(net[g][Game]).type = type
  BY <1>1, ElementFacts DEF Handle
<1>3. 1 \in 1..Len(net[g][Game]) /\ Head(net[g][Game]) = net[g][Game][1]
  BY <1>2
<1>4. net[g][Game][1] \in Message
  BY <1>2, <1>3
<1>5. FrameOK(g, Game, net[g][Game][1]) /\ NotedBy(net[g][Game][1])
  BY <1>1, <1>3 DEF GateInv
<1> QED
  BY <1>2, <1>3, <1>4, <1>5

\* The answer to a request belongs to the same connection and number.
LEMMA AnswerFacts ==
    ASSUME GateInv, GateTypeOK', Grows, NEW g \in Gates, NEW m \in Message, NEW answer \in Message,
           UNCHANGED <<pending, asking, thread>>, FrameOK(g, Game, m), NotedBy(m),
           \/ m.type = "login" /\ answer.type = "response"
           \/ m.type = "forward" /\ answer.type = "forwarded",
           answer.session = m.session, answer.player = m.player, answer.req = m.req
    PROVE  FrameOK(Game, g, answer)' /\ NotedBy(answer)'
<1>1. Game \in Procs /\ g \in Procs /\ GateTypeOK
  BY DEF Procs, GateInv
<1>2. FrameOK(Game, g, answer)
  BY DEF FrameOK
<1>3. NotedBy(answer)
  BY DEF NotedBy, Noted
<1>4. NotedBy(answer)'
  BY <1>3 DEF NotedBy
<1> QED
  BY <1>1, <1>2, <1>4, FrameKept

\* A step of the game or of a link, which leaves the gates alone.
LEMMA GameOnlyKept ==
    ASSUME GateInv, GateTypeOK', Grows, FramesGoOn, GameOnly
    PROVE  GateInv'
<1>1. UNCHANGED <<accepted, sock, sessions, routes, pending, nextReq, asking, thread, owner,
                  asked, told>>
  BY DEF GameOnly, gateVars
<1>2. ThreadsGoOn
  BY <1>1, NothingMoves DEF GateInv
<1> QED
  BY <1>1, <1>2, Kept

LEMMA HandleLoginRequestStep ==
    ASSUME GateInv, NEW g \in Gates, HandleLoginRequest(g)
    PROVE  GateInv'
<1>1. GateTypeOK
  BY DEF GateInv
<1>2. PICK m \in Message : /\ m = Head(net[g][Game]) /\ m.type = "login"
                           /\ FrameOK(g, Game, m) /\ NotedBy(m)
  BY HandleFacts DEF HandleLoginRequest
<1>3. /\ UNCHANGED <<accepted, sock, sessions, routes, pending, nextReq, asking, thread, owner,
                     asked, told, gone>>
      /\ net[g][Game] # <<>> /\ GameOnly
  BY DEF HandleLoginRequest, GameOnly, gateVars, Handle
<1>4. PICK answer \in Message :
         /\ Reply(g, answer) /\ answer.type = "response" /\ answer.session = m.session
         /\ answer.player = m.player /\ answer.req = m.req
  <2> DEFINE yes == [m EXCEPT !.type = "response"]
             no == [m EXCEPT !.type = "response", !.ok = FALSE]
  <2>1. /\ yes \in Message /\ yes.type = "response" /\ yes.session = m.session
        /\ yes.player = m.player /\ yes.req = m.req
    BY DEF Message
  <2>2. /\ no \in Message /\ no.type = "response" /\ no.session = m.session
        /\ no.player = m.player /\ no.req = m.req
    BY DEF Message
  <2>3. Reply(g, yes) \/ Reply(g, no)
    BY <1>2 DEF HandleLoginRequest
  <2> HIDE DEF yes, no
  <2> QED
    BY <2>1, <2>2, <2>3
<1>5. /\ UNCHANGED used \/ Fault
      /\ \/ UNCHANGED <<attach, lost>>
         \/ attach' = [attach EXCEPT ![m.player] = m.session] /\ lost' = lost \ {m.player}
  BY <1>2 DEF HandleLoginRequest
<1>6. attach' \in [Accounts -> Session \cup {None}] /\ lost' \subseteq Accounts
  <2>1. attach \in [Accounts -> Session \cup {None}] /\ lost \subseteq Accounts
    BY <1>1, TypeFacts
  <2>2. m.session \in Session
    BY SessionFacts
  <2> QED
    BY <1>5, <2>1, <2>2
<1>7. Grows /\ (used' = used \/ used' \in [logins : 0..MaxReqs, events : 0..MaxEvents])
  BY <1>1, <1>3, <1>5, GrowsFacts
<1>8. net' \in [Procs -> [Procs -> Seq(Message)]]
  BY <1>1, <1>3, <1>4, ReplyTyped
<1>9. GateTypeOK'
  BY <1>1, <1>3, <1>6, <1>7, <1>8, TypesKept
<1>10. FrameOK(Game, g, answer)' /\ NotedBy(answer)'
  BY <1>2, <1>3, <1>4, <1>7, <1>9, AnswerFacts
<1>11. FramesGoOn
  BY <1>1, <1>3, <1>4, <1>10, ReplyFacts
<1> QED
  BY <1>3, <1>7, <1>9, <1>11, GameOnlyKept

LEMMA HandlePlayerDisconnectedStep ==
    ASSUME GateInv, NEW g \in Gates, HandlePlayerDisconnected(g)
    PROVE  GateInv'
<1>1. GateTypeOK /\ g \in Procs /\ Game \in Procs
  BY DEF GateInv, Procs
<1>2. PICK m \in Message : m = Head(net[g][Game])
  BY HandleFacts DEF HandlePlayerDisconnected
<1>3. /\ UNCHANGED <<accepted, sock, sessions, routes, pending, nextReq, asking, thread, owner,
                     asked, told, gone, used, lost>>
      /\ net[g][Game] # <<>> /\ net' = [net EXCEPT ![g][Game] = Tail(@)] /\ GameOnly
      /\ attach' = [attach EXCEPT ![m.player] = IF @ = m.session THEN None ELSE @]
  BY <1>2 DEF HandlePlayerDisconnected, DetachPlayer, GameOnly, gateVars, Handle
<1>4. attach' \in [Accounts -> Session \cup {None}]
  <2>1. attach \in [Accounts -> Session \cup {None}]
    BY <1>1, TypeFacts
  <2> QED
    BY <1>3, <2>1
<1>5. FramesGoOn /\ net' \in [Procs -> [Procs -> Seq(Message)]]
  BY <1>1, <1>3, TakeFacts
<1>6. Grows
  BY <1>1, <1>3, GrowsFacts
<1>7. GateTypeOK'
  BY <1>1, <1>3, <1>4, <1>5, TypesKept
<1> QED
  BY <1>3, <1>5, <1>6, <1>7, GameOnlyKept

LEMMA ForwardStep ==
    ASSUME GateInv, NEW g \in Gates, HandleForwardPlayerMessageRequest(g)
    PROVE  GateInv'
<1>1. GateTypeOK
  BY DEF GateInv
<1>2. PICK m \in Message : /\ m = Head(net[g][Game]) /\ m.type = "forward"
                           /\ FrameOK(g, Game, m) /\ NotedBy(m)
  BY HandleFacts DEF HandleForwardPlayerMessageRequest
<1>3. /\ UNCHANGED <<accepted, sock, sessions, routes, pending, nextReq, asking, thread, owner,
                     asked, told, gone, attach, used, lost>>
      /\ net[g][Game] # <<>> /\ GameOnly
      /\ Reply(g, [m EXCEPT !.type = "forwarded"])
  BY <1>2 DEF HandleForwardPlayerMessageRequest, GameOnly, gateVars, Handle
<1>4. PICK answer \in Message :
         /\ Reply(g, answer) /\ answer.type = "forwarded" /\ answer.session = m.session
         /\ answer.player = m.player /\ answer.req = m.req
  <2> DEFINE yes == [m EXCEPT !.type = "forwarded"]
  <2>1. /\ yes \in Message /\ yes.type = "forwarded" /\ yes.session = m.session
        /\ yes.player = m.player /\ yes.req = m.req
    BY DEF Message
  <2>2. Reply(g, yes)
    BY <1>3
  <2> HIDE DEF yes
  <2> QED
    BY <2>1, <2>2
<1>5. Grows
  BY <1>1, <1>3, GrowsFacts
<1>6. net' \in [Procs -> [Procs -> Seq(Message)]]
  BY <1>1, <1>3, <1>4, ReplyTyped
<1>7. GateTypeOK'
  BY <1>1, <1>3, <1>6, TypesKept
<1>8. FrameOK(Game, g, answer)' /\ NotedBy(answer)'
  BY <1>2, <1>3, <1>4, <1>5, <1>7, AnswerFacts
<1>9. FramesGoOn
  BY <1>1, <1>3, <1>4, <1>8, ReplyFacts
<1> QED
  BY <1>3, <1>5, <1>7, <1>9, GameOnlyKept

\* The game sends a player's gate a frame about the session it is attached to.
LEMMA GameSends ==
    ASSUME GateInv, Grows, NEW p \in Accounts, attach[p] # None, NEW type \in {"push", "unbind"},
           Send(Game, attach[p].gate, Msg(type, attach[p], p, 0))
    PROVE  FramesGoOn /\ net' \in [Procs -> [Procs -> Seq(Message)]]
<1>1. GateTypeOK
  BY DEF GateInv
<1>2. PICK s \in Session : s = attach[p]
  BY <1>1, ElementFacts
<1>3. PICK m \in Message : /\ m = Msg(type, s, p, 0) /\ m.type = type
                           /\ m.session = s /\ m.req = 0 /\ m.ok
  BY MsgFacts
<1>4. PICK g \in Procs : g = s.gate
  BY SessionFacts DEF Procs
<1>5. FrameOK(Game, g, m)' /\ NotedBy(m)'
  BY <1>3, <1>4 DEF FrameOK, NotedBy, Noted
<1>6. Game \in Procs /\ Send(Game, g, m)
  BY <1>2, <1>3, <1>4 DEF Procs
<1> QED
  BY <1>1, <1>5, <1>6, SendFacts

LEMMA PushToPlayerStep ==
    ASSUME GateInv, NEW p \in Accounts, PushToPlayer(p)
    PROVE  GateInv'
<1>1. GateTypeOK
  BY DEF GateInv
<1>2. /\ UNCHANGED <<accepted, sock, sessions, routes, pending, nextReq, asking, thread, owner,
                     asked, told, gone, attach, lost>>
      /\ GameOnly /\ Fault /\ attach[p] # None
      /\ Send(Game, attach[p].gate, Msg("push", attach[p], p, 0))
  BY DEF PushToPlayer, GameOnly, gateVars, Messaging
<1>3. Grows /\ (used' = used \/ used' \in [logins : 0..MaxReqs, events : 0..MaxEvents])
  BY <1>1, <1>2, GrowsFacts
<1>4. FramesGoOn /\ net' \in [Procs -> [Procs -> Seq(Message)]]
  BY <1>2, <1>3, GameSends
<1>5. GateTypeOK'
  BY <1>1, <1>2, <1>3, <1>4, TypesKept
<1> QED
  BY <1>2, <1>3, <1>4, <1>5, GameOnlyKept

LEMMA LeaseLostStep ==
    ASSUME GateInv, NEW p \in Accounts, LeaseLost(p)
    PROVE  GateInv'
<1>1. GateTypeOK
  BY DEF GateInv
<1>2. /\ UNCHANGED <<accepted, sock, sessions, routes, pending, nextReq, asking, thread, owner,
                     asked, told, gone>>
      /\ GameOnly /\ Fault /\ attach[p] # None
      /\ Send(Game, attach[p].gate, Msg("unbind", attach[p], p, 0))
      /\ attach' = [attach EXCEPT ![p] = None] /\ lost' = lost \cup {p}
  BY DEF LeaseLost, GameOnly, gateVars
<1>3. Grows /\ (used' = used \/ used' \in [logins : 0..MaxReqs, events : 0..MaxEvents])
  BY <1>1, <1>2, GrowsFacts
<1>4. FramesGoOn /\ net' \in [Procs -> [Procs -> Seq(Message)]]
  BY <1>2, <1>3, GameSends
<1>5. attach' \in [Accounts -> Session \cup {None}] /\ lost' \subseteq Accounts
  <2>1. attach \in [Accounts -> Session \cup {None}] /\ lost \subseteq Accounts
    BY <1>1, TypeFacts
  <2> QED
    BY <1>2, <2>1
<1>6. GateTypeOK'
  BY <1>1, <1>2, <1>3, <1>4, <1>5, TypesKept
<1> QED
  BY <1>2, <1>3, <1>4, <1>6, GameOnlyKept

\* The sessions whose end the frames on a link tell of.
Tells(src, dst, g, c) ==
    \E i \in DOMAIN net[src][dst] : /\ net[src][dst][i].type = "disconnected"
                                   /\ net[src][dst][i].session = S(g, c)

\* A link takes with it only news of sessions that have gone.
LEMMA LinkLostFacts ==
    ASSUME GateInv, NEW src \in Procs, NEW dst \in Procs, LinkLost(src, dst)
    PROVE  /\ gone' \in [Gates -> [Conn -> {"no", "during login", "after login", "unsent"}]]
           /\ \A g \in Gates, c \in Conn :
                 \/ gone'[g][c] = gone[g][c]
                 \/ gone'[g][c] # "no" /\ gone[g][c] # "no"
<1>1. GateTypeOK
  BY DEF GateInv
<1>2. gone \in [Gates -> [Conn -> {"no", "during login", "after login", "unsent"}]]
  BY <1>1, TypeFacts
<1>3. gone' = [g \in Gates |-> [c \in Conn |-> IF Tells(src, dst, g, c) THEN "unsent" ELSE gone[g][c]]]
  BY DEF LinkLost, Tells
<1>4. ASSUME NEW g \in Gates, NEW c \in Conn, Tells(src, dst, g, c)
      PROVE  gone[g][c] # "no"
  <2>1. PICK i \in DOMAIN net[src][dst] : /\ net[src][dst][i].type = "disconnected"
                                          /\ net[src][dst][i].session = S(g, c)
    BY <1>4 DEF Tells
  <2>2. DOMAIN net[src][dst] = 1..Len(net[src][dst])
    <3>1. net[src][dst] \in Seq(Message)
      BY <1>1, ElementFacts
    <3> QED
      BY <3>1
  <2>3. FrameOK(src, dst, net[src][dst][i])
    BY <2>2 DEF GateInv
  <2> QED
    BY <2>1, <2>3, SessionFacts DEF FrameOK
<1>5. \A g \in Gates, c \in Conn :
         gone'[g][c] = IF Tells(src, dst, g, c) THEN "unsent" ELSE gone[g][c]
  BY <1>3
<1>6. gone' \in [Gates -> [Conn -> {"no", "during login", "after login", "unsent"}]]
  <2>1. \A g \in Gates, c \in Conn : gone[g][c] \in {"no", "during login", "after login", "unsent"}
    BY <1>2
  <2>2. \A g \in Gates, c \in Conn :
           (IF Tells(src, dst, g, c) THEN "unsent" ELSE gone[g][c])
              \in {"no", "during login", "after login", "unsent"}
    BY <2>1
  <2> QED
    BY <1>3, <2>2
<1> QED
  BY <1>4, <1>5, <1>6

LEMMA LinkLostStep ==
    ASSUME GateInv, NEW src \in Procs, NEW dst \in Procs, LinkLost(src, dst)
    PROVE  GateInv'
<1>1. GateTypeOK
  BY DEF GateInv
<1>2. /\ UNCHANGED <<accepted, sock, sessions, routes, pending, nextReq, asking, thread, owner,
                     asked, told, attach, lost>>
      /\ GameOnly /\ Fault /\ net' = [net EXCEPT ![src][dst] = <<>>]
  BY DEF LinkLost, GameOnly, gateVars
<1>3. /\ gone' \in [Gates -> [Conn -> {"no", "during login", "after login", "unsent"}]]
      /\ \A g \in Gates, c \in Conn : gone'[g][c] = gone[g][c] \/ gone'[g][c] # "no"
  BY LinkLostFacts
<1>4. Grows /\ (used' = used \/ used' \in [logins : 0..MaxReqs, events : 0..MaxEvents])
  BY <1>1, <1>2, <1>3, GrowsFacts
<1>5. FramesGoOn /\ net' \in [Procs -> [Procs -> Seq(Message)]]
  <2>0. net \in [Procs -> [Procs -> Seq(Message)]]
    BY <1>1, TypeFacts
  <2>1. net \in [Procs -> [Procs -> Seq(Message)]] /\ <<>> \in Seq(Message) /\ 1..Len(<<>>) = {}
    BY <2>0
  <2>2. \A s, d \in Procs : net'[s][d] = net[s][d] \/ net'[s][d] = <<>>
    BY <1>2, <2>1
  <2>3. net' \in [Procs -> [Procs -> Seq(Message)]]
    BY <1>2, <2>1
  <2>4. ASSUME NEW s \in Procs, NEW d \in Procs, NEW i \in 1..Len(net'[s][d])
        PROVE  \E j \in 1..Len(net[s][d]) : net'[s][d][i] = net[s][d][j]
    <3>1. net'[s][d] # <<>>
      BY <2>1
    <3>2. net'[s][d] = net[s][d]
      BY <2>2, <3>1
    <3> QED
      BY <3>2
  <2> QED
    <3>1. FramesGoOn
      BY <2>4 DEF FramesGoOn
    <3> QED
      BY <2>3, <3>1
<1>6. GateTypeOK'
  BY <1>1, <1>2, <1>3, <1>4, <1>5, TypesKept
<1> QED
  BY <1>2, <1>4, <1>5, <1>6, GameOnlyKept

-----------------------------------------------------------------------------
(* The theorems.                                                           *)

LEMMA InitGate ==
    Init => GateInv
<1> SUFFICES ASSUME Init PROVE GateInv
  OBVIOUS
<1>1. GateTypeOK
  <2>1. accepted \in [Gates -> 0..MaxConns] /\ sock \in [Gates -> SUBSET Conn]
    BY BoundFacts DEF Init
  <2>2. sessions \in [Gates -> [Conn -> SessionRecord \cup {None}]]
    BY DEF Init
  <2>3. routes \in [Gates -> [Accounts -> {0} \cup Conn]]
    BY DEF Init
  <2>4. pending \in [Gates -> [Req -> [conn : Conn, account : Accounts] \cup {None}]]
    BY DEF Init
  <2>5. nextReq \in [Gates -> 1..(MaxReqs + 1)] /\ asking \in [Gates -> [1..MaxEvents -> {0} \cup Conn]]
    BY BoundFacts DEF Init
  <2>6. thread \in [Gates -> [Threads -> Thread]]
    BY IdleFacts DEF Init
  <2>7. owner \in [Accounts -> Session \cup {None}] /\ attach \in [Accounts -> Session \cup {None}]
    BY DEF Init
  <2>8. net \in [Procs -> [Procs -> Seq(Message)]]
    BY DEF Init
  <2>9. used \in [logins : 0..MaxReqs, events : 0..MaxEvents]
    BY BoundFacts DEF Init
  <2>10. asked \in [Gates -> [Conn -> Accounts \cup {None}]] /\ told \in [Gates -> [Conn -> SUBSET Accounts]]
    BY DEF Init
  <2>11. /\ gone \in [Gates -> [Conn -> {"no", "during login", "after login", "unsent"}]]
         /\ lost \subseteq Accounts
    BY DEF Init
  <2> QED
    BY <2>1, <2>2, <2>3, <2>4, <2>5, <2>6, <2>7, <2>8, <2>9, <2>10, <2>11, Zenon DEF GateTypeOK
<1>2. \A g \in Gates, c \in Conn : RecordOK(g, c, sessions[g][c]) /\ ToldOK(g, c, told[g][c])
  BY DEF Init, RecordOK, ToldOK
<1>3. \A a \in Accounts : OwnerOK(a, owner[a])
  BY DEF Init, OwnerOK
<1>4. \A g \in Gates, r \in Req : PendingOK(g, r, pending[g][r])
  BY DEF Init, PendingOK
<1>5. \A g \in Gates, r \in 1..MaxEvents : AskingOK(r, asking[g][r])
  BY DEF Init, AskingOK
<1>6. \A g \in Gates, t \in Threads : thread[g][t] = Idle
  BY DEF Init
<1>7. \A g \in Gates, t \in Threads : ThreadOK(g, thread[g][t])
  BY <1>6, IdleFacts
<1>8. \A src, dst \in Procs : \A i \in 1..Len(net[src][dst]) :
         FrameOK(src, dst, net[src][dst][i]) /\ NotedBy(net[src][dst][i])
  <2>1. \A src, dst \in Procs : net[src][dst] = <<>>
    BY DEF Init
  <2>2. 1..Len(<<>>) = {}
    OBVIOUS
  <2>3. \A src, dst \in Procs : 1..Len(net[src][dst]) = {}
    BY <2>1, <2>2
  <2> QED
    BY <2>3
<1>9. ASSUME NEW g \in Gates PROVE CountOK(g)
  <2>1. nextReq[g] = 1 /\ used.logins = 0 /\ ~Unsent(thread[g]["worker"])
    BY <1>6, IdleFacts DEF Init, Threads
  <2> QED
    BY <2>1 DEF CountOK
<1> QED
  BY <1>1, <1>2, <1>3, <1>4, <1>5, <1>7, <1>8, <1>9 DEF GateInv

LEMMA WorkerStep ==
    ASSUME GateInv, NEW g \in Gates, Worker(g)
    PROVE  GateInv'
<1>1. "worker" \in Threads
  BY DEF Threads
<1> QED
  BY <1>1, AcceptStep, KickLocalStep, KickRemoteStep, OpenAnonymousStep, RequestLoginStep,
     RecordPendingStep, RecordAskingStep, RemoveByConnectionStep, SendDisconnectedStep,
     CompareOwnerStep, DeleteOwnerStep, ClientLeavesStep, HandleClientPlayerMessageStep,
     HandleClientLoginStep
  DEF Worker, HandleSessionDisconnected

LEMMA ReaderStep ==
    ASSUME GateInv, NEW g \in Gates, Reader(g)
    PROVE  GateInv'
<1>1. "reader" \in Threads /\ Gates \subseteq Procs /\ Game \in Procs
  BY DEF Threads, Procs
<1> QED
  BY <1>1, HandleLoginResponseStep, ActivateStep, BindAccountStep, CloseOnRequestStep,
     ForwardedStep, PushStep, RemoveByConnectionStep, SendDisconnectedStep, CompareOwnerStep,
     DeleteOwnerStep
  DEF Reader, HandleSessionDisconnected

LEMMA NextGate ==
    GateInv /\ [Next]_vars => GateInv'
<1> SUFFICES ASSUME GateInv, [Next]_vars PROVE GateInv'
  OBVIOUS
<1>1. CASE UNCHANGED vars
  <2>1. /\ UNCHANGED <<accepted, sock, sessions, routes, pending, nextReq, asking, thread, owner,
                       asked, told>>
        /\ UNCHANGED <<net, attach, used, gone, lost>> /\ GameOnly
    BY <1>1 DEF vars, gateVars, historyVars, GameOnly
  <2>2. GateTypeOK
    BY DEF GateInv
  <2>3. GateTypeOK'
    BY <2>1, <2>2, TypesKept
  <2>4. Grows /\ FramesGoOn
    BY <2>1, <2>2, GrowsFacts, NothingMoves
  <2> QED
    BY <2>1, <2>3, <2>4, GameOnlyKept
<1>2. CASE GameStep
  BY <1>2, HandleLoginRequestStep, HandlePlayerDisconnectedStep, ForwardStep, PushToPlayerStep,
     LeaseLostStep
  DEF GameStep
<1>3. CASE \E g \in Gates : Worker(g) \/ Reader(g)
  BY <1>3, WorkerStep, ReaderStep
<1>4. CASE \E src, dst \in Procs : LinkLost(src, dst)
  BY <1>4, LinkLostStep
<1> QED
  BY <1>1, <1>2, <1>3, <1>4 DEF Next

LEMMA GateInvariant ==
    Spec => []GateInv
<1>1. Init => GateInv
  BY InitGate
<1>2. GateInv /\ [Next]_vars => GateInv'
  BY NextGate
<1> QED
  BY <1>1, <1>2, PTL DEF Spec

\* The state keeps its shape: every frame, table entry and thread of the gates and
\* the game stays within its type, with no bound on faults or interleavings.
THEOREM GateTyping ==
    Spec => []GateTypeOK
<1>1. GateInv => GateTypeOK
  BY DEF GateInv
<1> QED
  BY <1>1, GateInvariant, PTL

\* A client is served the player of the account it logged in with, and no other
\* (HandleLoginResponse, HandleForwardPlayerMessageResponse,
\* HandlePushPlayerMessage), whatever overtakes what.
THEOREM GateOwnPlayer ==
    Spec => []OwnPlayer
<1>1. GateInv => OwnPlayer
  BY DEF GateInv, OwnPlayer, RecordOK, ToldOK, Active
<1> QED
  BY <1>1, GateInvariant, PTL

-----------------------------------------------------------------------------
(* Whose connection is closed.                                             *)

ClosesWell == \A g \in Gates : \A c \in sock[g] \ sock'[g] : ClosedForGood(g, c)

\* Only the connection c of gate g is closed.
LEMMA ClosedFacts ==
    ASSUME GateTypeOK, NEW g \in Gates, NEW t \in Threads, NEW c \in Conn, NEW label \in Steps,
           Closing(g, t, c, label), ClosedForGood(g, c)
    PROVE  ClosesWell
<1>1. \A h \in Gates : sock'[h] = IF h = g THEN sock[h] \ {c} ELSE sock[h]
  BY ClosingFacts
<1> QED
  BY <1>1 DEF ClosesWell

\* A session that is logged in is that of an account its client asked for.
LEMMA LoggedInFacts ==
    ASSUME GateInv, NEW g \in Gates, NEW c \in Conn, NEW a \in Accounts, sessions[g][c] # None,
           sessions[g][c].account = a \/ sessions[g][c].player = a
    PROVE  asked[g][c] = a
<1>1. sessions[g][c] # Anonymous
  BY GateAssumption DEF Anonymous
<1>2. sessions[g][c] = [account |-> asked[g][c], player |-> asked[g][c]]
  BY <1>1 DEF GateInv, RecordOK
<1> QED
  BY <1>2

LEMMA ClientLeavesCloses ==
    ASSUME GateInv, NEW g \in Gates, NEW c \in Conn, ClientLeaves(g, c)
    PROVE  ClosesWell
<1>1. GateTypeOK /\ "worker" \in Threads /\ "idle" \in Steps /\ Closing(g, "worker", c, "idle")
  BY DEF GateInv, Threads, Steps, ClientLeaves
<1>2. Turns(g, "worker", [thread[g]["worker"] EXCEPT !.at = "remove", !.closing = c, !.then = "idle"])
  BY <1>1, ClosingFacts
<1>3. thread[g]["worker"] \in Thread
  BY <1>1, ElementFacts
<1>4. thread'[g]["worker"].closing = c /\ thread'[g]["worker"].then = "idle"
  BY <1>1, <1>2, <1>3 DEF Turns, Thread
<1>5. ClosedForGood(g, c)
  BY <1>4 DEF ClosedForGood
<1> QED
  BY <1>1, <1>5, ClosedFacts

LEMMA KickLocalCloses ==
    ASSUME GateInv, NEW g \in Gates, KickLocal(g)
    PROVE  ClosesWell
<1>1. GateTypeOK /\ "worker" \in Threads /\ "open" \in Steps
  BY DEF GateInv, Threads, Steps
<1>2. PICK me \in Thread : me = thread[g]["worker"] /\ ThreadOK(g, me)
  BY <1>1, ElementFacts DEF GateInv
<1>3. /\ me.at = "kick" /\ (me.read # None => me.read.gate = g)
      /\ \/ UNCHANGED sock
         \/ \E c \in OldSessions(g) \ {me.conn} : Closing(g, "worker", c, "open")
  BY <1>2 DEF KickLocal, At, Me
<1>4. CASE UNCHANGED sock
  BY <1>4 DEF ClosesWell
<1>5. CASE \E c \in OldSessions(g) \ {me.conn} : Closing(g, "worker", c, "open")
  <2>1. PICK c \in OldSessions(g) \ {me.conn} : Closing(g, "worker", c, "open")
    BY <1>5
  <2>2. LogsIn(me)
    BY <1>3 DEF LogsIn
  <2>3. me.conn \in Conn /\ me.account \in Accounts /\ asked[g][me.conn] = me.account
    BY <1>2, <2>2 DEF ThreadOK
  <2>4. c \in Conn /\ asked[g][c] = me.account
    <3>1. CASE me.read = None
      <4>1. c \in Conn /\ sessions[g][c] # None /\ sessions[g][c].account = me.account
        BY <1>2, <2>1, <3>1 DEF OldSessions, SessionsOf, Me
      <4> QED
        BY <2>3, <4>1, LoggedInFacts
    <3>2. CASE me.read # None
      <4>1. me.read \in Session /\ asked[me.read.gate][me.read.conn] = me.account /\ me.read.gate = g
        BY <1>2, <1>3, <3>2 DEF ThreadOK
      <4>2. c = me.read.conn
        BY <1>2, <2>1, <3>2 DEF OldSessions, Me
      <4> QED
        BY <4>1, <4>2, SessionFacts
    <3> QED
      BY <3>1, <3>2
  <2>5. /\ S(g, me.conn) \in Session /\ S(g, me.conn).gate = g /\ S(g, me.conn).conn = me.conn
        /\ S(g, c).conn = c
    BY <2>3, <2>4, SessionFacts
  <2>6. S(g, me.conn) \in Session \ {S(g, c)}
    BY <2>1, <2>5
  <2>7. ClosedForGood(g, c)
    BY <2>3, <2>4, <2>5, <2>6 DEF ClosedForGood
  <2> QED
    BY <1>1, <2>1, <2>4, <2>7, ClosedFacts
<1> QED
  BY <1>3, <1>4, <1>5

LEMMA CloseOnRequestCloses ==
    ASSUME GateInv, NEW g \in Gates, NEW src \in Procs, NEW type \in {"kick", "unbind"},
           type = "unbind" => src = Game, CloseOnRequest(g, src, type)
    PROVE  ClosesWell
<1>1. GateTypeOK /\ "reader" \in Threads /\ "idle" \in Steps /\ Receive(g, src, type)
  BY DEF GateInv, Threads, Steps, CloseOnRequest
<1>2. PICK m \in Message : m = Head(net[src][g]) /\ m.type = type /\ FrameOK(src, g, m)
  BY <1>1, ReceiveFacts
<1>3. PICK c \in Conn : c = m.session.conn
  BY SessionFacts
<1>4. \/ UNCHANGED sock
      \/ /\ Closing(g, "reader", c, "idle") /\ sessions[g][c] # None
         /\ (IF type = "kick" THEN sessions[g][c].account ELSE sessions[g][c].player) = m.player
  BY <1>2, <1>3 DEF CloseOnRequest
<1>5. CASE UNCHANGED sock
  BY <1>5 DEF ClosesWell
<1>6. CASE /\ Closing(g, "reader", c, "idle") /\ sessions[g][c] # None
           /\ (IF type = "kick" THEN sessions[g][c].account ELSE sessions[g][c].player) = m.player
  <2>1. m.player \in Accounts /\ asked[g][c] = m.player
    BY <1>6, SessionFacts, LoggedInFacts
  <2>2. CASE type = "kick"
    <3>1. PICK d \in Conn : src # g /\ src \in Gates /\ asked[src][d] = m.player
      BY <1>2, <2>2 DEF FrameOK
    <3>2. /\ S(src, d) \in Session /\ S(src, d).gate = src /\ S(src, d).conn = d
          /\ S(g, c).gate = g
      BY <3>1, SessionFacts
    <3>3. S(src, d) \in Session \ {S(g, c)}
      BY <3>1, <3>2
    <3> QED
      BY <1>1, <1>6, <2>1, <3>1, <3>2, <3>3, ClosedFacts DEF ClosedForGood
  <2>3. CASE type = "unbind"
    <3>1. src = Game /\ m.req = 0 /\ m.ok /\ m.session.gate = g
      BY <1>2, <2>3 DEF FrameOK
    <3>2. m.session = S(g, c)
      BY <1>3, <3>1, SessionFacts
    <3>3. m.ok = TRUE
      BY <3>1 DEF Message
    <3>4. m = Msg("unbind", S(g, c), asked[g][c], 0)
      BY <1>2, <2>1, <2>3, <3>1, <3>2, <3>3 DEF Msg, Message
    <3>5. net[Game][g] # <<>>
      BY <1>1, <3>1 DEF Receive
    <3>6. ClosedForGood(g, c)
      BY <1>2, <3>1, <3>4, <3>5 DEF ClosedForGood
    <3> QED
      BY <1>1, <1>6, <3>6, ClosedFacts
  <2> QED
    BY <2>2, <2>3
<1> QED
  BY <1>4, <1>5, <1>6

LEMMA AcceptCloses ==
    ASSUME GateInv, NEW g \in Gates, AcceptReadySocket(g)
    PROVE  ClosesWell
<1>1. sock \in [Gates -> SUBSET Conn]
  BY TypeFacts DEF GateInv
<1>2. sock' = [sock EXCEPT ![g] = @ \cup {accepted[g] + 1}]
  BY DEF AcceptReadySocket
<1>3. \A h \in Gates : sock[h] \subseteq sock'[h]
  BY <1>1, <1>2
<1> QED
  BY <1>3 DEF ClosesWell

\* A connection is closed only when its client has gone, for another connection of
\* its account, or because the game lost its player (KickExistingAccountSession,
\* HandleKickAccountSession, HandleUnbindPlayerSession).
THEOREM GateOnlyOwnKicked ==
    Spec => OnlyOwnKicked
<1>1. GateInv /\ [Next]_vars => [ClosesWell]_vars
  <2> SUFFICES ASSUME GateInv, Next PROVE ClosesWell
    OBVIOUS
  <2>1. sock' = sock => ClosesWell
    BY DEF ClosesWell
  <2>2. ASSUME NEW g \in Gates, NEW t \in Threads, HandleSessionDisconnected(g, t)
        PROVE  sock' = sock
    BY <2>2 DEF HandleSessionDisconnected, RemoveByConnection, SendDisconnected, CompareOwner,
                DeleteOwner, gateVars
  <2>3. "worker" \in Threads /\ "reader" \in Threads /\ Gates \subseteq Procs /\ Game \in Procs
    BY DEF Threads, Procs
  <2>4. ASSUME NEW g \in Gates, Worker(g)
        PROVE  ClosesWell
    <3>1. CASE AcceptReadySocket(g)
      BY <3>1, AcceptCloses
    <3>2. CASE KickLocal(g)
      BY <3>2, KickLocalCloses
    <3>3. CASE \E c \in Conn : ClientLeaves(g, c)
      BY <3>3, ClientLeavesCloses
    <3>4. CASE HandleSessionDisconnected(g, "worker")
      BY <2>1, <2>2, <2>3, <3>4
    <3>5. CASE KickRemote(g) \/ OpenAnonymous(g) \/ RequestLogin(g) \/ RecordPending(g) \/ RecordAsking(g)
      BY <2>1, <3>5 DEF KickRemote, OpenAnonymous, RequestLogin, RecordPending, RecordAsking, gateVars
    <3>6. CASE \E c \in Conn : \/ HandleClientPlayerMessage(g, c)
                               \/ \E a \in Accounts : HandleClientLogin(g, c, a)
      BY <2>1, <3>6 DEF HandleClientPlayerMessage, HandleClientLogin, gateVars
    <3> QED
      BY <2>4, <3>1, <3>2, <3>3, <3>4, <3>5, <3>6 DEF Worker
  <2>5. ASSUME NEW g \in Gates, Reader(g)
        PROVE  ClosesWell
    <3>1. CASE CloseOnRequest(g, Game, "unbind") \/ \E src \in Gates : CloseOnRequest(g, src, "kick")
      BY <2>3, <3>1, CloseOnRequestCloses
    <3>2. CASE HandleSessionDisconnected(g, "reader")
      BY <2>1, <2>2, <2>3, <3>2
    <3>3. CASE \/ HandleLoginResponse(g) \/ Activate(g) \/ BindAccount(g)
               \/ HandleForwardPlayerMessageResponse(g) \/ HandlePushPlayerMessage(g)
      BY <2>1, <3>3 DEF HandleLoginResponse, Activate, BindAccount, HandleForwardPlayerMessageResponse,
                        HandlePushPlayerMessage, gateVars
    <3> QED
      BY <2>5, <3>1, <3>2, <3>3 DEF Reader
  <2>6. GameOnly => ClosesWell
    BY <2>1 DEF GameOnly, gateVars
  <2>7. GameStep \/ (\E src, dst \in Procs : LinkLost(src, dst)) => GameOnly
    BY DEF GameStep, HandleLoginRequest, HandlePlayerDisconnected, HandleForwardPlayerMessageRequest,
           PushToPlayer, LeaseLost, LinkLost
  <2> QED
    BY <2>4, <2>5, <2>6, <2>7 DEF Next
<1>2. Spec => [][ClosesWell]_vars
  BY <1>1, GateInvariant, PTL DEF Spec
<1> QED
  BY <1>2 DEF OnlyOwnKicked, ClosesWell

-----------------------------------------------------------------------------
(* Gates and game implement PlayerAttachment.                              *)

GoneSessions == {s \in Session : gone[s.gate][s.conn] # "no"}

AttachmentStep == [Attachment!AttachmentNext]_<<attach, GoneSessions, lost>>

LEMMA GoneFacts ==
    ASSUME \A g \in Gates, c \in Conn : gone'[g][c] = gone[g][c] \/ (gone'[g][c] # "no" /\ gone[g][c] # "no")
    PROVE  GoneSessions' = GoneSessions
<1>1. \A s \in Session : s.gate \in Gates /\ s.conn \in Conn
  BY SessionFacts
<1>2. \A s \in Session : gone'[s.gate][s.conn] # "no" <=> gone[s.gate][s.conn] # "no"
  BY <1>1
<1> QED
  BY <1>2 DEF GoneSessions

LEMMA StutterFacts ==
    ASSUME UNCHANGED <<attach, lost>>,
           UNCHANGED gone \/ GoneSessions' = GoneSessions
    PROVE  AttachmentStep
<1>1. GoneSessions' = GoneSessions
  BY DEF GoneSessions
<1> QED
  BY <1>1 DEF AttachmentStep

LEMMA RemoveByConnectionAttachment ==
    ASSUME GateInv, NEW g \in Gates, NEW t \in Threads, RemoveByConnection(g, t)
    PROVE  AttachmentStep
<1>1. thread[g][t] \in Thread /\ ThreadOK(g, thread[g][t]) /\ GateTypeOK
  BY ElementFacts DEF GateInv
<1>2. PICK c \in Conn : c = thread[g][t].closing
  BY <1>1 DEF RemoveByConnection, At, ThreadOK, Ends
<1>3. /\ UNCHANGED <<attach, lost>>
      /\ \/ gone' = gone
         \/ gone' = [gone EXCEPT ![g][c] = "during login"]
         \/ gone' = [gone EXCEPT ![g][c] = "after login"]
  BY <1>2 DEF RemoveByConnection, Me
<1>4. CASE gone' = gone
  BY <1>3, <1>4, StutterFacts
<1>5. CASE gone' # gone
  <2>1. gone \in [Gates -> [Conn -> {"no", "during login", "after login", "unsent"}]]
    BY <1>1, TypeFacts
  <2>2. /\ gone'[g][c] # "no"
        /\ \A h \in Gates, d \in Conn : (h = g /\ d = c) \/ gone'[h][d] = gone[h][d]
    BY <1>3, <1>5, <2>1
  <2>3. CASE gone[g][c] # "no"
    BY <1>3, <2>2, <2>3, GoneFacts, StutterFacts
  <2>4. CASE gone[g][c] = "no"
    <3>1. PICK s \in Session : s = S(g, c) /\ s.gate = g /\ s.conn = c
      BY SessionFacts
    <3>2. \A r \in Session : r.gate \in Gates /\ r.conn \in Conn /\ (r.gate = g /\ r.conn = c => r = s)
      BY <3>1, SessionFacts
    <3>3. \A r \in Session : gone'[r.gate][r.conn] # "no" <=> r = s \/ gone[r.gate][r.conn] # "no"
      BY <2>2, <3>1, <3>2
    <3>4. GoneSessions' = GoneSessions \cup {s} /\ s \notin GoneSessions
      BY <2>4, <3>1, <3>3 DEF GoneSessions
    <3>5. Attachment!Leave(s)
      BY <1>3, <3>4 DEF Attachment!Leave, GoneSessions
    <3> QED
      BY <3>5 DEF AttachmentStep, Attachment!AttachmentNext
  <2> QED
    BY <2>3, <2>4
<1> QED
  BY <1>4, <1>5

LEMMA SendDisconnectedAttachment ==
    ASSUME GateInv, NEW g \in Gates, NEW t \in Threads, SendDisconnected(g, t)
    PROVE  AttachmentStep
<1>1. thread[g][t] \in Thread /\ ThreadOK(g, thread[g][t]) /\ GateTypeOK
  BY ElementFacts DEF GateInv
<1>2. PICK c \in Conn : c = thread[g][t].closing /\ gone[g][c] # "no"
  BY <1>1 DEF SendDisconnected, At, ThreadOK, Ends
<1>3. UNCHANGED <<attach, lost>> /\ (gone' = gone \/ gone' = [gone EXCEPT ![g][c] = "unsent"])
  BY <1>2 DEF SendDisconnected, Me
<1>4. gone \in [Gates -> [Conn -> {"no", "during login", "after login", "unsent"}]]
  BY <1>1, TypeFacts
<1>5. \A h \in Gates, d \in Conn : gone'[h][d] = gone[h][d] \/ (gone'[h][d] # "no" /\ gone[h][d] # "no")
  <2>1. gone' = [gone EXCEPT ![g][c] = "unsent"] =>
           /\ gone'[g][c] = "unsent"
           /\ \A h \in Gates, d \in Conn : (h = g /\ d = c) \/ gone'[h][d] = gone[h][d]
    BY <1>4
  <2> QED
    BY <1>2, <1>3, <2>1
<1> QED
  BY <1>3, <1>5, GoneFacts, StutterFacts

LEMMA HandleLoginRequestAttachment ==
    ASSUME GateInv, NEW g \in Gates, HandleLoginRequest(g)
    PROVE  AttachmentStep
<1>1. PICK m \in Message : m = Head(net[g][Game])
  BY HandleFacts DEF HandleLoginRequest
<1>2. /\ UNCHANGED gone
      /\ \/ UNCHANGED <<attach, lost>>
         \/ attach' = [attach EXCEPT ![m.player] = m.session] /\ lost' = lost \ {m.player}
  BY <1>1 DEF HandleLoginRequest
<1>3. m.player \in Accounts /\ m.session \in Session /\ GoneSessions' = GoneSessions
  BY <1>2, SessionFacts DEF GoneSessions
<1>4. CASE attach' = [attach EXCEPT ![m.player] = m.session] /\ lost' = lost \ {m.player}
  <2>1. Attachment!Attach(m.player, m.session)
    BY <1>3, <1>4 DEF Attachment!Attach, GoneSessions
  <2> QED
    BY <1>3, <2>1 DEF AttachmentStep, Attachment!AttachmentNext
<1> QED
  BY <1>2, <1>4, StutterFacts

LEMMA HandlePlayerDisconnectedAttachment ==
    ASSUME GateInv, NEW g \in Gates, HandlePlayerDisconnected(g)
    PROVE  AttachmentStep
<1>1. PICK m \in Message : m = Head(net[g][Game]) /\ m.type = "disconnected" /\ FrameOK(g, Game, m)
  BY HandleFacts DEF HandlePlayerDisconnected
<1>2. /\ UNCHANGED <<gone, lost>>
      /\ attach' = [attach EXCEPT ![m.player] = IF @ = m.session THEN None ELSE @]
  BY <1>1 DEF HandlePlayerDisconnected, DetachPlayer
<1>3. /\ m.player \in Accounts /\ m.session \in Session /\ GoneSessions' = GoneSessions
      /\ m.session \in GoneSessions
  BY <1>1, <1>2, SessionFacts DEF GoneSessions, FrameOK
<1>4. attach \in [Accounts -> Session \cup {None}]
  BY TypeFacts DEF GateInv
<1>5. CASE attach[m.player] = m.session
  <2>1. Attachment!Detach(m.player)
    BY <1>2, <1>3, <1>4, <1>5 DEF Attachment!Detach, GoneSessions
  <2> QED
    BY <1>3, <2>1 DEF AttachmentStep, Attachment!AttachmentNext
<1>6. CASE attach[m.player] # m.session
  <2>1. attach' = attach
    BY <1>2, <1>4, <1>6
  <2> QED
    BY <1>2, <2>1, StutterFacts
<1> QED
  BY <1>5, <1>6

LEMMA LeaseLostAttachment ==
    ASSUME GateInv, NEW p \in Accounts, LeaseLost(p)
    PROVE  AttachmentStep
<1>1. Attachment!Revoke(p)
  BY DEF LeaseLost, Attachment!Revoke
<1> QED
  BY <1>1 DEF AttachmentStep, Attachment!AttachmentNext

LEMMA LinkLostAttachment ==
    ASSUME GateInv, NEW src \in Procs, NEW dst \in Procs, LinkLost(src, dst)
    PROVE  AttachmentStep
<1>1. GoneSessions' = GoneSessions
  BY LinkLostFacts, GoneFacts
<1> QED
  BY <1>1, StutterFacts DEF LinkLost

\* Gates and game implement PlayerAttachment: a player leaves a session only for a
\* newer one, when its client has gone, or with the lease, whatever the order in
\* which HandleLoginRequest, HandlePlayerDisconnected and the closing of
\* connections take their steps.
THEOREM GateImplementsAttachment ==
    Spec => AttachmentKept
<1>1. Init => Attachment!AttachmentInit
  <2> SUFFICES ASSUME Init PROVE Attachment!AttachmentInit
    OBVIOUS
  <2>1. \A s \in Session : gone[s.gate][s.conn] = "no"
    BY SessionFacts DEF Init
  <2>2. {s \in Session : gone[s.gate][s.conn] # "no"} = {}
    BY <2>1
  <2> QED
    BY <2>2 DEF Init, Attachment!AttachmentInit
<1>2. GateInv /\ [Next]_vars => AttachmentStep
  <2> SUFFICES ASSUME GateInv, [Next]_vars PROVE AttachmentStep
    OBVIOUS
  <2>1. UNCHANGED <<attach, gone, lost>> => AttachmentStep
    BY StutterFacts
  <2>2. ASSUME NEW g \in Gates, NEW t \in Threads, HandleSessionDisconnected(g, t)
        PROVE  AttachmentStep
    <3>1. CASE CompareOwner(g, t) \/ DeleteOwner(g, t)
      BY <2>1, <3>1 DEF CompareOwner, DeleteOwner, historyVars
    <3> QED
      BY <2>2, <3>1, RemoveByConnectionAttachment, SendDisconnectedAttachment
      DEF HandleSessionDisconnected
  <2>3. "worker" \in Threads /\ "reader" \in Threads
    BY DEF Threads
  <2>4. ASSUME NEW g \in Gates, Worker(g)
        PROVE  AttachmentStep
    <3>1. CASE HandleSessionDisconnected(g, "worker")
      BY <2>2, <2>3, <3>1
    <3>2. CASE ~HandleSessionDisconnected(g, "worker")
      <4>1. UNCHANGED <<attach, gone, lost>>
        BY <2>4, <3>2 DEF Worker, AcceptReadySocket, KickLocal, KickRemote, OpenAnonymous,
           RequestLogin, RecordPending, RecordAsking, ClientLeaves, HandleClientPlayerMessage,
           HandleClientLogin, historyVars
      <4> QED
        BY <2>1, <4>1
    <3> QED
      BY <3>1, <3>2
  <2>5. ASSUME NEW g \in Gates, Reader(g)
        PROVE  AttachmentStep
    <3>1. CASE HandleSessionDisconnected(g, "reader")
      BY <2>2, <2>3, <3>1
    <3>2. CASE ~HandleSessionDisconnected(g, "reader")
      <4>1. UNCHANGED <<attach, gone, lost>>
        BY <2>5, <3>2 DEF Reader, HandleLoginResponse, Activate, BindAccount, CloseOnRequest,
           HandleForwardPlayerMessageResponse, HandlePushPlayerMessage, historyVars
      <4> QED
        BY <2>1, <4>1
    <3> QED
      BY <3>1, <3>2
  <2>6. CASE GameStep
    <3>1. CASE \/ \E g \in Gates : HandleForwardPlayerMessageRequest(g)
               \/ \E p \in Accounts : PushToPlayer(p)
      BY <2>1, <3>1 DEF HandleForwardPlayerMessageRequest, PushToPlayer
    <3> QED
      BY <2>6, <3>1, HandleLoginRequestAttachment, HandlePlayerDisconnectedAttachment,
         LeaseLostAttachment
      DEF GameStep
  <2>7. CASE UNCHANGED vars
    BY <2>1, <2>7 DEF vars, historyVars
  <2> QED
    BY <2>4, <2>5, <2>6, <2>7, LinkLostAttachment DEF Next
<1>3. AttachmentStep => [Attachment!AttachmentNext]_(Attachment!attachmentVars)
  BY DEF AttachmentStep, Attachment!attachmentVars, GoneSessions
<1> QED
  BY <1>1, <1>2, <1>3, GateInvariant, PTL DEF Spec, AttachmentKept, Attachment!AttachmentSpec
=============================================================================
