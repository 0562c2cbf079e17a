----------------------------- MODULE IpcMessaging -----------------------------
(***************************************************************************)
(* Messages between processes: TCP connections (TcpTransport), the         *)
(* handshake that makes links of them (LinkManager), and the Messenger     *)
(* with its relay-first routing, on game, gate and relay processes.        *)
(*                                                                         *)
(* Threads.  Each end of a connection has a reader thread.  It starts      *)
(* before the thread that has connected or accepted reports the            *)
(* connection, so that frames may be handled before that report.  A frame  *)
(* is written as a header and then a payload, with no lock that keeps      *)
(* other threads from writing to the same socket between the two.  Who     *)
(* closes a connection joins its reader before reporting the end, and a    *)
(* reader takes the process' mutex for each data frame, the one a sender   *)
(* of the process holds while it writes.                                   *)
(*                                                                         *)
(* A thread of process p is <<p, t>>: t = 0 the sender that holds the      *)
(* mutex, t = k the reader of connection k, t = MaxConns + k the thread    *)
(* that reports connection k.                                              *)
(***************************************************************************)
EXTENDS Integers, Sequences, FiniteSets, SequencesExt

CONSTANTS
    Nodes,          \* processes that are no relay: games and gates
    Relays,         \* the relays
    Unknown,        \* no remote process, no link, no next hop
    Versions,       \* protocol versions
    MaxConns,       \* bound on connections
    MaxUnsettled,   \* bound on connections at work when one more is made
    MaxMessages,    \* bound on messages
    MaxFaults       \* bound on processes of another version and connections that break

Procs == Nodes \cup Relays
Conn == 1..MaxConns
Id == 1..MaxMessages

ASSUME MessagingAssumption ==
    /\ Unknown \notin Procs /\ Nodes \cap Relays = {} /\ IsFiniteSet(Procs)
    /\ {MaxConns, MaxUnsettled, MaxMessages, MaxFaults} \subseteq Nat /\ Versions \subseteq Nat \ {0}

VARIABLES
    version,    \* mProtocolVersion of each process
    ends,       \* the two processes of each connection
    open,       \* mConnections of each process
    event,      \* connections whose "connected" is still to be reported
    ended,      \* connections whose "disconnected" is still to be reported
    link,       \* mLinks of each process
    chan,       \* headers and payloads on their way to each end of a connection;
                \* Unknown for bytes that are no frame
    writing,    \* threads between a header and its payload, or joining a reader
    sending,    \* what each process still has to send of a message, under its mutex
    messages,   \* the targets of each message
    sent,       \* history: messages whose send has returned success
    got,        \* history: how often each process got each message
    lost,       \* history: messages that went with a connection or had no way on
    faults

connVars == <<version, ends, event>>
messageVars == <<sending, messages, sent, got, lost>>
vars == <<connVars, open, ended, link, chan, writing, messageVars, faults>>

Link == [state : {"handshaking", "active", "closed"}, remote : Procs \cup {Unknown}]
ControlFrame == [kind : {"hello", "ack", "reject"}, from : Procs, id : {0}, target : {Unknown}]
DataFrame == [kind : {"data"}, from : Procs, id : Id, target : Procs]
Frame == ControlFrame \cup DataFrame
FramePart == [part : {"header", "payload"}, frame : Frame]
Piece == FramePart \cup {Unknown}

ASSUME UnknownAssumption == Unknown \notin FramePart

Writer == [by : Procs \X (0..(2 * MaxConns)), conn : Conn, frame : Frame, joining : BOOLEAN]

\* The shape of the state.
MessagingTypeOK ==
    /\ version \in [Procs -> Versions]
    /\ ends \in [Conn -> SUBSET Procs]
    /\ open \in [Procs -> SUBSET Conn] /\ event \in [Procs -> SUBSET Conn]
    /\ ended \in [Procs -> SUBSET Conn]
    /\ link \in [Procs -> [Conn -> Link \cup {Unknown}]]
    /\ chan \in [Procs -> [Conn -> Seq(Piece)]]
    /\ writing \subseteq Writer
    /\ sending \in [Procs -> Seq(DataFrame)]
    /\ messages \in [Id -> SUBSET Procs] /\ sent \subseteq Id /\ lost \subseteq Id
    /\ got \in [Id -> [Procs -> Nat]]
    /\ faults \in 0..MaxFaults

Init ==
    /\ version \in [Procs -> Versions]
    /\ ends = [k \in Conn |-> {}]
    /\ open = [p \in Procs |-> {}]
    /\ event = [p \in Procs |-> {}] /\ ended = [p \in Procs |-> {}]
    /\ link = [p \in Procs |-> [k \in Conn |-> Unknown]]
    /\ chan = [p \in Procs |-> [k \in Conn |-> <<>>]]
    /\ writing = {}
    /\ sending = [p \in Procs |-> <<>>]
    /\ messages = [m \in Id |-> {}]
    /\ sent = {} /\ lost = {}
    /\ faults = Cardinality({p \in Procs : version[p] # Min(Versions)}) /\ faults <= MaxFaults
    /\ got = [m \in Id |-> [p \in Procs |-> 0]]

Peer(p, k) == CHOOSE q \in ends[k] : q # p
Reporter(k) == MaxConns + k
Busy(p, t) == \E w \in writing : w.by = <<p, t>>
Control(kind, p) == [kind |-> kind, from |-> p, id |-> 0, target |-> Unknown]

-----------------------------------------------------------------------------
(* Connections.                                                            *)

\* A connection some thread has still to do something for.
Unsettled(k) ==
    \/ \E p \in ends[k] : k \in event[p] \cup ended[p] \/ chan[p][k] # <<>>
    \/ \E w \in writing : w.conn = k

\* Connect, and AcceptLoop at the other end: AddConnection at both.  A process
\* connects to a member once (mAutoConnectAttempts).
Connect(p, q) ==
    \E k \in Conn :
       /\ ends[k] = {} /\ \A j \in 1..(k - 1) : ends[j] \notin {{}, {p, q}}
       /\ Cardinality({j \in Conn : Unsettled(j)}) < MaxUnsettled
       /\ ends' = [ends EXCEPT ![k] = {p, q}]
       /\ open' = [open EXCEPT ![p] = @ \cup {k}, ![q] = @ \cup {k}]
       /\ event' = [event EXCEPT ![p] = @ \cup {k}, ![q] = @ \cup {k}]
       /\ UNCHANGED <<version, ended, link, chan, writing, messageVars, faults>>

\* A stream that has two frames mixed up: from there on its bytes are no frames.
Torn(stream) == stream # <<>> /\ Last(stream) = Unknown

\* A stream with one more write.  A header that another write follows than that of
\* its payload tears it.
Extended(stream, part, frame) ==
    CASE Torn(stream) -> stream
      [] part = "header" /\ stream # <<>> /\ Last(stream) # Unknown
            /\ Last(stream).part = "header" -> Append(Front(stream), Unknown)
      [] OTHER -> Append(stream, [part |-> part, frame |-> frame])

\* One write to a socket: what is written to an end that is closed is gone.
Written(p, k, part, frame) ==
    IF k \in open[p] /\ k \in open[Peer(p, k)]
    THEN [chan EXCEPT ![Peer(p, k)][k] = Extended(@, part, frame)]
    ELSE chan

\* Send, the header: fails at once when the connection is not there any more.
SendHeader(p, t, k, frame) ==
    writing' = IF k \in open[p]
               THEN writing \cup {[by |-> <<p, t>>, conn |-> k, frame |-> frame, joining |-> FALSE]}
               ELSE writing

\* A frame the reader has in full.
Whole(stream) == Len(stream) >= 2 /\ Unknown \notin {stream[1], stream[2]}

IdsOf(stream) == {x.frame.id : x \in Range(stream) \ {Unknown}} \ {0}

\* HandleDisconnect by the reader itself, at the end of the stream or at a header
\* without the magic number: what it has not read is lost.
HandleDisconnect(p, k) ==
    /\ k \in open[p] /\ ~Busy(p, k)
    /\ IF k \in open[Peer(p, k)] /\ chan[p][k] # <<Unknown>>
       THEN faults < MaxFaults /\ faults' = faults + 1 ELSE UNCHANGED faults
    /\ open' = [open EXCEPT ![p] = @ \ {k}]
    /\ ended' = [ended EXCEPT ![p] = @ \cup {k}]
    /\ chan' = [chan EXCEPT ![p][k] = <<>>]
    /\ lost' = lost \cup IdsOf(chan[p][k])
    /\ UNCHANGED <<connVars, link, writing, sending, messages, sent, got>>

\* Send, a write that fails: HandleDisconnect by the writer.  The reader may have a
\* frame in hand, and is joined.
WriteFails(w) ==
    LET p == w.by[1]  k == w.conn IN
    /\ ~w.joining /\ k \in open[p] /\ k \notin open[Peer(p, k)]
    /\ open' = [open EXCEPT ![p] = @ \ {k}]
    /\ ended' = [ended EXCEPT ![p] = @ \cup {k}]
    /\ writing' = (writing \ {w}) \cup {[w EXCEPT !.joining = TRUE]}
    /\ \E hand \in {<<>>} \cup (IF Whole(chan[p][k]) /\ ~Busy(p, k)
                                THEN {SubSeq(chan[p][k], 1, 2)} ELSE {}) :
          /\ chan' = [chan EXCEPT ![p][k] = hand]
          /\ lost' = lost \cup (IdsOf(chan[p][k]) \ IdsOf(hand)) \cup ({w.frame.id} \ {0})
    /\ UNCHANGED <<connVars, link, sending, messages, sent, got, faults>>

\* The message a sender gives up, or goes on with.
AfterSend(p, ok) ==
    /\ sending' = [sending EXCEPT ![p] = IF ok THEN Tail(@) ELSE <<>>]
    /\ sent' = IF ok /\ Len(sending[p]) = 1 THEN sent \cup {sending[p][1].id} ELSE sent

\* Send, the payload; on a socket closed in between it fails.
SendPayload(w) ==
    LET p == w.by[1]  ok == w.conn \in open[p] IN
    /\ ~w.joining
    /\ writing' = writing \ {w}
    /\ chan' = Written(p, w.conn, "payload", w.frame)
    /\ lost' = IF w.frame.kind = "data" /\ chan' = chan THEN lost \cup {w.frame.id} ELSE lost
    /\ IF w.by[2] = 0 THEN AfterSend(p, ok) ELSE UNCHANGED <<sending, sent>>
    /\ UNCHANGED <<connVars, open, ended, link, messages, got, faults>>

\* NotifyConnectionEvent, OnConnectionEvent for a new connection.
Connected(p, k) ==
    /\ k \in event[p]
    /\ event' = [event EXCEPT ![p] = @ \ {k}]
    /\ link' = [link EXCEPT ![p][k] = [state |-> "handshaking",
                    remote |-> IF @ = Unknown THEN Unknown ELSE @.remote]]
    /\ SendHeader(p, Reporter(k), k, Control("hello", p))
    /\ chan' = Written(p, k, "header", Control("hello", p))
    /\ UNCHANGED <<version, ends, open, ended, messageVars, faults>>

\* Whoever has closed the connection, at the end of a write, goes on.
Joined(p, k) == {w \in writing : w.by[1] = p /\ w.conn = k /\ w.joining}
EndJoin(p, k) ==
    /\ writing' = writing \ Joined(p, k)
    /\ IF \E w \in Joined(p, k) : w.by[2] = 0 THEN AfterSend(p, FALSE)
       ELSE UNCHANGED <<sending, sent>>

\* Mutant: the end is reported without waiting for the reader.
DisconnectedNoJoin(p, k) ==
    /\ k \in ended[p]
    /\ ended' = [ended EXCEPT ![p] = @ \ {k}]
    /\ link' = [link EXCEPT ![p][k] = Unknown]
    /\ EndJoin(p, k)
    /\ UNCHANGED <<connVars, open, chan, messages, got, lost, faults>>

\* HandleDisconnect after the join, OnConnectionEvent.  The reader is joined unless
\* it has closed the connection itself.
Disconnected(p, k) ==
    /\ k \in ended[p]
    /\ chan[p][k] = <<>> /\ \A w \in writing : w.by = <<p, k>> => w \in Joined(p, k)
    /\ ended' = [ended EXCEPT ![p] = @ \ {k}]
    /\ link' = [link EXCEPT ![p][k] = Unknown]
    /\ EndJoin(p, k)
    /\ UNCHANGED <<connVars, open, chan, messages, got, lost, faults>>

-----------------------------------------------------------------------------
(* The handshake: OnFrame and FlushLinkFrames.                             *)

\* The reader has a frame of a kind, on an open connection or in hand.
Reads(p, k, kind) ==
    ~Busy(p, k) /\ Whole(chan[p][k]) /\ chan[p][k][1].frame.kind = kind
AfterRead(p, k, frames) == [frames EXCEPT ![p][k] = SubSeq(@, 3, Len(@))]

\* Mutant: a newer process is taken for compatible.
IsProtocolCompatibleNewer(p, q) == version[q] >= version[p]

\* A hello carries its version as the lowest it supports, too.
IsProtocolCompatible(p, q) == version[q] >= version[p] /\ version[q] <= version[p]

\* Mutant: the peer is left to learn from its own hello that the link is up.
HandleHelloNoAck(p, k) ==
    /\ Reads(p, k, "hello")
    /\ link' = [link EXCEPT ![p][k] = [state |-> "active", remote |-> Peer(p, k)]]
    /\ chan' = AfterRead(p, k, chan)
    /\ UNCHANGED <<connVars, open, ended, writing, messageVars, faults>>

\* HandleHello: the peer is known and the link active, before any ack.
HandleHello(p, k) ==
    LET q == chan[p][k][1].frame.from
        ok == IsProtocolCompatible(p, q)
        answer == Control(IF ok THEN "ack" ELSE "reject", p) IN
    /\ Reads(p, k, "hello")
    /\ link' = [link EXCEPT ![p][k] =
                   [state |-> IF ok THEN "active" ELSE "closed", remote |-> q]]
    /\ SendHeader(p, k, k, answer)
    /\ chan' = AfterRead(p, k, Written(p, k, "header", answer))
    /\ UNCHANGED <<connVars, open, ended, messageVars, faults>>

\* hello_ack: the link is active, or closed when the peer rejects.
HandleHelloAck(p, k) ==
    \E kind \in {"ack", "reject"} :
       /\ Reads(p, k, kind)
       /\ chan' = AfterRead(p, k, chan)
       /\ link' = IF link[p][k] = Unknown THEN link
                  ELSE [link EXCEPT ![p][k].state = IF kind = "ack" THEN "active" ELSE "closed"]
       /\ UNCHANGED <<connVars, open, ended, writing, messageVars, faults>>

-----------------------------------------------------------------------------
(* Routing and messages.                                                   *)

\* HasHealthyDirectLink, and the connections FindConnection may pick.
ActiveLinks(p, q) ==
    {k \in Conn : q # Unknown /\ link[p][k] = [state |-> "active", remote |-> q]}

\* ResolveSingleTarget: this process, a direct link, else another relay.
ResolveSingleTarget(p, target) ==
    IF target = p \/ ActiveLinks(p, target) # {} THEN target
    ELSE IF Relays \subseteq {p} THEN Unknown ELSE CHOOSE r \in Relays \ {p} : TRUE

\* SendToProcess and SendToReceiver with one target, BroadcastToService with the
\* members of the service, in their order: under the mutex of the process.
Send(p, targets) ==
    \E m \in Id :
       /\ sending[p] = <<>> /\ targets # {} /\ messages[m] = {}
       /\ \A j \in 1..(m - 1) : messages[j] # {}
       /\ messages' = [messages EXCEPT ![m] = targets]
       /\ sending' = [sending EXCEPT ![p] = [i \in 1..Cardinality(targets) |->
                         [kind |-> "data", from |-> p, id |-> m,
                          target |-> SetToSeq(targets)[i]]]]
       /\ UNCHANGED <<connVars, open, ended, link, chan, writing, sent, got, lost, faults>>

\* DispatchLocal.
Dispatch(p, frame) == got' = [got EXCEPT ![frame.id][p] = @ + 1]

\* SendEnvelope by the sender: a target without a way, or whose connection is gone,
\* ends the whole broadcast.
SendEnvelope(p) ==
    LET frame == Head(sending[p])
        hop == ResolveSingleTarget(p, frame.target)
        links == ActiveLinks(p, hop) IN
    /\ sending[p] # <<>> /\ ~Busy(p, 0)
    /\ \/ /\ hop = p
          /\ Dispatch(p, frame) /\ AfterSend(p, TRUE)
          /\ UNCHANGED <<chan, writing, lost>>
       \/ /\ hop # p /\ ~(links \subseteq open[p] /\ links # {})
          /\ lost' = lost \cup {frame.id} /\ AfterSend(p, FALSE)
          /\ UNCHANGED <<chan, writing, got>>
       \/ \E k \in links \cap open[p] :
             /\ SendHeader(p, 0, k, frame)
             /\ chan' = Written(p, k, "header", frame)
             /\ UNCHANGED <<sending, sent, got, lost>>
    /\ UNCHANGED <<connVars, open, ended, link, messages, faults>>

\* Mutant: a frame is dispatched where it arrives.
HandleIncomingFrameHere(p, k) ==
    LET frame == chan[p][k][1].frame IN
    /\ Reads(p, k, "data") /\ sending[p] = <<>>
    /\ Dispatch(p, frame) /\ chan' = AfterRead(p, k, chan)
    /\ UNCHANGED <<connVars, open, ended, link, writing, sending, messages, sent, lost, faults>>

\* Mutant: a process that is not the target has nothing to do with a frame.
HandleIncomingFrameNoForward(p, k) ==
    LET frame == chan[p][k][1].frame IN
    /\ Reads(p, k, "data") /\ sending[p] = <<>>
    /\ IF frame.target = p THEN Dispatch(p, frame) ELSE UNCHANGED got
    /\ chan' = AfterRead(p, k, chan)
    /\ UNCHANGED <<connVars, open, ended, link, writing, sending, messages, sent, lost, faults>>

\* HandleIncomingDataFrameLocked, which takes the mutex, and HandleIncomingFrame:
\* dispatch here or send on.
HandleIncomingFrame(p, k) ==
    LET frame == chan[p][k][1].frame
        hop == ResolveSingleTarget(p, frame.target)
        links == ActiveLinks(p, hop) IN
    /\ Reads(p, k, "data") /\ sending[p] = <<>>
    /\ \/ /\ hop = p
          /\ Dispatch(p, frame) /\ chan' = AfterRead(p, k, chan)
          /\ UNCHANGED <<writing, lost>>
       \/ /\ hop # p /\ ~(links \subseteq open[p] /\ links # {})
          /\ lost' = lost \cup {frame.id} /\ chan' = AfterRead(p, k, chan)
          /\ UNCHANGED <<writing, got>>
       \/ \E j \in links \cap open[p] :
             /\ SendHeader(p, k, j, frame)
             /\ chan' = AfterRead(p, k, Written(p, j, "header", frame))
             /\ UNCHANGED <<got, lost>>
    /\ UNCHANGED <<connVars, open, ended, link, sending, messages, sent, faults>>

-----------------------------------------------------------------------------
Handle(p, k) == HandleHello(p, k) \/ HandleHelloAck(p, k) \/ HandleIncomingFrame(p, k)

\* What goes on by itself: threads that run, and readers that see the end of a
\* stream or bytes that are no header.
Progress ==
    \/ \E p \in Procs, k \in Conn :
          \/ Connected(p, k) \/ Disconnected(p, k) \/ Handle(p, k)
          \/ /\ k \in open[p] /\ (k \notin open[Peer(p, k)] \/ chan[p][k] = <<Unknown>>)
             /\ HandleDisconnect(p, k)
    \/ \E w \in writing : SendPayload(w) \/ WriteFails(w)
    \/ \E p \in Procs : SendEnvelope(p)

Next ==
    \/ \E p \in Relays, q \in Nodes : Connect(p, q)
    \/ \E p \in Nodes : \E targets \in SUBSET Nodes : Send(p, targets)
    \/ \E p \in Procs, k \in Conn : HandleDisconnect(p, k)
    \/ Progress

Spec == Init /\ [][Next]_vars
FairSpec == Spec /\ WF_vars(Progress)

-----------------------------------------------------------------------------
(* Properties.                                                             *)

\* A message is dispatched at a process at most once, and only at its targets, over
\* however many links and relays it goes (Messenger, RelayFirstPolicy).
AtMostOnceAtTargets ==
    \A m \in Id, p \in Procs : got[m][p] <= IF p \in messages[m] THEN 1 ELSE 0

\* A link names no process but the one at the other end of its connection, and is
\* active only when that process runs the same protocol version, whichever of the
\* two hellos and answers comes first (LinkManager::IsProtocolCompatible, hello_ack).
LinkFitsPeer ==
    \A p \in Procs, k \in Conn : link[p][k] # Unknown =>
       /\ link[p][k].remote \in {Peer(p, k), Unknown}
       /\ link[p][k].state = "active" => version[p] = version[Peer(p, k)]

\* No two frames are mixed up on a connection: each Send puts its frame there in one
\* piece, as the comment on TcpTransport::Send has it.
FramesComplete == \A p \in Procs, k \in Conn : ~Torn(chan[p][k])

\* Threads of p that wait for each other: a sender that joins a reader with a data
\* frame in hand, for which the reader waits for the sender's mutex; or two readers
\* that join one another.
Deadlocked(p) ==
    \/ \E w \in writing : /\ w.by = <<p, 0>> /\ w.joining
                          /\ chan[p][w.conn] # <<>> /\ chan[p][w.conn][1].frame.kind = "data"
    \/ \E v, w \in writing : /\ v.by[1] = p /\ w.by[1] = p /\ v.joining /\ w.joining
                             /\ v.conn = w.by[2] /\ w.conn = v.by[2] /\ v # w

Broken(k) == \E p \in ends[k] : k \notin open[p] \/ Torn(chan[p][k])

\* A connection between compatible processes that neither breaks nor has its stream
\* torn becomes an active link with a known remote process at both ends, in
\* whichever order the two threads of each end run (TcpTransport, LinkManager).
HandshakeCompletes ==
    []<>\A k \in Conn :
           \/ ends[k] = {} \/ Broken(k) \/ \E p \in ends[k] : Deadlocked(p)
           \/ \E p, q \in ends[k] : version[p] # version[q]
           \/ \A p \in ends[k] : link[p][k] = [state |-> "active", remote |-> Peer(p, k)]

\* The link of a connection that has ended is not used for ever: the end is reported
\* after the last frame has been handled (HandleDisconnect's join, OnConnectionEvent).
DeadLinkForgotten ==
    []<>\A k \in Conn : \A p \in ends[k] :
           \/ k \in open[p] \/ Deadlocked(p)
           \/ link[p][k] = Unknown \/ link[p][k].state # "active"

\* A message whose send has returned success is dispatched at all its targets, or
\* has gone with a connection (broken, or its stream torn), or ends at a process
\* whose threads wait for each other (Messenger::SendEnvelope, HandleIncomingFrame).
SentArrives ==
    []<>\A m \in sent : \/ m \in lost \/ \E p \in Procs : Deadlocked(p)
                        \/ \A p \in messages[m] : got[m][p] = 1
=============================================================================
