-------------------------- MODULE IpcMessagingProofs --------------------------
(***************************************************************************)
(* Theorems about links and messages, for any number of processes,         *)
(* connections, messages and faults.                                       *)
(***************************************************************************)
EXTENDS IpcMessaging, FiniteSetTheorems, SequenceTheorems, TLAPS

-----------------------------------------------------------------------------
(* Operators.                                                              *)

LEMMA FrameFacts ==
    /\ \A f \in Frame : f.from \in Procs /\ f.id \in Id \cup {0}
    /\ \A f \in Frame : f.kind = "data" => f \in DataFrame
    /\ \A f \in DataFrame : f.kind = "data" /\ f.id \in Id /\ f.target \in Procs
    /\ \A p \in Procs, kind \in {"hello", "ack", "reject"} : Control(kind, p) \in ControlFrame
    /\ DataFrame \subseteq Frame /\ ControlFrame \subseteq Frame
  BY DEF Frame, ControlFrame, DataFrame, Control

\* A part of a sequence.
LEMMA PartFacts ==
    ASSUME NEW S, NEW s \in Seq(S), NEW n \in 0 .. Len(s), NEW m \in 1 .. n + 1
    PROVE  /\ SubSeq(s, m, n) \in Seq(S)
           /\ Len(SubSeq(s, m, n)) = n + 1 - m
           /\ \A i \in 1 .. n + 1 - m : SubSeq(s, m, n)[i] = s[m + i - 1] /\ m + i - 1 \in 1 .. Len(s)
<1>1. \A i \in m .. n : s[i] \in S
  OBVIOUS
<1> QED
  BY <1>1, SubSeqProperties

\* All but the last element.
LEMMA FrontFacts ==
    ASSUME NEW S, NEW s \in Seq(S), s # <<>>
    PROVE  /\ Len(s) \in Nat \ {0} /\ Front(s) \in Seq(S) /\ Len(Front(s)) = Len(s) - 1
           /\ \A i \in 1 .. Len(s) - 1 : Front(s)[i] = s[i]
<1>1. Len(s) \in Nat /\ Len(s) # 0
  OBVIOUS
<1>2. PICK n \in Nat : Len(s) = n + 1
  BY <1>1
<1>3. n \in 0 .. Len(s) /\ 1 \in 1 .. n + 1
  BY <1>2
<1>4. /\ SubSeq(s, 1, n) \in Seq(S)
      /\ Len(SubSeq(s, 1, n)) = n + 1 - 1
      /\ \A i \in 1 .. n + 1 - 1 : SubSeq(s, 1, n)[i] = s[1 + i - 1]
  BY <1>3, PartFacts
<1>5. Front(s) = SubSeq(s, 1, n)
  BY <1>2 DEF Front
<1> QED
  BY <1>1, <1>2, <1>4, <1>5

\* A write adds its own piece to the stream, or tears it.
LEMMA ExtendedFacts ==
    ASSUME NEW s \in Seq(Piece), NEW part \in {"header", "payload"}, NEW frame \in Frame
    PROVE  /\ Extended(s, part, frame) \in Seq(Piece)
           /\ \A i \in 1 .. Len(Extended(s, part, frame)) :
                 \/ Extended(s, part, frame)[i] \in {Unknown, [part |-> part, frame |-> frame]}
                 \/ i \in 1 .. Len(s) /\ Extended(s, part, frame)[i] = s[i]
<1> DEFINE new == [part |-> part, frame |-> frame]
<1>1. new \in Piece /\ Unknown \in Piece
  BY DEF Piece, FramePart
<1>2. CASE Torn(s)
  BY <1>2 DEF Extended, Torn
<1>3. CASE ~Torn(s) /\ part = "header" /\ s # <<>> /\ Last(s) # Unknown /\ Last(s).part = "header"
  <2>1. Extended(s, part, frame) = Append(Front(s), Unknown)
    BY <1>3 DEF Extended
  <2>2. /\ Len(s) \in Nat \ {0} /\ Front(s) \in Seq(Piece) /\ Len(Front(s)) = Len(s) - 1
        /\ \A i \in 1 .. Len(s) - 1 : Front(s)[i] = s[i]
    BY <1>3, FrontFacts
  <2> QED
    BY <1>1, <2>1, <2>2
<1>4. CASE ~Torn(s) /\ ~(part = "header" /\ s # <<>> /\ Last(s) # Unknown /\ Last(s).part = "header")
  <2>1. Extended(s, part, frame) = Append(s, new)
    BY <1>4 DEF Extended
  <2> QED
    BY <1>1, <2>1
<1> QED
  BY <1>2, <1>3, <1>4

-----------------------------------------------------------------------------
(* Types, and what belongs to the ends of a connection.                    *)

\* A connection is between a relay and a node, and only these two have
\* anything to do with it.
EndsInv ==
    /\ \A k \in Conn : ends[k] = {} \/ \E p \in Relays, q \in Nodes : ends[k] = {p, q}
    /\ \A p \in Procs, k \in Conn : p \notin ends[k] =>
          /\ k \notin open[p] /\ k \notin event[p] /\ k \notin ended[p]
          /\ link[p][k] = Unknown /\ chan[p][k] = <<>>
    /\ \A w \in writing : w.by[1] \in ends[w.conn]

Shape == MessagingTypeOK /\ EndsInv

LEMMA PeerFacts ==
    ASSUME Shape, NEW k \in Conn, NEW p \in ends[k]
    PROVE  /\ p \in Procs /\ Peer(p, k) \in ends[k] /\ Peer(p, k) \in Procs /\ Peer(p, k) # p
           /\ \A q \in ends[k] : q # p => q = Peer(p, k)
           /\ Peer(Peer(p, k), k) = p
<1>1. PICK a \in Relays, b \in Nodes : ends[k] = {a, b}
  BY DEF Shape, EndsInv
<1>2. a # b /\ a \in Procs /\ b \in Procs
  BY MessagingAssumption DEF Procs
<1>3. \A q \in ends[k] : Peer(q, k) \in ends[k] /\ Peer(q, k) # q
  BY <1>1, <1>2 DEF Peer
<1> QED
  BY <1>1, <1>2, <1>3

LEMMA WriterFacts ==
    ASSUME Shape, NEW w \in writing
    PROVE  /\ w.by[1] \in Procs /\ w.by[2] \in 0 .. (2 * MaxConns) /\ w.conn \in Conn
           /\ w.frame \in Frame /\ w.joining \in BOOLEAN /\ w.by[1] \in ends[w.conn]
           /\ w.by = <<w.by[1], w.by[2]>>
  BY DEF Shape, EndsInv, MessagingTypeOK, Writer

\* A write adds its piece to the stream to the other end, and to no other.
LEMMA WrittenFacts ==
    ASSUME Shape, NEW k \in Conn, NEW p \in ends[k], NEW part \in {"header", "payload"},
           NEW frame \in Frame
    PROVE  /\ Written(p, k, part, frame) \in [Procs -> [Conn -> Seq(Piece)]]
           /\ \A q \in Procs, j \in Conn :
                 \/ Written(p, k, part, frame)[q][j] = chan[q][j]
                 \/ /\ q = Peer(p, k) /\ j = k /\ k \in open[p] /\ k \in open[q]
                    /\ Written(p, k, part, frame)[q][j] = Extended(chan[q][j], part, frame)
<1> DEFINE q == Peer(p, k)
<1>1. q \in Procs /\ p \in Procs /\ chan \in [Procs -> [Conn -> Seq(Piece)]]
  BY PeerFacts DEF Shape, MessagingTypeOK
<1>2. Extended(chan[q][k], part, frame) \in Seq(Piece)
  BY <1>1, ExtendedFacts
<1> QED
  BY <1>1, <1>2 DEF Written

\* The reader takes the first frame off its stream.
LEMMA AfterReadFacts ==
    ASSUME NEW p \in Procs, NEW k \in Conn, NEW frames \in [Procs -> [Conn -> Seq(Piece)]],
           Len(frames[p][k]) >= 2
    PROVE  /\ AfterRead(p, k, frames) \in [Procs -> [Conn -> Seq(Piece)]]
           /\ \A q \in Procs, j \in Conn :
                 <<q, j>> # <<p, k>> => AfterRead(p, k, frames)[q][j] = frames[q][j]
           /\ Len(AfterRead(p, k, frames)[p][k]) = Len(frames[p][k]) - 2
           /\ \A i \in 1 .. Len(frames[p][k]) - 2 :
                 AfterRead(p, k, frames)[p][k][i] = frames[p][k][i + 2]
<1> DEFINE s == frames[p][k]
           t == SubSeq(s, 3, Len(s))
<1>1. s \in Seq(Piece) /\ Len(s) \in Nat /\ Len(s) \in 0 .. Len(s) /\ 3 \in 1 .. Len(s) + 1
  OBVIOUS
<1> HIDE DEF s
<1>2. /\ t \in Seq(Piece)
      /\ Len(t) = Len(s) + 1 - 3
      /\ \A i \in 1 .. Len(s) + 1 - 3 : t[i] = s[3 + i - 1]
  <2>1. PICK n \in 0 .. Len(s), m \in 1 .. Len(s) + 1 : n = Len(s) /\ m = 3
    BY <1>1
  <2>2. /\ SubSeq(s, m, n) \in Seq(Piece)
        /\ Len(SubSeq(s, m, n)) = n + 1 - m
        /\ \A i \in 1 .. n + 1 - m : SubSeq(s, m, n)[i] = s[m + i - 1]
    BY <1>1, <2>1, PartFacts
  <2> QED
    BY <2>1, <2>2
<1> HIDE DEF t
<1>3. Len(t) = Len(s) - 2 /\ \A i \in 1 .. Len(s) - 2 : t[i] = s[i + 2]
  BY <1>1, <1>2
<1>4. AfterRead(p, k, frames) = [frames EXCEPT ![p][k] = t]
  BY DEF AfterRead, s, t
<1>5. AfterRead(p, k, frames)[p][k] = t
  BY <1>4
<1>6. AfterRead(p, k, frames) \in [Procs -> [Conn -> Seq(Piece)]]
  BY <1>2, <1>4
<1>7. \A q \in Procs, j \in Conn :
          <<q, j>> # <<p, k>> => AfterRead(p, k, frames)[q][j] = frames[q][j]
  BY <1>4
<1> QED
  BY <1>3, <1>5, <1>6, <1>7 DEF s

\* What a reader with a frame of a kind knows.
LEMMA ReadsFacts ==
    ASSUME Shape, NEW p \in Procs, NEW k \in Conn, NEW kind, Reads(p, k, kind)
    PROVE  /\ p \in ends[k] /\ chan[p][k] \in Seq(Piece) /\ Len(chan[p][k]) >= 2
           /\ chan[p][k][1] \in FramePart
           /\ chan[p][k][2] \in FramePart
           /\ chan[p][k][1].frame \in Frame /\ chan[p][k][1].frame.kind = kind
<1>1. chan[p][k] \in Seq(Piece)
  BY DEF Shape, MessagingTypeOK
<1>2. Len(chan[p][k]) >= 2 /\ Unknown \notin {chan[p][k][1], chan[p][k][2]}
      /\ chan[p][k][1].frame.kind = kind
  BY DEF Reads, Whole
<1>3. chan[p][k][1] \in Piece /\ chan[p][k][2] \in Piece
  BY <1>1, <1>2
<1>4. p \in ends[k]
  BY <1>2 DEF Shape, EndsInv
<1> QED
  BY <1>1, <1>2, <1>3, <1>4 DEF Piece, FramePart

-----------------------------------------------------------------------------
(* What the frames of the handshake say.                                   *)

\* A frame of the handshake that p may get on connection k: from the process
\* at the other end, and an ack only if the two understand each other.
Fits(p, k, frame) ==
    frame.kind # "data" =>
       /\ frame.from = Peer(p, k)
       /\ frame.kind = "ack" => version[p] = version[Peer(p, k)]

StreamsFit ==
    \A p \in Procs, k \in Conn : \A i \in 1 .. Len(chan[p][k]) :
       chan[p][k][i] # Unknown => Fits(p, k, chan[p][k][i].frame)

WritersFit == \A w \in writing : Fits(Peer(w.by[1], w.conn), w.conn, w.frame)

\* A sender that writes has a message to send, and writes one frame at a time.
SendersOK(ws, s) ==
    \A w \in ws : w.by[2] = 0 =>
       s[w.by[1]] # <<>> /\ \A v \in ws : v.by = w.by => v = w

LinkInv ==
    Shape /\ StreamsFit /\ WritersFit /\ LinkFitsPeer /\ SendersOK(writing, sending)

LEMMA ControlFits ==
    ASSUME Shape, NEW k \in Conn, NEW p \in ends[k], NEW kind \in {"hello", "ack", "reject"},
           kind = "ack" => version[p] = version[Peer(p, k)]
    PROVE  Control(kind, p) \in Frame /\ Fits(Peer(p, k), k, Control(kind, p))
<1>1. Control(kind, p).kind = kind /\ Control(kind, p).from = p
  BY DEF Control
<1> QED
  BY <1>1, PeerFacts, FrameFacts DEF Fits

\* A write of a frame that fits keeps the streams as they should be.
LEMMA WrittenFits ==
    ASSUME Shape, StreamsFit, NEW k \in Conn, NEW p \in ends[k],
           NEW part \in {"header", "payload"}, NEW frame \in Frame, Fits(Peer(p, k), k, frame)
    PROVE  \A q \in Procs, j \in Conn : \A i \in 1 .. Len(Written(p, k, part, frame)[q][j]) :
              Written(p, k, part, frame)[q][j][i] # Unknown =>
                 Fits(q, j, Written(p, k, part, frame)[q][j][i].frame)
<1> SUFFICES ASSUME NEW q \in Procs, NEW j \in Conn,
                    NEW i \in 1 .. Len(Written(p, k, part, frame)[q][j]),
                    Written(p, k, part, frame)[q][j][i] # Unknown
             PROVE  Fits(q, j, Written(p, k, part, frame)[q][j][i].frame)
  OBVIOUS
<1>1. CASE Written(p, k, part, frame)[q][j] = chan[q][j]
  BY <1>1 DEF StreamsFit
<1>2. CASE /\ q = Peer(p, k) /\ j = k
           /\ Written(p, k, part, frame)[q][j] = Extended(chan[q][j], part, frame)
  <2>1. chan[q][j] \in Seq(Piece)
    BY DEF Shape, MessagingTypeOK
  <2>2. \A n \in 1 .. Len(Extended(chan[q][j], part, frame)) :
           \/ Extended(chan[q][j], part, frame)[n] \in {Unknown, [part |-> part, frame |-> frame]}
           \/ n \in 1 .. Len(chan[q][j]) /\ Extended(chan[q][j], part, frame)[n] = chan[q][j][n]
    BY <2>1, ExtendedFacts
  <2>3. \/ Written(p, k, part, frame)[q][j][i] = [part |-> part, frame |-> frame]
        \/ i \in 1 .. Len(chan[q][j]) /\ Written(p, k, part, frame)[q][j][i] = chan[q][j][i]
    BY <1>2, <2>2
  <2> QED
    BY <1>2, <2>3 DEF StreamsFit
<1> QED
  BY <1>1, <1>2, WrittenFacts

\* Taking a frame off a stream, too.
LEMMA AfterReadFits ==
    ASSUME NEW p \in Procs, NEW k \in Conn, NEW frames \in [Procs -> [Conn -> Seq(Piece)]],
           Len(frames[p][k]) >= 2,
           \A q \in Procs, j \in Conn : \A i \in 1 .. Len(frames[q][j]) :
              frames[q][j][i] # Unknown => Fits(q, j, frames[q][j][i].frame)
    PROVE  \A q \in Procs, j \in Conn : \A i \in 1 .. Len(AfterRead(p, k, frames)[q][j]) :
              AfterRead(p, k, frames)[q][j][i] # Unknown =>
                 Fits(q, j, AfterRead(p, k, frames)[q][j][i].frame)
<1>0. /\ \A r \in Procs, h \in Conn :
            <<r, h>> # <<p, k>> => AfterRead(p, k, frames)[r][h] = frames[r][h]
      /\ Len(AfterRead(p, k, frames)[p][k]) = Len(frames[p][k]) - 2
      /\ \A n \in 1 .. Len(frames[p][k]) - 2 :
            AfterRead(p, k, frames)[p][k][n] = frames[p][k][n + 2]
  BY AfterReadFacts
<1> DEFINE t == AfterRead(p, k, frames)
<1> SUFFICES ASSUME NEW q \in Procs, NEW j \in Conn, NEW i \in 1 .. Len(t[q][j]), t[q][j][i] # Unknown
             PROVE  Fits(q, j, t[q][j][i].frame)
  OBVIOUS
<1> HIDE DEF t
<1>1. CASE <<q, j>> # <<p, k>>
  <2>1. t[q][j] = frames[q][j]
    BY <1>0, <1>1 DEF t
  <2> QED
    BY <2>1
<1>2. CASE q = p /\ j = k
  <2>1. Len(frames[q][j]) \in Nat /\ i \in 1 .. Len(frames[q][j]) - 2
    BY <1>0, <1>2 DEF t
  <2>2. t[q][j][i] = frames[q][j][i + 2] /\ i + 2 \in 1 .. Len(frames[q][j])
    BY <1>0, <1>2, <2>1 DEF t
  <2> QED
    BY <2>2
<1> QED
  BY <1>1, <1>2

-----------------------------------------------------------------------------
(* The invariant, one variable at a time: what a new value has to be.      *)

OfEnds(set) ==
    /\ set \in [Procs -> SUBSET Conn]
    /\ \A p \in Procs, k \in Conn : p \notin ends[k] => k \notin set[p]

ChanOK(c) ==
    /\ c \in [Procs -> [Conn -> Seq(Piece)]]
    /\ \A p \in Procs, k \in Conn : p \notin ends[k] => c[p][k] = <<>>
    /\ \A p \in Procs, k \in Conn : \A i \in 1 .. Len(c[p][k]) :
          c[p][k][i] # Unknown => Fits(p, k, c[p][k][i].frame)

WriterOK(w) ==
    w \in Writer /\ w.by[1] \in ends[w.conn] /\ Fits(Peer(w.by[1], w.conn), w.conn, w.frame)

EntryOK(p, k, entry) ==
    /\ entry \in Link \cup {Unknown}
    /\ p \notin ends[k] => entry = Unknown
    /\ entry # Unknown =>
          /\ entry.remote \in {Peer(p, k), Unknown}
          /\ entry.state = "active" => version[p] = version[Peer(p, k)]

MessagesOK ==
    /\ sending \in [Procs -> Seq(DataFrame)]
    /\ messages \in [Id -> SUBSET Procs] /\ sent \subseteq Id /\ lost \subseteq Id
    /\ got \in [Id -> [Procs -> Nat]]
    /\ faults \in 0..MaxFaults

LEMMA Unfold ==
    ASSUME LinkInv
    PROVE  /\ Shape /\ StreamsFit
           /\ OfEnds(open) /\ OfEnds(event) /\ OfEnds(ended) /\ ChanOK(chan)
           /\ \A w \in writing : WriterOK(w)
           /\ link \in [Procs -> [Conn -> Link \cup {Unknown}]]
           /\ \A p \in Procs, k \in Conn : EntryOK(p, k, link[p][k])
           /\ MessagesOK /\ SendersOK(writing, sending)
<1>1. Shape /\ StreamsFit /\ WritersFit /\ LinkFitsPeer /\ EndsInv /\ MessagingTypeOK
  BY DEF LinkInv, Shape
<1>2. OfEnds(open) /\ OfEnds(event) /\ OfEnds(ended)
  BY <1>1 DEF OfEnds, EndsInv, MessagingTypeOK
<1>3. ChanOK(chan)
  BY <1>1 DEF ChanOK, EndsInv, MessagingTypeOK, StreamsFit
<1>4. \A w \in writing : WriterOK(w)
  BY <1>1 DEF WriterOK, EndsInv, MessagingTypeOK, WritersFit
<1>5. link \in [Procs -> [Conn -> Link \cup {Unknown}]]
  BY <1>1 DEF MessagingTypeOK
<1>6. \A p \in Procs, k \in Conn : EntryOK(p, k, link[p][k])
  BY <1>1, <1>5 DEF EntryOK, EndsInv, LinkFitsPeer
<1>7. MessagesOK
  BY <1>1 DEF MessagesOK, MessagingTypeOK
<1> QED
  BY <1>1, <1>2, <1>3, <1>4, <1>5, <1>6, <1>7 DEF LinkInv

LEMMA Fold ==
    ASSUME LinkInv, UNCHANGED <<version, ends>>,
           OfEnds(open'), OfEnds(event'), OfEnds(ended'), ChanOK(chan'),
           \A w \in writing' : WriterOK(w),
           link' \in [Procs -> [Conn -> Link \cup {Unknown}]],
           \A p \in Procs, k \in Conn : EntryOK(p, k, link'[p][k]),
           MessagesOK', SendersOK(writing', sending')
    PROVE  LinkInv'
<1>1. \A p, k : Peer(p, k)' = Peer(p, k)
  BY DEF Peer
<1>2. \A p, k, frame : Fits(p, k, frame)' <=> Fits(p, k, frame)
  BY <1>1 DEF Fits
<1>3. MessagingTypeOK'
  BY DEF LinkInv, Shape, MessagingTypeOK, MessagesOK, OfEnds, ChanOK, WriterOK
<1>4. EndsInv'
  BY DEF LinkInv, Shape, EndsInv, OfEnds, ChanOK, WriterOK, EntryOK
<1>5. StreamsFit'
  BY <1>2 DEF StreamsFit, ChanOK
<1>6. WritersFit'
  BY <1>1, <1>2 DEF WritersFit, WriterOK
<1>7. LinkFitsPeer'
  BY <1>1 DEF LinkFitsPeer, EntryOK
<1> QED
  BY <1>3, <1>4, <1>5, <1>6, <1>7 DEF LinkInv, Shape

LEMMA WrittenOK ==
    ASSUME LinkInv, NEW k \in Conn, NEW p \in ends[k],
           NEW part \in {"header", "payload"}, NEW frame \in Frame, Fits(Peer(p, k), k, frame)
    PROVE  /\ ChanOK(Written(p, k, part, frame))
           /\ Written(p, k, part, frame)[p] = chan[p]
<1>1. Shape /\ StreamsFit /\ ChanOK(chan)
  BY Unfold
<1>2. /\ Written(p, k, part, frame) \in [Procs -> [Conn -> Seq(Piece)]]
      /\ \A q \in Procs, j \in Conn :
            Written(p, k, part, frame)[q][j] = chan[q][j] \/ (q = Peer(p, k) /\ j = k)
  <2>1. Written(p, k, part, frame) \in [Procs -> [Conn -> Seq(Piece)]]
    BY <1>1, WrittenFacts
  <2>2. \A q \in Procs, j \in Conn :
           \/ Written(p, k, part, frame)[q][j] = chan[q][j]
           \/ /\ q = Peer(p, k) /\ j = k /\ k \in open[p] /\ k \in open[q]
              /\ Written(p, k, part, frame)[q][j] = Extended(chan[q][j], part, frame)
    BY <1>1, WrittenFacts
  <2>3. ASSUME NEW q \in Procs, NEW j \in Conn
        PROVE  Written(p, k, part, frame)[q][j] = chan[q][j] \/ (q = Peer(p, k) /\ j = k)
    BY <2>2
  <2> QED
    BY <2>1, <2>3
<1>3. Peer(p, k) \in ends[k] /\ Peer(p, k) # p /\ p \in Procs
  BY <1>1, PeerFacts
<1>4. \A q \in Procs, j \in Conn : q \notin ends[j] => Written(p, k, part, frame)[q][j] = <<>>
  BY <1>1, <1>2, <1>3 DEF ChanOK
<1>5. \A q \in Procs, j \in Conn : \A i \in 1 .. Len(Written(p, k, part, frame)[q][j]) :
         Written(p, k, part, frame)[q][j][i] # Unknown =>
            Fits(q, j, Written(p, k, part, frame)[q][j][i].frame)
  BY <1>1, WrittenFits
<1>6. Written(p, k, part, frame)[p] = chan[p]
  BY <1>1, <1>3 DEF Written, ChanOK
<1> QED
  BY <1>2, <1>4, <1>5, <1>6 DEF ChanOK

LEMMA AfterReadOK ==
    ASSUME NEW c, ChanOK(c), NEW p \in Procs, NEW k \in Conn, Len(c[p][k]) >= 2
    PROVE  ChanOK(AfterRead(p, k, c))
<1>1. c \in [Procs -> [Conn -> Seq(Piece)]] /\ p \in ends[k]
  BY DEF ChanOK
<1>2. /\ AfterRead(p, k, c) \in [Procs -> [Conn -> Seq(Piece)]]
      /\ \A q \in Procs, j \in Conn : <<q, j>> # <<p, k>> => AfterRead(p, k, c)[q][j] = c[q][j]
  BY <1>1, AfterReadFacts
<1>3. \A q \in Procs, j \in Conn : q \notin ends[j] => AfterRead(p, k, c)[q][j] = <<>>
  BY <1>1, <1>2 DEF ChanOK
<1>4. \A q \in Procs, j \in Conn : \A i \in 1 .. Len(AfterRead(p, k, c)[q][j]) :
         AfterRead(p, k, c)[q][j][i] # Unknown => Fits(q, j, AfterRead(p, k, c)[q][j][i].frame)
  BY <1>1, AfterReadFits DEF ChanOK
<1> QED
  BY <1>2, <1>3, <1>4 DEF ChanOK

LEMMA SendHeaderOK ==
    ASSUME LinkInv, NEW k \in Conn, NEW p \in ends[k], NEW t \in 0..(2 * MaxConns),
           NEW frame \in Frame, Fits(Peer(p, k), k, frame), SendHeader(p, t, k, frame)
    PROVE  \A w \in writing' : WriterOK(w)
<1> DEFINE new == [by |-> <<p, t>>, conn |-> k, frame |-> frame, joining |-> FALSE]
<1>1. new \in Writer /\ new.by[1] = p /\ new.conn = k /\ new.frame = frame
  BY PeerFacts, Unfold DEF Writer
<1>2. WriterOK(new)
  BY <1>1 DEF WriterOK
<1>3. writing' = writing \/ writing' = writing \cup {new}
  BY DEF SendHeader
<1> QED
  BY <1>2, <1>3, Unfold

-----------------------------------------------------------------------------
(* The invariant is kept, action by action.                                *)

LEMMA ConnectStep ==
    ASSUME LinkInv, NEW p \in Relays, NEW q \in Nodes, Connect(p, q)
    PROVE  LinkInv'
<1>1. PICK k \in Conn :
         /\ ends[k] = {}
         /\ ends' = [ends EXCEPT ![k] = {p, q}]
         /\ open' = [open EXCEPT ![p] = @ \cup {k}, ![q] = @ \cup {k}]
         /\ event' = [event EXCEPT ![p] = @ \cup {k}, ![q] = @ \cup {k}]
         /\ UNCHANGED <<version, ended, link, chan, writing, messageVars, faults>>
  BY DEF Connect
<1>2. p \in Procs /\ q \in Procs /\ p # q
  BY MessagingAssumption DEF Procs
<1>3. /\ MessagingTypeOK /\ EndsInv /\ StreamsFit /\ WritersFit /\ LinkFitsPeer
      /\ SendersOK(writing, sending)
  BY DEF LinkInv, Shape
<1>4. MessagingTypeOK'
  BY <1>1, <1>2, <1>3 DEF MessagingTypeOK, messageVars
<1>5. ends' \in [Conn -> SUBSET Procs] /\ \A j \in Conn : ends'[j] = IF j = k THEN {p, q} ELSE ends[j]
  BY <1>1, <1>2, <1>3 DEF MessagingTypeOK
<1>6. \A r \in Procs, j \in Conn : r \notin ends'[j] => r \notin ends[j] /\ ~(j = k /\ r \in {p, q})
  BY <1>1, <1>5
<1>7. \A r \in Procs, j \in Conn : ~(j = k /\ r \in {p, q}) =>
         (j \in open'[r] <=> j \in open[r]) /\ (j \in event'[r] <=> j \in event[r])
  BY <1>1, <1>2, <1>3 DEF MessagingTypeOK
<1>8. \A w \in writing : w.conn \in Conn /\ w.conn # k
  BY <1>1, <1>3 DEF EndsInv, MessagingTypeOK, Writer
<1>9. EndsInv'
  <2>1. \A j \in Conn : ends'[j] = {} \/ \E a \in Relays, b \in Nodes : ends'[j] = {a, b}
    BY <1>3, <1>5 DEF EndsInv
  <2>2. \A r \in Procs, j \in Conn : r \notin ends'[j] =>
          /\ j \notin open'[r] /\ j \notin event'[r] /\ j \notin ended'[r]
          /\ link'[r][j] = Unknown /\ chan'[r][j] = <<>>
    <3> SUFFICES ASSUME NEW r \in Procs, NEW j \in Conn, r \notin ends'[j]
                 PROVE  /\ j \notin open'[r] /\ j \notin event'[r] /\ j \notin ended'[r]
                        /\ link'[r][j] = Unknown /\ chan'[r][j] = <<>>
      OBVIOUS
    <3>1. /\ j \notin open[r] /\ j \notin event[r] /\ j \notin ended[r]
          /\ link[r][j] = Unknown /\ chan[r][j] = <<>>
      BY <1>3, <1>6 DEF EndsInv
    <3> QED
      BY <1>1, <1>6, <1>7, <3>1
  <2>3. \A w \in writing' : w.by[1] \in ends'[w.conn]
    BY <1>1, <1>3, <1>5, <1>8 DEF EndsInv
  <2> QED
    BY <2>1, <2>2, <2>3 DEF EndsInv
<1>10. \A r, j : j \in Conn /\ j # k => Peer(r, j)' = Peer(r, j)
  BY <1>5 DEF Peer
<1>11. \A r, j, frame : j \in Conn /\ j # k => (Fits(r, j, frame)' <=> Fits(r, j, frame))
  BY <1>1, <1>10 DEF Fits
<1>12. \A r \in Procs : chan[r][k] = <<>> /\ link[r][k] = Unknown
  BY <1>1, <1>3 DEF EndsInv
<1>13. StreamsFit'
  BY <1>1, <1>3, <1>11, <1>12 DEF StreamsFit
<1>14. WritersFit'
  BY <1>1, <1>3, <1>8, <1>10, <1>11 DEF WritersFit
<1>15. LinkFitsPeer'
  BY <1>1, <1>3, <1>10, <1>12 DEF LinkFitsPeer
<1>16. SendersOK(writing', sending')
  BY <1>1, <1>3 DEF messageVars
<1> QED
  BY <1>4, <1>9, <1>13, <1>14, <1>15, <1>16 DEF LinkInv, Shape

LEMMA IdsFacts ==
    ASSUME NEW s \in Seq(Piece)
    PROVE  IdsOf(s) \subseteq Id
<1>1. \A x \in Range(s) : x \in Piece
  BY DEF Range
<1>2. \A x \in Piece : x # Unknown => x.frame \in Frame
  BY DEF Piece, FramePart
<1>3. \A f \in Frame : f.id \in Id \cup {0}
  BY FrameFacts
<1> QED
  BY <1>1, <1>2, <1>3 DEF IdsOf

LEMMA HandleDisconnectStep ==
    ASSUME LinkInv, NEW p \in Procs, NEW k \in Conn, HandleDisconnect(p, k)
    PROVE  LinkInv'
<1>1. /\ Shape /\ OfEnds(open) /\ OfEnds(event) /\ OfEnds(ended) /\ ChanOK(chan) /\ MessagesOK
      /\ \A w \in writing : WriterOK(w)
      /\ link \in [Procs -> [Conn -> Link \cup {Unknown}]]
      /\ \A q \in Procs, j \in Conn : EntryOK(q, j, link[q][j])
  BY Unfold
<1>2. p \in ends[k]
  BY <1>1 DEF HandleDisconnect, OfEnds
<1>3. OfEnds(open') /\ OfEnds(ended')
  BY <1>1, <1>2 DEF HandleDisconnect, OfEnds
<1>4. ChanOK(chan')
  <2>1. chan' = [chan EXCEPT ![p][k] = <<>>] /\ <<>> \in Seq(Piece)
    BY DEF HandleDisconnect
  <2>2. chan' \in [Procs -> [Conn -> Seq(Piece)]]
    BY <1>1, <2>1 DEF ChanOK
  <2>3. \A q \in Procs, j \in Conn : chan'[q][j] = chan[q][j] \/ chan'[q][j] = <<>>
    BY <1>1, <2>1 DEF ChanOK
  <2> QED
    BY <1>1, <2>2, <2>3 DEF ChanOK
<1>5. MessagesOK'
  <2>1. IdsOf(chan[p][k]) \subseteq Id
    BY <1>1, IdsFacts DEF ChanOK
  <2> QED
    BY <1>1, <2>1, MessagingAssumption DEF HandleDisconnect, MessagesOK
<1>6. UNCHANGED <<version, ends, event, writing, link, sending>>
  BY DEF HandleDisconnect, connVars
<1>7. SendersOK(writing', sending')
  BY <1>6, Unfold
<1> QED
  BY <1>1, <1>3, <1>4, <1>5, <1>6, <1>7, Fold

\* Sending goes on with what is left, or is given up.
LEMMA AfterSendFacts ==
    ASSUME MessagesOK, NEW p \in Procs, sending[p] # <<>>, NEW ok, AfterSend(p, ok)
    PROVE  /\ sending' \in [Procs -> Seq(DataFrame)] /\ sent' \subseteq Id
           /\ \A q \in Procs : q # p => sending'[q] = sending[q]
<1>1. sending \in [Procs -> Seq(DataFrame)] /\ sending[p] \in Seq(DataFrame) /\ sent \subseteq Id
  BY DEF MessagesOK
<1>2. <<>> \in Seq(DataFrame) /\ Tail(sending[p]) \in Seq(DataFrame) /\ sending[p][1] \in DataFrame
  BY <1>1
<1>3. sending[p][1].id \in Id
  BY <1>2, FrameFacts
<1>4. PICK next \in Seq(DataFrame) : sending' = [sending EXCEPT ![p] = next]
  BY <1>2 DEF AfterSend
<1>5. sent' \subseteq Id
  BY <1>1, <1>3 DEF AfterSend
<1> QED
  BY <1>1, <1>4, <1>5

LEMMA WriteFailsStep ==
    ASSUME LinkInv, NEW w \in writing, WriteFails(w)
    PROVE  LinkInv'
<1> DEFINE p == w.by[1]
           k == w.conn
<1>1. /\ Shape /\ OfEnds(open) /\ OfEnds(event) /\ OfEnds(ended) /\ ChanOK(chan) /\ MessagesOK
      /\ \A v \in writing : WriterOK(v)
      /\ link \in [Procs -> [Conn -> Link \cup {Unknown}]]
      /\ \A q \in Procs, j \in Conn : EntryOK(q, j, link[q][j])
      /\ SendersOK(writing, sending)
  BY Unfold
<1>2. p \in Procs /\ k \in Conn /\ p \in ends[k] /\ w.frame \in Frame /\ w \in Writer
  BY <1>1, WriterFacts DEF WriterOK
<1> DEFINE new == [w EXCEPT !.joining = TRUE]
<1>3. /\ open' = [open EXCEPT ![p] = @ \ {k}]
      /\ ended' = [ended EXCEPT ![p] = @ \cup {k}]
      /\ writing' = (writing \ {w}) \cup {new}
      /\ UNCHANGED <<connVars, link, sending, messages, sent, got, faults>>
  BY DEF WriteFails
<1>4. PICK hand : /\ \/ hand = <<>>
                     \/ Whole(chan[p][k]) /\ hand = SubSeq(chan[p][k], 1, 2)
                  /\ chan' = [chan EXCEPT ![p][k] = hand]
                  /\ lost' = lost \cup (IdsOf(chan[p][k]) \ IdsOf(hand)) \cup ({w.frame.id} \ {0})
  BY DEF WriteFails
<1>5. new \in Writer /\ new.by = w.by /\ new.conn = w.conn /\ new.frame = w.frame
  BY <1>2 DEF Writer
<1> HIDE DEF new, p, k
<1>6. OfEnds(open') /\ OfEnds(ended')
  BY <1>1, <1>2, <1>3 DEF OfEnds
<1>7. \A v \in writing' : WriterOK(v)
  BY <1>1, <1>3, <1>5 DEF WriterOK
<1>8. chan[p][k] \in Seq(Piece)
  BY <1>1, <1>2 DEF ChanOK
<1>9. hand \in Seq(Piece) /\ \A i \in 1 .. Len(hand) : i \in 1 .. Len(chan[p][k]) /\ hand[i] = chan[p][k][i]
  <2>1. CASE hand = <<>>
    BY <2>1
  <2>2. CASE Whole(chan[p][k]) /\ hand = SubSeq(chan[p][k], 1, 2)
    <3>1. Len(chan[p][k]) \in Nat /\ Len(chan[p][k]) >= 2
      BY <1>8, <2>2 DEF Whole
    <3>2. PICK n \in 0 .. Len(chan[p][k]), m \in 1 .. 3 : n = 2 /\ m = 1 /\ m \in 1 .. n + 1
      BY <3>1
    <3>3. /\ SubSeq(chan[p][k], m, n) \in Seq(Piece)
          /\ Len(SubSeq(chan[p][k], m, n)) = n + 1 - m
          /\ \A i \in 1 .. n + 1 - m : SubSeq(chan[p][k], m, n)[i] = chan[p][k][m + i - 1]
      BY <1>8, <3>2, PartFacts
    <3>4. Len(hand) = 2 /\ hand \in Seq(Piece) /\ \A i \in 1 .. 2 : hand[i] = chan[p][k][i]
      BY <2>2, <3>2, <3>3
    <3> QED
      BY <3>1, <3>4
  <2> QED
    BY <1>4, <2>1, <2>2
<1>10. ChanOK(chan')
  <2>1. chan' \in [Procs -> [Conn -> Seq(Piece)]]
    BY <1>1, <1>4, <1>9 DEF ChanOK
  <2>2. \A q \in Procs, j \in Conn : chan'[q][j] = IF q = p /\ j = k THEN hand ELSE chan[q][j]
    BY <1>1, <1>2, <1>4 DEF ChanOK
  <2>3. \A q \in Procs, j \in Conn : q \notin ends[j] => chan'[q][j] = <<>>
    BY <1>1, <1>2, <2>2 DEF ChanOK
  <2>4. ASSUME NEW q \in Procs, NEW j \in Conn, NEW i \in 1 .. Len(chan'[q][j]), chan'[q][j][i] # Unknown
        PROVE  Fits(q, j, chan'[q][j][i].frame)
    <3>1. i \in 1 .. Len(chan[q][j]) /\ chan'[q][j][i] = chan[q][j][i]
      BY <1>9, <2>2
    <3> QED
      BY <1>1, <2>4, <3>1 DEF ChanOK
  <2> QED
    BY <2>1, <2>3, <2>4 DEF ChanOK
<1>11. MessagesOK'
  <2>1. IdsOf(chan[p][k]) \subseteq Id
    BY <1>8, IdsFacts
  <2>2. w.frame.id \in Id \cup {0}
    BY <1>2, FrameFacts
  <2> QED
    BY <1>1, <1>3, <1>4, <2>1, <2>2 DEF MessagesOK
<1>12. SendersOK(writing', sending')
  BY <1>1, <1>3, <1>5 DEF SendersOK
<1>13. UNCHANGED <<version, ends, event, link>>
  BY <1>3 DEF connVars
<1> QED
  BY <1>1, <1>6, <1>7, <1>10, <1>11, <1>12, <1>13, Fold

LEMMA SendPayloadStep ==
    ASSUME LinkInv, NEW w \in writing, SendPayload(w)
    PROVE  LinkInv'
<1> DEFINE p == w.by[1]
           k == w.conn
<1>1. /\ Shape /\ OfEnds(open) /\ OfEnds(event) /\ OfEnds(ended) /\ ChanOK(chan) /\ MessagesOK
      /\ \A v \in writing : WriterOK(v)
      /\ link \in [Procs -> [Conn -> Link \cup {Unknown}]]
      /\ \A q \in Procs, j \in Conn : EntryOK(q, j, link[q][j])
      /\ SendersOK(writing, sending)
  BY Unfold
<1>2. /\ p \in Procs /\ k \in Conn /\ p \in ends[k] /\ w.frame \in Frame
      /\ w.by = <<p, w.by[2]>> /\ Fits(Peer(p, k), k, w.frame)
  BY <1>1, WriterFacts DEF WriterOK
<1>3. /\ writing' = writing \ {w} /\ chan' = Written(p, k, "payload", w.frame)
      /\ lost' = lost \/ (w.frame.kind = "data" /\ lost' = lost \cup {w.frame.id})
      /\ \/ w.by[2] = 0 /\ AfterSend(p, k \in open[p])
         \/ UNCHANGED <<sending, sent>>
      /\ UNCHANGED <<connVars, open, ended, link, messages, got, faults>>
  <2>1. IF w.by[2] = 0 THEN AfterSend(p, k \in open[p]) ELSE UNCHANGED <<sending, sent>>
    BY Zenon DEF SendPayload
  <2>2. /\ writing' = writing \ {w} /\ chan' = Written(p, k, "payload", w.frame)
        /\ UNCHANGED <<connVars, open, ended, link, messages, got, faults>>
    BY DEF SendPayload
  <2>3. lost' = IF w.frame.kind = "data" /\ chan' = chan THEN lost \cup {w.frame.id} ELSE lost
    BY DEF SendPayload
  <2> QED
    BY <2>1, <2>2, <2>3
<1>4. ChanOK(chan')
  BY <1>2, <1>3, WrittenOK
<1>5. w.frame.kind = "data" => w.frame.id \in Id
  BY <1>2, FrameFacts
<1>6. UNCHANGED <<version, ends, event, open, ended, link>> /\ \A v \in writing' : WriterOK(v)
  BY <1>1, <1>3 DEF connVars
<1>7. CASE UNCHANGED <<sending, sent>>
  <2>1. MessagesOK' /\ SendersOK(writing', sending')
    BY <1>1, <1>3, <1>5, <1>7 DEF MessagesOK, SendersOK
  <2> QED
    BY <1>1, <1>4, <1>6, <2>1, Fold
<1>8. CASE w.by[2] = 0 /\ AfterSend(p, k \in open[p])
  <2>1. sending[p] # <<>> /\ \A v \in writing : v.by = w.by => v = w
    BY <1>1, <1>8 DEF SendersOK
  <2>2. /\ sending' \in [Procs -> Seq(DataFrame)] /\ sent' \subseteq Id
        /\ \A q \in Procs : q # p => sending'[q] = sending[q]
    BY <1>1, <1>2, <1>8, <2>1, AfterSendFacts
  <2>3. MessagesOK'
    BY <1>1, <1>3, <1>5, <2>2 DEF MessagesOK
  <2>4. \A v \in writing' : v.by[1] \in Procs /\ v.by = <<v.by[1], v.by[2]>>
    BY <1>1, <1>3, WriterFacts
  <2>5. \A v \in writing' : v.by[2] = 0 => v.by[1] # p
    BY <1>2, <1>3, <1>8, <2>1, <2>4
  <2>6. SendersOK(writing', sending')
    BY <1>1, <1>3, <2>2, <2>4, <2>5 DEF SendersOK
  <2> QED
    BY <1>1, <1>4, <1>6, <2>3, <2>6, Fold
<1> QED
  BY <1>3, <1>7, <1>8

\* The header of a frame that no sender writes leaves the senders alone.
LEMMA SendHeaderSenders ==
    ASSUME LinkInv, NEW k \in Conn, NEW p \in Procs, NEW t \in 0..(2 * MaxConns), NEW frame,
           SendHeader(p, t, k, frame), t = 0 => sending[p] # <<>> /\ ~Busy(p, 0)
    PROVE  SendersOK(writing', sending)
<1> DEFINE new == [by |-> <<p, t>>, conn |-> k, frame |-> frame, joining |-> FALSE]
<1>1. writing' = writing \/ writing' = writing \cup {new}
  BY DEF SendHeader
<1>2. \A w \in writing : w.by = <<w.by[1], w.by[2]>>
  BY Unfold, WriterFacts
<1>3. new.by = <<p, t>> /\ new.by[1] = p /\ new.by[2] = t
  OBVIOUS
<1>4. \A w \in writing : t = 0 => w.by # new.by
  BY <1>3 DEF Busy
<1>5. \A w \in writing : w.by = new.by => w.by[2] = t
  BY <1>3
<1> HIDE DEF new
<1>6. SendersOK(writing, sending)
  BY Unfold
<1> QED
  BY <1>1, <1>3, <1>4, <1>5, <1>6 DEF SendersOK

LEMMA ConnectedStep ==
    ASSUME LinkInv, NEW p \in Procs, NEW k \in Conn, Connected(p, k)
    PROVE  LinkInv'
<1>1. /\ Shape /\ OfEnds(open) /\ OfEnds(event) /\ OfEnds(ended) /\ ChanOK(chan) /\ MessagesOK
      /\ link \in [Procs -> [Conn -> Link \cup {Unknown}]]
      /\ \A q \in Procs, j \in Conn : EntryOK(q, j, link[q][j])
  BY Unfold
<1>2. p \in ends[k]
  BY <1>1 DEF Connected, OfEnds
<1>3. Control("hello", p) \in Frame /\ Fits(Peer(p, k), k, Control("hello", p))
  BY <1>1, <1>2, ControlFits
<1>4. Reporter(k) \in 0..(2 * MaxConns) /\ Reporter(k) # 0
  BY MessagingAssumption DEF Reporter, Conn
<1>5. SendHeader(p, Reporter(k), k, Control("hello", p))
  BY DEF Connected
<1>6. \A w \in writing' : WriterOK(w)
  BY <1>2, <1>3, <1>4, <1>5, SendHeaderOK
<1>7. SendersOK(writing', sending)
  BY <1>4, <1>5, SendHeaderSenders
<1>8. ChanOK(chan')
  BY <1>2, <1>3, WrittenOK DEF Connected
<1>9. OfEnds(event')
  BY <1>1 DEF Connected, OfEnds
<1> DEFINE new == [state |-> "handshaking",
                   remote |-> IF link[p][k] = Unknown THEN Unknown ELSE link[p][k].remote]
<1>10. link' = [link EXCEPT ![p][k] = new]
  BY DEF Connected
<1>11. new \in Link /\ EntryOK(p, k, new)
  <2>1. EntryOK(p, k, link[p][k])
    BY <1>1
  <2>2. new.remote \in Procs \cup {Unknown} /\ new.remote \in {Peer(p, k), Unknown}
    BY <2>1 DEF EntryOK, Link
  <2>3. new \in Link /\ new.state = "handshaking"
    BY <2>2 DEF Link
  <2> QED
    BY <1>2, <2>2, <2>3 DEF EntryOK
<1> HIDE DEF new
<1>12. link' \in [Procs -> [Conn -> Link \cup {Unknown}]]
  BY <1>1, <1>10, <1>11
<1>13. \A q \in Procs, j \in Conn : EntryOK(q, j, link'[q][j])
  BY <1>1, <1>10, <1>11
<1>14. UNCHANGED <<version, ends, open, ended, sending>> /\ MessagesOK'
  BY <1>1 DEF Connected, messageVars, MessagesOK
<1> QED
  BY <1>1, <1>6, <1>7, <1>8, <1>9, <1>12, <1>13, <1>14, Fold

LEMMA DisconnectedStep ==
    ASSUME LinkInv, NEW p \in Procs, NEW k \in Conn, Disconnected(p, k)
    PROVE  LinkInv'
<1>1. /\ Shape /\ OfEnds(open) /\ OfEnds(event) /\ OfEnds(ended) /\ ChanOK(chan) /\ MessagesOK
      /\ \A w \in writing : WriterOK(w)
      /\ link \in [Procs -> [Conn -> Link \cup {Unknown}]]
      /\ \A q \in Procs, j \in Conn : EntryOK(q, j, link[q][j])
      /\ SendersOK(writing, sending)
  BY Unfold
<1>2. OfEnds(ended')
  BY <1>1 DEF Disconnected, OfEnds
<1>3. EntryOK(p, k, Unknown)
  BY DEF EntryOK
<1>4. link' = [link EXCEPT ![p][k] = Unknown]
  BY DEF Disconnected
<1>5. link' \in [Procs -> [Conn -> Link \cup {Unknown}]]
  BY <1>1, <1>4
<1>6. \A q \in Procs, j \in Conn : EntryOK(q, j, link'[q][j])
  BY <1>1, <1>3, <1>4
<1>7. UNCHANGED <<version, ends, open, event, chan, messages, got, lost, faults>>
  BY DEF Disconnected, connVars
<1>8. writing' = writing \ Joined(p, k) /\ \A w \in writing' : WriterOK(w)
  BY <1>1 DEF Disconnected, EndJoin
<1>9. CASE UNCHANGED <<sending, sent>>
  <2>1. MessagesOK' /\ SendersOK(writing', sending')
    BY <1>1, <1>7, <1>8, <1>9 DEF MessagesOK, SendersOK
  <2> QED
    BY <1>1, <1>2, <1>5, <1>6, <1>7, <1>8, <2>1, Fold
<1>10. CASE \E w \in Joined(p, k) : w.by[2] = 0
  <2>1. PICK w \in writing : w.by[1] = p /\ w.by[2] = 0 /\ w \in Joined(p, k)
    BY <1>10 DEF Joined
  <2>2. sending[p] # <<>> /\ \A v \in writing : v.by = w.by => v = w
    BY <1>1, <2>1 DEF SendersOK
  <2>3. AfterSend(p, FALSE)
    BY <1>10 DEF Disconnected, EndJoin
  <2>4. /\ sending' \in [Procs -> Seq(DataFrame)] /\ sent' \subseteq Id
        /\ \A q \in Procs : q # p => sending'[q] = sending[q]
    BY <1>1, <2>2, <2>3, AfterSendFacts
  <2>5. MessagesOK'
    BY <1>1, <1>7, <2>4 DEF MessagesOK
  <2>6. \A v \in writing : v.by[1] \in Procs /\ v.by = <<v.by[1], v.by[2]>>
    BY <1>1, WriterFacts
  <2>7. \A v \in writing' : v.by[2] = 0 => v.by[1] # p
    BY <1>8, <2>1, <2>2, <2>6
  <2>8. SendersOK(writing', sending')
    BY <1>1, <1>8, <2>4, <2>6, <2>7 DEF SendersOK
  <2> QED
    BY <1>1, <1>2, <1>5, <1>6, <1>7, <1>8, <2>5, <2>8, Fold
<1> QED
  BY <1>9, <1>10 DEF Disconnected, EndJoin

LEMMA HandleHelloStep ==
    ASSUME LinkInv, NEW p \in Procs, NEW k \in Conn, HandleHello(p, k)
    PROVE  LinkInv'
<1> DEFINE q == chan[p][k][1].frame.from
           ok == IsProtocolCompatible(p, q)
           answer == Control(IF ok THEN "ack" ELSE "reject", p)
           new == [state |-> IF ok THEN "active" ELSE "closed", remote |-> q]
<1>1. /\ Shape /\ OfEnds(open) /\ OfEnds(event) /\ OfEnds(ended) /\ ChanOK(chan) /\ MessagesOK
      /\ link \in [Procs -> [Conn -> Link \cup {Unknown}]]
      /\ \A r \in Procs, j \in Conn : EntryOK(r, j, link[r][j])
  BY Unfold
<1>2. /\ Reads(p, k, "hello")
      /\ link' = [link EXCEPT ![p][k] = new]
      /\ SendHeader(p, k, k, answer)
      /\ chan' = AfterRead(p, k, Written(p, k, "header", answer))
      /\ UNCHANGED <<connVars, open, ended, messageVars, faults>>
  BY DEF HandleHello
<1>3. /\ p \in ends[k] /\ chan[p][k] \in Seq(Piece) /\ Len(chan[p][k]) >= 2
      /\ chan[p][k][1] \in FramePart
      /\ chan[p][k][1].frame \in Frame /\ chan[p][k][1].frame.kind = "hello"
  BY <1>1, <1>2, ReadsFacts
<1>4. chan[p][k][1] # Unknown
  BY <1>2 DEF Reads, Whole
<1>5. q = Peer(p, k) /\ q \in Procs /\ version[p] \in Nat /\ version[q] \in Nat
  <2>1. Fits(p, k, chan[p][k][1].frame)
    BY <1>1, <1>3, <1>4 DEF ChanOK
  <2>2. q = Peer(p, k)
    BY <1>3, <2>1 DEF Fits
  <2>3. q \in Procs
    BY <1>1, <1>3, <2>2, PeerFacts
  <2> QED
    BY <1>1, <2>2, <2>3, MessagingAssumption DEF Shape, MessagingTypeOK
<1>6. ok => version[p] = version[q]
  BY <1>5 DEF IsProtocolCompatible
<1>7. answer \in Frame /\ Fits(Peer(p, k), k, answer)
  <2>1. CASE ok
    BY <1>1, <1>3, <1>5, <1>6, <2>1, ControlFits
  <2>2. CASE ~ok
    BY <1>1, <1>3, <2>2, ControlFits
  <2> QED
    BY <2>1, <2>2
<1>8. new \in Link /\ EntryOK(p, k, new)
  BY <1>3, <1>5, <1>6 DEF EntryOK, Link
<1> HIDE DEF q, ok, answer, new
<1>9. link' \in [Procs -> [Conn -> Link \cup {Unknown}]]
  BY <1>1, <1>2, <1>8
<1>10. \A r \in Procs, j \in Conn : EntryOK(r, j, link'[r][j])
  BY <1>1, <1>2, <1>8
<1>11. k \in 0..(2 * MaxConns) /\ k # 0
  BY MessagingAssumption DEF Conn
<1>12. \A w \in writing' : WriterOK(w)
  BY <1>2, <1>3, <1>7, <1>11, SendHeaderOK
<1>13. SendersOK(writing', sending)
  BY <1>2, <1>11, SendHeaderSenders
<1>14. ChanOK(chan')
  <2>1. ChanOK(Written(p, k, "header", answer)) /\ Written(p, k, "header", answer)[p] = chan[p]
    BY <1>3, <1>7, WrittenOK
  <2> QED
    BY <1>2, <1>3, <2>1, AfterReadOK
<1>15. UNCHANGED <<version, ends, event, open, ended, sending>> /\ MessagesOK'
  BY <1>1, <1>2 DEF connVars, messageVars, MessagesOK
<1> QED
  BY <1>1, <1>9, <1>10, <1>12, <1>13, <1>14, <1>15, Fold

LEMMA HandleHelloAckStep ==
    ASSUME LinkInv, NEW p \in Procs, NEW k \in Conn, HandleHelloAck(p, k)
    PROVE  LinkInv'
<1>1. /\ Shape /\ OfEnds(open) /\ OfEnds(event) /\ OfEnds(ended) /\ ChanOK(chan) /\ MessagesOK
      /\ \A w \in writing : WriterOK(w)
      /\ link \in [Procs -> [Conn -> Link \cup {Unknown}]]
      /\ \A q \in Procs, j \in Conn : EntryOK(q, j, link[q][j])
      /\ SendersOK(writing, sending)
  BY Unfold
<1>2. PICK kind \in {"ack", "reject"} :
       /\ Reads(p, k, kind)
       /\ chan' = AfterRead(p, k, chan)
       /\ link' = IF link[p][k] = Unknown THEN link
                  ELSE [link EXCEPT ![p][k].state = IF kind = "ack" THEN "active" ELSE "closed"]
       /\ UNCHANGED <<connVars, open, ended, writing, messageVars, faults>>
  BY DEF HandleHelloAck
<1>3. /\ p \in ends[k] /\ Len(chan[p][k]) >= 2
      /\ chan[p][k][1].frame \in Frame /\ chan[p][k][1].frame.kind = kind
  BY <1>1, <1>2, ReadsFacts
<1>4. chan[p][k][1] # Unknown /\ chan[p][k] \in Seq(Piece)
  BY <1>1, <1>2 DEF Reads, Whole, ChanOK
<1>5. kind = "ack" => version[p] = version[Peer(p, k)]
  <2>1. Fits(p, k, chan[p][k][1].frame)
    BY <1>1, <1>3, <1>4 DEF ChanOK
  <2> QED
    BY <1>3, <2>1 DEF Fits
<1>6. ChanOK(chan')
  BY <1>1, <1>2, <1>3, AfterReadOK
<1>7. /\ link' \in [Procs -> [Conn -> Link \cup {Unknown}]]
      /\ \A q \in Procs, j \in Conn : EntryOK(q, j, link'[q][j])
  <2>1. CASE link[p][k] = Unknown
    BY <1>1, <1>2, <2>1
  <2>2. CASE link[p][k] # Unknown
    <3> DEFINE new == [link[p][k] EXCEPT !.state = IF kind = "ack" THEN "active" ELSE "closed"]
    <3>1. link' = [link EXCEPT ![p][k] = new]
      BY <1>2, <2>2
    <3>2. link[p][k] \in Link /\ EntryOK(p, k, link[p][k])
      BY <1>1, <2>2
    <3>3. /\ new \in Link /\ new.remote = link[p][k].remote
          /\ new.state = IF kind = "ack" THEN "active" ELSE "closed"
      BY <3>2 DEF Link
    <3>4. EntryOK(p, k, new)
      BY <1>3, <1>5, <2>2, <3>2, <3>3 DEF EntryOK
    <3> HIDE DEF new
    <3> QED
      BY <1>1, <3>1, <3>3, <3>4
  <2> QED
    BY <2>1, <2>2
<1>8. UNCHANGED <<version, ends, event, open, ended, writing, sending>> /\ MessagesOK'
  BY <1>1, <1>2 DEF connVars, messageVars, MessagesOK
<1>9. SendersOK(writing', sending')
  BY <1>1, <1>8
<1> QED
  BY <1>1, <1>6, <1>7, <1>8, <1>9, Fold

\* The members of a finite set, in some order.
LEMMA SetToSeqFacts ==
    ASSUME NEW S, IsFiniteSet(S)
    PROVE  Cardinality(S) \in Nat /\ SetToSeq(S) \in [1..Cardinality(S) -> S] /\ IsInjective(SetToSeq(S))
<1>1. Cardinality(S) \in Nat /\ \E f : f \in Bijection(1..Cardinality(S), S)
  BY FS_CardinalityType DEF ExistsBijection
<1>2. PICK f : f \in Bijection(1..Cardinality(S), S)
  BY <1>1
<1>3. f \in [1..Cardinality(S) -> S] /\ \A a, b \in 1..Cardinality(S) : f[a] = f[b] => a = b
  BY <1>2 DEF Bijection, Injection, Surjection, IsInjective
<1>4. DOMAIN f = 1..Cardinality(S)
  BY <1>3
<1>5. IsInjective(f)
  BY <1>3, <1>4 DEF IsInjective
<1> QED
  BY <1>1, <1>3, <1>5 DEF SetToSeq

LEMMA SendStep ==
    ASSUME LinkInv, NEW p \in Nodes, NEW targets \in SUBSET Nodes, Send(p, targets)
    PROVE  LinkInv'
<1>1. /\ Shape /\ OfEnds(open) /\ OfEnds(event) /\ OfEnds(ended) /\ ChanOK(chan) /\ MessagesOK
      /\ \A w \in writing : WriterOK(w)
      /\ link \in [Procs -> [Conn -> Link \cup {Unknown}]]
      /\ \A q \in Procs, j \in Conn : EntryOK(q, j, link[q][j])
      /\ SendersOK(writing, sending)
  BY Unfold
<1>2. PICK m \in Id :
       /\ sending[p] = <<>>
       /\ messages' = [messages EXCEPT ![m] = targets]
       /\ sending' = [sending EXCEPT ![p] = [i \in 1..Cardinality(targets) |->
                         [kind |-> "data", from |-> p, id |-> m,
                          target |-> SetToSeq(targets)[i]]]]
       /\ UNCHANGED <<connVars, open, ended, link, chan, writing, sent, got, lost, faults>>
  BY DEF Send
<1>3. p \in Procs /\ targets \subseteq Procs /\ IsFiniteSet(targets)
  <2>1. p \in Procs /\ targets \subseteq Procs
    BY DEF Procs
  <2> QED
    BY <2>1, FS_Subset, MessagingAssumption
<1>4. Cardinality(targets) \in Nat /\ SetToSeq(targets) \in [1..Cardinality(targets) -> targets]
  BY <1>3, SetToSeqFacts
<1> DEFINE new == [i \in 1..Cardinality(targets) |->
                      [kind |-> "data", from |-> p, id |-> m, target |-> SetToSeq(targets)[i]]]
<1>5. new \in Seq(DataFrame)
  <2>1. \A i \in 1..Cardinality(targets) : new[i] \in DataFrame
    BY <1>3, <1>4 DEF DataFrame
  <2> QED
    BY <1>4, <2>1
<1> HIDE DEF new
<1>6. sending' = [sending EXCEPT ![p] = new]
  BY <1>2 DEF new
<1>7. MessagesOK'
  BY <1>1, <1>2, <1>3, <1>5, <1>6 DEF MessagesOK
<1>8. UNCHANGED <<version, ends, event, open, ended, link, chan, writing>>
  BY <1>2 DEF connVars
<1>9. \A w \in writing : w.by[2] = 0 => w.by[1] # p
  BY <1>1, <1>2 DEF SendersOK
<1>10. \A q \in Procs : q # p => sending'[q] = sending[q]
  BY <1>1, <1>6 DEF MessagesOK
<1>11. \A w \in writing : w.by[1] \in Procs
  BY <1>1, WriterFacts
<1>12. SendersOK(writing', sending')
  BY <1>1, <1>8, <1>9, <1>10, <1>11 DEF SendersOK
<1> QED
  BY <1>1, <1>7, <1>8, <1>12, Fold

LEMMA DispatchFacts ==
    ASSUME MessagesOK, NEW p \in Procs, NEW frame \in DataFrame, Dispatch(p, frame)
    PROVE  got' \in [Id -> [Procs -> Nat]]
<1>1. frame.id \in Id /\ got[frame.id][p] \in Nat /\ got \in [Id -> [Procs -> Nat]]
  BY FrameFacts DEF MessagesOK
<1>2. got' = [got EXCEPT ![frame.id] = [got[frame.id] EXCEPT ![p] = got[frame.id][p] + 1]]
  BY DEF Dispatch
<1> QED
  BY <1>1, <1>2

LEMMA DataFits ==
    \A p, k : \A frame \in DataFrame : Fits(p, k, frame) /\ frame \in Frame
  BY FrameFacts DEF Fits

LEMMA SendEnvelopeStep ==
    ASSUME LinkInv, NEW p \in Procs, SendEnvelope(p)
    PROVE  LinkInv'
<1> DEFINE frame == Head(sending[p])
           hop == ResolveSingleTarget(p, frame.target)
           links == ActiveLinks(p, hop)
<1>1. /\ Shape /\ OfEnds(open) /\ OfEnds(event) /\ OfEnds(ended) /\ ChanOK(chan) /\ MessagesOK
      /\ \A w \in writing : WriterOK(w)
      /\ link \in [Procs -> [Conn -> Link \cup {Unknown}]]
      /\ \A q \in Procs, j \in Conn : EntryOK(q, j, link[q][j])
      /\ SendersOK(writing, sending)
  BY Unfold
<1>2. /\ sending[p] # <<>> /\ ~Busy(p, 0)
      /\ UNCHANGED <<connVars, open, ended, link, messages, faults>>
  BY DEF SendEnvelope
<1>3. frame \in DataFrame /\ frame.id \in Id
  BY <1>1, <1>2, FrameFacts DEF MessagesOK
<1>4. UNCHANGED <<version, ends, event, open, ended, link>>
  BY <1>2 DEF connVars
<1>5. \A w \in writing : w.by[1] \in Procs /\ (w.by[2] = 0 => w.by[1] # p)
  <2>1. \A w \in writing : w.by[1] \in Procs /\ w.by = <<w.by[1], w.by[2]>>
    BY <1>1, WriterFacts
  <2> QED
    BY <1>2, <2>1 DEF Busy
<1>6. ASSUME AfterSend(p, TRUE) \/ AfterSend(p, FALSE), got' \in [Id -> [Procs -> Nat]], lost' \subseteq Id,
             UNCHANGED <<chan, writing>>
      PROVE  LinkInv'
  <2>1. /\ sending' \in [Procs -> Seq(DataFrame)] /\ sent' \subseteq Id
        /\ \A q \in Procs : q # p => sending'[q] = sending[q]
    BY <1>1, <1>2, <1>6, AfterSendFacts
  <2>2. MessagesOK'
    BY <1>1, <1>2, <1>6, <2>1 DEF MessagesOK
  <2>3. SendersOK(writing', sending')
    BY <1>1, <1>5, <1>6, <2>1 DEF SendersOK
  <2> QED
    BY <1>1, <1>4, <1>6, <2>2, <2>3, Fold
<1>7. CASE /\ hop = p /\ Dispatch(p, frame) /\ AfterSend(p, TRUE)
           /\ UNCHANGED <<chan, writing, lost>>
  <2>1. got' \in [Id -> [Procs -> Nat]]
    BY <1>1, <1>3, <1>7, DispatchFacts
  <2> QED
    BY <1>1, <1>6, <1>7, <2>1 DEF MessagesOK
<1>8. CASE /\ lost' = lost \cup {frame.id} /\ AfterSend(p, FALSE)
           /\ UNCHANGED <<chan, writing, got>>
  BY <1>1, <1>3, <1>6, <1>8 DEF MessagesOK
<1>9. CASE \E k \in links \cap open[p] :
             /\ SendHeader(p, 0, k, frame)
             /\ chan' = Written(p, k, "header", frame)
             /\ UNCHANGED <<sending, sent, got, lost>>
  <2>1. PICK k \in links \cap open[p] :
             /\ SendHeader(p, 0, k, frame)
             /\ chan' = Written(p, k, "header", frame)
             /\ UNCHANGED <<sending, sent, got, lost>>
    BY <1>9
  <2>2. k \in Conn /\ p \in ends[k] /\ 0 \in 0..(2 * MaxConns)
    BY <1>1, MessagingAssumption DEF OfEnds
  <2>3. Fits(Peer(p, k), k, frame) /\ frame \in Frame
    BY <1>3, DataFits
  <2> HIDE DEF frame
  <2>4. \A w \in writing' : WriterOK(w)
    BY <2>1, <2>2, <2>3, SendHeaderOK
  <2>5. SendersOK(writing', sending)
    BY <1>2, <2>1, <2>2, SendHeaderSenders
  <2>6. ChanOK(chan')
    BY <2>1, <2>2, <2>3, WrittenOK
  <2>7. MessagesOK' /\ sending' = sending
    BY <1>1, <1>2, <2>1 DEF MessagesOK
  <2> QED
    BY <1>1, <1>4, <2>4, <2>5, <2>6, <2>7, Fold
<1> QED
  BY <1>7, <1>8, <1>9 DEF SendEnvelope

LEMMA HandleIncomingFrameStep ==
    ASSUME LinkInv, NEW p \in Procs, NEW k \in Conn, HandleIncomingFrame(p, k)
    PROVE  LinkInv'
<1> DEFINE frame == chan[p][k][1].frame
           hop == ResolveSingleTarget(p, frame.target)
           links == ActiveLinks(p, hop)
<1>1. /\ Shape /\ OfEnds(open) /\ OfEnds(event) /\ OfEnds(ended) /\ ChanOK(chan) /\ MessagesOK
      /\ \A w \in writing : WriterOK(w)
      /\ link \in [Procs -> [Conn -> Link \cup {Unknown}]]
      /\ \A q \in Procs, j \in Conn : EntryOK(q, j, link[q][j])
      /\ SendersOK(writing, sending)
  BY Unfold
<1>2. /\ Reads(p, k, "data")
      /\ UNCHANGED <<connVars, open, ended, link, sending, messages, sent, faults>>
  BY DEF HandleIncomingFrame
<1>3. p \in ends[k] /\ Len(chan[p][k]) >= 2 /\ frame \in DataFrame /\ frame.id \in Id
  BY <1>1, <1>2, ReadsFacts, FrameFacts
<1>4. UNCHANGED <<version, ends, event, open, ended, link, sending>>
  BY <1>2 DEF connVars
<1> HIDE DEF frame
<1>5. ASSUME got' \in [Id -> [Procs -> Nat]], lost' \subseteq Id, writing' = writing,
             chan' = AfterRead(p, k, chan)
      PROVE  LinkInv'
  <2>1. MessagesOK'
    BY <1>1, <1>2, <1>5 DEF MessagesOK
  <2>2. ChanOK(chan')
    BY <1>1, <1>3, <1>5, AfterReadOK
  <2>3. SendersOK(writing', sending')
    BY <1>1, <1>4, <1>5
  <2> QED
    BY <1>1, <1>4, <1>5, <2>1, <2>2, <2>3, Fold
<1>6. CASE Dispatch(p, frame) /\ chan' = AfterRead(p, k, chan) /\ UNCHANGED <<writing, lost>>
  <2>1. got' \in [Id -> [Procs -> Nat]]
    BY <1>1, <1>3, <1>6, DispatchFacts
  <2> QED
    BY <1>1, <1>5, <1>6, <2>1 DEF MessagesOK
<1>7. CASE /\ lost' = lost \cup {frame.id} /\ chan' = AfterRead(p, k, chan)
           /\ UNCHANGED <<writing, got>>
  BY <1>1, <1>3, <1>5, <1>7 DEF MessagesOK
<1>8. CASE \E j \in links \cap open[p] :
             /\ SendHeader(p, k, j, frame)
             /\ chan' = AfterRead(p, k, Written(p, j, "header", frame))
             /\ UNCHANGED <<got, lost>>
  <2>1. PICK j \in links \cap open[p] :
             /\ SendHeader(p, k, j, frame)
             /\ chan' = AfterRead(p, k, Written(p, j, "header", frame))
             /\ UNCHANGED <<got, lost>>
    BY <1>8
  <2>2. j \in Conn /\ p \in ends[j] /\ k \in 0..(2 * MaxConns) /\ k # 0
    BY <1>1, MessagingAssumption DEF OfEnds, Conn
  <2>3. Fits(Peer(p, j), j, frame) /\ frame \in Frame
    BY <1>3, DataFits
  <2>4. \A w \in writing' : WriterOK(w)
    BY <2>1, <2>2, <2>3, SendHeaderOK
  <2>5. SendersOK(writing', sending)
    BY <2>1, <2>2, SendHeaderSenders
  <2>6. ChanOK(chan')
    <3>1. ChanOK(Written(p, j, "header", frame)) /\ Written(p, j, "header", frame)[p] = chan[p]
      BY <2>2, <2>3, WrittenOK
    <3> QED
      BY <1>3, <2>1, <3>1, AfterReadOK
  <2>7. MessagesOK'
    BY <1>1, <1>2, <2>1 DEF MessagesOK
  <2> QED
    BY <1>1, <1>4, <2>4, <2>5, <2>6, <2>7, Fold
<1> QED
  BY <1>6, <1>7, <1>8 DEF HandleIncomingFrame, frame

-----------------------------------------------------------------------------
LEMMA LinkInvInit ==
    Init => LinkInv
<1> SUFFICES ASSUME Init PROVE LinkInv
  OBVIOUS
<1>1. faults \in 0..MaxFaults
  <2>1. IsFiniteSet({p \in Procs : version[p] # Min(Versions)})
    BY FS_Subset, MessagingAssumption
  <2>2. Cardinality({p \in Procs : version[p] # Min(Versions)}) \in Nat
    BY <2>1, FS_CardinalityType
  <2> QED
    BY <2>2, MessagingAssumption DEF Init
<1>2. <<>> \in Seq(Piece) /\ <<>> \in Seq(DataFrame) /\ Len(<<>>) = 0
  OBVIOUS
<1>3. MessagingTypeOK
  BY <1>1, <1>2 DEF Init, MessagingTypeOK
<1>4. EndsInv /\ StreamsFit /\ WritersFit /\ LinkFitsPeer
  BY <1>2 DEF Init, EndsInv, StreamsFit, WritersFit, LinkFitsPeer
<1>5. SendersOK(writing, sending)
  BY DEF Init, SendersOK
<1> QED
  BY <1>3, <1>4, <1>5 DEF LinkInv, Shape

LEMMA LinkInvNext ==
    LinkInv /\ [Next]_vars => LinkInv'
<1> SUFFICES ASSUME LinkInv, [Next]_vars PROVE LinkInv'
  OBVIOUS
<1>1. CASE UNCHANGED vars
  <2>1. UNCHANGED <<version, ends, event, open, ended, link, chan, writing, sending, messages, sent,
                    got, lost, faults>>
    BY <1>1 DEF vars, connVars, messageVars
  <2>2. MessagesOK'
    BY <2>1, Unfold DEF MessagesOK
  <2> QED
    BY <2>1, <2>2, Unfold, Fold
<1>2. CASE Next
  BY <1>2, ConnectStep, HandleDisconnectStep, WriteFailsStep, SendPayloadStep, ConnectedStep,
     DisconnectedStep, HandleHelloStep, HandleHelloAckStep, SendStep, SendEnvelopeStep,
     HandleIncomingFrameStep DEF Next, Progress, Handle
<1> QED
  BY <1>1, <1>2

\* Every frame, stream, link and message keeps its shape.
THEOREM MessagingTyping == Spec => []MessagingTypeOK
<1>1. LinkInv => MessagingTypeOK
  BY DEF LinkInv, Shape
<1> QED
  BY <1>1, LinkInvInit, LinkInvNext, PTL DEF Spec

\* A link names the process at the other end of its connection or none, and is active
\* only between processes of one protocol version (LinkManager::HandleHello, hello_ack),
\* however the threads of the two processes take turns.
THEOREM LinksFitPeers == Spec => []LinkFitsPeer
<1>1. LinkInv => LinkFitsPeer
  BY DEF LinkInv
<1> QED
  BY <1>1, LinkInvInit, LinkInvNext, PTL DEF Spec
-----------------------------------------------------------------------------
(* Where the copies of a message are.                                      *)

\* The frame carries message m to process q.
Carries(frame, m, q) == frame.kind = "data" /\ frame.id = m /\ frame.target = q

\* A copy that is still to be sent, that is on its way in full, and that a reader is
\* sending on.  What a sender is writing is still at the head of its queue.
Queued(s, p, i, m, q) == i \in 1 .. Len(s[p]) /\ Carries(s[p][i], m, q)
IsPart(x, part) == x # Unknown /\ x.part = part
Streamed(c, p, k, i, m, q) ==
    i \in 1 .. Len(c[p][k]) /\ IsPart(c[p][k][i], "payload") /\ Carries(c[p][k][i].frame, m, q)
Forwarded(w, m, q) == ~w.joining /\ w.by[2] # 0 /\ Carries(w.frame, m, q)

SomeQueued(s, m, q) == \E p \in Procs, i \in Nat : Queued(s, p, i, m, q)
SomeStreamed(c, m, q) == \E p \in Procs, k \in Conn, i \in Nat : Streamed(c, p, k, i, m, q)
SomeForwarded(ws, m, q) == \E w \in ws : Forwarded(w, m, q)

OneQueued(s, m, q) ==
    \A p, r \in Procs, i, j \in Nat : Queued(s, p, i, m, q) /\ Queued(s, r, j, m, q) => p = r /\ i = j
OneStreamed(c, m, q) ==
    \A p, r \in Procs, k, h \in Conn, i, j \in Nat :
       Streamed(c, p, k, i, m, q) /\ Streamed(c, r, h, j, m, q) => p = r /\ k = h /\ i = j
OneForwarded(ws, m, q) ==
    \A v, w \in ws : Forwarded(v, m, q) /\ Forwarded(w, m, q) => v = w

\* There is at most one copy of m for q, the one that q has got included.
OneCopy(s, c, ws, n, m, q) ==
    /\ OneQueued(s, m, q) /\ OneStreamed(c, m, q) /\ OneForwarded(ws, m, q) /\ n <= 1
    /\ SomeQueued(s, m, q) => ~SomeStreamed(c, m, q) /\ ~SomeForwarded(ws, m, q) /\ n = 0
    /\ SomeStreamed(c, m, q) => ~SomeForwarded(ws, m, q) /\ n = 0
    /\ SomeForwarded(ws, m, q) => n = 0

\* A frame of data goes to a target of its message.
Addressed(frame) == frame.kind = "data" => frame.target \in messages[frame.id]

QueuesAddressed(s) == \A p \in Procs : \A i \in 1 .. Len(s[p]) : Addressed(s[p][i])
WritersAddressed(ws) == \A w \in ws : Addressed(w.frame)
StreamsAddressed(c) ==
    \A p \in Procs, k \in Conn : \A i \in 1 .. Len(c[p][k]) :
       c[p][k][i] # Unknown => Addressed(c[p][k][i].frame)

AllAddressed ==
    /\ QueuesAddressed(sending) /\ WritersAddressed(writing) /\ StreamsAddressed(chan)
    /\ \A m \in Id, q \in Procs : got[m][q] # 0 => q \in messages[m]

\* A stream is headers, each followed by its payload, up to where it may be torn.
Framed(s) ==
    \A i \in 1 .. Len(s) :
       /\ s[i] = Unknown => i = Len(s)
       /\ IsPart(s[i], "payload") =>
             i > 1 /\ IsPart(s[i - 1], "header") /\ s[i - 1].frame = s[i].frame
       /\ IsPart(s[i], "header") /\ i > 1 => IsPart(s[i - 1], "payload")

AllFramed(c) == \A p \in Procs, k \in Conn : Framed(c[p][k])

\* A thread between header and payload, on a connection that is open at both ends.
Pending(w, o) == ~w.joining /\ w.conn \in o[w.by[1]] /\ w.conn \in o[Peer(w.by[1], w.conn)]

\* It is the only one at its end, and its header the last that was written, or the
\* stream is torn.
HeaderWaits(ws, o, c) ==
    \A w \in ws : Pending(w, o) =>
       LET s == c[Peer(w.by[1], w.conn)][w.conn] IN
       \/ Torn(s)
       \/ /\ s # <<>> /\ Last(s) = [part |-> "header", frame |-> w.frame]
          /\ \A v \in ws : Pending(v, o) /\ v.by[1] = w.by[1] /\ v.conn = w.conn => v = w

\* A sender writes what is first in its queue.
SendersFirst(ws, s) == \A w \in ws : w.by[2] = 0 => w.frame = s[w.by[1]][1]

CopyInv ==
    /\ AllAddressed /\ AllFramed(chan) /\ HeaderWaits(writing, open, chan)
    /\ SendersFirst(writing, sending)
    /\ \A m \in Id, q \in Procs : OneCopy(sending, chan, writing, got[m][q], m, q)

-----------------------------------------------------------------------------
(* One stream.                                                             *)

LEMMA PieceFacts ==
    ASSUME NEW part \in {"header", "payload"}, NEW frame \in Frame
    PROVE  /\ [part |-> part, frame |-> frame] \in Piece /\ [part |-> part, frame |-> frame] # Unknown
           /\ [part |-> part, frame |-> frame].part = part
           /\ [part |-> part, frame |-> frame].frame = frame
  BY UnknownAssumption DEF Piece, FramePart

LEMMA PartOf ==
    \A x \in Piece : x # Unknown => /\ x.frame \in Frame /\ (IsPart(x, "header") \/ IsPart(x, "payload"))
                                    /\ ~(IsPart(x, "header") /\ IsPart(x, "payload"))
  BY DEF Piece, FramePart, IsPart

\* A header is the last of the stream, unless it or an earlier one tears it.
LEMMA HeaderWritten ==
    ASSUME NEW s \in Seq(Piece), Framed(s), NEW frame \in Frame
    PROVE  /\ Framed(Extended(s, "header", frame))
           /\ \A i \in 1 .. Len(Extended(s, "header", frame)) :
                 IsPart(Extended(s, "header", frame)[i], "payload") =>
                    i \in 1 .. Len(s) /\ Extended(s, "header", frame)[i] = s[i]
           /\ \/ Torn(Extended(s, "header", frame))
              \/ /\ Extended(s, "header", frame) # <<>>
                 /\ Last(Extended(s, "header", frame)) = [part |-> "header", frame |-> frame]
                 /\ ~Torn(s) /\ (s # <<>> => ~IsPart(Last(s), "header"))
<1> DEFINE new == [part |-> "header", frame |-> frame]
           t == Extended(s, "header", frame)
<1>1. /\ new \in Piece /\ new # Unknown /\ new.part = "header" /\ new.frame = frame
      /\ Unknown \in Piece /\ Len(s) \in Nat /\ \A i \in 1 .. Len(s) : s[i] \in Piece
  BY PieceFacts DEF Piece
<1>2. Last(s) = s[Len(s)]
  BY DEF Last
<1> HIDE DEF new
<1>3. CASE Torn(s)
  <2>1. t = s
    BY <1>3 DEF Extended, Torn
  <2> QED
    BY <1>3, <2>1
<1>4. CASE ~Torn(s) /\ s # <<>> /\ IsPart(Last(s), "header")
  <2>1. t = Append(Front(s), Unknown)
    BY <1>4 DEF Extended, IsPart
  <2>2. /\ Len(s) \in Nat \ {0} /\ Front(s) \in Seq(Piece) /\ Len(Front(s)) = Len(s) - 1
        /\ \A i \in 1 .. Len(s) - 1 : Front(s)[i] = s[i]
    BY <1>4, FrontFacts
  <2> HIDE DEF t
  <2>3. /\ t \in Seq(Piece) /\ Len(t) = Len(s) /\ t[Len(s)] = Unknown
        /\ \A i \in 1 .. Len(s) - 1 : t[i] = s[i]
    <3>1. PICK f \in Seq(Piece) : f = Front(s)
      BY <2>2
    <3>2. t = Append(f, Unknown) /\ Len(f) = Len(s) - 1 /\ \A i \in 1 .. Len(s) - 1 : f[i] = s[i]
      BY <2>1, <2>2, <3>1
    <3>3. t \in Seq(Piece) /\ Len(t) = Len(f) + 1 /\ t[Len(f) + 1] = Unknown
      BY <1>1, <3>1, <3>2
    <3>4. \A i \in 1 .. Len(f) : t[i] = f[i]
      BY <1>1, <3>1, <3>2
    <3> QED
      BY <2>2, <3>2, <3>3, <3>4
  <2>4. Torn(t)
    BY <2>2, <2>3 DEF Torn, Last
  <2>5. ~IsPart(Unknown, "payload") /\ ~IsPart(Unknown, "header")
    BY DEF IsPart
  <2>6. Framed(t)
    BY <1>1, <2>2, <2>3, <2>5 DEF Framed
  <2>7. \A i \in 1 .. Len(t) : IsPart(t[i], "payload") => i \in 1 .. Len(s) /\ t[i] = s[i]
    BY <2>2, <2>3, <2>5
  <2> QED
    BY <2>4, <2>6, <2>7 DEF t
<1>5. CASE ~Torn(s) /\ (s # <<>> => ~IsPart(Last(s), "header"))
  <2>1. t = Append(s, new)
    BY <1>5 DEF Extended, IsPart, new
  <2>2. /\ t \in Seq(Piece) /\ Len(t) = Len(s) + 1 /\ t[Len(s) + 1] = new /\ t # <<>>
        /\ \A i \in 1 .. Len(s) : t[i] = s[i]
    BY <1>1, <2>1
  <2> HIDE DEF t
  <2>3. Last(t) = new
    BY <2>2 DEF Last
  <2>4. IsPart(new, "header") /\ ~IsPart(new, "payload")
    BY <1>1 DEF IsPart
  <2>5. \A i \in 1 .. Len(s) : s[i] # Unknown
    BY <1>1, <1>2, <1>5 DEF Framed, Torn
  <2>6. Len(s) > 0 => IsPart(s[Len(s)], "payload")
    <3> SUFFICES ASSUME Len(s) > 0 PROVE IsPart(s[Len(s)], "payload")
      OBVIOUS
    <3>1. s # <<>> /\ Len(s) \in 1 .. Len(s)
      BY <1>1
    <3>2. s[Len(s)] # Unknown /\ s[Len(s)] \in Piece /\ ~IsPart(s[Len(s)], "header")
      BY <1>1, <1>2, <1>5, <2>5, <3>1
    <3> QED
      BY <3>2, PartOf
  <2>7. Framed(t)
    <3> SUFFICES ASSUME NEW i \in 1 .. Len(t)
                 PROVE  /\ t[i] = Unknown => i = Len(t)
                        /\ IsPart(t[i], "payload") =>
                              i > 1 /\ IsPart(t[i - 1], "header") /\ t[i - 1].frame = t[i].frame
                        /\ IsPart(t[i], "header") /\ i > 1 => IsPart(t[i - 1], "payload")
      BY DEF Framed
    <3>1. CASE i = Len(s) + 1
      BY <1>1, <2>2, <2>4, <2>6, <3>1
    <3>2. CASE i \in 1 .. Len(s)
      <4>1. t[i] = s[i] /\ (i > 1 => t[i - 1] = s[i - 1])
        BY <1>1, <2>2, <3>2
      <4> QED
        BY <2>5, <3>2, <4>1 DEF Framed
    <3> QED
      BY <1>1, <2>2, <3>1, <3>2
  <2>8. \A i \in 1 .. Len(t) : IsPart(t[i], "payload") => i \in 1 .. Len(s) /\ t[i] = s[i]
    BY <1>1, <2>2, <2>4
  <2> QED
    BY <1>5, <2>2, <2>3, <2>7, <2>8 DEF t, new
<1> QED
  BY <1>3, <1>4, <1>5

\* A payload follows its header, unless the stream is torn.
LEMMA PayloadWritten ==
    ASSUME NEW s \in Seq(Piece), Framed(s), NEW frame \in Frame,
           Torn(s) \/ (s # <<>> /\ Last(s) = [part |-> "header", frame |-> frame])
    PROVE  /\ Framed(Extended(s, "payload", frame))
           /\ \/ Torn(s) /\ Extended(s, "payload", frame) = s
              \/ /\ Len(Extended(s, "payload", frame)) = Len(s) + 1
                 /\ \A i \in 1 .. Len(s) : Extended(s, "payload", frame)[i] = s[i]
                 /\ Extended(s, "payload", frame)[Len(s) + 1] = [part |-> "payload", frame |-> frame]
<1> DEFINE new == [part |-> "payload", frame |-> frame]
           head == [part |-> "header", frame |-> frame]
           t == Extended(s, "payload", frame)
<1>1. /\ new \in Piece /\ new # Unknown /\ new.part = "payload" /\ new.frame = frame
      /\ head # Unknown /\ head.part = "header" /\ head.frame = frame
      /\ Len(s) \in Nat /\ \A i \in 1 .. Len(s) : s[i] \in Piece
  BY PieceFacts
<1>2. Last(s) = s[Len(s)]
  BY DEF Last
<1>3. CASE Torn(s)
  BY <1>3 DEF Extended
<1>4. CASE ~Torn(s)
  <2>1. t = Append(s, new)
    BY <1>4 DEF Extended
  <2>2. Len(s) > 0 /\ s[Len(s)] = head
    BY <1>1, <1>2, <1>4
  <2> HIDE DEF new, head, t
  <2>3. /\ t \in Seq(Piece) /\ Len(t) = Len(s) + 1 /\ t[Len(s) + 1] = new
        /\ \A i \in 1 .. Len(s) : t[i] = s[i]
    BY <1>1, <2>1
  <2>4. IsPart(new, "payload") /\ ~IsPart(new, "header") /\ IsPart(head, "header")
    BY <1>1 DEF IsPart
  <2>5. \A i \in 1 .. Len(s) : s[i] # Unknown
    BY <1>1, <2>2 DEF Framed
  <2>6. Framed(t)
    <3> SUFFICES ASSUME NEW i \in 1 .. Len(t)
                 PROVE  /\ t[i] = Unknown => i = Len(t)
                        /\ IsPart(t[i], "payload") =>
                              i > 1 /\ IsPart(t[i - 1], "header") /\ t[i - 1].frame = t[i].frame
                        /\ IsPart(t[i], "header") /\ i > 1 => IsPart(t[i - 1], "payload")
      BY DEF Framed
    <3>1. CASE i = Len(s) + 1
      BY <1>1, <2>2, <2>3, <2>4, <3>1
    <3>2. CASE i \in 1 .. Len(s)
      <4>1. t[i] = s[i] /\ (i > 1 => t[i - 1] = s[i - 1])
        BY <1>1, <2>3, <3>2
      <4> QED
        BY <2>5, <3>2, <4>1 DEF Framed
    <3> QED
      BY <1>1, <2>3, <3>1, <3>2
  <2> QED
    BY <2>3, <2>6 DEF t, new
<1> QED
  BY <1>3, <1>4

\* The reader takes a header and its payload off the stream, and leaves what is last.
LEMMA FrameRead ==
    ASSUME NEW s \in Seq(Piece), Framed(s), Whole(s), NEW t \in Seq(Piece), Len(t) = Len(s) - 2,
           \A i \in 1 .. Len(s) - 2 : t[i] = s[i + 2]
    PROVE  /\ IsPart(s[1], "header") /\ IsPart(s[2], "payload") /\ s[1].frame = s[2].frame
           /\ Framed(t)
           /\ Torn(s) => Torn(t)
           /\ IsPart(Last(s), "header") => t # <<>> /\ Last(t) = Last(s)
<1>1. /\ Len(s) \in Nat /\ Len(s) >= 2 /\ Len(t) \in Nat /\ s[1] # Unknown /\ s[2] # Unknown
      /\ s[1] \in Piece /\ s[2] \in Piece
      /\ Last(s) = s[Len(s)] /\ Last(t) = t[Len(t)]
  BY DEF Whole, Last
<1>2. IsPart(s[1], "header")
  BY <1>1, PartOf DEF Framed
<1>3. ~IsPart(s[1], "payload")
  BY <1>1, <1>2, PartOf
<1>4. ~IsPart(s[2], "header")
  BY <1>1, <1>3 DEF Framed
<1>5. IsPart(s[2], "payload") /\ s[1].frame = s[2].frame
  BY <1>1, <1>4, PartOf DEF Framed
<1>6. \A i \in 1 .. Len(t) : t[i] = s[i + 2] /\ i + 2 \in 1 .. Len(s) /\ (i > 1 => t[i - 1] = s[i + 1])
  BY <1>1
<1>7. Framed(t)
  <2> SUFFICES ASSUME NEW i \in 1 .. Len(t)
               PROVE  /\ t[i] = Unknown => i = Len(t)
                      /\ IsPart(t[i], "payload") =>
                            i > 1 /\ IsPart(t[i - 1], "header") /\ t[i - 1].frame = t[i].frame
                      /\ IsPart(t[i], "header") /\ i > 1 => IsPart(t[i - 1], "payload")
    BY DEF Framed
  <2>1. PICK j \in 1 .. Len(s) : j = i + 2
    BY <1>6
  <2>2. /\ s[j] = Unknown => j = Len(s)
        /\ IsPart(s[j], "payload") => IsPart(s[j - 1], "header") /\ s[j - 1].frame = s[j].frame
        /\ IsPart(s[j], "header") => IsPart(s[j - 1], "payload")
    BY <2>1 DEF Framed
  <2>3. t[i] = s[j] /\ j - 1 = i + 1 /\ (i = 1 => j - 1 = 2) /\ (i > 1 => t[i - 1] = s[j - 1])
    BY <1>6, <2>1
  <2> QED
    BY <1>1, <1>4, <2>1, <2>2, <2>3
<1>8. Torn(s) => Torn(t)
  <2> SUFFICES ASSUME Torn(s) PROVE Torn(t)
    OBVIOUS
  <2>1. s[Len(s)] = Unknown
    BY <1>1 DEF Torn
  <2>2. Len(s) # 2
    BY <1>1, <2>1
  <2>3. Len(t) \in 1 .. Len(t) /\ Len(t) + 2 = Len(s)
    BY <1>1, <2>2
  <2>4. t[Len(t)] = Unknown
    BY <1>6, <2>1, <2>3
  <2>5. t # <<>>
    BY <2>3
  <2> QED
    BY <1>1, <2>4, <2>5 DEF Torn
<1>9. IsPart(Last(s), "header") => t # <<>> /\ Last(t) = Last(s)
  BY <1>1, <1>4, <1>6
<1> QED
  BY <1>2, <1>5, <1>7, <1>8, <1>9

\* What is cut off after some piece is still framed.
LEMMA FrontFramed ==
    ASSUME NEW s \in Seq(Piece), Framed(s), NEW t \in Seq(Piece), Len(t) <= Len(s),
           \A i \in 1 .. Len(t) : t[i] = s[i]
    PROVE  Framed(t)
<1>1. Len(s) \in Nat /\ Len(t) \in Nat
  OBVIOUS
<1> SUFFICES ASSUME NEW i \in 1 .. Len(t)
             PROVE  /\ t[i] = Unknown => i = Len(t)
                    /\ IsPart(t[i], "payload") =>
                          i > 1 /\ IsPart(t[i - 1], "header") /\ t[i - 1].frame = t[i].frame
                    /\ IsPart(t[i], "header") /\ i > 1 => IsPart(t[i - 1], "payload")
  BY DEF Framed
<1>2. i \in 1 .. Len(s) /\ t[i] = s[i]
  BY <1>1
<1>3. i > 1 => i - 1 \in 1 .. Len(t)
  BY <1>1
<1>4. i > 1 => t[i - 1] = s[i - 1]
  BY <1>3
<1> QED
  BY <1>1, <1>2, <1>4 DEF Framed

-----------------------------------------------------------------------------
(* All streams.                                                            *)

Streams == [Procs -> [Conn -> Seq(Piece)]]

\* No copy of m for q is in d that was not in c.
StreamsLess(c, d, m, q) ==
    /\ SomeStreamed(d, m, q) => SomeStreamed(c, m, q)
    /\ OneStreamed(c, m, q) => OneStreamed(d, m, q)

\* Every payload of d was in c, at a place that depends on its own.
Shifted(c, d, by) ==
    \A p \in Procs, k \in Conn : \A i \in 1 .. Len(d[p][k]) :
       IsPart(d[p][k][i], "payload") =>
          i + by[p][k] \in 1 .. Len(c[p][k]) /\ d[p][k][i] = c[p][k][i + by[p][k]]

LEMMA ShiftedPlace ==
    ASSUME NEW c \in Streams, NEW d \in Streams, NEW by \in [Procs -> [Conn -> Nat]], Shifted(c, d, by),
           NEW m, NEW q, NEW p \in Procs, NEW k \in Conn, NEW i \in Nat, Streamed(d, p, k, i, m, q)
    PROVE  i + by[p][k] \in Nat /\ Streamed(c, p, k, i + by[p][k], m, q)
<1>1. i \in 1 .. Len(d[p][k]) /\ IsPart(d[p][k][i], "payload") /\ Carries(d[p][k][i].frame, m, q)
  BY DEF Streamed
<1>2. i + by[p][k] \in 1 .. Len(c[p][k]) /\ d[p][k][i] = c[p][k][i + by[p][k]]
  BY <1>1 DEF Shifted
<1> QED
  BY <1>1, <1>2 DEF Streamed

LEMMA ShiftedLess ==
    ASSUME NEW c \in Streams, NEW d \in Streams, NEW by \in [Procs -> [Conn -> Nat]], Shifted(c, d, by),
           NEW m, NEW q
    PROVE  StreamsLess(c, d, m, q)
<1>1. SomeStreamed(d, m, q) => SomeStreamed(c, m, q)
  BY ShiftedPlace DEF SomeStreamed
<1>2. ASSUME OneStreamed(c, m, q),
             NEW p \in Procs, NEW r \in Procs, NEW k \in Conn, NEW h \in Conn, NEW i \in Nat, NEW j \in Nat,
             Streamed(d, p, k, i, m, q), Streamed(d, r, h, j, m, q)
      PROVE  p = r /\ k = h /\ i = j
  <2>1. i + by[p][k] \in Nat /\ Streamed(c, p, k, i + by[p][k], m, q)
    BY <1>2, ShiftedPlace
  <2>2. j + by[r][h] \in Nat /\ Streamed(c, r, h, j + by[r][h], m, q)
    BY <1>2, ShiftedPlace
  <2>3. p = r /\ k = h /\ i + by[p][k] = j + by[r][h]
    BY <1>2, <2>1, <2>2 DEF OneStreamed
  <2> QED
    BY <2>3
<1> QED
  BY <1>1, <1>2 DEF StreamsLess, OneStreamed

\* Streams that keep some of their first pieces.
LEMMA CutLess ==
    ASSUME NEW c \in Streams, NEW d \in Streams, NEW m, NEW q,
           \A p \in Procs, k \in Conn : \A i \in 1 .. Len(d[p][k]) :
              IsPart(d[p][k][i], "payload") => i \in 1 .. Len(c[p][k]) /\ d[p][k][i] = c[p][k][i]
    PROVE  StreamsLess(c, d, m, q)
<1> DEFINE by == [p \in Procs |-> [k \in Conn |-> 0]]
<1>1. by \in [Procs -> [Conn -> Nat]] /\ \A p \in Procs, k \in Conn : by[p][k] = 0
  OBVIOUS
<1> HIDE DEF by
<1>2. Shifted(c, d, by)
  BY <1>1 DEF Shifted
<1> QED
  BY <1>1, <1>2, ShiftedLess

\* A header that is written is no copy yet.
LEMMA HeaderLess ==
    ASSUME LinkInv, AllFramed(chan), NEW k \in Conn, NEW p \in ends[k], NEW frame \in Frame
    PROVE  /\ Written(p, k, "header", frame) \in Streams
           /\ AllFramed(Written(p, k, "header", frame))
           /\ Written(p, k, "header", frame)[p] = chan[p]
           /\ \A m, q : StreamsLess(chan, Written(p, k, "header", frame), m, q)
<1> DEFINE d == Written(p, k, "header", frame)
<1>1. Shape /\ chan \in Streams
  BY Unfold DEF Shape, MessagingTypeOK, Streams
<1>2. d \in Streams
  BY <1>1, WrittenFacts DEF Streams
<1>3. ASSUME NEW r \in Procs, NEW j \in Conn
      PROVE  d[r][j] = chan[r][j] \/ (r = Peer(p, k) /\ d[r][j] = Extended(chan[r][j], "header", frame))
  BY <1>1, WrittenFacts
<1>4. p \in Procs /\ Peer(p, k) # p
  BY <1>1, PeerFacts
<1>5. d[p] = chan[p]
  BY <1>1, <1>4 DEF Written, Streams
<1> HIDE DEF d
<1>6. ASSUME NEW r \in Procs, NEW j \in Conn
      PROVE  /\ Framed(d[r][j])
             /\ \A i \in 1 .. Len(d[r][j]) : IsPart(d[r][j][i], "payload") =>
                   i \in 1 .. Len(chan[r][j]) /\ d[r][j][i] = chan[r][j][i]
  <2>1. chan[r][j] \in Seq(Piece) /\ Framed(chan[r][j])
    BY <1>1 DEF Streams, AllFramed
  <2> QED
    BY <1>3, <2>1, HeaderWritten
<1>7. AllFramed(d)
  BY <1>6 DEF AllFramed
<1>8. \A m, q : StreamsLess(chan, d, m, q)
  BY <1>1, <1>2, <1>6, CutLess
<1> QED
  BY <1>2, <1>5, <1>7, <1>8 DEF d

\* A frame that is read is taken off its stream, header and payload, and its copy with it.
LEMMA ReadLess ==
    ASSUME NEW c \in Streams, AllFramed(c), NEW p \in Procs, NEW k \in Conn, Whole(c[p][k])
    PROVE  /\ AfterRead(p, k, c) \in Streams /\ AllFramed(AfterRead(p, k, c))
           /\ \A m, q : StreamsLess(c, AfterRead(p, k, c), m, q)
           /\ \A m, q : Carries(c[p][k][1].frame, m, q) =>
                 /\ SomeStreamed(c, m, q)
                 /\ OneStreamed(c, m, q) => ~SomeStreamed(AfterRead(p, k, c), m, q)
<1> DEFINE d == AfterRead(p, k, c)
           by == [r \in Procs |-> [j \in Conn |-> IF r = p /\ j = k THEN 2 ELSE 0]]
<1>1. Len(c[p][k]) \in Nat /\ Len(c[p][k]) >= 2 /\ c[p][k] \in Seq(Piece) /\ Framed(c[p][k])
  BY DEF Whole, Streams, AllFramed
<1>2. /\ d \in Streams
      /\ \A r \in Procs, j \in Conn : <<r, j>> # <<p, k>> => d[r][j] = c[r][j]
      /\ Len(d[p][k]) = Len(c[p][k]) - 2
      /\ \A i \in 1 .. Len(c[p][k]) - 2 : d[p][k][i] = c[p][k][i + 2]
  BY <1>1, AfterReadFacts DEF Streams
<1>3. /\ by \in [Procs -> [Conn -> Nat]] /\ by[p][k] = 2
      /\ \A r \in Procs, j \in Conn : <<r, j>> # <<p, k>> => by[r][j] = 0
  OBVIOUS
<1> HIDE DEF d, by
<1>4. d[p][k] \in Seq(Piece)
  BY <1>2 DEF Streams
<1>5. /\ IsPart(c[p][k][1], "header") /\ IsPart(c[p][k][2], "payload")
      /\ c[p][k][1].frame = c[p][k][2].frame /\ Framed(d[p][k])
  BY <1>1, <1>2, <1>4, FrameRead
<1>6. AllFramed(d)
  BY <1>2, <1>5 DEF AllFramed
<1>7. Shifted(c, d, by)
  <2> SUFFICES ASSUME NEW r \in Procs, NEW j \in Conn, NEW i \in 1 .. Len(d[r][j])
               PROVE  i + by[r][j] \in 1 .. Len(c[r][j]) /\ d[r][j][i] = c[r][j][i + by[r][j]]
    BY DEF Shifted
  <2>1. CASE r = p /\ j = k
    BY <1>1, <1>2, <1>3, <2>1
  <2>2. CASE <<r, j>> # <<p, k>>
    BY <1>2, <1>3, <2>2
  <2> QED
    BY <2>1, <2>2
<1>8. \A m, q : StreamsLess(c, d, m, q)
  BY <1>2, <1>3, <1>7, ShiftedLess
<1>9. ASSUME NEW m, NEW q, Carries(c[p][k][1].frame, m, q)
      PROVE  SomeStreamed(c, m, q) /\ (OneStreamed(c, m, q) => ~SomeStreamed(d, m, q))
  <2>1. 2 \in Nat /\ Streamed(c, p, k, 2, m, q)
    BY <1>1, <1>5, <1>9 DEF Streamed
  <2>2. ASSUME OneStreamed(c, m, q), NEW r \in Procs, NEW j \in Conn, NEW i \in Nat,
               Streamed(d, r, j, i, m, q)
        PROVE  FALSE
    <3>1. i + by[r][j] \in Nat /\ Streamed(c, r, j, i + by[r][j], m, q)
      BY <1>2, <1>3, <1>7, <2>2, ShiftedPlace
    <3>2. r = p /\ j = k /\ i + by[r][j] = 2
      BY <2>1, <2>2, <3>1 DEF OneStreamed
    <3>3. i \in 1 .. Len(d[r][j])
      BY <2>2 DEF Streamed
    <3> QED
      BY <1>3, <3>2, <3>3
  <2> QED
    BY <2>1, <2>2 DEF SomeStreamed
<1> QED
  BY <1>2, <1>6, <1>8, <1>9 DEF d

\* A payload that is written is a new copy, or is lost in a stream that is closed or torn.
LEMMA PayloadMore ==
    ASSUME LinkInv, CopyInv, NEW w \in writing, ~w.joining
    PROVE  /\ Written(w.by[1], w.conn, "payload", w.frame) \in Streams
           /\ AllFramed(Written(w.by[1], w.conn, "payload", w.frame))
           /\ \A m, q : ~Carries(w.frame, m, q) =>
                 StreamsLess(chan, Written(w.by[1], w.conn, "payload", w.frame), m, q)
           /\ \A m, q : ~SomeStreamed(chan, m, q) =>
                 OneStreamed(Written(w.by[1], w.conn, "payload", w.frame), m, q)
<1> DEFINE p == w.by[1]
           k == w.conn
           r == Peer(p, k)
           d == Written(p, k, "payload", w.frame)
<1>1. Shape /\ chan \in Streams
  BY Unfold DEF Shape, MessagingTypeOK, Streams
<1>2. p \in Procs /\ k \in Conn /\ p \in ends[k] /\ w.frame \in Frame /\ r \in Procs
  BY <1>1, WriterFacts, PeerFacts
<1>3. d \in Streams
  BY <1>1, <1>2, WrittenFacts DEF Streams
<1>4. \A m, q : StreamsLess(chan, chan, m, q)
  BY DEF StreamsLess
<1>5. \A m, q : ~SomeStreamed(chan, m, q) => OneStreamed(chan, m, q)
  BY DEF SomeStreamed, OneStreamed
<1>6. CASE d = chan
  BY <1>3, <1>4, <1>5, <1>6 DEF CopyInv
<1>7. CASE d # chan
  <2> DEFINE s == chan[r][k]
             t == Extended(s, "payload", w.frame)
             new == [part |-> "payload", frame |-> w.frame]
  <2>1. k \in open[p] /\ k \in open[r] /\ d = [chan EXCEPT ![r][k] = t]
    BY <1>7 DEF Written
  <2>2. s \in Seq(Piece) /\ Framed(s)
    BY <1>1, <1>2 DEF Streams, CopyInv, AllFramed
  <2>3. Pending(w, open)
    BY <2>1 DEF Pending
  <2>4. Torn(s) \/ (s # <<>> /\ Last(s) = [part |-> "header", frame |-> w.frame])
    BY <2>3 DEF CopyInv, HeaderWaits
  <2>5. /\ Framed(t)
        /\ \/ t = s
           \/ /\ Len(t) = Len(s) + 1 /\ \A i \in 1 .. Len(s) : t[i] = s[i]
              /\ t[Len(s) + 1] = new
    BY <1>2, <2>2, <2>4, PayloadWritten
  <2>6. new.part = "payload" /\ new.frame = w.frame
    OBVIOUS
  <2> HIDE DEF d, t, new, p, k, r
  <2>7. /\ d[r][k] = t
        /\ \A h \in Procs, j \in Conn : <<h, j>> # <<r, k>> => d[h][j] = chan[h][j]
    BY <1>1, <1>2, <2>1 DEF Streams
  <2> HIDE DEF s
  <2>8. AllFramed(d)
    BY <2>5, <2>7 DEF CopyInv, AllFramed
  <2>9. Len(s) \in Nat
    BY <2>2
  <2>10. ASSUME NEW m, NEW q, NEW h \in Procs, NEW j \in Conn, NEW i \in Nat, Streamed(d, h, j, i, m, q)
         PROVE  \/ Streamed(chan, h, j, i, m, q)
                \/ h = r /\ j = k /\ i = Len(s) + 1 /\ Carries(w.frame, m, q)
    <3>1. CASE <<h, j>> # <<r, k>>
      BY <2>7, <2>10, <3>1 DEF Streamed
    <3>2. CASE h = r /\ j = k
      <4>1. i \in 1 .. Len(t) /\ IsPart(t[i], "payload") /\ Carries(t[i].frame, m, q)
        BY <2>7, <2>10, <3>2 DEF Streamed
      <4>2. CASE i = Len(s) + 1 /\ t # s
        BY <2>5, <2>6, <3>2, <4>1, <4>2
      <4>3. CASE i \in 1 .. Len(s) /\ t[i] = s[i]
        BY <3>2, <4>1, <4>3 DEF Streamed, s
      <4> QED
        BY <2>5, <2>9, <4>1, <4>2, <4>3
    <3> QED
      BY <3>1, <3>2
  <2>11. ASSUME NEW m, NEW q, ~Carries(w.frame, m, q)
         PROVE  StreamsLess(chan, d, m, q)
    <3>1. \A h \in Procs, j \in Conn, i \in Nat : Streamed(d, h, j, i, m, q) => Streamed(chan, h, j, i, m, q)
      BY <2>10, <2>11
    <3> QED
      BY <3>1 DEF StreamsLess, SomeStreamed, OneStreamed
  <2>12. ASSUME NEW m, NEW q, ~SomeStreamed(chan, m, q)
         PROVE  OneStreamed(d, m, q)
    <3>1. \A h \in Procs, j \in Conn, i \in Nat :
             Streamed(d, h, j, i, m, q) => h = r /\ j = k /\ i = Len(s) + 1
      BY <2>10, <2>12 DEF SomeStreamed
    <3> QED
      BY <3>1 DEF OneStreamed
  <2> QED
    BY <1>3, <2>8, <2>11, <2>12 DEF d, p, k
<1> QED
  BY <1>6, <1>7

-----------------------------------------------------------------------------
(* Queues and writers.                                                     *)

QueueLess(s, t, m, q) ==
    /\ SomeQueued(t, m, q) => SomeQueued(s, m, q)
    /\ OneQueued(s, m, q) => OneQueued(t, m, q)

ForwardLess(ws, vs, m, q) ==
    /\ SomeForwarded(vs, m, q) => SomeForwarded(ws, m, q)
    /\ OneForwarded(ws, m, q) => OneForwarded(vs, m, q)

\* What has been sent, or is given up, leaves the queue.
LEMMA AfterSendLess ==
    ASSUME MessagesOK, NEW p \in Procs, sending[p] # <<>>, NEW ok, AfterSend(p, ok)
    PROVE  /\ \A m, q : QueueLess(sending, sending', m, q)
           /\ \A m, q : Carries(sending[p][1], m, q) =>
                 /\ SomeQueued(sending, m, q)
                 /\ OneQueued(sending, m, q) => ~SomeQueued(sending', m, q)
           /\ QueuesAddressed(sending) => QueuesAddressed(sending')
<1>1. sending \in [Procs -> Seq(DataFrame)] /\ sending[p] \in Seq(DataFrame)
  BY DEF MessagesOK
<1>2. PICK t : sending' = [sending EXCEPT ![p] = t] /\ (t = Tail(sending[p]) \/ t = <<>>)
  BY DEF AfterSend
<1>3. Len(sending[p]) \in Nat /\ Len(sending[p]) >= 1
  BY <1>1
<1>4. \A i \in 1 .. Len(t) : i + 1 \in 1 .. Len(sending[p]) /\ t[i] = sending[p][i + 1]
  <2>1. CASE t = Tail(sending[p])
    BY <1>1, <1>3, <2>1
  <2>2. CASE t = <<>>
    BY <2>2
  <2> QED
    BY <1>2, <2>1, <2>2
<1>5. sending'[p] = t /\ \A r \in Procs : r # p => sending'[r] = sending[r]
  BY <1>1, <1>2
<1>6. ASSUME NEW m, NEW q, NEW r \in Procs, NEW i \in Nat, Queued(sending', r, i, m, q)
      PROVE  i \in 1 .. Len(sending'[r]) /\ Queued(sending, r, IF r = p THEN i + 1 ELSE i, m, q)
  BY <1>4, <1>5, <1>6 DEF Queued
<1>7. ASSUME NEW m, NEW q PROVE QueueLess(sending, sending', m, q)
  <2>1. SomeQueued(sending', m, q) => SomeQueued(sending, m, q)
    BY <1>6 DEF SomeQueued
  <2>2. ASSUME OneQueued(sending, m, q), NEW r \in Procs, NEW h \in Procs, NEW i \in Nat, NEW j \in Nat,
               Queued(sending', r, i, m, q), Queued(sending', h, j, m, q)
        PROVE  r = h /\ i = j
    <3>1. /\ Queued(sending, r, IF r = p THEN i + 1 ELSE i, m, q)
          /\ Queued(sending, h, IF h = p THEN j + 1 ELSE j, m, q)
      BY <1>6, <2>2
    <3> QED
      BY <2>2, <3>1 DEF OneQueued
  <2> QED
    BY <2>1, <2>2 DEF QueueLess, OneQueued
<1>8. ASSUME NEW m, NEW q, Carries(sending[p][1], m, q)
      PROVE  SomeQueued(sending, m, q) /\ (OneQueued(sending, m, q) => ~SomeQueued(sending', m, q))
  <2>1. 1 \in Nat /\ Queued(sending, p, 1, m, q)
    BY <1>3, <1>8 DEF Queued
  <2>2. ASSUME OneQueued(sending, m, q), NEW r \in Procs, NEW i \in Nat, Queued(sending', r, i, m, q)
        PROVE  FALSE
    <3>1. i \in 1 .. Len(sending'[r]) /\ Queued(sending, r, IF r = p THEN i + 1 ELSE i, m, q)
      BY <1>6, <2>2
    <3>2. r = p /\ (IF r = p THEN i + 1 ELSE i) = 1
      BY <2>1, <2>2, <3>1 DEF OneQueued
    <3> QED
      BY <3>1, <3>2
  <2> QED
    BY <2>1, <2>2 DEF SomeQueued
<1>9. QueuesAddressed(sending) => QueuesAddressed(sending')
  <2> SUFFICES ASSUME QueuesAddressed(sending), NEW r \in Procs, NEW i \in 1 .. Len(sending'[r])
               PROVE  Addressed(sending'[r][i])
    BY DEF QueuesAddressed
  <2>1. CASE r = p
    BY <1>4, <1>5, <2>1 DEF QueuesAddressed
  <2>2. CASE r # p
    BY <1>5, <2>2 DEF QueuesAddressed
  <2> QED
    BY <2>1, <2>2
<1> QED
  BY <1>7, <1>8, <1>9

\* A header that a reader writes starts to send a copy on; that of a sender does not.
LEMMA HeaderForwards ==
    ASSUME NEW p, NEW t, NEW k, NEW frame, SendHeader(p, t, k, frame)
    PROVE  /\ \A m, q : t = 0 \/ ~Carries(frame, m, q) => ForwardLess(writing, writing', m, q)
           /\ \A m, q : ~SomeForwarded(writing, m, q) => OneForwarded(writing', m, q)
           /\ WritersAddressed(writing) /\ Addressed(frame) => WritersAddressed(writing')
<1> DEFINE new == [by |-> <<p, t>>, conn |-> k, frame |-> frame, joining |-> FALSE]
<1>1. writing' = writing \/ writing' = writing \cup {new}
  BY DEF SendHeader
<1>2. new.by[2] = t /\ new.frame = frame
  OBVIOUS
<1> HIDE DEF new
<1>3. \A w \in writing' : w \in writing \/ w = new
  BY <1>1
<1>4. ASSUME NEW m, NEW q, t = 0 \/ ~Carries(frame, m, q)
      PROVE  ForwardLess(writing, writing', m, q)
  <2>1. ~Forwarded(new, m, q)
    BY <1>2, <1>4 DEF Forwarded
  <2> QED
    BY <1>3, <2>1 DEF ForwardLess, SomeForwarded, OneForwarded
<1>5. ASSUME NEW m, NEW q, ~SomeForwarded(writing, m, q)
      PROVE  OneForwarded(writing', m, q)
  BY <1>3, <1>5 DEF SomeForwarded, OneForwarded
<1>6. ASSUME WritersAddressed(writing), Addressed(frame) PROVE WritersAddressed(writing')
  BY <1>2, <1>3, <1>6 DEF WritersAddressed
<1> QED
  BY <1>4, <1>5, <1>6

\* Writers that are gone, or that join, forward nothing.
LEMMA FewerForward ==
    ASSUME NEW ws, NEW vs, NEW m, NEW q, \A v \in vs : ~v.joining => v \in ws
    PROVE  ForwardLess(ws, vs, m, q)
  BY DEF ForwardLess, SomeForwarded, OneForwarded, Forwarded

LEMMA SameLess ==
    \A s, m, q : QueueLess(s, s, m, q) /\ StreamsLess(s, s, m, q) /\ ForwardLess(s, s, m, q)
  BY DEF QueueLess, StreamsLess, ForwardLess

-----------------------------------------------------------------------------
(* Threads between a header and its payload.                               *)

LEMMA HeaderStarts ==
    ASSUME LinkInv, CopyInv, NEW k \in Conn, NEW p \in ends[k], NEW t, NEW frame \in Frame,
           SendHeader(p, t, k, frame)
    PROVE  HeaderWaits(writing', open, Written(p, k, "header", frame))
<1> DEFINE d == Written(p, k, "header", frame)
           new == [by |-> <<p, t>>, conn |-> k, frame |-> frame, joining |-> FALSE]
           r == Peer(p, k)
<1>1. Shape /\ chan \in Streams
  BY Unfold DEF Shape, MessagingTypeOK, Streams
<1>2. p \in Procs /\ r \in Procs /\ r # p
  BY <1>1, PeerFacts
<1>3. writing' = writing \/ writing' = writing \cup {new}
  BY DEF SendHeader
<1>4. new.by[1] = p /\ new.conn = k /\ new.frame = frame
  OBVIOUS
<1>5. \A h \in Procs, j \in Conn : <<h, j>> # <<r, k>> => d[h][j] = chan[h][j]
  BY <1>1, <1>2 DEF Written, Streams
<1>6. k \in open[p] /\ k \in open[r] => d[r][k] = Extended(chan[r][k], "header", frame)
  BY <1>1, <1>2 DEF Written, Streams
<1>7. chan[r][k] \in Seq(Piece) /\ Framed(chan[r][k])
  BY <1>1, <1>2 DEF Streams, CopyInv, AllFramed
<1>8. ASSUME NEW w \in writing
      PROVE  /\ w.by[1] \in Procs /\ w.conn \in Conn /\ w.by[1] \in ends[w.conn]
             /\ Peer(w.by[1], w.conn) \in Procs
             /\ w.conn = k /\ w.by[1] # p => Peer(w.by[1], w.conn) # r
  BY <1>1, <1>2, WriterFacts, PeerFacts
<1> HIDE DEF d, new, r
<1>9. ASSUME NEW w \in writing', Pending(w, open)
      PROVE  LET s == d[Peer(w.by[1], w.conn)][w.conn] IN
             \/ Torn(s)
             \/ /\ s # <<>> /\ Last(s) = [part |-> "header", frame |-> w.frame]
                /\ \A v \in writing' : Pending(v, open) /\ v.by[1] = w.by[1] /\ v.conn = w.conn => v = w
  <2>1. CASE w.conn # k \/ w.by[1] # p
    <3>1. w \in writing /\ \A v \in writing' : v.by[1] = w.by[1] /\ v.conn = w.conn => v \in writing
      BY <1>3, <1>4, <2>1
    <3>2. d[Peer(w.by[1], w.conn)][w.conn] = chan[Peer(w.by[1], w.conn)][w.conn]
      BY <1>5, <1>8, <2>1, <3>1
    <3> QED
      BY <1>9, <3>1, <3>2 DEF CopyInv, HeaderWaits
  <2>2. CASE w.conn = k /\ w.by[1] = p
    <3>1. k \in open[p] /\ k \in open[r]
      BY <1>9, <2>2 DEF Pending, r
    <3>2. /\ d[r][k] = Extended(chan[r][k], "header", frame)
          /\ \/ Torn(d[r][k])
             \/ /\ d[r][k] # <<>> /\ Last(d[r][k]) = [part |-> "header", frame |-> frame]
                /\ ~Torn(chan[r][k]) /\ (chan[r][k] # <<>> => ~IsPart(Last(chan[r][k]), "header"))
      BY <1>6, <1>7, <3>1, HeaderWritten
    <3>3. CASE Torn(d[r][k])
      BY <2>2, <3>3 DEF r
    <3>4. CASE ~Torn(d[r][k])
      <4>1. ASSUME NEW v \in writing, Pending(v, open), v.by[1] = p, v.conn = k
            PROVE  FALSE
        <5>1. chan[r][k] # <<>> /\ Last(chan[r][k]) = [part |-> "header", frame |-> v.frame]
          BY <3>2, <3>4, <4>1 DEF CopyInv, HeaderWaits, r
        <5>2. v.frame \in Frame
          BY <1>1, WriterFacts
        <5>3. IsPart(Last(chan[r][k]), "header")
          BY <5>1, <5>2, PieceFacts DEF IsPart
        <5> QED
          BY <3>2, <3>4, <5>1, <5>3
      <4>2. \A v \in writing' : Pending(v, open) /\ v.by[1] = p /\ v.conn = k => v = new
        BY <1>3, <4>1
      <4>3. w = new
        BY <1>9, <2>2, <4>2
      <4> QED
        BY <1>4, <2>2, <3>2, <3>4, <4>2, <4>3 DEF r
    <3> QED
      BY <3>3, <3>4
  <2> QED
    BY <2>1, <2>2
<1> QED
  BY <1>9 DEF HeaderWaits, d

LEMMA ReadWaits ==
    ASSUME NEW c \in Streams, AllFramed(c), NEW p \in Procs, NEW k \in Conn, Whole(c[p][k]), NEW ws, NEW o,
           \A w \in ws : w.conn \in Conn /\ Peer(w.by[1], w.conn) \in Procs /\ w.frame \in Frame,
           HeaderWaits(ws, o, c)
    PROVE  HeaderWaits(ws, o, AfterRead(p, k, c))
<1> DEFINE d == AfterRead(p, k, c)
<1>1. Len(c[p][k]) >= 2 /\ c[p][k] \in Seq(Piece) /\ Framed(c[p][k])
  BY DEF Whole, Streams, AllFramed
<1>2. /\ d \in Streams
      /\ \A r \in Procs, j \in Conn : <<r, j>> # <<p, k>> => d[r][j] = c[r][j]
      /\ Len(d[p][k]) = Len(c[p][k]) - 2
      /\ \A i \in 1 .. Len(c[p][k]) - 2 : d[p][k][i] = c[p][k][i + 2]
  BY <1>1, AfterReadFacts DEF Streams
<1> HIDE DEF d
<1>3. d[p][k] \in Seq(Piece)
  BY <1>2 DEF Streams
<1>4. /\ Torn(c[p][k]) => Torn(d[p][k])
      /\ IsPart(Last(c[p][k]), "header") => d[p][k] # <<>> /\ Last(d[p][k]) = Last(c[p][k])
  BY <1>1, <1>2, <1>3, FrameRead
<1>5. \A w \in ws : IsPart([part |-> "header", frame |-> w.frame], "header")
  BY PieceFacts DEF IsPart
<1>6. ASSUME NEW w \in ws, Pending(w, o)
      PROVE  LET s == d[Peer(w.by[1], w.conn)][w.conn] IN
             \/ Torn(s)
             \/ /\ s # <<>> /\ Last(s) = [part |-> "header", frame |-> w.frame]
                /\ \A v \in ws : Pending(v, o) /\ v.by[1] = w.by[1] /\ v.conn = w.conn => v = w
  <2> DEFINE r == Peer(w.by[1], w.conn)
  <2>1. \/ Torn(c[r][w.conn])
        \/ /\ c[r][w.conn] # <<>> /\ Last(c[r][w.conn]) = [part |-> "header", frame |-> w.frame]
           /\ \A v \in ws : Pending(v, o) /\ v.by[1] = w.by[1] /\ v.conn = w.conn => v = w
    BY <1>6 DEF HeaderWaits
  <2>2. CASE <<r, w.conn>> # <<p, k>>
    BY <1>2, <2>1, <2>2
  <2>3. CASE r = p /\ w.conn = k
    BY <1>4, <1>5, <2>1, <2>3
  <2> QED
    BY <2>2, <2>3
<1> QED
  BY <1>6 DEF HeaderWaits, d

\* Fewer writers and fewer open connections: streams that are closed do not matter.
LEMMA CloseWaits ==
    ASSUME HeaderWaits(writing, open, chan), NEW vs, NEW o, NEW d,
           \A v \in vs : v.by[1] \in Procs /\ v.conn \in Conn /\ Peer(v.by[1], v.conn) \in Procs,
           \A v \in vs : ~v.joining => v \in writing,
           \A r \in Procs : o[r] \subseteq open[r],
           \A r \in Procs, j \in Conn : d[r][j] = chan[r][j] \/ j \notin o[r]
    PROVE  HeaderWaits(vs, o, d)
<1>1. \A v \in vs : Pending(v, o) => v \in writing /\ Pending(v, open)
  BY DEF Pending
<1>2. \A v \in vs : Pending(v, o) =>
         d[Peer(v.by[1], v.conn)][v.conn] = chan[Peer(v.by[1], v.conn)][v.conn]
  BY DEF Pending
<1> QED
  BY <1>1, <1>2 DEF HeaderWaits

LEMMA PayloadWaits ==
    ASSUME LinkInv, CopyInv, NEW w \in writing, ~w.joining
    PROVE  HeaderWaits(writing \ {w}, open, Written(w.by[1], w.conn, "payload", w.frame))
<1> DEFINE p == w.by[1]
           k == w.conn
           r == Peer(p, k)
           d == Written(p, k, "payload", w.frame)
<1>1. Shape /\ chan \in Streams
  BY Unfold DEF Shape, MessagingTypeOK, Streams
<1>2. p \in Procs /\ k \in Conn /\ p \in ends[k] /\ r \in Procs
  BY <1>1, WriterFacts, PeerFacts
<1>3. \A h \in Procs, j \in Conn : <<h, j>> # <<r, k>> => d[h][j] = chan[h][j]
  BY <1>1, <1>2 DEF Written, Streams
<1>4. d[r][k] = chan[r][k] \/ d[r][k] = Extended(chan[r][k], "payload", w.frame)
  BY <1>1, <1>2 DEF Written, Streams
<1>5. Torn(chan[r][k]) => d[r][k] = chan[r][k]
  BY <1>4 DEF Extended
<1>6. ASSUME NEW v \in writing
      PROVE  /\ v.by[1] \in Procs /\ v.conn \in Conn /\ Peer(v.by[1], v.conn) \in Procs
             /\ v.conn = k /\ v.by[1] # p => Peer(v.by[1], v.conn) # r
  BY <1>1, <1>2, WriterFacts, PeerFacts
<1> HIDE DEF d, r
<1>7. ASSUME NEW v \in writing, v # w, Pending(v, open)
      PROVE  LET s == d[Peer(v.by[1], v.conn)][v.conn] IN
             \/ Torn(s)
             \/ /\ s # <<>> /\ Last(s) = [part |-> "header", frame |-> v.frame]
                /\ \A u \in writing \ {w} : Pending(u, open) /\ u.by[1] = v.by[1] /\ u.conn = v.conn => u = v
  <2>1. CASE v.conn # k \/ v.by[1] # p
    <3>1. d[Peer(v.by[1], v.conn)][v.conn] = chan[Peer(v.by[1], v.conn)][v.conn]
      BY <1>3, <1>6, <2>1
    <3> QED
      BY <1>7, <3>1 DEF CopyInv, HeaderWaits
  <2>2. CASE v.conn = k /\ v.by[1] = p
    <3>1. Pending(w, open)
      BY <1>7, <2>2 DEF Pending
    <3>2. Torn(chan[r][k])
      BY <1>7, <2>2, <3>1 DEF CopyInv, HeaderWaits, r
    <3> QED
      BY <1>5, <2>2, <3>2 DEF r
  <2> QED
    BY <2>1, <2>2
<1> QED
  BY <1>7 DEF HeaderWaits, d

-----------------------------------------------------------------------------
(* Frames go where their message goes.                                     *)

LEMMA WrittenAddressed ==
    ASSUME LinkInv, StreamsAddressed(chan), NEW k \in Conn, NEW p \in ends[k],
           NEW part \in {"header", "payload"}, NEW frame \in Frame, Addressed(frame)
    PROVE  StreamsAddressed(Written(p, k, part, frame))
<1>1. Shape
  BY Unfold
<1>2. \A r \in Procs, h \in Conn :
         \/ Written(p, k, part, frame)[r][h] = chan[r][h]
         \/ /\ r = Peer(p, k) /\ h = k /\ k \in open[p] /\ k \in open[r]
            /\ Written(p, k, part, frame)[r][h] = Extended(chan[r][h], part, frame)
  BY <1>1, WrittenFacts
<1> SUFFICES ASSUME NEW q \in Procs, NEW j \in Conn,
                    NEW i \in 1 .. Len(Written(p, k, part, frame)[q][j]),
                    Written(p, k, part, frame)[q][j][i] # Unknown
             PROVE  Addressed(Written(p, k, part, frame)[q][j][i].frame)
  BY DEF StreamsAddressed
<1>3. CASE Written(p, k, part, frame)[q][j] = chan[q][j]
  BY <1>3 DEF StreamsAddressed
<1>4. CASE Written(p, k, part, frame)[q][j] = Extended(chan[q][j], part, frame)
  <2>1. chan[q][j] \in Seq(Piece)
    BY <1>1 DEF Shape, MessagingTypeOK
  <2>2. \A n \in 1 .. Len(Extended(chan[q][j], part, frame)) :
           \/ Extended(chan[q][j], part, frame)[n] \in {Unknown, [part |-> part, frame |-> frame]}
           \/ n \in 1 .. Len(chan[q][j]) /\ Extended(chan[q][j], part, frame)[n] = chan[q][j][n]
    BY <2>1, ExtendedFacts
  <2>3. \/ Written(p, k, part, frame)[q][j][i] = [part |-> part, frame |-> frame]
        \/ i \in 1 .. Len(chan[q][j]) /\ Written(p, k, part, frame)[q][j][i] = chan[q][j][i]
    BY <1>4, <2>2
  <2> QED
    BY <2>3 DEF StreamsAddressed
<1> QED
  BY <1>2, <1>3, <1>4

LEMMA ReadAddressed ==
    ASSUME NEW c \in Streams, StreamsAddressed(c), NEW p \in Procs, NEW k \in Conn, Len(c[p][k]) >= 2
    PROVE  StreamsAddressed(AfterRead(p, k, c))
<1> DEFINE d == AfterRead(p, k, c)
<1>1. /\ \A r \in Procs, j \in Conn : <<r, j>> # <<p, k>> => d[r][j] = c[r][j]
      /\ Len(d[p][k]) = Len(c[p][k]) - 2
      /\ \A i \in 1 .. Len(c[p][k]) - 2 : d[p][k][i] = c[p][k][i + 2]
  BY AfterReadFacts DEF Streams
<1>2. Len(c[p][k]) \in Nat
  BY DEF Streams
<1> HIDE DEF d
<1>3. ASSUME NEW q \in Procs, NEW j \in Conn, NEW i \in 1 .. Len(d[q][j]), d[q][j][i] # Unknown
      PROVE  Addressed(d[q][j][i].frame)
  <2>1. CASE <<q, j>> # <<p, k>>
    BY <1>1, <1>3, <2>1 DEF StreamsAddressed
  <2>2. CASE q = p /\ j = k
    <3>1. d[q][j][i] = c[q][j][i + 2] /\ i + 2 \in 1 .. Len(c[q][j])
      BY <1>1, <1>2, <2>2
    <3> QED
      BY <1>3, <3>1 DEF StreamsAddressed
  <2> QED
    BY <2>1, <2>2
<1> QED
  BY <1>3 DEF StreamsAddressed, d

\* A message is dispatched where it is addressed to.
LEMMA ResolvedHere ==
    ASSUME NEW p \in Procs, NEW target, ResolveSingleTarget(p, target) = p
    PROVE  target = p
<1>1. CASE target = p \/ ActiveLinks(p, target) # {}
  BY <1>1 DEF ResolveSingleTarget
<1>2. CASE ~(target = p \/ ActiveLinks(p, target) # {}) /\ Relays \subseteq {p}
  BY <1>2, MessagingAssumption DEF ResolveSingleTarget
<1>3. CASE ~(target = p \/ ActiveLinks(p, target) # {}) /\ ~(Relays \subseteq {p})
  <2>1. \E r : r \in Relays \ {p}
    BY <1>3
  <2>2. (CHOOSE r \in Relays \ {p} : TRUE) # p
    BY <2>1
  <2> QED
    BY <1>3, <2>2 DEF ResolveSingleTarget
<1> QED
  BY <1>1, <1>2, <1>3

-----------------------------------------------------------------------------
(* Copies are moved and lost, and never made.                              *)

LEMMA CopyFold ==
    ASSUME UNCHANGED <<ends, messages>>, QueuesAddressed(sending'), WritersAddressed(writing'),
           StreamsAddressed(chan'), \A m \in Id, q \in Procs : got'[m][q] # 0 => q \in messages[m],
           AllFramed(chan'), HeaderWaits(writing', open', chan'), SendersFirst(writing', sending'),
           \A m \in Id, q \in Procs : OneCopy(sending', chan', writing', got'[m][q], m, q)
    PROVE  CopyInv'
<1>1. \A frame : Addressed(frame)' <=> Addressed(frame)
  BY DEF Addressed
<1>2. AllAddressed'
  BY <1>1 DEF AllAddressed, QueuesAddressed, WritersAddressed, StreamsAddressed
<1>3. \A p, k : Peer(p, k)' = Peer(p, k)
  BY DEF Peer
<1>4. HeaderWaits(writing, open, chan)'
  BY <1>3 DEF HeaderWaits, Pending
<1> QED
  BY <1>2, <1>4 DEF CopyInv

\* A step after which there is nothing new.
LEMMA LessCopies ==
    ASSUME NEW s, NEW c, NEW ws, NEW n, NEW m, NEW q, OneCopy(s, c, ws, n, m, q),
           NEW s2, NEW c2, NEW ws2, QueueLess(s, s2, m, q), StreamsLess(c, c2, m, q),
           ForwardLess(ws, ws2, m, q)
    PROVE  OneCopy(s2, c2, ws2, n, m, q)
  BY DEF OneCopy, QueueLess, StreamsLess, ForwardLess

\* A step that puts the queued copy into a stream.
LEMMA QueuedToStream ==
    ASSUME NEW s, NEW c, NEW ws, NEW n, NEW m, NEW q, OneCopy(s, c, ws, n, m, q),
           NEW s2, NEW c2, NEW ws2, SomeQueued(s, m, q), OneQueued(s, m, q) => ~SomeQueued(s2, m, q),
           QueueLess(s, s2, m, q), ForwardLess(ws, ws2, m, q),
           ~SomeStreamed(c, m, q) => OneStreamed(c2, m, q)
    PROVE  OneCopy(s2, c2, ws2, n, m, q)
  BY DEF OneCopy, QueueLess, ForwardLess

\* A step that puts the copy a reader has into a stream.
LEMMA ForwardedToStream ==
    ASSUME NEW s, NEW c, NEW ws, NEW n, NEW m, NEW q, OneCopy(s, c, ws, n, m, q),
           NEW c2, NEW ws2, SomeForwarded(ws, m, q), ~SomeForwarded(ws2, m, q),
           OneForwarded(ws2, m, q), ~SomeStreamed(c, m, q) => OneStreamed(c2, m, q)
    PROVE  OneCopy(s, c2, ws2, n, m, q)
  BY DEF OneCopy

\* A step by which a reader takes the copy off a stream.
LEMMA StreamToForwarded ==
    ASSUME NEW s, NEW c, NEW ws, NEW n, NEW m, NEW q, OneCopy(s, c, ws, n, m, q),
           NEW c2, NEW ws2, SomeStreamed(c, m, q), ~SomeStreamed(c2, m, q), OneStreamed(c2, m, q),
           ~SomeForwarded(ws, m, q) => OneForwarded(ws2, m, q)
    PROVE  OneCopy(s, c2, ws2, n, m, q)
  BY DEF OneCopy

\* Steps that dispatch a copy.
LEMMA StreamToGot ==
    ASSUME NEW s, NEW c, NEW ws, NEW n, NEW m, NEW q, OneCopy(s, c, ws, n, m, q),
           NEW c2, SomeStreamed(c, m, q), ~SomeStreamed(c2, m, q), OneStreamed(c2, m, q)
    PROVE  n = 0 /\ OneCopy(s, c2, ws, n + 1, m, q)
  BY DEF OneCopy

LEMMA QueuedToGot ==
    ASSUME NEW s, NEW c, NEW ws, NEW n, NEW m, NEW q, OneCopy(s, c, ws, n, m, q),
           NEW s2, SomeQueued(s, m, q), ~SomeQueued(s2, m, q), OneQueued(s2, m, q)
    PROVE  n = 0 /\ OneCopy(s2, c, ws, n + 1, m, q)
  BY DEF OneCopy

-----------------------------------------------------------------------------
(* At most one copy, action by action.                                     *)

LEMMA CopyFacts ==
    ASSUME LinkInv, CopyInv
    PROVE  /\ Shape /\ MessagesOK /\ chan \in Streams /\ SendersOK(writing, sending)
           /\ QueuesAddressed(sending) /\ WritersAddressed(writing) /\ StreamsAddressed(chan)
           /\ \A m \in Id, q \in Procs : got[m][q] # 0 => q \in messages[m]
           /\ AllFramed(chan) /\ HeaderWaits(writing, open, chan) /\ SendersFirst(writing, sending)
           /\ \A m \in Id, q \in Procs : OneCopy(sending, chan, writing, got[m][q], m, q)
           /\ \A w \in writing : /\ w.by[1] \in Procs /\ w.conn \in Conn /\ w.by[1] \in ends[w.conn]
                                 /\ Peer(w.by[1], w.conn) \in Procs /\ w.frame \in Frame
<1>1. Shape /\ MessagesOK /\ SendersOK(writing, sending)
  BY Unfold
<1>2. chan \in Streams
  BY <1>1 DEF Shape, MessagingTypeOK, Streams
<1>3. \A w \in writing : /\ w.by[1] \in Procs /\ w.conn \in Conn /\ w.by[1] \in ends[w.conn]
                         /\ Peer(w.by[1], w.conn) \in Procs /\ w.frame \in Frame
  BY <1>1, WriterFacts, PeerFacts
<1> QED
  BY <1>1, <1>2, <1>3 DEF CopyInv, AllAddressed

LEMMA ControlCarries ==
    \A p, m, q, kind : kind # "data" => ~Carries(Control(kind, p), m, q) /\ Addressed(Control(kind, p))
  BY DEF Carries, Addressed, Control

LEMMA ConnectCopies ==
    ASSUME LinkInv, CopyInv, NEW p \in Relays, NEW q \in Nodes, Connect(p, q)
    PROVE  CopyInv'
<1>1. PICK k \in Conn :
         /\ ends[k] = {}
         /\ ends' = [ends EXCEPT ![k] = {p, q}]
         /\ open' = [open EXCEPT ![p] = @ \cup {k}, ![q] = @ \cup {k}]
         /\ UNCHANGED <<version, ended, link, chan, writing, messageVars, faults>>
  BY DEF Connect
<1>2. p \in Procs /\ q \in Procs /\ p # q
  BY MessagingAssumption DEF Procs
<1>3. /\ Shape /\ HeaderWaits(writing, open, chan)
      /\ \A w \in writing : /\ w.by[1] \in Procs /\ w.conn \in Conn /\ w.by[1] \in ends[w.conn]
                            /\ Peer(w.by[1], w.conn) \in Procs
  BY CopyFacts
<1>4. ends \in [Conn -> SUBSET Procs] /\ open \in [Procs -> SUBSET Conn]
  BY <1>3 DEF Shape, MessagingTypeOK
<1>5. UNCHANGED <<chan, writing, sending, messages, got>>
  BY <1>1 DEF messageVars
<1>6. \A w \in writing : w.conn # k
  BY <1>1, <1>3
<1>7. \A w \in writing : Peer(w.by[1], w.conn)' = Peer(w.by[1], w.conn)
  BY <1>1, <1>3, <1>4, <1>6 DEF Peer
<1>8. \A r \in Procs, j \in Conn : j # k => (j \in open'[r] <=> j \in open[r])
  BY <1>1, <1>2, <1>4
<1>9. \A w \in writing : Pending(w, open)' <=> Pending(w, open)
  BY <1>3, <1>6, <1>7, <1>8 DEF Pending
<1>10. HeaderWaits(writing, open, chan)'
  BY <1>3, <1>5, <1>7, <1>9 DEF HeaderWaits
<1>11. \A frame : Addressed(frame)' <=> Addressed(frame)
  BY <1>5 DEF Addressed
<1>12. AllAddressed'
  BY <1>5, <1>11 DEF CopyInv, AllAddressed, QueuesAddressed, WritersAddressed, StreamsAddressed
<1> QED
  BY <1>5, <1>10, <1>12 DEF CopyInv

\* A stream that is closed, with some of its pieces left in the reader's hand.
LEMMA CutStream ==
    ASSUME LinkInv, CopyInv, NEW p \in Procs, NEW k \in Conn, NEW hand \in Seq(Piece),
           Len(hand) <= Len(chan[p][k]), \A i \in 1 .. Len(hand) : hand[i] = chan[p][k][i],
           chan' = [chan EXCEPT ![p][k] = hand]
    PROVE  /\ AllFramed(chan') /\ StreamsAddressed(chan')
           /\ \A r \in Procs, j \in Conn : <<r, j>> # <<p, k>> => chan'[r][j] = chan[r][j]
           /\ \A m, q : StreamsLess(chan, chan', m, q)
<1>1. chan \in Streams /\ AllFramed(chan) /\ StreamsAddressed(chan)
  BY CopyFacts
<1>2. chan[p][k] \in Seq(Piece) /\ Framed(chan[p][k]) /\ Len(chan[p][k]) \in Nat /\ Len(hand) \in Nat
  BY <1>1 DEF Streams, AllFramed
<1>3. /\ chan' \in Streams /\ chan'[p][k] = hand
      /\ \A r \in Procs, j \in Conn : <<r, j>> # <<p, k>> => chan'[r][j] = chan[r][j]
  BY <1>1 DEF Streams
<1>4. Framed(hand)
  BY <1>2, FrontFramed
<1>5. AllFramed(chan')
  BY <1>1, <1>3, <1>4 DEF AllFramed
<1>6. ASSUME NEW r \in Procs, NEW j \in Conn, NEW i \in 1 .. Len(chan'[r][j])
      PROVE  i \in 1 .. Len(chan[r][j]) /\ chan'[r][j][i] = chan[r][j][i]
  <2>1. CASE r = p /\ j = k
    BY <1>2, <1>3, <1>6, <2>1
  <2>2. CASE <<r, j>> # <<p, k>>
    BY <1>3, <1>6, <2>2
  <2> QED
    BY <2>1, <2>2
<1>7. StreamsAddressed(chan')
  BY <1>1, <1>6 DEF StreamsAddressed
<1>8. \A r \in Procs, j \in Conn : \A i \in 1 .. Len(chan'[r][j]) :
         IsPart(chan'[r][j][i], "payload") => i \in 1 .. Len(chan[r][j]) /\ chan'[r][j][i] = chan[r][j][i]
  BY <1>6
<1>9. ASSUME NEW m, NEW q PROVE StreamsLess(chan, chan', m, q)
  BY <1>1, <1>3, <1>8, CutLess
<1> QED
  BY <1>3, <1>5, <1>7, <1>9

LEMMA HandleDisconnectCopies ==
    ASSUME LinkInv, CopyInv, NEW p \in Procs, NEW k \in Conn, HandleDisconnect(p, k)
    PROVE  CopyInv'
<1>1. /\ open' = [open EXCEPT ![p] = @ \ {k}] /\ chan' = [chan EXCEPT ![p][k] = <<>>]
      /\ UNCHANGED <<ends, writing, sending, messages, got>>
  BY DEF HandleDisconnect, connVars
<1>2. /\ Shape /\ chan \in Streams
      /\ QueuesAddressed(sending) /\ WritersAddressed(writing)
      /\ \A m \in Id, q \in Procs : got[m][q] # 0 => q \in messages[m]
      /\ HeaderWaits(writing, open, chan) /\ SendersFirst(writing, sending)
      /\ \A m \in Id, q \in Procs : OneCopy(sending, chan, writing, got[m][q], m, q)
      /\ \A w \in writing : w.by[1] \in Procs /\ w.conn \in Conn /\ Peer(w.by[1], w.conn) \in Procs
  BY CopyFacts
<1>3. open \in [Procs -> SUBSET Conn] /\ <<>> \in Seq(Piece) /\ Len(<<>>) = 0 /\ Len(chan[p][k]) \in Nat
  BY <1>2 DEF Shape, MessagingTypeOK, Streams
<1>4. /\ AllFramed(chan') /\ StreamsAddressed(chan')
      /\ \A r \in Procs, j \in Conn : <<r, j>> # <<p, k>> => chan'[r][j] = chan[r][j]
      /\ \A m, q : StreamsLess(chan, chan', m, q)
  <2>1. PICK hand \in Seq(Piece) : hand = <<>> /\ Len(hand) = 0
    BY <1>3
  <2>2. Len(hand) <= Len(chan[p][k]) /\ \A i \in 1 .. Len(hand) : hand[i] = chan[p][k][i]
    BY <1>3, <2>1
  <2>3. chan' = [chan EXCEPT ![p][k] = hand]
    BY <1>1, <2>1
  <2> QED
    BY <2>2, <2>3, CutStream
<1>5. (\A r \in Procs : open'[r] \subseteq open[r]) /\ k \notin open'[p]
  BY <1>1, <1>3
<1>6. HeaderWaits(writing, open', chan')
  BY <1>2, <1>4, <1>5, CloseWaits
<1>7. \A m \in Id, q \in Procs : OneCopy(sending, chan', writing, got[m][q], m, q)
  BY <1>2, <1>4, SameLess, LessCopies
<1> QED
  BY <1>1, <1>2, <1>4, <1>6, <1>7, CopyFold

LEMMA WriteFailsCopies ==
    ASSUME LinkInv, CopyInv, NEW w \in writing, WriteFails(w)
    PROVE  CopyInv'
<1> DEFINE p == w.by[1]
           k == w.conn
           new == [w EXCEPT !.joining = TRUE]
<1>1. /\ open' = [open EXCEPT ![p] = @ \ {k}] /\ writing' = (writing \ {w}) \cup {new}
      /\ UNCHANGED <<ends, sending, messages, got>>
  BY DEF WriteFails, connVars
<1>2. /\ Shape /\ chan \in Streams
      /\ QueuesAddressed(sending) /\ WritersAddressed(writing)
      /\ \A m \in Id, q \in Procs : got[m][q] # 0 => q \in messages[m]
      /\ HeaderWaits(writing, open, chan) /\ SendersFirst(writing, sending)
      /\ \A m \in Id, q \in Procs : OneCopy(sending, chan, writing, got[m][q], m, q)
      /\ \A v \in writing : v.by[1] \in Procs /\ v.conn \in Conn /\ Peer(v.by[1], v.conn) \in Procs
  BY CopyFacts
<1>3. PICK hand : /\ \/ hand = <<>>
                     \/ Whole(chan[p][k]) /\ hand = SubSeq(chan[p][k], 1, 2)
                  /\ chan' = [chan EXCEPT ![p][k] = hand]
  BY DEF WriteFails
<1>4. new.by = w.by /\ new.conn = w.conn /\ new.frame = w.frame /\ new.joining = TRUE
  BY <1>2 DEF Shape, MessagingTypeOK, Writer
<1>5. p \in Procs /\ k \in Conn /\ open \in [Procs -> SUBSET Conn] /\ chan[p][k] \in Seq(Piece)
  BY <1>2 DEF Shape, MessagingTypeOK, Streams
<1> HIDE DEF new, p, k
<1>6. hand \in Seq(Piece) /\ Len(hand) <= Len(chan[p][k]) /\ \A i \in 1 .. Len(hand) : hand[i] = chan[p][k][i]
  <2>1. CASE hand = <<>>
    BY <1>5, <2>1
  <2>2. CASE Whole(chan[p][k]) /\ hand = SubSeq(chan[p][k], 1, 2)
    <3>1. Len(chan[p][k]) \in Nat /\ Len(chan[p][k]) >= 2
      BY <1>5, <2>2 DEF Whole
    <3>2. PICK n \in 0 .. Len(chan[p][k]), m \in 1 .. 3 : n = 2 /\ m = 1 /\ m \in 1 .. n + 1
      BY <3>1
    <3>3. /\ SubSeq(chan[p][k], m, n) \in Seq(Piece)
          /\ Len(SubSeq(chan[p][k], m, n)) = n + 1 - m
          /\ \A i \in 1 .. n + 1 - m : SubSeq(chan[p][k], m, n)[i] = chan[p][k][m + i - 1]
      BY <1>5, <3>2, PartFacts
    <3>4. Len(hand) = 2 /\ hand \in Seq(Piece) /\ \A i \in 1 .. 2 : hand[i] = chan[p][k][i]
      BY <2>2, <3>2, <3>3
    <3> QED
      BY <3>1, <3>4
  <2> QED
    BY <1>3, <2>1, <2>2
<1>7. /\ AllFramed(chan') /\ StreamsAddressed(chan')
      /\ \A r \in Procs, j \in Conn : <<r, j>> # <<p, k>> => chan'[r][j] = chan[r][j]
      /\ \A m, q : StreamsLess(chan, chan', m, q)
  BY <1>3, <1>5, <1>6, CutStream
<1>8. (\A r \in Procs : open'[r] \subseteq open[r]) /\ k \notin open'[p]
  BY <1>1, <1>5
<1>9. \A v \in writing' : /\ v.by[1] \in Procs /\ v.conn \in Conn /\ Peer(v.by[1], v.conn) \in Procs
                          /\ ~v.joining => v \in writing
  BY <1>1, <1>2, <1>4
<1>10. HeaderWaits(writing', open', chan')
  BY <1>2, <1>7, <1>8, <1>9, CloseWaits
<1>11. \A m \in Id, q \in Procs : OneCopy(sending, chan', writing', got[m][q], m, q)
  BY <1>2, <1>7, <1>9, SameLess, FewerForward, LessCopies
<1>12. WritersAddressed(writing') /\ SendersFirst(writing', sending)
  BY <1>1, <1>2, <1>4 DEF WritersAddressed, SendersFirst
<1> QED
  BY <1>1, <1>2, <1>7, <1>10, <1>11, <1>12, CopyFold

\* The payload of a sender moves the first copy of its queue into a stream; that of a
\* reader, the copy it was sending on.
LEMMA SendPayloadCopies ==
    ASSUME LinkInv, CopyInv, NEW w \in writing, SendPayload(w)
    PROVE  CopyInv'
<1> DEFINE p == w.by[1]
           k == w.conn
<1>1. /\ ~w.joining /\ writing' = writing \ {w} /\ chan' = Written(p, k, "payload", w.frame)
      /\ UNCHANGED <<ends, open, messages, got>>
  BY DEF SendPayload, connVars
<1>2. IF w.by[2] = 0 THEN AfterSend(p, k \in open[p]) ELSE UNCHANGED <<sending, sent>>
  BY Zenon DEF SendPayload
<1>3. /\ Shape /\ MessagesOK /\ SendersOK(writing, sending)
      /\ QueuesAddressed(sending) /\ WritersAddressed(writing) /\ StreamsAddressed(chan)
      /\ \A m \in Id, q \in Procs : got[m][q] # 0 => q \in messages[m]
      /\ SendersFirst(writing, sending)
      /\ \A m \in Id, q \in Procs : OneCopy(sending, chan, writing, got[m][q], m, q)
      /\ p \in Procs /\ k \in Conn /\ p \in ends[k] /\ w.frame \in Frame
  BY CopyFacts
<1>4. /\ AllFramed(chan')
      /\ \A m, q : ~Carries(w.frame, m, q) => StreamsLess(chan, chan', m, q)
      /\ \A m, q : ~SomeStreamed(chan, m, q) => OneStreamed(chan', m, q)
  BY <1>1, PayloadMore
<1>5. HeaderWaits(writing', open, chan')
  BY <1>1, PayloadWaits
<1>6. Addressed(w.frame) /\ WritersAddressed(writing')
  BY <1>1, <1>3 DEF WritersAddressed
<1>7. StreamsAddressed(chan')
  BY <1>1, <1>3, <1>6, WrittenAddressed
<1>8. \A m, q : ForwardLess(writing, writing', m, q)
  BY <1>1, FewerForward
<1> HIDE DEF p, k
<1>9. CASE w.by[2] = 0
  <2>1. AfterSend(p, k \in open[p]) /\ sending[p] # <<>> /\ w.frame = sending[p][1]
    BY <1>2, <1>3, <1>9 DEF SendersOK, SendersFirst, p
  <2>2. /\ \A m, q : QueueLess(sending, sending', m, q)
        /\ \A m, q : Carries(sending[p][1], m, q) =>
              /\ SomeQueued(sending, m, q)
              /\ OneQueued(sending, m, q) => ~SomeQueued(sending', m, q)
        /\ QueuesAddressed(sending')
    BY <1>3, <2>1, AfterSendLess
  <2>3. ASSUME NEW m \in Id, NEW q \in Procs
        PROVE  OneCopy(sending', chan', writing', got[m][q], m, q)
    <3>1. CASE Carries(w.frame, m, q)
      BY <1>3, <1>4, <1>8, <2>1, <2>2, <3>1, QueuedToStream
    <3>2. CASE ~Carries(w.frame, m, q)
      BY <1>3, <1>4, <1>8, <2>2, <3>2, LessCopies
    <3> QED
      BY <3>1, <3>2
  <2>4. \A v \in writing' : v \in writing /\ v.by = <<v.by[1], v.by[2]>> /\ w.by = <<w.by[1], w.by[2]>>
    BY <1>1, <1>3, WriterFacts
  <2>5. \A v \in writing' : v.by[2] = 0 => v.by[1] # p
    BY <1>1, <1>3, <1>9, <2>4 DEF SendersOK, p
  <2>6. \A r \in Procs : r # p => sending'[r] = sending[r]
    BY <1>3, <2>1, AfterSendFacts
  <2>7. \A v \in writing' : v.by[1] \in Procs
    BY <1>3, <2>4, WriterFacts
  <2>8. SendersFirst(writing', sending')
    BY <1>3, <2>4, <2>5, <2>6, <2>7 DEF SendersFirst
  <2> QED
    BY <1>1, <1>3, <1>4, <1>5, <1>6, <1>7, <2>2, <2>3, <2>8, CopyFold
<1>10. CASE w.by[2] # 0
  <2>1. sending' = sending /\ SendersFirst(writing', sending)
    BY <1>1, <1>2, <1>3, <1>10 DEF SendersFirst
  <2>2. ASSUME NEW m \in Id, NEW q \in Procs
        PROVE  OneCopy(sending, chan', writing', got[m][q], m, q)
    <3>1. CASE Carries(w.frame, m, q)
      <4>1. Forwarded(w, m, q) /\ SomeForwarded(writing, m, q)
        BY <1>1, <1>10, <3>1 DEF Forwarded, SomeForwarded
      <4>2. ~SomeForwarded(writing', m, q) /\ OneForwarded(writing', m, q)
        BY <1>1, <1>3, <4>1 DEF OneCopy, OneForwarded, SomeForwarded
      <4> QED
        BY <1>3, <1>4, <4>1, <4>2, ForwardedToStream
    <3>2. CASE ~Carries(w.frame, m, q)
      BY <1>3, <1>4, <1>8, <3>2, SameLess, LessCopies
    <3> QED
      BY <3>1, <3>2
  <2> QED
    BY <1>1, <1>3, <1>4, <1>5, <1>6, <1>7, <2>1, <2>2, CopyFold
<1> QED
  BY <1>9, <1>10

\* A thread that writes a header: what a sender writes is first in its queue.
LEMMA HeaderFirst ==
    ASSUME SendersFirst(writing, sending), NEW p, NEW t, NEW k, NEW frame, SendHeader(p, t, k, frame),
           t = 0 => frame = sending[p][1]
    PROVE  SendersFirst(writing', sending)
<1> DEFINE new == [by |-> <<p, t>>, conn |-> k, frame |-> frame, joining |-> FALSE]
<1>1. writing' = writing \/ writing' = writing \cup {new}
  BY DEF SendHeader
<1>2. new.by[1] = p /\ new.by[2] = t /\ new.frame = frame
  OBVIOUS
<1> HIDE DEF new
<1> QED
  BY <1>1, <1>2 DEF SendersFirst

LEMMA HeaderCopies ==
    ASSUME LinkInv, CopyInv, NEW k \in Conn, NEW p \in ends[k], NEW t, NEW frame \in Frame, Addressed(frame),
           SendHeader(p, t, k, frame)
    PROVE  /\ Written(p, k, "header", frame) \in Streams /\ AllFramed(Written(p, k, "header", frame))
           /\ Written(p, k, "header", frame)[p] = chan[p]
           /\ StreamsAddressed(Written(p, k, "header", frame)) /\ WritersAddressed(writing')
           /\ HeaderWaits(writing', open, Written(p, k, "header", frame))
           /\ \A m, q : StreamsLess(chan, Written(p, k, "header", frame), m, q)
<1>1. StreamsAddressed(chan) /\ WritersAddressed(writing) /\ AllFramed(chan)
  BY CopyFacts
<1>2. /\ Written(p, k, "header", frame) \in Streams /\ AllFramed(Written(p, k, "header", frame))
      /\ Written(p, k, "header", frame)[p] = chan[p]
      /\ \A m, q : StreamsLess(chan, Written(p, k, "header", frame), m, q)
  BY <1>1, HeaderLess
<1>3. StreamsAddressed(Written(p, k, "header", frame))
  BY <1>1, WrittenAddressed
<1>4. WritersAddressed(writing')
  BY <1>1, HeaderForwards
<1>5. HeaderWaits(writing', open, Written(p, k, "header", frame))
  BY HeaderStarts
<1> QED
  BY <1>2, <1>3, <1>4, <1>5

\* A reader that answers a frame, or sends it on: it writes a header and takes the
\* frame off its stream.
LEMMA HeaderReadCopies ==
    ASSUME LinkInv, CopyInv, NEW p \in Procs, NEW k \in Conn, Whole(chan[p][k]),
           NEW j \in Conn, p \in ends[j], NEW t, NEW frame \in Frame, Addressed(frame), SendHeader(p, t, j, frame),
           chan' = AfterRead(p, k, Written(p, j, "header", frame))
    PROVE  /\ AllFramed(chan') /\ StreamsAddressed(chan') /\ WritersAddressed(writing')
           /\ HeaderWaits(writing', open, chan')
           /\ \A m, q : StreamsLess(chan, chan', m, q)
           /\ \A m, q : Carries(chan[p][k][1].frame, m, q) =>
                 SomeStreamed(chan, m, q) /\ (OneStreamed(chan, m, q) => ~SomeStreamed(chan', m, q))
<1> DEFINE c == Written(p, j, "header", frame)
           new == [by |-> <<p, t>>, conn |-> j, frame |-> frame, joining |-> FALSE]
<1>1. /\ c \in Streams /\ AllFramed(c) /\ c[p] = chan[p] /\ StreamsAddressed(c) /\ WritersAddressed(writing')
      /\ HeaderWaits(writing', open, c)
      /\ \A m, q : StreamsLess(chan, c, m, q)
  BY HeaderCopies
<1> HIDE DEF c
<1>2. Whole(c[p][k]) /\ Len(c[p][k]) >= 2 /\ c[p][k][1] = chan[p][k][1]
  BY <1>1 DEF Whole
<1>3. chan' = AfterRead(p, k, c)
  BY DEF c
<1>4. /\ AllFramed(chan')
      /\ \A m, q : StreamsLess(c, chan', m, q)
      /\ \A m, q : Carries(c[p][k][1].frame, m, q) =>
            SomeStreamed(c, m, q) /\ (OneStreamed(c, m, q) => ~SomeStreamed(chan', m, q))
  BY <1>1, <1>2, <1>3, ReadLess
<1>5. StreamsAddressed(chan')
  BY <1>1, <1>2, <1>3, ReadAddressed
<1>6. Shape /\ \A w \in writing : w.conn \in Conn /\ Peer(w.by[1], w.conn) \in Procs /\ w.frame \in Frame
  BY CopyFacts
<1>7. writing' = writing \/ writing' = writing \cup {new}
  BY DEF SendHeader
<1>8. new.conn = j /\ new.by[1] = p /\ new.frame = frame /\ Peer(p, j) \in Procs
  BY <1>6, PeerFacts
<1> HIDE DEF new
<1>9. \A w \in writing' : w.conn \in Conn /\ Peer(w.by[1], w.conn) \in Procs /\ w.frame \in Frame
  BY <1>6, <1>7, <1>8
<1>10. HeaderWaits(writing', open, chan')
  BY <1>1, <1>2, <1>3, <1>9, ReadWaits
<1>11. ASSUME NEW m, NEW q
       PROVE  /\ StreamsLess(chan, chan', m, q)
              /\ Carries(chan[p][k][1].frame, m, q) =>
                    SomeStreamed(chan, m, q) /\ (OneStreamed(chan, m, q) => ~SomeStreamed(chan', m, q))
  BY <1>1, <1>2, <1>4 DEF StreamsLess
<1> QED
  BY <1>1, <1>4, <1>5, <1>10, <1>11

LEMMA ConnectedCopies ==
    ASSUME LinkInv, CopyInv, NEW p \in Procs, NEW k \in Conn, Connected(p, k)
    PROVE  CopyInv'
<1> DEFINE frame == Control("hello", p)
<1>1. /\ k \in event[p] /\ SendHeader(p, Reporter(k), k, frame) /\ chan' = Written(p, k, "header", frame)
      /\ UNCHANGED <<ends, open, sending, messages, got>>
  BY DEF Connected, messageVars
<1>2. /\ Shape /\ QueuesAddressed(sending) /\ SendersFirst(writing, sending)
      /\ \A m \in Id, q \in Procs : got[m][q] # 0 => q \in messages[m]
      /\ \A m \in Id, q \in Procs : OneCopy(sending, chan, writing, got[m][q], m, q)
  BY CopyFacts
<1>3. p \in ends[k] /\ Reporter(k) # 0
  BY <1>1, <1>2, MessagingAssumption DEF Shape, EndsInv, Reporter, Conn
<1>4. frame \in Frame /\ Addressed(frame) /\ \A m, q : ~Carries(frame, m, q)
  BY FrameFacts, ControlCarries
<1> HIDE DEF frame
<1>5. /\ AllFramed(chan') /\ StreamsAddressed(chan') /\ WritersAddressed(writing')
      /\ HeaderWaits(writing', open, chan')
      /\ \A m, q : StreamsLess(chan, chan', m, q)
  BY <1>1, <1>3, <1>4, HeaderCopies
<1>6. \A m, q : ForwardLess(writing, writing', m, q)
  BY <1>1, <1>4, HeaderForwards
<1>7. SendersFirst(writing', sending)
  BY <1>1, <1>2, <1>3, HeaderFirst
<1>8. \A m \in Id, q \in Procs : OneCopy(sending, chan', writing', got[m][q], m, q)
  BY <1>2, <1>5, <1>6, SameLess, LessCopies
<1> QED
  BY <1>1, <1>2, <1>5, <1>7, <1>8, CopyFold

\* A sender that has joined the reader gives up what is left of its message.
LEMMA DisconnectedCopies ==
    ASSUME LinkInv, CopyInv, NEW p \in Procs, NEW k \in Conn, Disconnected(p, k)
    PROVE  CopyInv'
<1>1. /\ writing' = writing \ Joined(p, k)
      /\ UNCHANGED <<ends, open, chan, messages, got>>
  BY DEF Disconnected, EndJoin, connVars
<1>2. /\ Shape /\ MessagesOK /\ SendersOK(writing, sending)
      /\ QueuesAddressed(sending) /\ WritersAddressed(writing) /\ StreamsAddressed(chan)
      /\ \A m \in Id, q \in Procs : got[m][q] # 0 => q \in messages[m]
      /\ AllFramed(chan) /\ HeaderWaits(writing, open, chan) /\ SendersFirst(writing, sending)
      /\ \A m \in Id, q \in Procs : OneCopy(sending, chan, writing, got[m][q], m, q)
      /\ \A w \in writing : w.by[1] \in Procs /\ w.conn \in Conn /\ Peer(w.by[1], w.conn) \in Procs
  BY CopyFacts
<1>3. WritersAddressed(writing') /\ \A v \in writing' : v \in writing
  BY <1>1, <1>2 DEF WritersAddressed
<1>4. HeaderWaits(writing', open', chan')
  BY <1>1, <1>2, <1>3, CloseWaits
<1>5. \A m, q : ForwardLess(writing, writing', m, q)
  BY <1>3, FewerForward
<1>6. CASE UNCHANGED <<sending, sent>>
  <2>1. SendersFirst(writing', sending)
    BY <1>2, <1>3 DEF SendersFirst
  <2>2. \A m \in Id, q \in Procs : OneCopy(sending, chan, writing', got[m][q], m, q)
    BY <1>2, <1>5, SameLess, LessCopies
  <2> QED
    BY <1>1, <1>2, <1>3, <1>4, <1>6, <2>1, <2>2, CopyFold
<1>7. CASE \E w \in Joined(p, k) : w.by[2] = 0
  <2>1. PICK w \in writing : w.by[1] = p /\ w.by[2] = 0 /\ w \in Joined(p, k)
    BY <1>7 DEF Joined
  <2>2. sending[p] # <<>> /\ \A v \in writing : v.by = w.by => v = w
    BY <1>2, <2>1 DEF SendersOK
  <2>3. AfterSend(p, FALSE)
    BY <1>7 DEF Disconnected, EndJoin
  <2>4. /\ \A m, q : QueueLess(sending, sending', m, q)
        /\ QueuesAddressed(sending')
    BY <1>2, <2>2, <2>3, AfterSendLess
  <2>5. \A q \in Procs : q # p => sending'[q] = sending[q]
    BY <1>2, <2>2, <2>3, AfterSendFacts
  <2>6. \A v \in writing : v.by[1] \in Procs /\ v.by = <<v.by[1], v.by[2]>>
    BY <1>2, WriterFacts
  <2>7. \A v \in writing' : v.by[2] = 0 => v.by[1] # p
    BY <1>1, <2>1, <2>2, <2>6
  <2>8. SendersFirst(writing', sending')
    BY <1>2, <1>3, <2>5, <2>6, <2>7 DEF SendersFirst
  <2>9. \A m \in Id, q \in Procs : OneCopy(sending', chan, writing', got[m][q], m, q)
    BY <1>2, <1>5, <2>4, SameLess, LessCopies
  <2> QED
    BY <1>1, <1>2, <1>3, <1>4, <2>4, <2>8, <2>9, CopyFold
<1> QED
  BY <1>6, <1>7 DEF Disconnected, EndJoin

LEMMA HandleHelloCopies ==
    ASSUME LinkInv, CopyInv, NEW p \in Procs, NEW k \in Conn, HandleHello(p, k)
    PROVE  CopyInv'
<1> DEFINE ok == IsProtocolCompatible(p, chan[p][k][1].frame.from)
           answer == Control(IF ok THEN "ack" ELSE "reject", p)
<1>1. /\ Reads(p, k, "hello") /\ SendHeader(p, k, k, answer)
      /\ chan' = AfterRead(p, k, Written(p, k, "header", answer))
      /\ UNCHANGED <<ends, open, sending, messages, got>>
  BY DEF HandleHello, connVars, messageVars
<1>2. /\ Shape /\ QueuesAddressed(sending) /\ SendersFirst(writing, sending)
      /\ \A m \in Id, q \in Procs : got[m][q] # 0 => q \in messages[m]
      /\ \A m \in Id, q \in Procs : OneCopy(sending, chan, writing, got[m][q], m, q)
  BY CopyFacts
<1>3. p \in ends[k] /\ Whole(chan[p][k]) /\ k # 0
  BY <1>1, <1>2, ReadsFacts, MessagingAssumption DEF Reads, Conn
<1>4. answer \in Frame /\ Addressed(answer) /\ \A m, q : ~Carries(answer, m, q)
  <2>1. PICK kind \in {"ack", "reject"} : answer = Control(kind, p)
    OBVIOUS
  <2> QED
    BY <2>1, FrameFacts, ControlCarries
<1> HIDE DEF ok, answer
<1>5. /\ AllFramed(chan') /\ StreamsAddressed(chan') /\ WritersAddressed(writing')
      /\ HeaderWaits(writing', open, chan')
      /\ \A m, q : StreamsLess(chan, chan', m, q)
  BY <1>1, <1>3, <1>4, HeaderReadCopies
<1>6. \A m, q : ForwardLess(writing, writing', m, q)
  BY <1>1, <1>4, HeaderForwards
<1>7. SendersFirst(writing', sending)
  BY <1>1, <1>2, <1>3, HeaderFirst
<1>8. \A m \in Id, q \in Procs : OneCopy(sending, chan', writing', got[m][q], m, q)
  BY <1>2, <1>5, <1>6, SameLess, LessCopies
<1> QED
  BY <1>1, <1>2, <1>5, <1>7, <1>8, CopyFold

\* A frame that is read and not sent on.
LEMMA ReadCopies ==
    ASSUME LinkInv, CopyInv, NEW p \in Procs, NEW k \in Conn, Whole(chan[p][k]), chan' = AfterRead(p, k, chan)
    PROVE  /\ AllFramed(chan') /\ StreamsAddressed(chan') /\ HeaderWaits(writing, open, chan')
           /\ \A m, q : StreamsLess(chan, chan', m, q)
           /\ \A m, q : Carries(chan[p][k][1].frame, m, q) =>
                 SomeStreamed(chan, m, q) /\ (OneStreamed(chan, m, q) => ~SomeStreamed(chan', m, q))
<1>1. /\ chan \in Streams /\ AllFramed(chan) /\ StreamsAddressed(chan) /\ HeaderWaits(writing, open, chan)
      /\ \A w \in writing : w.conn \in Conn /\ Peer(w.by[1], w.conn) \in Procs /\ w.frame \in Frame
  BY CopyFacts
<1>2. Len(chan[p][k]) >= 2
  BY DEF Whole
<1>3. /\ AllFramed(chan')
      /\ \A m, q : StreamsLess(chan, chan', m, q)
      /\ \A m, q : Carries(chan[p][k][1].frame, m, q) =>
            SomeStreamed(chan, m, q) /\ (OneStreamed(chan, m, q) => ~SomeStreamed(chan', m, q))
  BY <1>1, ReadLess
<1>4. StreamsAddressed(chan')
  BY <1>1, <1>2, ReadAddressed
<1>5. HeaderWaits(writing, open, chan')
  BY <1>1, ReadWaits
<1> QED
  BY <1>3, <1>4, <1>5

LEMMA HandleHelloAckCopies ==
    ASSUME LinkInv, CopyInv, NEW p \in Procs, NEW k \in Conn, HandleHelloAck(p, k)
    PROVE  CopyInv'
<1>1. /\ Whole(chan[p][k]) /\ chan' = AfterRead(p, k, chan)
      /\ UNCHANGED <<ends, open, writing, sending, messages, got>>
  BY DEF HandleHelloAck, Reads, connVars, messageVars
<1>2. /\ QueuesAddressed(sending) /\ WritersAddressed(writing) /\ SendersFirst(writing, sending)
      /\ \A m \in Id, q \in Procs : got[m][q] # 0 => q \in messages[m]
      /\ \A m \in Id, q \in Procs : OneCopy(sending, chan, writing, got[m][q], m, q)
  BY CopyFacts
<1>3. /\ AllFramed(chan') /\ StreamsAddressed(chan') /\ HeaderWaits(writing, open, chan')
      /\ \A m, q : StreamsLess(chan, chan', m, q)
  BY <1>1, ReadCopies
<1>4. \A m \in Id, q \in Procs : OneCopy(sending, chan', writing, got[m][q], m, q)
  BY <1>2, <1>3, SameLess, LessCopies
<1> QED
  BY <1>1, <1>2, <1>3, <1>4, CopyFold

\* A new message has one copy for each of its targets; no copy of it was there before.
LEMMA SendCopies ==
    ASSUME LinkInv, CopyInv, NEW p \in Nodes, NEW targets \in SUBSET Nodes, Send(p, targets)
    PROVE  CopyInv'
<1>1. PICK m \in Id :
       /\ sending[p] = <<>> /\ messages[m] = {}
       /\ messages' = [messages EXCEPT ![m] = targets]
       /\ sending' = [sending EXCEPT ![p] = [i \in 1..Cardinality(targets) |->
                         [kind |-> "data", from |-> p, id |-> m,
                          target |-> SetToSeq(targets)[i]]]]
       /\ UNCHANGED <<connVars, open, ended, link, chan, writing, sent, got, lost, faults>>
  BY DEF Send
<1>2. UNCHANGED <<ends, open, chan, writing, got>>
  BY <1>1 DEF connVars
<1>3. /\ Shape /\ MessagesOK /\ chan \in Streams /\ SendersOK(writing, sending)
      /\ QueuesAddressed(sending) /\ WritersAddressed(writing) /\ StreamsAddressed(chan)
      /\ \A n \in Id, q \in Procs : got[n][q] # 0 => q \in messages[n]
      /\ AllFramed(chan) /\ HeaderWaits(writing, open, chan) /\ SendersFirst(writing, sending)
      /\ \A n \in Id, q \in Procs : OneCopy(sending, chan, writing, got[n][q], n, q)
      /\ \A w \in writing : w.by[1] \in Procs /\ w.frame \in Frame
  BY CopyFacts
<1>4. p \in Procs /\ targets \subseteq Procs /\ IsFiniteSet(targets)
  <2>1. p \in Procs /\ targets \subseteq Procs
    BY DEF Procs
  <2> QED
    BY <2>1, FS_Subset, MessagingAssumption
<1>5. /\ Cardinality(targets) \in Nat /\ SetToSeq(targets) \in [1..Cardinality(targets) -> targets]
      /\ IsInjective(SetToSeq(targets))
  BY <1>4, SetToSeqFacts
<1>6. \A i, j \in 1..Cardinality(targets) : SetToSeq(targets)[i] = SetToSeq(targets)[j] => i = j
  <2>1. DOMAIN SetToSeq(targets) = 1..Cardinality(targets)
    BY <1>5
  <2> QED
    BY <1>5, <2>1 DEF IsInjective
<1> DEFINE new == [i \in 1..Cardinality(targets) |->
                      [kind |-> "data", from |-> p, id |-> m, target |-> SetToSeq(targets)[i]]]
<1>7. new \in Seq(DataFrame) /\ Len(new) = Cardinality(targets)
  <2>1. \A i \in 1..Cardinality(targets) : new[i] \in DataFrame
    BY <1>4, <1>5 DEF DataFrame
  <2> QED
    BY <1>5, <2>1
<1>8. \A i \in 1 .. Len(new) : new[i].kind = "data" /\ new[i].id = m /\ new[i].target = SetToSeq(targets)[i]
  BY <1>5, <1>7
<1> HIDE DEF new
<1>9. sending'[p] = new /\ \A r \in Procs : r # p => sending'[r] = sending[r]
  BY <1>1, <1>3, <1>4 DEF MessagesOK, new
<1>10. messages'[m] = targets /\ \A n \in Id : n # m => messages'[n] = messages[n]
  BY <1>1, <1>3 DEF MessagesOK
<1>11. \A frame \in Frame : Addressed(frame) => Addressed(frame)'
  BY <1>1, <1>10, FrameFacts DEF Addressed
<1>12. AllAddressed'
  <2>1. QueuesAddressed(sending)'
    <3> SUFFICES ASSUME NEW r \in Procs, NEW i \in 1 .. Len(sending'[r])
                 PROVE  sending'[r][i].kind = "data" => sending'[r][i].target \in messages'[sending'[r][i].id]
      BY DEF QueuesAddressed, Addressed
    <3>1. CASE r = p
      <4>1. \A j \in 1 .. Len(new) : new[j].target \in messages'[new[j].id]
        BY <1>5, <1>7, <1>8, <1>10
      <4> QED
        BY <1>9, <3>1, <4>1
    <3>2. CASE r # p
      <4>1. i \in 1 .. Len(sending[r]) /\ sending'[r][i] = sending[r][i]
        BY <1>9, <3>2
      <4>2. sending[r][i] \in Frame /\ Addressed(sending[r][i])
        BY <1>3, <4>1, FrameFacts DEF MessagesOK, QueuesAddressed
      <4>3. PICK frame \in Frame : frame = sending[r][i]
        BY <4>2
      <4> QED
        BY <1>11, <4>1, <4>2, <4>3 DEF Addressed
    <3> QED
      BY <3>1, <3>2
  <2>2. WritersAddressed(writing)'
    BY <1>2, <1>3, <1>11 DEF WritersAddressed
  <2>3. StreamsAddressed(chan)'
    <3> SUFFICES ASSUME NEW r \in Procs, NEW k \in Conn, NEW i \in 1 .. Len(chan[r][k]),
                        chan[r][k][i] # Unknown
                 PROVE  Addressed(chan[r][k][i].frame)'
      BY <1>2 DEF StreamsAddressed
    <3>1. chan[r][k][i].frame \in Frame
      BY <1>3, PartOf DEF Streams
    <3> QED
      BY <1>2, <1>3, <1>11, <3>1 DEF StreamsAddressed
  <2>4. \A n \in Id, q \in Procs : got'[n][q] # 0 => q \in messages'[n]
    BY <1>1, <1>2, <1>3, <1>10
  <2> QED
    BY <2>1, <2>2, <2>3, <2>4 DEF AllAddressed
<1>13. \A q : ~SomeQueued(sending, m, q) /\ ~SomeStreamed(chan, m, q) /\ ~SomeForwarded(writing, m, q)
  <2>1. \A frame, q : Addressed(frame) => ~Carries(frame, m, q)
    BY <1>1 DEF Addressed, Carries
  <2>2. \A q : ~SomeQueued(sending, m, q)
    BY <1>3, <2>1 DEF SomeQueued, Queued, QueuesAddressed
  <2>3. \A q : ~SomeStreamed(chan, m, q)
    BY <1>3, <2>1 DEF SomeStreamed, Streamed, IsPart, StreamsAddressed
  <2>4. \A q : ~SomeForwarded(writing, m, q)
    BY <1>3, <2>1 DEF SomeForwarded, Forwarded, WritersAddressed
  <2> QED
    BY <2>2, <2>3, <2>4
<1>14. ASSUME NEW n \in Id, NEW q \in Procs, NEW r \in Procs, NEW i \in Nat, Queued(sending', r, i, n, q)
       PROVE  IF r = p THEN n = m /\ i \in 1..Cardinality(targets) /\ SetToSeq(targets)[i] = q
              ELSE Queued(sending, r, i, n, q)
  BY <1>7, <1>8, <1>9, <1>14 DEF Queued, Carries
<1>15. ASSUME NEW n \in Id, NEW q \in Procs
       PROVE  OneCopy(sending', chan, writing, got[n][q], n, q)
  <2>1. OneCopy(sending, chan, writing, got[n][q], n, q)
    BY <1>3
  <2>2. CASE n = m
    <3>1. \A r \in Procs, i \in Nat : Queued(sending', r, i, n, q) =>
             r = p /\ i \in 1..Cardinality(targets) /\ SetToSeq(targets)[i] = q
      BY <1>13, <1>14, <2>2 DEF SomeQueued
    <3>2. OneQueued(sending', n, q)
      BY <1>6, <3>1 DEF OneQueued
    <3>3. got[n][q] = 0
      BY <1>1, <1>3, <2>2
    <3> QED
      BY <1>13, <2>1, <2>2, <3>2, <3>3 DEF OneCopy
  <2>3. CASE n # m
    <3>1. \A r \in Procs, i \in Nat : Queued(sending', r, i, n, q) => Queued(sending, r, i, n, q)
      BY <1>14, <2>3
    <3>2. QueueLess(sending, sending', n, q)
      BY <3>1 DEF QueueLess, SomeQueued, OneQueued
    <3> QED
      BY <2>1, <3>2, SameLess, LessCopies
  <2> QED
    BY <2>2, <2>3
<1>16. \A w \in writing : w.by[2] = 0 => w.by[1] # p
  BY <1>1, <1>3 DEF SendersOK
<1>17. SendersFirst(writing, sending')
  BY <1>3, <1>9, <1>16 DEF SendersFirst
<1>18. HeaderWaits(writing, open, chan)'
  <2>1. \A r, k : Peer(r, k)' = Peer(r, k)
    BY <1>2 DEF Peer
  <2> QED
    BY <1>2, <1>3, <2>1 DEF HeaderWaits, Pending
<1> QED
  BY <1>2, <1>3, <1>12, <1>15, <1>17, <1>18 DEF CopyInv

LEMMA DispatchCounts ==
    ASSUME MessagesOK, NEW p \in Procs, NEW frame \in DataFrame, frame.target = p, Dispatch(p, frame)
    PROVE  \A m \in Id, q \in Procs : got'[m][q] = IF Carries(frame, m, q) THEN got[m][q] + 1 ELSE got[m][q]
<1>1. frame.id \in Id /\ frame.kind = "data" /\ got \in [Id -> [Procs -> Nat]]
  BY FrameFacts DEF MessagesOK
<1>2. got' = [got EXCEPT ![frame.id] = [got[frame.id] EXCEPT ![p] = got[frame.id][p] + 1]]
  BY DEF Dispatch
<1> QED
  BY <1>1, <1>2 DEF Carries

\* The first copy of a queue is dispatched here, given up with the rest of its message,
\* or stays until its payload is written.
LEMMA SendEnvelopeCopies ==
    ASSUME LinkInv, CopyInv, NEW p \in Procs, SendEnvelope(p)
    PROVE  CopyInv'
<1> DEFINE frame == Head(sending[p])
           hop == ResolveSingleTarget(p, frame.target)
           links == ActiveLinks(p, hop)
<1>1. /\ Shape /\ MessagesOK
      /\ QueuesAddressed(sending) /\ WritersAddressed(writing) /\ StreamsAddressed(chan)
      /\ \A m \in Id, q \in Procs : got[m][q] # 0 => q \in messages[m]
      /\ AllFramed(chan) /\ HeaderWaits(writing, open, chan) /\ SendersFirst(writing, sending)
      /\ \A m \in Id, q \in Procs : OneCopy(sending, chan, writing, got[m][q], m, q)
      /\ OfEnds(open)
  BY CopyFacts, Unfold
<1>2. sending[p] # <<>> /\ ~Busy(p, 0) /\ UNCHANGED <<ends, open, messages>>
  BY DEF SendEnvelope, connVars
<1>3. frame \in DataFrame /\ frame = sending[p][1] /\ Addressed(frame)
  <2>1. sending[p] \in Seq(DataFrame)
    BY <1>1 DEF MessagesOK
  <2>2. frame \in DataFrame /\ frame = sending[p][1] /\ 1 \in 1 .. Len(sending[p])
    BY <1>2, <2>1
  <2> QED
    BY <1>1, <2>2 DEF QueuesAddressed
<1>4. \A w \in writing : w.by[1] \in Procs /\ (w.by[2] = 0 => w.by[1] # p)
  <2>1. \A w \in writing : w.by[1] \in Procs /\ w.by = <<w.by[1], w.by[2]>>
    BY <1>1, WriterFacts
  <2> QED
    BY <1>2, <2>1 DEF Busy
<1> HIDE DEF frame
<1>5. ASSUME NEW ok, AfterSend(p, ok)
      PROVE  /\ \A m, q : QueueLess(sending, sending', m, q)
             /\ \A m, q : Carries(frame, m, q) =>
                   SomeQueued(sending, m, q) /\ (OneQueued(sending, m, q) => ~SomeQueued(sending', m, q))
             /\ QueuesAddressed(sending') /\ SendersFirst(writing, sending')
  <2>1. /\ \A m, q : QueueLess(sending, sending', m, q)
        /\ \A m, q : Carries(sending[p][1], m, q) =>
              /\ SomeQueued(sending, m, q)
              /\ OneQueued(sending, m, q) => ~SomeQueued(sending', m, q)
        /\ QueuesAddressed(sending')
    BY <1>1, <1>2, <1>5, AfterSendLess
  <2>2. \A q \in Procs : q # p => sending'[q] = sending[q]
    BY <1>1, <1>2, <1>5, AfterSendFacts
  <2>3. SendersFirst(writing, sending')
    BY <1>1, <1>4, <2>2 DEF SendersFirst
  <2> QED
    BY <1>3, <2>1, <2>3
<1>6. CASE /\ hop = p /\ Dispatch(p, frame) /\ AfterSend(p, TRUE)
           /\ UNCHANGED <<chan, writing, lost>>
  <2>1. frame.target = p
    BY <1>6, ResolvedHere
  <2>2. \A m \in Id, q \in Procs : got'[m][q] = IF Carries(frame, m, q) THEN got[m][q] + 1 ELSE got[m][q]
    BY <1>1, <1>3, <1>6, <2>1, DispatchCounts
  <2>3. /\ \A m, q : QueueLess(sending, sending', m, q)
        /\ \A m, q : Carries(frame, m, q) =>
              SomeQueued(sending, m, q) /\ (OneQueued(sending, m, q) => ~SomeQueued(sending', m, q))
        /\ QueuesAddressed(sending') /\ SendersFirst(writing, sending')
    BY <1>5, <1>6
  <2>4. ASSUME NEW m \in Id, NEW q \in Procs
        PROVE  /\ OneCopy(sending', chan, writing, got'[m][q], m, q)
               /\ got'[m][q] # 0 => q \in messages[m]
    <3>1. OneCopy(sending, chan, writing, got[m][q], m, q) /\ OneQueued(sending, m, q)
      BY <1>1 DEF OneCopy
    <3>2. CASE Carries(frame, m, q)
      <4>1. SomeQueued(sending, m, q) /\ ~SomeQueued(sending', m, q) /\ OneQueued(sending', m, q)
        BY <2>3, <3>1, <3>2 DEF QueueLess
      <4>2. OneCopy(sending', chan, writing, got[m][q] + 1, m, q)
        BY <3>1, <4>1, QueuedToGot
      <4>3. q \in messages[m]
        BY <1>3, <3>2 DEF Addressed, Carries
      <4> QED
        BY <2>2, <3>2, <4>2, <4>3
    <3>3. CASE ~Carries(frame, m, q)
      BY <1>1, <2>2, <2>3, <3>1, <3>3, SameLess, LessCopies
    <3> QED
      BY <3>2, <3>3
  <2> QED
    BY <1>1, <1>2, <1>6, <2>3, <2>4, CopyFold
<1>7. CASE AfterSend(p, FALSE) /\ UNCHANGED <<chan, writing, got>>
  <2>1. /\ \A m, q : QueueLess(sending, sending', m, q)
        /\ QueuesAddressed(sending') /\ SendersFirst(writing, sending')
    BY <1>5, <1>7
  <2>2. \A m \in Id, q \in Procs : OneCopy(sending', chan, writing, got[m][q], m, q)
    BY <1>1, <2>1, SameLess, LessCopies
  <2> QED
    BY <1>1, <1>2, <1>7, <2>1, <2>2, CopyFold
<1>8. CASE \E k \in links \cap open[p] :
             /\ SendHeader(p, 0, k, frame)
             /\ chan' = Written(p, k, "header", frame)
             /\ UNCHANGED <<sending, sent, got, lost>>
  <2>1. PICK k \in links \cap open[p] :
             /\ SendHeader(p, 0, k, frame)
             /\ chan' = Written(p, k, "header", frame)
             /\ UNCHANGED <<sending, sent, got, lost>>
    BY <1>8
  <2>2. k \in Conn /\ p \in ends[k]
    BY <1>1, <2>1 DEF OfEnds
  <2>3. frame \in Frame
    BY <1>3, FrameFacts
  <2>4. /\ AllFramed(chan') /\ StreamsAddressed(chan') /\ WritersAddressed(writing')
        /\ HeaderWaits(writing', open, chan')
        /\ \A m, q : StreamsLess(chan, chan', m, q)
    BY <1>3, <2>1, <2>2, <2>3, HeaderCopies
  <2>5. \A m, q : ForwardLess(writing, writing', m, q)
    BY <2>1, HeaderForwards
  <2>6. SendersFirst(writing', sending)
    BY <1>1, <1>3, <2>1, HeaderFirst
  <2>7. \A m \in Id, q \in Procs : OneCopy(sending, chan', writing', got[m][q], m, q)
    BY <1>1, <2>4, <2>5, SameLess, LessCopies
  <2> QED
    BY <1>1, <1>2, <2>1, <2>4, <2>6, <2>7, CopyFold
<1> QED
  BY <1>6, <1>7, <1>8 DEF SendEnvelope, frame

\* The copy a reader takes off its stream is dispatched here, lost, or sent on.
LEMMA HandleIncomingFrameCopies ==
    ASSUME LinkInv, CopyInv, NEW p \in Procs, NEW k \in Conn, HandleIncomingFrame(p, k)
    PROVE  CopyInv'
<1> DEFINE frame == chan[p][k][1].frame
           hop == ResolveSingleTarget(p, frame.target)
           links == ActiveLinks(p, hop)
<1>1. /\ Shape /\ MessagesOK /\ StreamsAddressed(chan)
      /\ QueuesAddressed(sending) /\ WritersAddressed(writing) /\ SendersFirst(writing, sending)
      /\ \A m \in Id, q \in Procs : got[m][q] # 0 => q \in messages[m]
      /\ \A m \in Id, q \in Procs : OneCopy(sending, chan, writing, got[m][q], m, q)
      /\ OfEnds(open)
  BY CopyFacts, Unfold
<1>2. Reads(p, k, "data") /\ Whole(chan[p][k]) /\ UNCHANGED <<ends, open, sending, messages>>
  BY DEF HandleIncomingFrame, Reads, connVars
<1>3. /\ p \in ends[k] /\ frame \in DataFrame /\ frame \in Frame
      /\ chan[p][k] \in Seq(Piece) /\ Len(chan[p][k]) >= 2
  BY <1>1, <1>2, ReadsFacts, FrameFacts
<1>4. Addressed(frame)
  <2>1. 1 \in 1 .. Len(chan[p][k]) /\ chan[p][k][1] # Unknown
    BY <1>2, <1>3 DEF Whole
  <2> QED
    BY <1>1, <2>1 DEF StreamsAddressed
<1>5. ASSUME chan' = AfterRead(p, k, chan)
      PROVE  /\ AllFramed(chan') /\ StreamsAddressed(chan') /\ HeaderWaits(writing, open, chan')
             /\ \A m, q : StreamsLess(chan, chan', m, q)
             /\ \A m, q : Carries(frame, m, q) =>
                   SomeStreamed(chan, m, q) /\ (OneStreamed(chan, m, q) => ~SomeStreamed(chan', m, q))
  BY <1>2, <1>5, ReadCopies
<1>6. CASE hop = p /\ Dispatch(p, frame) /\ chan' = AfterRead(p, k, chan) /\ UNCHANGED <<writing, lost>>
  <2> HIDE DEF frame
  <2>1. frame.target = p
    BY <1>6, ResolvedHere
  <2>2. \A m \in Id, q \in Procs : got'[m][q] = IF Carries(frame, m, q) THEN got[m][q] + 1 ELSE got[m][q]
    BY <1>1, <1>3, <1>6, <2>1, DispatchCounts
  <2>3. /\ AllFramed(chan') /\ StreamsAddressed(chan') /\ HeaderWaits(writing, open, chan')
        /\ \A m, q : StreamsLess(chan, chan', m, q)
        /\ \A m, q : Carries(frame, m, q) =>
              SomeStreamed(chan, m, q) /\ (OneStreamed(chan, m, q) => ~SomeStreamed(chan', m, q))
    BY <1>5, <1>6
  <2>4. ASSUME NEW m \in Id, NEW q \in Procs
        PROVE  /\ OneCopy(sending, chan', writing, got'[m][q], m, q)
               /\ got'[m][q] # 0 => q \in messages[m]
    <3>1. OneCopy(sending, chan, writing, got[m][q], m, q) /\ OneStreamed(chan, m, q)
      BY <1>1 DEF OneCopy
    <3>2. CASE Carries(frame, m, q)
      <4>1. SomeStreamed(chan, m, q) /\ ~SomeStreamed(chan', m, q) /\ OneStreamed(chan', m, q)
        BY <2>3, <3>1, <3>2 DEF StreamsLess
      <4>2. OneCopy(sending, chan', writing, got[m][q] + 1, m, q)
        BY <3>1, <4>1, StreamToGot
      <4>3. q \in messages[m]
        BY <1>4, <3>2 DEF Addressed, Carries
      <4> QED
        BY <2>2, <3>2, <4>2, <4>3
    <3>3. CASE ~Carries(frame, m, q)
      BY <1>1, <2>2, <2>3, <3>1, <3>3, SameLess, LessCopies
    <3> QED
      BY <3>2, <3>3
  <2> QED
    BY <1>1, <1>2, <1>6, <2>3, <2>4, CopyFold
<1>7. CASE chan' = AfterRead(p, k, chan) /\ UNCHANGED <<writing, got>>
  <2>1. \A m \in Id, q \in Procs : OneCopy(sending, chan', writing, got[m][q], m, q)
    BY <1>1, <1>5, <1>7, SameLess, LessCopies
  <2> QED
    BY <1>1, <1>2, <1>5, <1>7, <2>1, CopyFold
<1>8. CASE \E j \in links \cap open[p] :
             /\ SendHeader(p, k, j, frame)
             /\ chan' = AfterRead(p, k, Written(p, j, "header", frame))
             /\ UNCHANGED <<got, lost>>
  <2>1. PICK j \in links \cap open[p] :
             /\ SendHeader(p, k, j, frame)
             /\ chan' = AfterRead(p, k, Written(p, j, "header", frame))
             /\ UNCHANGED <<got, lost>>
    BY <1>8
  <2>2. j \in Conn /\ p \in ends[j] /\ k # 0
    BY <1>1, <2>1, MessagingAssumption DEF OfEnds, Conn
  <2>3. /\ AllFramed(chan') /\ StreamsAddressed(chan') /\ WritersAddressed(writing')
        /\ HeaderWaits(writing', open, chan')
        /\ \A m, q : StreamsLess(chan, chan', m, q)
        /\ \A m, q : Carries(frame, m, q) =>
              SomeStreamed(chan, m, q) /\ (OneStreamed(chan, m, q) => ~SomeStreamed(chan', m, q))
    BY <1>2, <1>3, <1>4, <2>1, <2>2, HeaderReadCopies
  <2> HIDE DEF frame
  <2>4. /\ \A m, q : ~Carries(frame, m, q) => ForwardLess(writing, writing', m, q)
        /\ \A m, q : ~SomeForwarded(writing, m, q) => OneForwarded(writing', m, q)
    BY <2>1, HeaderForwards
  <2>5. SendersFirst(writing', sending)
    BY <1>1, <2>1, <2>2, HeaderFirst
  <2>6. ASSUME NEW m \in Id, NEW q \in Procs
        PROVE  OneCopy(sending, chan', writing', got[m][q], m, q)
    <3>1. OneCopy(sending, chan, writing, got[m][q], m, q) /\ OneStreamed(chan, m, q)
      BY <1>1 DEF OneCopy
    <3>2. CASE Carries(frame, m, q)
      <4>1. SomeStreamed(chan, m, q) /\ ~SomeStreamed(chan', m, q) /\ OneStreamed(chan', m, q)
        BY <2>3, <3>1, <3>2 DEF StreamsLess
      <4> QED
        BY <2>4, <3>1, <4>1, StreamToForwarded
    <3>3. CASE ~Carries(frame, m, q)
      BY <2>3, <2>4, <3>1, <3>3, SameLess, LessCopies
    <3> QED
      BY <3>2, <3>3
  <2> QED
    BY <1>1, <1>2, <2>1, <2>3, <2>5, <2>6, CopyFold
<1> QED
  BY <1>6, <1>7, <1>8 DEF HandleIncomingFrame

-----------------------------------------------------------------------------
LEMMA CopyInit ==
    Init => CopyInv
<1> SUFFICES ASSUME Init PROVE CopyInv
  OBVIOUS
<1>1. /\ writing = {} /\ \A p \in Procs : sending[p] = <<>>
      /\ \A p \in Procs, k \in Conn : chan[p][k] = <<>>
      /\ \A m \in Id, q \in Procs : got[m][q] = 0
  BY DEF Init
<1>2. Len(<<>>) = 0 /\ \A i \in Nat : i \notin 1 .. 0
  OBVIOUS
<1>3. AllAddressed
  BY <1>1, <1>2 DEF AllAddressed, QueuesAddressed, WritersAddressed, StreamsAddressed
<1>4. AllFramed(chan) /\ HeaderWaits(writing, open, chan) /\ SendersFirst(writing, sending)
  BY <1>1, <1>2 DEF AllFramed, Framed, HeaderWaits, SendersFirst
<1>5. ASSUME NEW m \in Id, NEW q \in Procs
      PROVE  OneCopy(sending, chan, writing, got[m][q], m, q)
  <2>1. \A p \in Procs, i \in Nat : ~Queued(sending, p, i, m, q)
    BY <1>1, <1>2 DEF Queued
  <2>2. \A p \in Procs, k \in Conn, i \in Nat : ~Streamed(chan, p, k, i, m, q)
    BY <1>1, <1>2 DEF Streamed
  <2> QED
    BY <1>1, <2>1, <2>2 DEF OneCopy, OneQueued, OneStreamed, OneForwarded, SomeQueued, SomeStreamed,
                            SomeForwarded
<1> QED
  BY <1>3, <1>4, <1>5 DEF CopyInv

LEMMA CopyNext ==
    LinkInv /\ CopyInv /\ [Next]_vars => CopyInv'
<1> SUFFICES ASSUME LinkInv, CopyInv, [Next]_vars PROVE CopyInv'
  OBVIOUS
<1>1. CASE UNCHANGED vars
  <2>1. UNCHANGED <<ends, open, chan, writing, sending, messages, got>>
    BY <1>1 DEF vars, connVars, messageVars
  <2> QED
    BY <2>1, CopyFacts, CopyFold
<1>2. CASE Next
  BY <1>2, ConnectCopies, HandleDisconnectCopies, WriteFailsCopies, SendPayloadCopies, ConnectedCopies,
     DisconnectedCopies, HandleHelloCopies, HandleHelloAckCopies, SendCopies, SendEnvelopeCopies,
     HandleIncomingFrameCopies DEF Next, Progress, Handle
<1> QED
  BY <1>1, <1>2

\* A message is dispatched at most once at each of its targets and nowhere else
\* (Messenger::HandleIncomingFrame, RelayFirstPolicy), over any number of relays and
\* connections, however headers and payloads mix on a connection and wherever it breaks.
THEOREM MessagesAtMostOnce == Spec => []AtMostOnceAtTargets
<1>1. ASSUME LinkInv, CopyInv PROVE AtMostOnceAtTargets
  <2>1. /\ MessagesOK
        /\ \A m \in Id, q \in Procs : got[m][q] # 0 => q \in messages[m]
        /\ \A m \in Id, q \in Procs : OneCopy(sending, chan, writing, got[m][q], m, q)
    BY <1>1, CopyFacts
  <2>2. \A m \in Id, q \in Procs : got[m][q] \in Nat /\ got[m][q] <= 1
    BY <2>1 DEF MessagesOK, OneCopy
  <2> QED
    BY <2>1, <2>2 DEF AtMostOnceAtTargets
<1> QED
  BY <1>1, LinkInvInit, LinkInvNext, CopyInit, CopyNext, PTL DEF Spec
=============================================================================
