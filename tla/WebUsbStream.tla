----------------------------- MODULE WebUsbStream -----------------------------
(***************************************************************************)
(* Packets of the WebUSB interface: WebUsbProcessorBase.hpp, webusb.cpp.   *)
(* Core 0 receives pieces of the stream and sends answers; core 1 finds    *)
(* the packets in the stream, executes them with the mutex released, and   *)
(* queues the answers.  An answer to a packet for the bus comes later.     *)
(*                                                                         *)
(* The four bytes of the magic are two units here, the size with its       *)
(* inverse one, and the rest of a packet with its CRC a few.               *)
(*                                                                         *)
(* environment.packets     what the USB host sends: a sequence of records  *)
(*                         [units |-> length of the rest, command |-> ...] *)
(* environment.connections how many times it connects (a bound)            *)
(* environment.nodes, available                                            *)
(*                         the players there are, see CommandHandlers      *)
(***************************************************************************)
EXTENDS HostCores, CommandHandlers, SequencesExt

CONSTANTS
  MaxIncoming,  \* kMaxBufferSize
  MaxOutgoing,  \* kMaxOutgoingSize
  MaxPiece      \* units in one USB transfer

VARIABLES
  incoming,   \* mIncomingBuffer
  parser,     \* mRcvIdx, mRcvSize and mBuffer
  rest,       \* the rest of the data core 1 took out of the buffer
  executing,  \* the packet core 1 executes
  outgoing,   \* mOutgoingQueue
  writing,    \* the answer core 0 is writing to the USB buffer
  onBus,      \* packets which wait for an answer from the Maple Bus
  screens,    \* what the screen data of each player shows
  link        \* history: what the USB host sent and what became of it

webVars == <<incoming, parser, rest, executing, outgoing, writing, onBus, screens, link>>

ASSUME WebUsbAssumption ==
  /\ MaxIncoming \in Nat \ {0} /\ MaxOutgoing \in Nat \ {0} /\ MaxPiece \in Nat \ {0}

ASSUME PacketsAssumption ==
  \A e \in Environments :
    /\ e.nodes \subseteq Players /\ e.available \subseteq e.nodes
    /\ \A p \in DOMAIN e.packets :
         /\ p \in Nat \ {0} /\ e.packets[p].units \in Nat \ {0}
         /\ e.packets[p].command.family \in {"flycast", "maple", "system", "settings"}

Packets == DOMAIN environment.packets
NoPacket == 0
TtyPacket == -1
NullPacket == [packet |-> NoPacket, answer |-> "success"]

-----------------------------------------------------------------------------
(* The stream *)

Unit(kind, p, at) == [kind |-> kind, packet |-> p, at |-> at]
Body(p) == [at \in 1 .. environment.packets[p].units |-> Unit("body", p, at)]
Stream(p) == <<Unit("magic1", p, 0), Unit("magic2", p, 0), Unit("size", p, 0)>> \o Body(p)

(* --- parseMagic(), tryReadPacketHeader(), consumePacketBytes() ---        *)
(* idx is mRcvIdx: below 0 in the magic, 0 in the size, then the rest.      *)

StartOver == [idx |-> -2, size |-> 0, body |-> <<>>]  \* reset()

(* A unit which is not the one of the magic that was due is thrown away    *)
InMagic(q, u) ==
  CASE q.idx = -2 /\ u.kind = "magic1" -> [q EXCEPT !.idx = -1]
    [] q.idx = -1 /\ u.kind = "magic2" -> [q EXCEPT !.idx = 0]
    [] OTHER -> StartOver

(* A size that does not match its inverse may itself begin a magic         *)
InSize(u) ==
  IF u.kind = "size"
  THEN [idx |-> 1, size |-> environment.packets[u.packet].units, body |-> <<>>]
  ELSE InMagic(StartOver, u)

InBody(q, u) == [q EXCEPT !.idx = @ + 1, !.body = Append(@, u)]

Accept(q, u) ==
  CASE q.idx < 0 -> InMagic(q, u) [] q.idx = 0 -> InSize(u) [] q.idx > 0 -> InBody(q, u)

Complete_OneMore(q) == q.idx > 0 /\ Len(q.body) > q.size
Complete(q) == q.idx > 0 /\ Len(q.body) = q.size

(* computeCrc16(): the bytes are those of one packet *)
CrcMatches(q) == q.body = Body(q.body[1].packet)

-----------------------------------------------------------------------------
(* sendPkt(): answers which do not fit are thrown away *)
Queued_NoLimit(queue, a) == Append(queue, a)
Queued(queue, a) == IF Len(queue) >= MaxOutgoing THEN queue ELSE Append(queue, a)

AnswerTo(p, a) == [packet |-> p, answer |-> a]

(* What a handler does to the nodes and their screens *)
Effect(p, done) ==
  /\ onBus' = onBus \cup {[packet |-> p, node |-> i] : i \in done.sends}
  /\ screens' = [i \in Players |->
                   CASE i \in DOMAIN done.screens -> done.screens[i]
                     [] i \in done.sends /\ done.shows -> NUM_DEFAULT_SCREENS
                     [] OTHER -> screens[i]]

(* The mutex is held across steps only while core 1 parses *)
Locked == At(Core1, "parse")

WebInit ==
  /\ incoming = <<>> /\ parser = StartOver /\ rest = <<>> /\ executing = NoPacket
  /\ outgoing = <<>> /\ writing = <<>> /\ onBus = {}
  /\ screens = [i \in Players |-> i]
  /\ link = [next |-> 1, sent |-> 0,       \* the packet being sent, its units sent
             lost |-> {},                  \* packets of which units were thrown away
             connection |-> 0,
             born |-> <<>>,                \* the connection of each packet sent
             inHand |-> <<>>,              \* what was in hand when each connection was made
             fresh |-> TRUE,               \* no data of an earlier one was left to parse then
             executed |-> <<>>,
             delivered |-> {},             \* answers with their connections
             twice |-> FALSE]              \* a packet was answered a second time

(* --- core 0 --- *)

(* tud_task() runs in the loop of core 0, while it writes to the USB host, *)
(* and while either core prints                                            *)
InUsbTask == pc[Core0] \in {"idle", "echoing", "reporting", "writing"} \/ At(Core1, "printing")

(* addData(): what does not fit is thrown away *)
Receive ==
  /\ InUsbTask /\ ~Locked
  /\ link.next \in Packets
  /\ LET p == link.next
         left == Len(Stream(p)) - link.sent
     IN \E n \in 1 .. Min({MaxPiece, left}) :
          LET kept == Min({n, MaxIncoming - Len(incoming)}) IN
          /\ incoming' = incoming \o SubSeq(Stream(p), link.sent + 1, link.sent + kept)
          /\ link' = [link EXCEPT
                        !.next = IF n = left THEN p + 1 ELSE p,
                        !.sent = IF n = left THEN 0 ELSE @ + n,
                        !.lost = IF kept < n THEN @ \cup {p} ELSE @,
                        !.born = IF link.sent = 0 THEN Append(@, link.connection) ELSE @]
  /\ UNCHANGED <<pc, parser, rest, executing, outgoing, writing, onBus, screens>>

OutgoingAfterReset_Keeps(null) == IF null THEN Append(outgoing, NullPacket) ELSE outgoing
OutgoingAfterReset(null) == IF null THEN <<NullPacket>> ELSE <<>>

(* The packets the cores are at, in whatever way: those whose units core 1 *)
(* took and has not parsed, the one it executes, those at the bus, and the *)
(* one whose answer is being written.                                      *)
InHand ==
  {u.packet : u \in Range(rest)} \cup ({executing} \ {NoPacket})
    \cup ({t.packet : t \in onBus} \ {TtyPacket}) \cup ({a.packet : a \in Range(writing)} \ {NoPacket})

(* webusb_connection_event(): a connection is made or ended.  The USB       *)
(* buffer is cleared and externalReset() called; what is in hand goes on:   *)
(* core 1 parses the rest of its data with the parser reset, and answers    *)
(* that come later are queued.  Of the answer core 0 is writing, either     *)
(* nothing went into the USB buffer yet and all of it follows, or what      *)
(* follows is no packet.  The USB host begins its stream anew with the next *)
(* packet.                                                                  *)
Connect ==
  /\ InUsbTask /\ ~Locked
  /\ link.connection < environment.connections
  /\ parser' = StartOver /\ incoming' = <<>>
  /\ writing' \in {writing, <<>>}
  /\ \E null \in BOOLEAN : outgoing' = OutgoingAfterReset(null)
  /\ link' = [link EXCEPT !.connection = @ + 1, !.sent = 0,
                          !.next = IF link.sent > 0 THEN @ + 1 ELSE @,
                          !.lost = IF link.sent > 0 THEN @ \cup {link.next} ELSE @,
                          !.inHand = Append(@, InHand), !.fresh = (rest = <<>>)]
  /\ UNCHANGED <<pc, rest, executing, onBus, screens>>

(* flushOutgoing() takes one answer with the mutex and writes it without; *)
(* the USB task runs in between                                            *)
FlushBegins ==
  /\ outgoing # <<>> /\ ~Locked /\ Step(Core0, "idle", "writing")
  /\ writing' = <<Head(outgoing)>> /\ outgoing' = Tail(outgoing)
  /\ UNCHANGED <<incoming, parser, rest, executing, onBus, screens, link>>

Delivered(p) == \E a \in link.delivered : a.packet = p

(* vendorWrite(); it gives up if the USB host does not take the data *)
FlushEnds ==
  /\ Step(Core0, "writing", "idle")
  /\ \/ /\ writing # <<>>
        /\ LET a == [packet |-> writing[1].packet, on |-> link.connection] IN
           link' = [link EXCEPT !.delivered = @ \cup {a},
                                !.twice = @ \/ (a.packet # NoPacket /\ Delivered(a.packet))]
     \/ UNCHANGED link
  /\ writing' = <<>>
  /\ UNCHANGED <<incoming, parser, rest, executing, outgoing, onBus, screens>>

(* --- core 1: process() --- *)

TakeData ==
  /\ incoming # <<>> /\ Step(Core1, "idle", "parse")
  /\ rest' = incoming /\ incoming' = <<>>
  /\ UNCHANGED <<parser, executing, outgoing, writing, onBus, screens, link>>

(* One unit of the data.  A packet with a wrong CRC is skipped. *)
Parse ==
  /\ At(Core1, "parse") /\ rest # <<>>
  /\ LET q == Accept(parser, Head(rest)) IN
     /\ parser' = IF Complete(q) THEN StartOver ELSE q
     /\ IF Complete(q) /\ CrcMatches(q)
          THEN executing' = q.body[1].packet /\ Goes(Core1, "execute")
          ELSE UNCHANGED <<pc, executing>>
  /\ rest' = Tail(rest)
  /\ UNCHANGED <<incoming, outgoing, writing, onBus, screens, link>>

ParseEnds ==
  /\ rest = <<>> /\ Step(Core1, "parse", "idle")
  /\ UNCHANGED webVars

(* processPkt() without the mutex: the handler does what it does, and      *)
(* answers at once unless the answer has to come from the bus.             *)
Execute ==
  /\ Step(Core1, "execute", "executed")
  /\ LET command == environment.packets[executing].command
         done == OutcomeWeb(command, environment.nodes, environment.available, TRUE)
     IN /\ outgoing' = IF done.answer = "later" THEN outgoing
                       ELSE Queued(outgoing, AnswerTo(executing, done.answer))
        /\ Effect(executing, done)
  /\ link' = [link EXCEPT !.executed = Append(@, executing)]
  /\ UNCHANGED <<incoming, parser, rest, executing, writing>>

(* The mutex is taken again, and parsing goes on with what is left *)
Resume ==
  /\ Step(Core1, "executed", "parse")
  /\ executing' = NoPacket
  /\ UNCHANGED <<incoming, parser, rest, outgoing, writing, onBus, screens, link>>

(* The transmission of a passed-on packet ended, on core 1                 *)
(* (MaplePassthroughTransmitter); one from the serial port prints          *)
BusAnswers ==
  /\ Idle(Core1)
  /\ \E t \in onBus : \E a \in {"success", "failure"} :
       /\ onBus' = onBus \ {t}
       /\ outgoing' = IF t.packet = TtyPacket THEN outgoing
                      ELSE Queued(outgoing, AnswerTo(t.packet, a))
  /\ UNCHANGED <<pc, incoming, parser, rest, executing, writing, screens, link>>

(* It was cancelled, as when its node lost its device: nobody is told *)
BusCancels ==
  /\ Idle(Core1)
  /\ \E t \in onBus : onBus' = onBus \ {t}
  /\ UNCHANGED <<pc, incoming, parser, rest, executing, outgoing, writing, screens, link>>

WebCore0 == FlushBegins \/ FlushEnds
WebCore1 == TakeData \/ Parse \/ ParseEnds \/ Execute \/ Resume \/ BusAnswers
WebNext == WebCore0 \/ WebCore1 \/ BusCancels \/ Receive \/ Connect

-----------------------------------------------------------------------------
WebTypeOK ==
  /\ Len(incoming) <= MaxIncoming /\ Len(outgoing) <= MaxOutgoing
  /\ parser.idx >= -2 /\ ~Complete(parser)
  /\ executing \in Packets \cup {NoPacket}
  /\ \A t \in onBus : t.packet \in Packets \cup {TtyPacket} /\ t.node \in environment.available

Whole(p) == p < link.next /\ p \notin link.lost
Executed(p) == \E i \in DOMAIN link.executed : link.executed[i] = p

(* Packets are executed in the order they were sent and once; and whatever *)
(* was lost before, a packet that came in whole is executed if the one sent *)
(* before it was, or if it is the first of a connection that was made with *)
(* nothing of the one before left to parse: after data was thrown away the *)
(* parser of WebUsbProcessorBase finds back into the stream.  (With the    *)
(* beginning of a packet left, externalReset() comes too early: the parser *)
(* takes the first packet of the new connection for the rest of it.)       *)
PacketsResync ==
  /\ \A i, j \in DOMAIN link.executed : i < j => link.executed[i] < link.executed[j]
  /\ (incoming = <<>> /\ Idle(Core1)) =>
       \A p \in Packets :
         /\ Whole(p) /\ link.born[p] = link.connection
         /\ p > 1 => Executed(p - 1) \/ (link.born[p - 1] < link.connection /\ link.fresh)
         => Executed(p)

(* The packets that may be answered in a connection: its own, and those    *)
(* that were in hand when it was made.                                     *)
MayAnswer(p, connection) ==
  \/ link.born[p] = connection
  \/ connection > 0 /\ p \in link.inHand[connection]

(* A packet is answered once at most, and only if it was executed; and what *)
(* goes out in a connection answers its own packets or those that were in  *)
(* hand when it was made, never what was received or queued before         *)
(* (externalReset(), sendPkt(), flushOutgoing()).                          *)
AnswersFresh ==
  /\ ~link.twice
  /\ \A a \in link.delivered :
       a.packet # NoPacket => Executed(a.packet) /\ MayAnswer(a.packet, a.on)

-----------------------------------------------------------------------------
(* The inductive invariant *)

Current(p) == p \in DOMAIN link.born /\ link.born[p] = link.connection

\* Where a unit is in the stream of its packet, and which of two comes first.
Rank(u) ==
  CASE u.kind = "magic1" -> 1 [] u.kind = "magic2" -> 2 [] u.kind = "size" -> 3
    [] u.kind = "body" -> 3 + u.at

Before(u, v) == u.packet < v.packet \/ (u.packet = v.packet /\ Rank(u) < Rank(v))
Sorted(units) == \A i, j \in DOMAIN units : i < j => Before(units[i], units[j])

Units == [kind: {"magic1", "magic2", "size", "body"}, packet: Packets, at: Nat]
IsUnit(u) == \E p \in Packets : \E n \in 1 .. Len(Stream(p)) : u = Stream(p)[n]

\* The units that came in and were not parsed, and all that are kept.
Pending == Range(rest) \cup Range(incoming)
Kept == Range(parser.body) \cup Pending

Done == Range(link.executed) \cup ({executing} \ {NoPacket})

LinkType ==
  link \in [next: Nat \ {0}, sent: Nat, lost: SUBSET Packets, connection: Nat, born: Seq(Nat),
            inHand: Seq(SUBSET Packets), fresh: BOOLEAN, executed: Seq(Packets),
            delivered: SUBSET [packet: Packets \cup {NoPacket}, on: Nat], twice: BOOLEAN]

LinkFits ==
  /\ LinkType
  /\ link.sent > 0 => link.next \in Packets /\ link.sent < Len(Stream(link.next))
  /\ Len(link.born) = IF link.sent = 0 THEN link.next - 1 ELSE link.next
  /\ Len(link.inHand) = link.connection
  /\ link.sent > 0 => Current(link.next)
  /\ \A a \in link.delivered : a.on <= link.connection

ParserFits ==
  /\ parser \in [idx: Int, size: Nat, body: Seq(Units)]
  /\ parser.idx >= -2
  /\ parser.idx <= 0 => parser.body = <<>>
  /\ parser.idx > 0 => parser.idx = Len(parser.body) + 1 /\ Len(parser.body) < parser.size

\* What is kept of the stream is of this connection, or was in hand when it was made; it is
\* in the order it was sent, and comes after every packet that was executed.
Ours(p) == p \in DOMAIN link.born /\ MayAnswer(p, link.connection)

UnitsFit ==
  /\ \A u \in Kept :
       /\ IsUnit(u) /\ Ours(u.packet) /\ (link.fresh => Current(u.packet))
       /\ u.packet <= link.next /\ (u.packet = link.next => Rank(u) <= link.sent)
       /\ \A p \in Done : p < u.packet
  /\ rest \in Seq(Units) /\ incoming \in Seq(Units)
  /\ Sorted(rest) /\ Sorted(incoming)
  /\ \A u \in Range(parser.body), v \in Pending : Before(u, v)
  /\ \A u \in Range(rest), v \in Range(incoming) : Before(u, v)

\* Packets are executed one after the other, each once.
ExecutedFits ==
  /\ executing # NoPacket <=> pc[Core1] \in {"execute", "executed"}
  /\ rest # <<>> => pc[Core1] \in {"parse", "execute", "executed"}
  /\ \A p \in Done : p \in Packets /\ p < link.next
  /\ \A i, j \in DOMAIN link.executed : i < j => link.executed[i] < link.executed[j]
  /\ At(Core1, "execute") =>
       Ours(executing) /\ \A i \in DOMAIN link.executed : link.executed[i] < executing
  /\ At(Core1, "executed") => Ours(executing) /\ Executed(executing)

\* Each packet that was executed has one answer at most.
Queueing(p) == \E i \in DOMAIN outgoing : outgoing[i].packet = p
Writing(p) == \E i \in DOMAIN writing : writing[i].packet = p
OnBus(p) == \E t \in onBus : t.packet = p

AnswersFit ==
  /\ outgoing \in Seq([packet: Packets \cup {NoPacket}, answer: Answers])
  /\ writing \in Seq([packet: Packets \cup {NoPacket}, answer: Answers]) /\ Len(writing) <= 1
  /\ onBus \subseteq [packet: Packets \cup {TtyPacket}, node: environment.available]
  /\ Len(outgoing) <= MaxOutgoing /\ Len(incoming) <= MaxIncoming
  /\ \A p \in Packets :
       /\ Queueing(p) \/ Writing(p) \/ OnBus(p) => Executed(p) /\ Ours(p)
       /\ Delivered(p) => Executed(p)
       /\ Delivered(p) => ~Writing(p) /\ ~Queueing(p) /\ ~OnBus(p)
       /\ Writing(p) => ~Queueing(p) /\ ~OnBus(p)
       /\ Queueing(p) => ~OnBus(p)
  /\ \A i, j \in DOMAIN outgoing :
       outgoing[i].packet = outgoing[j].packet /\ outgoing[i].packet # NoPacket => i = j
  /\ \A s, t \in onBus : s.packet = t.packet /\ s.packet # TtyPacket => s = t

\* Where the cores may stand, in this stream and in the serial one.
Places ==
  {"idle", "echo", "echoing", "add", "report", "reporting", "resetting", "writing",
   "take", "handle", "printing", "parse", "execute", "executed"}

WebInv ==
  /\ environment \in Environments /\ pc \in [Cores -> Places]
  /\ LinkFits /\ ParserFits /\ UnitsFit /\ ExecutedFits /\ AnswersFit /\ AnswersFresh

\* How much of the stream of a packet was sent; how much of it was parsed, when what is left
\* of it waits; what the parser has made of it if it was in step from the beginning.
Arrived(p) == IF p = link.next THEN link.sent ELSE Len(Stream(p))

ParsedUpTo(p, n) ==
  /\ \A k \in n + 1 .. Arrived(p) : Stream(p)[k] \in Pending
  /\ n > 0 => \A v \in Pending : p < v.packet \/ (p = v.packet /\ n < Rank(v))

InStep(p, n) ==
  /\ n < Len(Stream(p)) /\ parser.idx = n - 2
  /\ n >= 3 =>
       /\ parser.size = environment.packets[p].units /\ Len(parser.body) = n - 3
       /\ \A i \in 1 .. n - 3 : parser.body[i] = Body(p)[i]

\* A packet of this connection of which nothing was lost, begun or not.
Unharmed(p) ==
  p <= link.next /\ p \notin link.lost /\ (p \in DOMAIN link.born => Current(p))

\* Nothing stands between the parser and the beginning of the packet.
Starts(p) == p = 1 \/ p - 1 \in Done \/ (link.born[p - 1] < link.connection /\ link.fresh)

\* The parser is in step with a packet it starts with until the packet is executed.
ResyncInv ==
  /\ \A i, j \in DOMAIN link.born : i <= j => link.born[i] <= link.born[j]
  /\ \A i \in DOMAIN link.born : link.born[i] <= link.connection
  /\ \A p \in Packets : Unharmed(p) =>
       \E n \in 0 .. Arrived(p) :
         ParsedUpTo(p, n) /\ (Starts(p) => p \in Done \/ InStep(p, n))

=============================================================================
