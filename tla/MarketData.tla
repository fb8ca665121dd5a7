----------------------------- MODULE MarketData -----------------------------
(***************************************************************************)
(* The market-data path of one ticker, from the matching engine's updates  *)
(* to the client's recovered stream:                                        *)
(*   matching engine --meq--> CMarketDataPublisher --incNet--> consumer    *)
(*                              \--synq--> CSnapshotSynthesizer --snapNet-->*)
(* The engine's updates come from an abstract order book (live resting     *)
(* orders and their quantities).  The two multicast channels carry         *)
(* datagrams; a datagram can be lost (at most MaxLosses in a behaviour)    *)
(* and, with Reorder, overtaken by a later one.  The snapshot stream        *)
(* reaches the consumer only while it has joined the group.                 *)
(***************************************************************************)
EXTENDS Integers, Sequences, TLC
LOCAL INSTANCE SequencesExt
LOCAL INSTANCE Functions
Syn == INSTANCE SnapshotSynthesizer
Con == INSTANCE MarketDataConsumer

CONSTANTS
    Qtys,         \* order quantities the engine uses
    MaxUpdates,   \* market updates the engine emits in a behaviour
    NumOrderIds,  \* ME_MAX_ORDER_IDS: size of the synthesizer's table and pool
    MaxLosses,    \* datagrams the network loses in a behaviour
    Reorder       \* TRUE: a datagram may overtake another on its channel

ASSUME Qtys \subseteq Nat \ {0} /\ MaxUpdates \in Nat /\ NumOrderIds \in Nat \ {0}

VARIABLES
    live,      \* the engine's book: market order id -> resting qty
    nextMoid,  \* m_nextMarketOrderId
    meq,       \* the engine -> publisher SPSC queue
    incSeq,    \* the publisher's m_nextIncSeqNum
    log,       \* every update the publisher has sent, by seq (history)
    synq,      \* the publisher -> synthesizer SPSC queue of [seq, u]
    incNet,    \* incremental datagrams in flight
    snapNet,   \* snapshot datagrams in flight
    synth,     \* the synthesizer (SnapshotSynthesizer record)
    cons,      \* the consumer (MarketDataConsumer record)
    losses     \* datagrams lost so far

vars == <<live, nextMoid, meq, incSeq, log, synq, incNet, snapNet, synth, cons, losses>>

Upd(t, m, q) == [type |-> t, moid |-> m, qty |-> q]

Init ==
    /\ live = <<>>
    /\ nextMoid = 1
    /\ meq = <<>>
    /\ incSeq = 1
    /\ log = <<>>
    /\ synq = <<>>
    /\ incNet = <<>>
    /\ snapNet = <<>>
    /\ synth = Syn!NewSynth(NumOrderIds, NumOrderIds)
    /\ cons = Con!NewConsumer
    /\ losses = 0

-----------------------------------------------------------------------------
(* The matching engine (CMEOrderBook), as a source of market updates.      *)

Emitted == Len(log) + Len(meq)

EngineSends(us) ==
    /\ Emitted + Len(us) <= MaxUpdates
    /\ meq' = meq \o us

(* AddOrder with no match: a new market order id rests and is ADDed.       *)
MEAddOrder(q) ==
    /\ EngineSends(<<Upd("ADD", nextMoid, q)>>)
    /\ live' = (nextMoid :> q) @@ live
    /\ nextMoid' = nextMoid + 1
    /\ UNCHANGED <<incSeq, log, synq, incNet, snapNet, synth, cons, losses>>

(* AddOrder of f that Match fills in full against resting order m: the    *)
(* new id is consumed but never ADDed; TRADE, then CANCEL of m when it is  *)
(* filled or MODIFY with its remaining qty.                                *)
MEMatch(m, f) ==
    /\ m \in DOMAIN live
    /\ f <= live[m]
    /\ EngineSends(<<Upd("TRADE", -1, f),
                     IF f = live[m] THEN Upd("CANCEL", m, live[m])
                                    ELSE Upd("MODIFY", m, live[m] - f)>>)
    /\ live' = IF f = live[m] THEN RestrictDomain(live, LAMBDA x : x # m)
                              ELSE [live EXCEPT ![m] = @ - f]
    /\ nextMoid' = nextMoid + 1
    /\ UNCHANGED <<incSeq, log, synq, incNet, snapNet, synth, cons, losses>>

(* CancelOrder of a resting order.                                         *)
MECancel(m) ==
    /\ m \in DOMAIN live
    /\ EngineSends(<<Upd("CANCEL", m, 0)>>)
    /\ live' = RestrictDomain(live, LAMBDA x : x # m)
    /\ UNCHANGED <<nextMoid, incSeq, log, synq, incNet, snapNet, synth, cons, losses>>

-----------------------------------------------------------------------------
(* CMarketDataPublisher::Run, one pass of its loop: every queued update    *)
(* gets the next seq, is written to the socket buffer and forwarded to the *)
(* synthesizer; SendAndRecv then sends the buffer as one datagram.         *)
Numbered(us, first) == [i \in DOMAIN us |-> [seq |-> first + i - 1, u |-> us[i]]]

(* Mutant of PublisherRun: m_nextIncSeqNum advances once per pass.        *)
PublisherRun_SeqPerPass ==
    /\ meq # <<>>
    /\ incNet' = Append(incNet, Numbered(meq, incSeq))
    /\ synq' = synq \o Numbered(meq, incSeq)
    /\ log' = log \o meq
    /\ incSeq' = incSeq + 1
    /\ meq' = <<>>
    /\ UNCHANGED <<live, nextMoid, snapNet, synth, cons, losses>>

PublisherRun ==
    /\ meq # <<>>
    /\ incNet' = Append(incNet, Numbered(meq, incSeq))
    /\ synq' = synq \o Numbered(meq, incSeq)
    /\ log' = log \o meq
    /\ incSeq' = incSeq + Len(meq)
    /\ meq' = <<>>
    /\ UNCHANGED <<live, nextMoid, snapNet, synth, cons, losses>>

(* CSnapshotSynthesizer::Run: AddToSnapshot of the next forwarded update.   *)
SynthAdd ==
    /\ ~Syn!SynthCrashed(synth)
    /\ synq # <<>>
    /\ synth' = Syn!AddToSnapshot(synth, Head(synq))
    /\ synq' = Tail(synq)
    /\ UNCHANGED <<live, nextMoid, meq, incSeq, log, incNet, snapNet, cons, losses>>

(* The 60 s timer, tested once the forwarded queue is drained.  The period *)
(* is taken to be far longer than a datagram's flight, so a cycle starts    *)
(* only when the previous one has left the network.                        *)
SynthSnapshot ==
    /\ ~Syn!SynthCrashed(synth)
    /\ synq = <<>>
    /\ snapNet = <<>>
    /\ snapNet' = Syn!PublishSnapshot(synth)
    /\ UNCHANGED <<live, nextMoid, meq, incSeq, log, synq, incNet, synth, cons, losses>>

-----------------------------------------------------------------------------
(* CMarketDataConsumer::Run: SendAndRecv on a socket reads one datagram and *)
(* hands it to RecvCallback.  Without Reorder the oldest datagram of the   *)
(* channel arrives first.                                                  *)
Deliverable(ch) == IF Reorder THEN DOMAIN ch ELSE {1} \cap DOMAIN ch

ConsumerRecvInc ==
    \E i \in Deliverable(incNet) :
        /\ cons' = Con!RecvCallback(cons, FALSE, incNet[i])
        /\ incNet' = RemoveAt(incNet, i)
        /\ UNCHANGED <<live, nextMoid, meq, incSeq, log, synq, snapNet, synth, losses>>

ConsumerRecvSnap ==
    \E i \in Deliverable(snapNet) :
        /\ cons.sub
        /\ cons' = Con!RecvCallback(cons, TRUE, snapNet[i])
        /\ snapNet' = RemoveAt(snapNet, i)
        /\ UNCHANGED <<live, nextMoid, meq, incSeq, log, synq, incNet, synth, losses>>

(* A snapshot datagram sent while the consumer has not joined the group    *)
(* never reaches its socket.                                               *)
SnapNotJoined ==
    /\ snapNet # <<>>
    /\ ~cons.sub
    /\ snapNet' = Tail(snapNet)
    /\ UNCHANGED <<live, nextMoid, meq, incSeq, log, synq, incNet, synth, cons, losses>>

(* UDP multicast loses a datagram.                                         *)
Lose ==
    /\ losses < MaxLosses
    /\ \/ \E i \in DOMAIN incNet : incNet' = RemoveAt(incNet, i) /\ UNCHANGED snapNet
       \/ \E i \in DOMAIN snapNet : snapNet' = RemoveAt(snapNet, i) /\ UNCHANGED incNet
    /\ losses' = losses + 1
    /\ UNCHANGED <<live, nextMoid, meq, incSeq, log, synq, synth, cons>>

Engine == (\E q \in Qtys : MEAddOrder(q))
          \/ (\E m \in DOMAIN live, f \in Qtys : MEMatch(m, f))
          \/ (\E m \in DOMAIN live : MECancel(m))

Next == Engine \/ PublisherRun \/ SynthAdd \/ SynthSnapshot
        \/ ConsumerRecvInc \/ ConsumerRecvSnap \/ SnapNotJoined \/ Lose

(* The publisher, synthesizer and consumer threads each spin on their     *)
(* inputs without blocking, and the synthesizer's timer keeps expiring.    *)
Fairness ==
    /\ WF_vars(PublisherRun) /\ WF_vars(SynthAdd) /\ WF_vars(SynthSnapshot)
    /\ WF_vars(ConsumerRecvInc) /\ WF_vars(ConsumerRecvSnap) /\ WF_vars(SnapNotJoined)

Spec == Init /\ [][Next]_vars /\ Fairness

-----------------------------------------------------------------------------
(* The meaning of a stream of updates: the resting orders it describes, or *)
(* ok = FALSE once an update contradicts them (an ADD of a live id, a      *)
(* MODIFY or CANCEL of an id that is not live).  CLEAR empties the book;   *)
(* TRADE and the snapshot markers change nothing.                          *)
ApplyUpdate(st, u) ==
    LET isLive == u.moid \in DOMAIN st.img IN
    IF ~st.ok THEN st
    ELSE CASE u.type = "CLEAR"  -> [st EXCEPT !.img = <<>>]
           [] u.type = "ADD"    -> IF isLive THEN [st EXCEPT !.ok = FALSE]
                                   ELSE [st EXCEPT !.img = (u.moid :> u.qty) @@ @]
           [] u.type = "MODIFY" -> IF ~isLive THEN [st EXCEPT !.ok = FALSE]
                                   ELSE [st EXCEPT !.img[u.moid] = u.qty]
           [] u.type = "CANCEL" -> IF ~isLive THEN [st EXCEPT !.ok = FALSE]
                                   ELSE [st EXCEPT !.img = RestrictDomain(@, LAMBDA x : x # u.moid)]
           [] OTHER -> st

Replay(us) == FoldLeft(ApplyUpdate, [ok |-> TRUE, img |-> <<>>], us)

SynthImage == [m \in {x \in DOMAIN synth.orders : synth.orders[x] # Syn!NULL} |->
                  synth.pool.obj[synth.orders[m]].qty]

TypeOK ==
    /\ live \in [DOMAIN live -> Qtys]
    /\ nextMoid \in 1 .. MaxUpdates + 1
    /\ incSeq = Len(log) + 1
    /\ losses \in 0 .. MaxLosses
    /\ cons.nextExp \in Nat
    /\ cons.inRec \in BOOLEAN /\ cons.sub \in BOOLEAN

(* Out of recovery, what the consumer has handed to the strategy's book    *)
(* describes the same resting orders as the first nextExp - 1 updates the *)
(* publisher sent (spec section 8, invariant 6).  Breaking it takes a gap, *)
(* a snapshot cycle of the synthesizer and the splice in checkSnapshotSync *)
(* (the cursor taken from SNAPSHOT_END, the skip of covered incrementals,  *)
(* the queues cleared between cycles) getting one step wrong.              *)
ConsumerInSync ==
    ~cons.inRec => Replay(cons.out) = Replay(SubSeq(log, 1, cons.nextExp - 1))

(* The synthesizer never dies (no ASSERT, no out_of_range) and its image  *)
(* is the book the updates it was forwarded describe: the publisher's     *)
(* numbering, the forwarding and AddToSnapshot agree.                      *)
SynthConsistent ==
    /\ ~Syn!SynthCrashed(synth)
    /\ SynthImage = Replay(SubSeq(log, 1, synth.last)).img

(* A consumer that has gone into recovery comes out of it: some snapshot  *)
(* cycle, together with the buffered incrementals, completes a splice.     *)
Recovers == cons.inRec ~> ~cons.inRec
====
