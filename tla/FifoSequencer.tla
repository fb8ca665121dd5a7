---------------------------- MODULE FifoSequencer ----------------------------
(***************************************************************************)
(* Exchange ingress: client order gateways send sequenced requests over   *)
(* TCP; the order server thread reads every connection once per loop      *)
(* iteration (CTCPServer::SendAndRecv), decodes the requests of each read  *)
(* in COrderServer::RecvCallback, and at the end of the round hands them  *)
(* to CFIFOSequencer::SequenceAndPublish, which sorts them by receive     *)
(* time and writes them to the matching engine's queue.                    *)
(*                                                                         *)
(* Gateway side (COrderGateway::Run, CTCPSocket::Send/SendAndRecv): each   *)
(* request is appended to the socket's send buffer with the next outgoing *)
(* sequence number; the next loop iteration flushes the buffer with one    *)
(* send().  If send() would block, the loop breaks and the buffer index is *)
(* reset all the same: the buffered requests are lost.                     *)
(*                                                                         *)
(* A request is [sock, seq]: the connection it was sent on and its wire   *)
(* sequence number.  Its client id is Owner[sock].  The order type, price  *)
(* and quantity play no part in sequencing and are left out.               *)
(***************************************************************************)
EXTENDS Naturals, Sequences
LOCAL INSTANCE SequencesExt
LOCAL INSTANCE Functions

CONSTANTS
    Clients,        \* client ids
    Sockets,        \* client TCP connections accepted by the order server
    Owner,          \* Owner[s]: the client id whose gateway sends on s
    RecvOrder,      \* m_receiveSockets: the sockets in the order they are read
    MaxSends,       \* bound on the requests the gateways send in a behaviour
    MaxPending,     \* ME_MAX_PENDING_REQUESTS: capacity of the pending array
    SortThreshold,  \* rounds of at most this many requests sort stably
    SendMayBlock    \* TRUE: a gateway's send() may fail with EWOULDBLOCK

ASSUME Owner \in [Sockets -> Clients]
ASSUME RecvOrder \in Bijection(1 .. Len(RecvOrder), Sockets)

NULL == "null"   \* nullptr in m_cidTcpSocket

VARIABLES
    gwSeq,      \* per socket: the gateway's m_nextOutgoingSeqNum
    gwBuf,      \* per socket: requests in the gateway's send buffer
    net,        \* per socket: flushed segments in flight, oldest first
    kbuf,       \* per socket: [seq, stamp] received by the kernel, unread
    clock,      \* kernel receive timestamp of the last arrival
    made,       \* requests the gateways have sent so far
    wire,       \* per socket: sequence numbers handed to TCP (history)
    bind,       \* m_cidTcpSocket
    expSeq,     \* m_cidNextExpSeqNum
    pending,    \* m_pendingClientRequests[0 .. m_pendingSize - 1]
    pub,        \* requests written to the matching engine's queue
    rpos,       \* position of SendAndRecv in m_receiveSockets
    recv,       \* SendAndRecv's recv flag for this round
    fatal       \* FATAL("Too many pending requests") ended the process

vars == <<gwSeq, gwBuf, net, kbuf, clock, made, wire, bind, expSeq, pending,
          pub, rpos, recv, fatal>>

Init ==
    /\ gwSeq = [s \in Sockets |-> 1]
    /\ gwBuf = [s \in Sockets |-> <<>>]
    /\ net = [s \in Sockets |-> <<>>]
    /\ kbuf = [s \in Sockets |-> <<>>]
    /\ clock = 0
    /\ made = 0
    /\ wire = [s \in Sockets |-> {}]
    /\ bind = [c \in Clients |-> NULL]
    /\ expSeq = [c \in Clients |-> 1]
    /\ pending = <<>>
    /\ pub = <<>>
    /\ rpos = 1
    /\ recv = FALSE
    /\ fatal = FALSE

-----------------------------------------------------------------------------
(* Gateway side.                                                           *)

(* COrderGateway::Run drains one request from the trade engine: Send()    *)
(* appends seqNum and request to the send buffer, ++m_nextOutgoingSeqNum.  *)
GatewaySend(s) ==
    /\ made < MaxSends
    /\ gwBuf' = [gwBuf EXCEPT ![s] = Append(@, gwSeq[s])]
    /\ gwSeq' = [gwSeq EXCEPT ![s] = @ + 1]
    /\ made' = made + 1
    /\ UNCHANGED <<net, kbuf, clock, wire, bind, expSeq, pending, pub, rpos, recv, fatal>>

(* CTCPSocket::SendAndRecv: one send() of the whole buffer succeeds; the  *)
(* buffer index is reset.                                                  *)
GatewayFlush(s) ==
    /\ gwBuf[s] # <<>>
    /\ net' = [net EXCEPT ![s] = Append(@, gwBuf[s])]
    /\ wire' = [wire EXCEPT ![s] = @ \cup ToSet(gwBuf[s])]
    /\ gwBuf' = [gwBuf EXCEPT ![s] = <<>>]
    /\ UNCHANGED <<gwSeq, kbuf, clock, made, bind, expSeq, pending, pub, rpos, recv, fatal>>

(* CTCPSocket::SendAndRecv: send() fails with EWOULDBLOCK; the loop      *)
(* breaks, and m_nextSendValidIndex = 0 discards the buffer.               *)
GatewayFlushBlocked(s) ==
    /\ SendMayBlock
    /\ gwBuf[s] # <<>>
    /\ gwBuf' = [gwBuf EXCEPT ![s] = <<>>]
    /\ UNCHANGED <<gwSeq, net, kbuf, clock, made, wire, bind, expSeq, pending, pub, rpos, recv, fatal>>

(* TCP delivers the oldest segment in flight to the exchange's kernel,   *)
(* which stamps it with its receive time (SO_TIMESTAMP).                   *)
Arrive(s) ==
    /\ net[s] # <<>>
    /\ clock' = clock + 1
    /\ kbuf' = [kbuf EXCEPT ![s] = @ \o [i \in DOMAIN Head(net[s]) |->
                                          [seq |-> Head(net[s])[i], stamp |-> clock + 1]]]
    /\ net' = [net EXCEPT ![s] = Tail(@)]
    /\ UNCHANGED <<gwSeq, gwBuf, made, wire, bind, expSeq, pending, pub, rpos, recv, fatal>>

-----------------------------------------------------------------------------
(* Order server thread.                                                    *)

(* The sequencer-side state RecvCallback and AddClientRequest change.     *)
Srv == [bind |-> bind, expSeq |-> expSeq, pending |-> pending, fatal |-> fatal]

(* Mutant of AddClientRequest: the record keeps its default recvTime 0.  *)
AddClientRequest_NoRxTime(st, rx, cid, s, seq) ==
    IF Len(st.pending) >= MaxPending
    THEN [st EXCEPT !.fatal = TRUE]
    ELSE [st EXCEPT !.pending = Append(@, [rx |-> 0, cid |-> cid, sock |-> s, seq |-> seq])]

(* CFIFOSequencer::AddClientRequest: FATAL when the array is full, else   *)
(* append {rx_time, request}.                                              *)
AddClientRequest(st, rx, cid, s, seq) ==
    IF Len(st.pending) >= MaxPending
    THEN [st EXCEPT !.fatal = TRUE]
    ELSE [st EXCEPT !.pending = Append(@, [rx |-> rx, cid |-> cid, sock |-> s, seq |-> seq])]

(* One iteration of RecvCallback's loop, for the request r read from s:  *)
(* bind the client to s on its first message; drop the request if it     *)
(* came on another socket or out of sequence; otherwise advance the       *)
(* expected sequence number and pass the request to the sequencer.  The   *)
(* process has ended once fatal is set.                                   *)
RecvRecord(st, s, rx, r) ==
    LET cid == Owner[s]
        b   == IF st.bind[cid] = NULL THEN [st.bind EXCEPT ![cid] = s] ELSE st.bind
        st1 == [st EXCEPT !.bind = b]
    IN  IF st.fatal THEN st
        ELSE IF b[cid] # s \/ r.seq # st.expSeq[cid] THEN st1
        ELSE AddClientRequest([st1 EXCEPT !.expSeq[cid] = @ + 1], rx, cid, s, r.seq)

(* COrderServer::RecvCallback over the whole records of one read.        *)
RecvCallback(st, s, rx, recs) ==
    FoldLeft(LAMBDA acc, r : RecvRecord(acc, s, rx, r), st, recs)

(* CTCPSocket::SendAndRecv on the next socket of m_receiveSockets:        *)
(* recvmsg() returns everything the kernel holds, stamped with the        *)
(* receive time of the last segment, and the callback decodes it.         *)
SocketRecv ==
    /\ ~fatal
    /\ rpos <= Len(RecvOrder)
    /\ LET s  == RecvOrder[rpos]
           st == RecvCallback(Srv, s, Last(kbuf[s]).stamp, kbuf[s])
       IN  /\ kbuf[s] # <<>>
           /\ kbuf' = [kbuf EXCEPT ![s] = <<>>]
           /\ bind' = st.bind
           /\ expSeq' = st.expSeq
           /\ pending' = st.pending
           /\ fatal' = st.fatal
    /\ rpos' = rpos + 1
    /\ recv' = TRUE
    /\ UNCHANGED <<gwSeq, gwBuf, net, clock, made, wire, pub>>

(* recvmsg() finds nothing to read on the next socket.                    *)
SocketNoData ==
    /\ ~fatal
    /\ rpos <= Len(RecvOrder)
    /\ kbuf[RecvOrder[rpos]] = <<>>
    /\ rpos' = rpos + 1
    /\ UNCHANGED <<gwSeq, gwBuf, net, kbuf, clock, made, wire, bind, expSeq, pending, pub, recv, fatal>>

(* The orders std::sort may leave p in: sorted by receive time.  Within   *)
(* libstdc++'s insertion-sort threshold the sort is stable; above it      *)
(* (introsort partitioning), equal receive times may come out in any      *)
(* order.                                                                  *)
SortOutcomes(p) ==
    LET n       == Len(p)
        Key(f)  == [i \in 1 .. n |-> p[f[i]]]
        Stable(f) == \A i, j \in 1 .. n : i < j =>
                       \/ p[f[i]].rx < p[f[j]].rx
                       \/ p[f[i]].rx = p[f[j]].rx /\ f[i] < f[j]
        Sorted(f) == IsSorted(Key(f), LAMBDA x, y : x.rx <= y.rx)
        Perms   == Bijection(1 .. n, 1 .. n)
    IN  IF n <= SortThreshold
        THEN {Key(f) : f \in {g \in Perms : Stable(g)}}
        ELSE {Key(f) : f \in {g \in Perms : Sorted(g)}}

(* Mutant of SequenceAndPublish: m_pendingSize is not reset.              *)
SequenceAndPublish_NoReset ==
    \/ pending = <<>> /\ UNCHANGED <<pending, pub>>
    \/ pending # <<>> /\ \E out \in SortOutcomes(pending) :
          pub' = pub \o out /\ UNCHANGED pending

(* CFIFOSequencer::SequenceAndPublish: nothing when empty; else sort,     *)
(* write each request to the engine's queue, and empty the array.         *)
SequenceAndPublish ==
    \/ pending = <<>> /\ UNCHANGED <<pending, pub>>
    \/ pending # <<>> /\ \E out \in SortOutcomes(pending) :
          pub' = pub \o out /\ pending' = <<>>

(* End of CTCPServer::SendAndRecv: RecvFinishedCallback if any read       *)
(* returned data; then the Run loop starts the next round.                 *)
RoundEnd ==
    /\ ~fatal
    /\ rpos = Len(RecvOrder) + 1
    /\ IF recv THEN SequenceAndPublish ELSE UNCHANGED <<pending, pub>>
    /\ rpos' = 1
    /\ recv' = FALSE
    /\ UNCHANGED <<gwSeq, gwBuf, net, kbuf, clock, made, wire, bind, expSeq, fatal>>

Next ==
    \/ \E s \in Sockets : GatewaySend(s) \/ GatewayFlush(s) \/ GatewayFlushBlocked(s) \/ Arrive(s)
    \/ SocketRecv \/ SocketNoData \/ RoundEnd

(* The order server and gateway threads spin forever on pinned cores;    *)
(* TCP eventually delivers what was sent.                                  *)
Fairness ==
    /\ WF_vars(SocketRecv \/ SocketNoData \/ RoundEnd)
    /\ \A s \in Sockets : WF_vars(GatewayFlush(s)) /\ WF_vars(Arrive(s))

Spec == Init /\ [][Next]_vars /\ Fairness

-----------------------------------------------------------------------------
(* Properties.                                                             *)

Req == [sock : Sockets, seq : 1 .. MaxSends]

TypeOK ==
    /\ gwSeq \in [Sockets -> 1 .. MaxSends + 1]
    /\ gwBuf \in [Sockets -> Seq(1 .. MaxSends)]
    /\ kbuf \in [Sockets -> Seq([seq : 1 .. MaxSends, stamp : 1 .. clock])]
    /\ made \in 0 .. MaxSends
    /\ bind \in [Clients -> Sockets \cup {NULL}]
    /\ expSeq \in [Clients -> 1 .. MaxSends + 1]
    /\ pending \in Seq([rx : 1 .. clock, cid : Clients, sock : Sockets, seq : 1 .. MaxSends])
    /\ rpos \in 1 .. Len(RecvOrder) + 1
    /\ recv \in BOOLEAN
    /\ fatal \in BOOLEAN

(* The requests of client c in pub, in order.                             *)
ClientPub(c) == SelectSeq(pub, LAMBDA r : r.cid = c)

(* Per-client FIFO into the engine: the requests of each client reach the *)
(* matching engine from one connection only, carrying sequence numbers     *)
(* 1, 2, 3, ... in that order, each once.  It rests on the socket binding  *)
(* and sequence checks of RecvCallback, the order the sort leaves equal    *)
(* receive times in, and SequenceAndPublish emptying its array; breaking   *)
(* it takes reads of several connections over several rounds.             *)
ClientFifo ==
    \A c \in Clients :
      LET q == ClientPub(c) IN
      /\ \A i \in DOMAIN q : q[i].seq = i /\ q[i].sock = q[1].sock

(* Every request a gateway hands to TCP reaches the matching engine's     *)
(* queue: the receive callback eventually accepts it and the round after  *)
(* publishes it.                                                           *)
Sequenced ==
    \A s \in Sockets, n \in 1 .. MaxSends :
      (n \in wire[s]) ~> (\E i \in DOMAIN pub : pub[i].sock = s /\ pub[i].seq = n)
====
