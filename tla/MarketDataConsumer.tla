-------------------------- MODULE MarketDataConsumer --------------------------
(***************************************************************************)
(* CMarketDataConsumer (src/trading/market_data/MarketDataConsumer.cpp),   *)
(* the gap detection and snapshot recovery of the client.  The consumer is *)
(* a record                                                                *)
(*   [nextExp |-> m_nextExpIncSeqNum,  inRec |-> m_isInRecovery,           *)
(*    sub     |-> the snapshot socket is open and joined,                  *)
(*    snapQ   |-> m_snapshotQueuedMsgs, incQ |-> m_incrementalQueuedMsgs,  *)
(*              (std::map seq -> update, as functions),                    *)
(*    out     |-> the updates written to m_pIncomingMdUpdates, in order]   *)
(* and each member function is an operator returning the record after it. *)
(* A wire record is [seq, u] and a datagram a sequence of them.            *)
(***************************************************************************)
EXTENDS Integers, Sequences, TLC
LOCAL INSTANCE SequencesExt
LOCAL INSTANCE FiniteSetsExt

NoMsgs == <<>>   \* an empty std::map

NewConsumer ==
    [nextExp |-> 1, inRec |-> FALSE, sub |-> FALSE,
     snapQ |-> NoMsgs, incQ |-> NoMsgs, out |-> <<>>]

(* The values of a map over the keys lo..hi, in key order.                 *)
ValuesIn(q, lo, hi) == [i \in 1 .. hi - lo + 1 |-> q[lo + i - 1]]

IsMarker(u) == u.type \in {"SNAPSHOT_START", "SNAPSHOT_END"}

(* Mutant of StartSnapshotSync: the snapshot socket is never joined.      *)
StartSnapshotSync_NoJoin(c) == [c EXCEPT !.snapQ = NoMsgs, !.incQ = NoMsgs]

(* startSnapshotSync: clear both queues, Init and Join the snapshot socket. *)
StartSnapshotSync(c) == [c EXCEPT !.snapQ = NoMsgs, !.incQ = NoMsgs, !.sub = TRUE]

(* The first incremental the snapshot does not cover:                      *)
(* m_nextExpIncSeqNum = last_snapshot_msg.orderId + 1.                     *)
(* Mutant: the splice starts at the last covered incremental itself.       *)
SpliceFrom_OffByOne(endMsg) == endMsg.moid
SpliceFrom(endMsg) == endMsg.moid + 1

(* The walk over the incremental queue from `from`: keys below it are      *)
(* skipped and the cursor advances over consecutive keys; the result is    *)
(* the last key of that run (from - 1 when there is none).                 *)
RunEnd(q, from) ==
    LET K == {k \in DOMAIN q : k >= from}
    IN  CHOOSE j \in (from - 1) .. (from - 1 + Cardinality(K)) :
            (from .. j) \subseteq K /\ (j + 1) \notin K

(* checkSnapshotSync.                                                      *)
CheckSnapshotSync(c) ==
    LET keys == DOMAIN c.snapQ IN
    IF keys = {} THEN c
    ELSE IF c.snapQ[Min(keys)].type # "SNAPSHOT_START"
         THEN [c EXCEPT !.snapQ = NoMsgs]
    ELSE IF keys # 0 .. Cardinality(keys) - 1               \* a gap in the snapshot
         THEN [c EXCEPT !.snapQ = NoMsgs]
    ELSE IF c.snapQ[Max(keys)].type # "SNAPSHOT_END" THEN c
    ELSE LET from == SpliceFrom(c.snapQ[Max(keys)])
             to   == RunEnd(c.incQ, from)
             snap == SelectSeq(ValuesIn(c.snapQ, 0, Max(keys)), LAMBDA u : ~IsMarker(u))
             incs == SelectSeq(ValuesIn(c.incQ, from, to), LAMBDA u : ~IsMarker(u))
         IN  IF \E k \in DOMAIN c.incQ : k > to                \* a gap in the incrementals
             THEN [c EXCEPT !.nextExp = to + 1, !.snapQ = NoMsgs]
             ELSE [c EXCEPT !.nextExp = to + 1, !.out = @ \o snap \o incs,
                            !.snapQ = NoMsgs, !.incQ = NoMsgs,
                            !.inRec = FALSE, !.sub = FALSE]      \* Leave()

(* queueMessage: a snapshot record whose seq is already queued means a new *)
(* snapshot cycle; the queue is cleared before the record is stored.       *)
QueueMessage(c, isSnap, r) ==
    CheckSnapshotSync(
        IF isSnap
        THEN [c EXCEPT !.snapQ = (r.seq :> r.u) @@ (IF r.seq \in DOMAIN @ THEN NoMsgs ELSE @)]
        ELSE [c EXCEPT !.incQ = (r.seq :> r.u) @@ @])

(* One record of RecvCallback's loop.                                      *)
RecvRecord(c, isSnap, r) ==
    LET already == c.inRec
        inRec   == already \/ r.seq # c.nextExp
    IN  IF inRec
        THEN QueueMessage(IF already THEN c
                          ELSE StartSnapshotSync([c EXCEPT !.inRec = TRUE]), isSnap, r)
        ELSE IF ~isSnap
        THEN [c EXCEPT !.nextExp = @ + 1, !.out = Append(@, r.u)]
        ELSE c

(* RecvCallback's loop over the records of the receive buffer.             *)
RECURSIVE RecvAll(_, _, _)
RecvAll(c, isSnap, recs) ==
    IF recs = <<>> THEN c
    ELSE RecvAll(RecvRecord(c, isSnap, Head(recs)), isSnap, Tail(recs))

(* RecvCallback on one datagram: a snapshot datagram while not in recovery *)
(* is discarded, otherwise every record is handled in turn.                *)
RecvCallback(c, isSnap, dgram) ==
    IF isSnap /\ ~c.inRec THEN c
    ELSE RecvAll(c, isSnap, dgram)
====
