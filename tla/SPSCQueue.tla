------------------------------ MODULE SPSCQueue ------------------------------
(***************************************************************************)
(* CLockFreeQueue<T> (src/common/LockFreeQueue.h): a ring of Size records *)
(* with an atomic write index, read index and element count, written by   *)
(* one thread and read by another.  Each atomic access of the code is one *)
(* step, so the two threads interleave between them:                      *)
(*   producer:  *GetNextToWriteTo() = v;  UpdateWriteIndex()              *)
(*              (index store, then m_numElements++)                        *)
(*   consumer:  GetNextToRead() (size() test), use the record in place,  *)
(*              UpdateReadIndex() (index store, ASSERT, m_numElements--)   *)
(* The producer writes the values 1, 2, ..., MaxItems in turn, so what the *)
(* consumer reads shows any loss, duplication or reordering.               *)
(***************************************************************************)
EXTENDS Naturals, Sequences

CONSTANTS
    Size,             \* m_store.size()
    MaxItems,         \* records the producer writes in a behaviour
    ProducerWaits     \* TRUE: the producer is assumed never to write into a
                      \* full queue (the queue is sized for the burst); the
                      \* code itself never tests size() before writing

VARIABLES
    store,      \* m_store
    writeIdx,   \* m_nextWriteIndex
    readIdx,    \* m_nextReadIndex
    num,        \* m_numElements
    ppc,        \* producer: "write", "index" or "count"
    cpc,        \* consumer: "poll", "use", "index" or "count"
    nextVal,    \* the value the producer writes next
    got,        \* the values the consumer has used, in order
    fatal       \* the consumer's ASSERT fired

vars == <<store, writeIdx, readIdx, num, ppc, cpc, nextVal, got, fatal>>

Empty == 0  \* T(): the value the constructor stores in every slot

Init ==
    /\ store = [i \in 0 .. Size - 1 |-> Empty]
    /\ writeIdx = 0
    /\ readIdx = 0
    /\ num = 0
    /\ ppc = "write"
    /\ cpc = "poll"
    /\ nextVal = 1
    /\ got = <<>>
    /\ fatal = FALSE

-----------------------------------------------------------------------------
(* Producer.                                                               *)

(* *GetNextToWriteTo() = v: the record is written into the slot at the    *)
(* write index, whatever that slot holds.                                  *)
GetNextToWriteTo ==
    /\ ppc = "write"
    /\ nextVal <= MaxItems
    /\ ProducerWaits => num < Size
    /\ store' = [store EXCEPT ![writeIdx] = nextVal]
    /\ ppc' = "index"
    /\ UNCHANGED <<writeIdx, readIdx, num, cpc, nextVal, got, fatal>>

(* UpdateWriteIndex, first statement.                                      *)
AdvanceWriteIndex ==
    /\ ppc = "index"
    /\ writeIdx' = (writeIdx + 1) % Size
    /\ ppc' = "count"
    /\ UNCHANGED <<store, readIdx, num, cpc, nextVal, got, fatal>>

(* UpdateWriteIndex, second statement: the record becomes visible.        *)
CommitWrite ==
    /\ ppc = "count"
    /\ num' = num + 1
    /\ nextVal' = nextVal + 1
    /\ ppc' = "write"
    /\ UNCHANGED <<store, writeIdx, readIdx, cpc, got, fatal>>

-----------------------------------------------------------------------------
(* Consumer.                                                               *)

(* Mutant of GetNextToRead: returns the slot without testing size().     *)
GetNextToRead_NoSizeCheck ==
    /\ cpc = "poll"
    /\ ~fatal
    /\ cpc' = "use"
    /\ UNCHANGED <<store, writeIdx, readIdx, num, ppc, nextVal, got, fatal>>

(* Mutant of GetNextToRead: tests size() > 1, so a last record waits.     *)
GetNextToRead_OffByOne ==
    /\ cpc = "poll"
    /\ ~fatal
    /\ num > 1
    /\ cpc' = "use"
    /\ UNCHANGED <<store, writeIdx, readIdx, num, ppc, nextVal, got, fatal>>

(* GetNextToRead: a record when size() is non-zero, nullptr otherwise (the *)
(* consumer loops polling).                                                *)
GetNextToRead ==
    /\ cpc = "poll"
    /\ ~fatal
    /\ num > 0
    /\ cpc' = "use"
    /\ UNCHANGED <<store, writeIdx, readIdx, num, ppc, nextVal, got, fatal>>

(* The consumer uses the record in place through the returned pointer.    *)
UseRecord ==
    /\ cpc = "use"
    /\ got' = Append(got, store[readIdx])
    /\ cpc' = "index"
    /\ UNCHANGED <<store, writeIdx, readIdx, num, ppc, nextVal, fatal>>

(* Mutant of AdvanceReadIndex: the read index does not wrap.             *)
AdvanceReadIndex_NoWrap ==
    /\ cpc = "index"
    /\ readIdx' = readIdx + 1
    /\ cpc' = "count"
    /\ UNCHANGED <<store, writeIdx, num, ppc, nextVal, got, fatal>>

(* UpdateReadIndex, first statement.                                       *)
AdvanceReadIndex ==
    /\ cpc = "index"
    /\ readIdx' = (readIdx + 1) % Size
    /\ cpc' = "count"
    /\ UNCHANGED <<store, writeIdx, num, ppc, nextVal, got, fatal>>

(* UpdateReadIndex, the ASSERT and the decrement.                          *)
ReleaseRead ==
    /\ cpc = "count"
    /\ IF num = 0
       THEN fatal' = TRUE /\ UNCHANGED num
       ELSE num' = num - 1 /\ UNCHANGED fatal
    /\ cpc' = "poll"
    /\ UNCHANGED <<store, writeIdx, readIdx, ppc, nextVal, got>>

(* GetNextToRead returned nullptr: the consumer's loop polls again.       *)
ConsumerSpin ==
    /\ cpc = "poll"
    /\ ~ENABLED GetNextToRead
    /\ UNCHANGED vars

Producer == GetNextToWriteTo \/ AdvanceWriteIndex \/ CommitWrite
Consumer == GetNextToRead \/ UseRecord \/ AdvanceReadIndex \/ ReleaseRead

Next == Producer \/ Consumer \/ ConsumerSpin

(* The consumer thread spins on its queue without blocking and is pinned  *)
(* to a core: it keeps taking steps.  The producer finishes what it began. *)
Fairness == WF_vars(Consumer) /\ WF_vars(AdvanceWriteIndex) /\ WF_vars(CommitWrite)

Spec == Init /\ [][Next]_vars /\ Fairness

-----------------------------------------------------------------------------
(* Properties.                                                             *)

TypeOK ==
    /\ store \in [0 .. Size - 1 -> 0 .. MaxItems]
    /\ writeIdx \in 0 .. Size - 1
    /\ readIdx \in 0 .. Size - 1
    /\ num \in 0 .. Size
    /\ ppc \in {"write", "index", "count"}
    /\ cpc \in {"poll", "use", "index", "count"}
    /\ nextVal \in 1 .. MaxItems + 1
    /\ got \in Seq(0 .. MaxItems)
    /\ fatal \in BOOLEAN

(* The queue is a FIFO channel: the records the consumer uses are exactly *)
(* the first records the producer wrote, in the order written, each once. *)
(* A read of a slot before its write is visible, or a write over a slot   *)
(* not yet used, breaks it; it takes producer and consumer steps          *)
(* interleaved across the wrap-around of both indices.                     *)
FifoDelivery == \A i \in DOMAIN got : got[i] = i

(* Every record the producer commits is eventually used by the consumer:  *)
(* GetNextToRead sees the count the producer's increment made.             *)
AllConsumed == \A k \in 1 .. MaxItems : (nextVal > k) ~> (Len(got) >= k)
=============================================================================
