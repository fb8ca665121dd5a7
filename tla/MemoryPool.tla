----------------------------- MODULE MemoryPool -----------------------------
(***************************************************************************)
(* CMemoryPool<T> (src/common/MemoryPool.h): a fixed vector of blocks     *)
(* {object, isFree} and a cursor m_nextFreeIndex.  A pool is a record     *)
(*   [obj |-> slot -> T, free |-> slot -> BOOLEAN, cur |-> slot,          *)
(*    fatal |-> reason or "none"]                                          *)
(* over the slots 0..Size-1.  The operators are functional: they return   *)
(* the pool after the call, so that a component owning several pools (the *)
(* order book owns one for orders and one for price levels) composes them *)
(* inside its own actions.  A failed ASSERT aborts the process; the pool  *)
(* records the reason in "fatal" and the owner stops taking steps.        *)
(***************************************************************************)
LOCAL INSTANCE Naturals
LOCAL INSTANCE FiniteSets

Slots(p) == DOMAIN p.obj

(* The constructor: numElems default-constructed free blocks, cursor 0.   *)
NewPool(numElems, default) ==
    [obj   |-> [i \in 0 .. numElems - 1 |-> default],
     free  |-> [i \in 0 .. numElems - 1 |-> TRUE],
     cur   |-> 0,
     fatal |-> "none"]

(* UpdateNextFreeIndex: linear probe with wrap-around from the cursor.    *)
(* The probe starts on the block just taken; if it comes back to where it *)
(* started, the "Memory Pool out of space" ASSERT fires.                  *)
(* Mutant of Probe: the wrap-around test is one short, so the last slot  *)
(* is never probed.                                                        *)
RECURSIVE Probe_WrapEarly(_, _, _)
Probe_WrapEarly(p, i, initial) ==
    IF p.free[i] THEN [p EXCEPT !.cur = i]
    ELSE LET j == (i + 1) % (Cardinality(Slots(p)) - 1) IN
         IF j = initial THEN [p EXCEPT !.fatal = "pool out of space"]
         ELSE Probe_WrapEarly(p, j, initial)

RECURSIVE Probe(_, _, _)
Probe(p, i, initial) ==
    IF p.free[i] THEN [p EXCEPT !.cur = i]
    ELSE LET j == (i + 1) % Cardinality(Slots(p)) IN
         IF j = initial THEN [p EXCEPT !.fatal = "pool out of space"]
         ELSE Probe(p, j, initial)

UpdateNextFreeIndex(p) == Probe(p, p.cur, p.cur)

(* Allocate(args...): the slot handed out is the one under the cursor.    *)
AllocSlot(p) == p.cur

Allocate(p, v) ==
    IF ~p.free[p.cur]
    THEN [p EXCEPT !.fatal = "expected free block"]
    ELSE UpdateNextFreeIndex([p EXCEPT !.obj[p.cur] = v, !.free[p.cur] = FALSE])

(* Deallocate(elem): marks the block free again; the object is left as it *)
(* was (no destructor runs), the cursor is not moved.                     *)
Deallocate(p, i) ==
    IF i \notin Slots(p) THEN [p EXCEPT !.fatal = "not of this pool"]
    ELSE IF p.free[i] THEN [p EXCEPT !.fatal = "expected in-use block"]
    ELSE [p EXCEPT !.free[i] = TRUE]

InUse(p) == {i \in Slots(p) : ~p.free[i]}
=============================================================================
