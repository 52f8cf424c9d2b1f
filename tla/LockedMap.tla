----------------------------- MODULE LockedMap -----------------------------
(***************************************************************************)
(* donkeycar::concurrency::LockedMap (include/locked-map.hpp) and the Lock *)
(* each of its methods has as a local variable (include/lock.hpp).         *)
(*                                                                         *)
(* Threads call the methods at any time.  What a method does to m_data is  *)
(* taken apart into the steps another thread could see if the lock let it: *)
(* m_data[key] = value first makes an entry with a default value, and      *)
(* clear of a map of pointers deletes object by object.                    *)
(***************************************************************************)
EXTENDS Integers, FiniteSets, Functions

CONSTANTS Threads, Keys, Values,
          NoValue,   \* no key, no value, no thread
          Default    \* the value operator[] makes, told apart from one put

ASSUME MapAssumption ==
    /\ NoValue \notin Threads \cup Keys \cup Values
    /\ Default \notin Values \cup {NoValue}
    /\ IsFiniteSet(Keys)

VARIABLES is_pointer,     \* std::is_pointer<DataType>
          m_data,         \* a function on the keys that are present
          owner, depth,   \* m_mutex
          m_lock_cnt,     \* of the Lock in each thread's call
          pc,             \* where that call is
          call, result,   \* what it was asked and what it answers
          mit,            \* clear's iterator: the keys it still has to visit
          used, deleted   \* the objects inserted so far, and deleted by clear

lockVars == <<owner, depth, m_lock_cnt>>
heapVars == <<used, deleted>>
vars == <<is_pointer, m_data, lockVars, pc, call, result, mit, heapVars>>

Mx == INSTANCE Mutex WITH NoThread <- NoValue

(***************************************************************************)
(* The refinement mapping: the entries that have been assigned, and the    *)
(* answer that is known when the Lock is destroyed.                        *)
(***************************************************************************)
visible == Restrict(m_data, {k \in DOMAIN m_data : m_data[k] # Default})

phase == [t \in Threads |-> IF pc[t] = "idle" THEN "idle"
                            ELSE IF pc[t] = "unwind" THEN "done"
                            ELSE "called"]

Abstract == INSTANCE AtomicMap WITH map <- visible

Calls == Abstract!Calls
NoResult == Abstract!NoResult
Reply(v, x, n, e) == Abstract!Reply(v, x, n, e)
EmptyMap == Abstract!EmptyMap
Places == {"idle", "lock", "body", "assign", "delete", "unwind"}

\* Type correctness; the map has no other values than those that were put.
TypeOK ==
    /\ is_pointer \in BOOLEAN
    /\ DOMAIN m_data \subseteq Keys
    /\ m_data \in [DOMAIN m_data -> Values \cup {Default}]
    /\ owner \in Threads \cup {NoValue}
    /\ depth \in Nat
    /\ m_lock_cnt \in [Threads -> Nat]
    /\ pc \in [Threads -> Places]
    /\ call \in [Threads -> Calls \cup {NoValue}]
    /\ result \in [Threads -> [value : Values \cup {NoValue},
                               throws : BOOLEAN, size : Nat, empty : BOOLEAN]]
    /\ mit \in [Threads -> SUBSET Keys]
    /\ used \subseteq Values /\ deleted \subseteq Values

Init ==
    /\ is_pointer \in BOOLEAN
    /\ m_data = EmptyMap
    /\ owner = NoValue /\ depth = 0
    /\ m_lock_cnt = [t \in Threads |-> 0]
    /\ pc = [t \in Threads |-> "idle"]
    /\ call = [t \in Threads |-> NoValue]
    /\ result = [t \in Threads |-> NoResult]
    /\ mit = [t \in Threads |-> {}]
    /\ used = {} /\ deleted = {}

Goto(t, from, to) ==
    /\ pc[t] = from
    /\ pc' = [pc EXCEPT ![t] = to]
    /\ UNCHANGED is_pointer

In(t, op) == pc[t] # "idle" /\ call[t].op = op

\* A call begins.  Who inserts pointers hands each object over once.
Begin(t) ==
    \E c \in Calls :
        /\ is_pointer /\ c.op = "insert" => c.value \notin used
        /\ Goto(t, "idle", "lock")
        /\ call' = [call EXCEPT ![t] = c]
        /\ used' = IF is_pointer /\ c.op = "insert" THEN used \cup {c.value}
                   ELSE used
        /\ UNCHANGED <<m_data, lockVars, result, mit, deleted>>

-----------------------------------------------------------------------------
(***************************************************************************)
(* Lock: the constructor, and the destructor, which also runs when an      *)
(* exception leaves the method.                                            *)
(***************************************************************************)
Lock(t) ==
    /\ Goto(t, "lock", "body")
    /\ Mx!lock(t)
    /\ m_lock_cnt' = [m_lock_cnt EXCEPT ![t] = 1]
    /\ UNCHANGED <<m_data, call, result, mit, heapVars>>

\* Mutant: the loop runs once too often.
destroy_once_more(t) ==
    /\ Goto(t, "unwind", "idle")
    /\ Mx!unlock(t)
    /\ m_lock_cnt' = [m_lock_cnt EXCEPT ![t] = @ - 2]
    /\ UNCHANGED <<m_data, call, result, mit, heapVars>>

\* Mutant: a condition that is never true.
destroy_nothing(t) ==
    /\ Goto(t, "unwind", "idle")
    /\ m_lock_cnt' = [m_lock_cnt EXCEPT ![t] = 0]
    /\ UNCHANGED <<m_data, owner, depth, call, result, mit, heapVars>>

\* ~Lock: unlock() until m_lock_cnt is 0, then the method returns.
destroy(t) ==
    /\ \/ /\ m_lock_cnt[t] > 0
          /\ Goto(t, "unwind", "unwind")
          /\ Mx!unlock(t)
          /\ m_lock_cnt' = [m_lock_cnt EXCEPT ![t] = @ - 1]
       \/ /\ m_lock_cnt[t] = 0
          /\ Goto(t, "unwind", "idle")
          /\ UNCHANGED lockVars
    /\ UNCHANGED <<m_data, call, result, mit, heapVars>>

-----------------------------------------------------------------------------
(***************************************************************************)
(* The methods, between the two.                                           *)
(***************************************************************************)
Answer(t, r) ==
    /\ result' = [result EXCEPT ![t] = r]
    /\ UNCHANGED <<m_data, lockVars, call, mit, heapVars>>

\* insert: m_data[key] ...
insert_entry(t) ==
    LET k == call[t].key IN
    /\ In(t, "insert")
    /\ Goto(t, "body", "assign")
    /\ m_data' = IF k \in DOMAIN m_data THEN m_data
                 ELSE [l \in DOMAIN m_data \cup {k} |->
                        IF l = k THEN Default ELSE m_data[l]]
    /\ UNCHANGED <<lockVars, call, result, mit, heapVars>>

\* ... = value
insert_assign(t) ==
    /\ In(t, "insert")
    /\ Goto(t, "assign", "unwind")
    /\ m_data' = [m_data EXCEPT ![call[t].key] = call[t].value]
    /\ result' = [result EXCEPT ![t] = NoResult]
    /\ UNCHANGED <<lockVars, call, mit, heapVars>>

\* Mutant: the mutex is unlocked by hand where at() returns, and not when
\* it throws.
at_throws_locked(t) ==
    LET k == call[t].key IN
    /\ In(t, "at")
    /\ \/ /\ k \in DOMAIN m_data
          /\ Goto(t, "body", "unwind")
          /\ Answer(t, Reply(m_data[k], FALSE, 0, FALSE))
       \/ /\ k \notin DOMAIN m_data
          /\ Goto(t, "body", "idle")
          /\ Answer(t, Reply(NoValue, TRUE, 0, FALSE))

\* at: std::out_of_range leaves through the destructor of the Lock too.
at(t) ==
    LET k == call[t].key IN
    /\ In(t, "at")
    /\ Goto(t, "body", "unwind")
    /\ \/ /\ k \in DOMAIN m_data
          /\ Answer(t, Reply(m_data[k], FALSE, 0, FALSE))
       \/ /\ k \notin DOMAIN m_data
          /\ Answer(t, Reply(NoValue, TRUE, 0, FALSE))

\* clear: objects on the heap are deleted, one after the other;
clear_begin(t) ==
    /\ In(t, "clear")
    /\ Goto(t, "body", "delete")
    /\ mit' = [mit EXCEPT ![t] = IF is_pointer THEN DOMAIN m_data ELSE {}]
    /\ UNCHANGED <<m_data, lockVars, call, result, heapVars>>

clear_delete(t) ==
    \E k \in mit[t] :
        /\ In(t, "clear")
        /\ Goto(t, "delete", "delete")
        /\ deleted' = deleted \cup {m_data[k]}
        /\ mit' = [mit EXCEPT ![t] = @ \ {k}]
        /\ UNCHANGED <<m_data, lockVars, call, result, used>>

\* Mutant: the entries stay when the objects are gone.
clear_end_kept(t) ==
    /\ In(t, "clear")
    /\ mit[t] = {}
    /\ Goto(t, "delete", "unwind")
    /\ result' = [result EXCEPT ![t] = NoResult]
    /\ UNCHANGED <<m_data, lockVars, call, mit, heapVars>>

\* then m_data.clear().
clear_end(t) ==
    /\ In(t, "clear")
    /\ mit[t] = {}
    /\ Goto(t, "delete", "unwind")
    /\ m_data' = EmptyMap
    /\ result' = [result EXCEPT ![t] = NoResult]
    /\ UNCHANGED <<lockVars, call, mit, heapVars>>

size(t) ==
    /\ In(t, "size")
    /\ Goto(t, "body", "unwind")
    /\ Answer(t, Reply(NoValue, FALSE, Cardinality(DOMAIN m_data), FALSE))

empty(t) ==
    /\ In(t, "empty")
    /\ Goto(t, "body", "unwind")
    /\ Answer(t, Reply(NoValue, FALSE, 0, DOMAIN m_data = {}))

-----------------------------------------------------------------------------
Step(t) ==
    \/ Lock(t) \/ destroy(t)
    \/ insert_entry(t) \/ insert_assign(t) \/ at(t)
    \/ clear_begin(t) \/ clear_delete(t) \/ clear_end(t)
    \/ size(t) \/ empty(t)

Next == \E t \in Threads : Begin(t) \/ Step(t)

Spec == Init /\ [][Next]_vars

\* A thread in a call goes on when it can; nobody has to call.
FairSpec == Spec /\ \A t \in Threads : WF_vars(Step(t))

-----------------------------------------------------------------------------
(***************************************************************************)
(* "This scheme makes it impossible to fail to unlock a mutex, even with   *)
(* exceptions": what the mutex counts is what the Locks count, and a       *)
(* thread outside of the map holds nothing.                                *)
(***************************************************************************)
LocksBalance ==
    \A t \in Threads :
        /\ m_lock_cnt[t] = IF owner = t THEN depth ELSE 0
        /\ pc[t] = "idle" => owner # t

(***************************************************************************)
(* No entry that at() could find points to an object clear() has deleted,  *)
(* unless clear() still has the lock.                                      *)
(***************************************************************************)
NoDanglingEntry ==
    \A k \in DOMAIN m_data :
        m_data[k] \in deleted =>
            \E t \in Threads : owner = t /\ pc[t] = "delete"

(***************************************************************************)
(* "thread-safe reads and writes": the calls are those of a plain map, one *)
(* at a time; no reader sees the entry insert() has not assigned yet, or   *)
(* half a clear().                                                         *)
(***************************************************************************)
ImplementsAtomicMap == Abstract!Spec

(***************************************************************************)
(* The mutex is always given back: no method, whether it returns or        *)
(* throws, blocks the others for ever.                                     *)
(***************************************************************************)
MutexIsReleased == owner # NoValue ~> owner = NoValue
=============================================================================
