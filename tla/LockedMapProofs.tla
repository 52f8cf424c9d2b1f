-------------------------- MODULE LockedMapProofs --------------------------
(***************************************************************************)
(* Proofs about LockedMap, for any threads, keys and values.               *)
(***************************************************************************)
EXTENDS LockedMap, FiniteSetTheorems, TLAPS

(***************************************************************************)
(* The inductive invariant.                                                *)
(***************************************************************************)
\* Between the Lock's constructor and its destructor the thread owns the
\* mutex, and it has locked it once.
LockInv ==
    /\ depth = IF owner = NoValue THEN 0 ELSE 1
    /\ \A t \in Threads :
        /\ m_lock_cnt[t] = IF owner = t THEN 1 ELSE 0
        /\ pc[t] \in {"body", "assign", "delete"} => owner = t
        /\ pc[t] \in {"idle", "lock"} => owner # t

\* What a thread knows of its own call.
CallInv ==
    \A t \in Threads :
        /\ pc[t] # "idle" => call[t] \in Calls
        /\ pc[t] = "assign" =>
            call[t].op = "insert" /\ call[t].key \in DOMAIN m_data
        /\ pc[t] = "delete" =>
            /\ call[t].op = "clear" /\ mit[t] \subseteq DOMAIN m_data
            /\ mit[t] = {} \/ is_pointer

\* Only the thread that is about to assign it leaves an entry unassigned.
DataInv ==
    \A k \in DOMAIN m_data :
        m_data[k] = Default =>
            \E t \in Threads : pc[t] = "assign" /\ call[t].key = k

\* An insert() that has not put its object yet.
Pending(t) ==
    pc[t] \in {"lock", "body", "assign"} /\ call[t].op = "insert"

\* Objects are deleted once they were in the map, and never while somebody
\* is about to put them there.
HeapInv ==
    IF is_pointer
    THEN /\ deleted \subseteq used
         /\ \A k \in DOMAIN m_data : m_data[k] \in used \cup {Default}
         /\ \A t \in Threads :
                Pending(t) =>
                    /\ call[t].value \in used \ deleted
                    /\ \A k \in DOMAIN m_data : m_data[k] # call[t].value
                    /\ \A u \in Threads \ {t} :
                            Pending(u) => call[u].value # call[t].value
    ELSE deleted = {}

SafeInv == TypeOK /\ LockInv /\ CallInv /\ DataInv /\ HeapInv /\ NoDanglingEntry

-----------------------------------------------------------------------------
\* The arguments of a call, by its method.
LEMMA CallShape ==
    ASSUME NEW c \in Calls
    PROVE  /\ c.op \in {"insert", "at", "clear", "size", "empty"}
           /\ c.op = "insert" => c.key \in Keys /\ c.value \in Values
           /\ c.op = "at" => c.key \in Keys
  BY MapAssumption DEF Calls, Abstract!Calls

\* m_data.clear() leaves no entry.
LEMMA EmptyMapDomain == DOMAIN EmptyMap = {}
  BY DEF EmptyMap, Abstract!EmptyMap

\* The abstract map counts as LockedMap does.
LEMMA SameCardinality ==
    ASSUME NEW S
    PROVE  Abstract!Cardinality(S) = Cardinality(S)
  BY DEF Cardinality, Abstract!Cardinality

\* size() is a number.
LEMMA SizeType ==
    ASSUME NEW S \in SUBSET Keys
    PROVE  Cardinality(S) \in Nat
  BY MapAssumption, FS_Subset, FS_CardinalityType

\* at, size and empty change the answer and nothing else.
LEMMA ReadOnly ==
    ASSUME NEW t \in Threads, at(t) \/ size(t) \/ empty(t)
    PROVE  /\ Goto(t, "body", "unwind")
           /\ UNCHANGED <<m_data, owner, depth, m_lock_cnt, call, mit, used,
                          deleted>>
<1>1. CASE at(t)
    BY <1>1 DEF at, Answer, lockVars, heapVars
<1>2. CASE size(t)
    BY <1>2 DEF size, Answer, lockVars, heapVars
<1>3. CASE empty(t)
    BY <1>3 DEF empty, Answer, lockVars, heapVars
<1> QED
    BY <1>1, <1>2, <1>3

\* In a method that reads or clears the map, every entry is assigned.
LEMMA AllAssigned ==
    ASSUME SafeInv, NEW t \in Threads, pc[t] \in {"body", "delete"},
           NEW k \in DOMAIN m_data
    PROVE  m_data[k] \in Values
  BY DEF SafeInv, TypeOK, LockInv, DataInv

\* The invariant holds when the map is constructed.
LEMMA InitSafe == Init => SafeInv
  BY MapAssumption, EmptyMapDomain
  DEF Init, SafeInv, TypeOK, LockInv, CallInv, DataInv, HeapInv, Pending,
      NoDanglingEntry, Places, NoResult, Abstract!NoResult, Abstract!Reply

-----------------------------------------------------------------------------
(***************************************************************************)
(* The mutex.                                                              *)
(***************************************************************************)
LEMMA LockStep ==
    ASSUME SafeInv, NEW t \in Threads, Begin(t) \/ Step(t)
    PROVE  LockInv'
<1> USE MapAssumption DEF SafeInv, TypeOK, LockInv, Goto, lockVars
<1>1. CASE Begin(t)
    BY <1>1 DEF Begin
<1>2. CASE Lock(t)
    BY <1>2 DEF Lock, Mx!lock
<1>3. CASE destroy(t)
    BY <1>3 DEF destroy, Mx!unlock
<1>4. CASE insert_entry(t) \/ insert_assign(t)
    BY <1>4 DEF insert_entry, insert_assign
<1>5. CASE at(t) \/ size(t) \/ empty(t)
    BY <1>5, ReadOnly
<1>6. CASE clear_begin(t) \/ clear_delete(t) \/ clear_end(t)
    BY <1>6 DEF clear_begin, clear_delete, clear_end
<1> QED
    BY <1>1, <1>2, <1>3, <1>4, <1>5, <1>6 DEF Step

(***************************************************************************)
(* Types.                                                                  *)
(***************************************************************************)
LEMMA TypeStep ==
    ASSUME SafeInv, NEW t \in Threads, Begin(t) \/ Step(t)
    PROVE  TypeOK'
<1> USE MapAssumption DEF SafeInv, TypeOK, Goto, lockVars, heapVars, Places
<1>1. CASE Begin(t)
    <2>1. PICK c \in Calls :
            /\ is_pointer /\ c.op = "insert" => c.value \notin used
            /\ Goto(t, "idle", "lock")
            /\ call' = [call EXCEPT ![t] = c]
            /\ used' = IF is_pointer /\ c.op = "insert"
                       THEN used \cup {c.value} ELSE used
            /\ UNCHANGED <<m_data, lockVars, result, mit, deleted>>
        BY <1>1 DEF Begin
    <2> QED
        BY <2>1, CallShape
<1>2. CASE Lock(t)
    BY <1>2 DEF Lock, Mx!lock
<1>3. CASE destroy(t)
    BY <1>3 DEF destroy, Mx!unlock, LockInv
<1>4. CASE insert_entry(t)
    <2>1. call[t].key \in Keys
        BY <1>4, CallShape DEF insert_entry, In, CallInv
    <2> QED
        BY <1>4, <2>1 DEF insert_entry
<1>5. CASE insert_assign(t)
    <2>1. call[t].value \in Values
        BY <1>5, CallShape DEF insert_assign, In, CallInv
    <2> QED
        BY <1>5, <2>1 DEF insert_assign, NoResult, Abstract!NoResult, Abstract!Reply
<1>6. CASE at(t)
    <2>1. \E r \in [value : Values \cup {NoValue}, throws : BOOLEAN,
                    size : Nat, empty : BOOLEAN] :
            result' = [result EXCEPT ![t] = r]
        <3>1. CASE call[t].key \in DOMAIN m_data
            <4>1. m_data[call[t].key] \in Values
                BY <1>6, <3>1, AllAssigned DEF at
            <4>2. result' = [result EXCEPT ![t] =
                                Reply(m_data[call[t].key], FALSE, 0, FALSE)]
                BY <1>6, <3>1 DEF at, Answer
            <4> QED
                BY <4>1, <4>2 DEF Reply, Abstract!Reply
        <3>2. CASE call[t].key \notin DOMAIN m_data
            <4>1. result' = [result EXCEPT ![t] =
                                Reply(NoValue, TRUE, 0, FALSE)]
                BY <1>6, <3>2 DEF at, Answer
            <4> QED
                BY <4>1 DEF Reply, Abstract!Reply
        <3> QED
            BY <3>1, <3>2
    <2> QED
        BY <1>6, <2>1, ReadOnly
<1>7. CASE size(t)
    BY <1>7, SizeType DEF size, Answer, Reply, Abstract!Reply
<1>8. CASE empty(t)
    BY <1>8 DEF empty, Answer, Reply, Abstract!Reply
<1>9. CASE clear_begin(t)
    BY <1>9 DEF clear_begin
<1>10. CASE clear_delete(t)
    BY <1>10, AllAssigned DEF clear_delete, CallInv
<1>11. CASE clear_end(t)
    BY <1>11, EmptyMapDomain
    DEF clear_end, NoResult, Abstract!NoResult, Abstract!Reply, EmptyMap,
        Abstract!EmptyMap
<1> QED
    BY <1>1, <1>2, <1>3, <1>4, <1>5, <1>6, <1>7, <1>8, <1>9, <1>10, <1>11
    DEF Step

-----------------------------------------------------------------------------
(***************************************************************************)
(* What the threads know of their calls and of the map.                    *)
(***************************************************************************)
LEMMA CallStep ==
    ASSUME SafeInv, NEW t \in Threads, Begin(t) \/ Step(t)
    PROVE  CallInv'
<1> USE DEF SafeInv, TypeOK, CallInv, Goto, lockVars, heapVars, In
<1>1. CASE Begin(t)
    BY <1>1 DEF Begin
<1>2. CASE Lock(t) \/ destroy(t)
    BY <1>2 DEF Lock, destroy
<1>3. CASE insert_entry(t)
    BY <1>3 DEF insert_entry
<1>4. CASE insert_assign(t)
    BY <1>4 DEF insert_assign
<1>5. CASE at(t) \/ size(t) \/ empty(t)
    BY <1>5, ReadOnly
<1>6. CASE clear_begin(t)
    BY <1>6 DEF clear_begin
<1>7. CASE clear_delete(t)
    BY <1>7 DEF clear_delete
<1>8. CASE clear_end(t)
    BY <1>8 DEF clear_end, LockInv
<1> QED
    BY <1>1, <1>2, <1>3, <1>4, <1>5, <1>6, <1>7, <1>8 DEF Step

\* Only insert() makes an unassigned entry, and it goes on to assign it.
LEMMA DataStep ==
    ASSUME SafeInv, NEW t \in Threads, Begin(t) \/ Step(t)
    PROVE  DataInv'
<1> USE DEF SafeInv, TypeOK, DataInv, Goto, lockVars, heapVars, In
<1>1. CASE Begin(t)
    BY <1>1 DEF Begin
<1>2. CASE Lock(t) \/ destroy(t)
    BY <1>2 DEF Lock, destroy
<1>3. CASE insert_entry(t)
    BY <1>3 DEF insert_entry
<1>4. CASE insert_assign(t)
    <2>1. call[t].value \in Values
        BY <1>4, CallShape DEF insert_assign, CallInv
    <2> QED
        BY <1>4, <2>1, MapAssumption DEF insert_assign
<1>5. CASE at(t) \/ size(t) \/ empty(t)
    BY <1>5, ReadOnly
<1>6. CASE clear_begin(t) \/ clear_delete(t)
    BY <1>6 DEF clear_begin, clear_delete
<1>7. CASE clear_end(t)
    BY <1>7, EmptyMapDomain DEF clear_end
<1> QED
    BY <1>1, <1>2, <1>3, <1>4, <1>5, <1>6, <1>7 DEF Step

(***************************************************************************)
(* The objects.                                                            *)
(***************************************************************************)
LEMMA HeapStep ==
    ASSUME SafeInv, NEW t \in Threads, Begin(t) \/ Step(t)
    PROVE  HeapInv'
<1> USE MapAssumption
    DEF SafeInv, TypeOK, HeapInv, Pending, Goto, lockVars, heapVars, In
<1>1. CASE Begin(t)
    <2>1. PICK c \in Calls :
            /\ is_pointer /\ c.op = "insert" => c.value \notin used
            /\ Goto(t, "idle", "lock")
            /\ call' = [call EXCEPT ![t] = c]
            /\ used' = IF is_pointer /\ c.op = "insert"
                       THEN used \cup {c.value} ELSE used
            /\ UNCHANGED <<m_data, lockVars, result, mit, deleted>>
        BY <1>1 DEF Begin
    <2> QED
        BY <2>1, CallShape
<1>2. CASE Lock(t) \/ destroy(t)
    BY <1>2 DEF Lock, destroy
<1>3. CASE insert_entry(t)
    <2>1. \A u \in Threads : Pending(u) => call[u].value # Default
        BY CallShape DEF CallInv
    <2> QED
        BY <1>3, <2>1 DEF insert_entry
<1>4. CASE insert_assign(t)
    BY <1>4 DEF insert_assign, CallInv
<1>5. CASE at(t) \/ size(t) \/ empty(t)
    BY <1>5, ReadOnly
<1>6. CASE clear_begin(t)
    BY <1>6 DEF clear_begin
<1>7. CASE clear_delete(t)
    <2>1. PICK k \in mit[t] :
            /\ In(t, "clear")
            /\ Goto(t, "delete", "delete")
            /\ deleted' = deleted \cup {m_data[k]}
            /\ mit' = [mit EXCEPT ![t] = @ \ {k}]
            /\ UNCHANGED <<m_data, lockVars, call, result, used>>
        BY <1>7 DEF clear_delete
    <2>2. k \in DOMAIN m_data /\ m_data[k] \in Values
        BY <2>1, AllAssigned DEF CallInv
    <2>3. is_pointer
        BY <2>1 DEF CallInv
    <2> QED
        BY <2>1, <2>2, <2>3
<1>8. CASE clear_end(t)
    BY <1>8, EmptyMapDomain DEF clear_end
<1> QED
    BY <1>1, <1>2, <1>3, <1>4, <1>5, <1>6, <1>7, <1>8 DEF Step

\* clear() takes the entries away before it gives the mutex back.
LEMMA DanglingStep ==
    ASSUME SafeInv, NEW t \in Threads, Begin(t) \/ Step(t)
    PROVE  NoDanglingEntry'
<1> USE DEF SafeInv, TypeOK, LockInv, NoDanglingEntry, Goto, lockVars,
            heapVars, In
<1>1. CASE Begin(t)
    BY <1>1 DEF Begin
<1>2. CASE Lock(t)
    BY <1>2, MapAssumption DEF Lock, Mx!lock
<1>3. CASE destroy(t)
    BY <1>3 DEF destroy, Mx!unlock
<1>4. CASE insert_entry(t)
    BY <1>4, MapAssumption DEF insert_entry
<1>5. CASE insert_assign(t)
    BY <1>5 DEF insert_assign, CallInv, HeapInv, Pending
<1>6. CASE at(t) \/ size(t) \/ empty(t)
    BY <1>6, ReadOnly
<1>7. CASE clear_begin(t) \/ clear_delete(t)
    BY <1>7 DEF clear_begin, clear_delete
<1>8. CASE clear_end(t)
    BY <1>8, EmptyMapDomain DEF clear_end
<1> QED
    BY <1>1, <1>2, <1>3, <1>4, <1>5, <1>6, <1>7, <1>8 DEF Step

\* Every step keeps the invariant.
LEMMA NextSafe == SafeInv /\ [Next]_vars => SafeInv'
<1> SUFFICES ASSUME SafeInv, [Next]_vars PROVE SafeInv'
    OBVIOUS
<1>1. ASSUME NEW t \in Threads, Begin(t) \/ Step(t) PROVE SafeInv'
    BY <1>1, TypeStep, LockStep, CallStep, DataStep, HeapStep, DanglingStep
    DEF SafeInv
<1>2. CASE UNCHANGED vars
    BY <1>2
    DEF vars, lockVars, heapVars, SafeInv, TypeOK, LockInv, CallInv, DataInv,
        HeapInv, Pending, NoDanglingEntry
<1> QED
    BY <1>1, <1>2 DEF Next

(***************************************************************************)
(* For any number of threads calling the methods of LockedMap in any       *)
(* order, the invariant holds.                                             *)
(***************************************************************************)
THEOREM MapSafe == Spec => []SafeInv
  BY InitSafe, NextSafe, PTL DEF Spec

(***************************************************************************)
(* LockedMap is type correct: at() never returns an entry that insert()    *)
(* has made and not assigned.                                              *)
(***************************************************************************)
THEOREM MapTypeCorrect == Spec => []TypeOK
<1>1. SafeInv => TypeOK
    BY DEF SafeInv
<1> QED
    BY <1>1, MapSafe, PTL

(***************************************************************************)
(* ~Lock gives back exactly what the methods of LockedMap have locked,     *)
(* whether they return or throw.                                           *)
(***************************************************************************)
THEOREM NeverLeftLocked == Spec => []LocksBalance
<1>1. SafeInv => LocksBalance
    BY MapAssumption DEF SafeInv, TypeOK, LockInv, LocksBalance
<1> QED
    BY <1>1, MapSafe, PTL

(***************************************************************************)
(* Outside of clear() no entry of a map of pointers points to a deleted    *)
(* object, when whoever inserts hands each object over once.               *)
(***************************************************************************)
THEOREM NeverDangling == Spec => []NoDanglingEntry
<1>1. SafeInv => NoDanglingEntry
    BY DEF SafeInv
<1> QED
    BY <1>1, MapSafe, PTL

-----------------------------------------------------------------------------
(***************************************************************************)
(* The refinement: insert() takes effect when it assigns, clear() when it  *)
(* clears m_data, the others when they read.                               *)
(***************************************************************************)
Stutter == UNCHANGED <<visible, phase, call, result>>

\* What is visible when no entry is unassigned, and what m_data decides.
LEMMA VisibleIsAll ==
    ASSUME SafeInv, NEW t \in Threads, pc[t] \in {"body", "delete"}
    PROVE  visible = m_data
<1>1. {k \in DOMAIN m_data : m_data[k] # Default} = DOMAIN m_data
    BY AllAssigned, MapAssumption
<1> QED
    BY <1>1 DEF visible, Restrict, SafeInv, TypeOK

\* What is visible depends on m_data alone.
LEMMA SameVisible ==
    ASSUME UNCHANGED m_data
    PROVE  UNCHANGED visible
  BY DEF visible, Restrict

\* The phase of a call follows from where the thread is and goes to.
LEMMA PhaseStep ==
    ASSUME SafeInv, NEW t \in Threads, NEW from, NEW to, Goto(t, from, to)
    PROVE  /\ from = "idle" => phase[t] = "idle"
           /\ from = "unwind" => phase[t] = "done"
           /\ from \in {"lock", "body", "assign", "delete"} =>
                phase[t] = "called"
           /\ to = "idle" => phase' = [phase EXCEPT ![t] = "idle"]
           /\ to = "unwind" => phase' = [phase EXCEPT ![t] = "done"]
           /\ to \in {"lock", "body", "assign", "delete"} =>
                phase' = [phase EXCEPT ![t] = "called"]
  BY DEF phase, Goto, SafeInv, TypeOK

\* Steps inside a call are not seen from outside.
LEMMA SamePhase ==
    ASSUME SafeInv, NEW t \in Threads, NEW from, NEW to, Goto(t, from, to),
           \/ from \in {"lock", "body", "assign", "delete"}
                /\ to \in {"lock", "body", "assign", "delete"}
           \/ from = "unwind" /\ to = "unwind"
    PROVE  UNCHANGED phase
  BY PhaseStep DEF phase

\* The map starts empty, with nobody in a call.
LEMMA InitRefines == Init => Abstract!Init
<1> SUFFICES ASSUME Init PROVE Abstract!Init
    OBVIOUS
<1>1. visible = Abstract!EmptyMap
    BY EmptyMapDomain DEF Init, visible, Restrict, EmptyMap, Abstract!EmptyMap
<1>2. phase = [t \in Threads |-> "idle"]
    BY DEF Init, phase
<1> QED
    BY <1>1, <1>2 DEF Init, Abstract!Init, NoResult

\* insert() takes effect when it assigns.
LEMMA InsertRefines ==
    ASSUME SafeInv, NEW t \in Threads, insert_assign(t)
    PROVE  Abstract!TakeEffect(t)
<1> DEFINE k == call[t].key
           v == call[t].value
<1>1. /\ k \in DOMAIN m_data /\ v \in Values /\ v # Default
      /\ call[t].op = "insert"
      /\ Goto(t, "assign", "unwind")
      /\ m_data' = [m_data EXCEPT ![k] = v]
      /\ result' = [result EXCEPT ![t] = NoResult]
      /\ UNCHANGED call
    BY CallShape, MapAssumption DEF insert_assign, In, Goto, SafeInv, CallInv
<1>2. phase[t] = "called" /\ phase' = [phase EXCEPT ![t] = "done"]
    BY <1>1, PhaseStep
<1>3. DOMAIN visible = {l \in DOMAIN m_data : m_data[l] # Default}
    BY DEF visible, Restrict
<1>4. DOMAIN m_data' = DOMAIN m_data
    BY <1>1 DEF SafeInv, TypeOK
<1>5. {l \in DOMAIN m_data' : m_data'[l] # Default}
        = DOMAIN visible \cup {k}
    BY <1>1, <1>3, <1>4 DEF SafeInv, TypeOK
<1>6. visible' = [l \in DOMAIN visible \cup {k} |-> m_data'[l]]
    BY <1>5 DEF visible, Restrict
<1>7. \A l \in DOMAIN visible \cup {k} :
        m_data'[l] = IF l = k THEN v ELSE visible[l]
    BY <1>1, <1>3 DEF visible, Restrict, SafeInv, TypeOK
<1>8. visible' = Abstract!After(call[t])
    BY <1>1, <1>6, <1>7 DEF Abstract!After
<1>9. Abstract!Result(call[t]) = NoResult
    BY <1>1 DEF Abstract!Result, NoResult
<1> QED
    BY <1>1, <1>2, <1>8, <1>9 DEF Abstract!TakeEffect

\* clear() takes effect at m_data.clear().
LEMMA ClearRefines ==
    ASSUME SafeInv, NEW t \in Threads, clear_end(t)
    PROVE  Abstract!TakeEffect(t)
<1>1. /\ call[t].op = "clear"
      /\ Goto(t, "delete", "unwind")
      /\ m_data' = EmptyMap
      /\ result' = [result EXCEPT ![t] = NoResult]
      /\ UNCHANGED call
    BY DEF clear_end, In
<1>2. phase[t] = "called" /\ phase' = [phase EXCEPT ![t] = "done"]
    BY <1>1, PhaseStep
<1>3. visible' = Abstract!EmptyMap
    BY <1>1, EmptyMapDomain DEF visible, Restrict, EmptyMap, Abstract!EmptyMap
<1>4. Abstract!After(call[t]) = Abstract!EmptyMap
    BY <1>1 DEF Abstract!After
<1>5. Abstract!Result(call[t]) = NoResult
    BY <1>1 DEF Abstract!Result, NoResult
<1> QED
    BY <1>1, <1>2, <1>3, <1>4, <1>5 DEF Abstract!TakeEffect

\* at(), size() and empty() take effect when they read.
LEMMA ReadRefines ==
    ASSUME SafeInv, NEW t \in Threads, at(t) \/ size(t) \/ empty(t)
    PROVE  Abstract!TakeEffect(t)
<1>1. Goto(t, "body", "unwind") /\ UNCHANGED <<m_data, call>>
    BY ReadOnly
<1>2. phase[t] = "called" /\ phase' = [phase EXCEPT ![t] = "done"]
    BY <1>1, PhaseStep
<1>3. visible = m_data /\ visible' = visible
    BY <1>1, VisibleIsAll, SameVisible DEF Goto
<1>4. call[t].op \in {"at", "size", "empty"}
    BY DEF at, size, empty, In
<1>5. visible' = Abstract!After(call[t])
    BY <1>3, <1>4 DEF Abstract!After
<1>6. result' = [result EXCEPT ![t] = Abstract!Result(call[t])]
    <2>1. CASE at(t) /\ call[t].key \in DOMAIN m_data
        <3>1. Abstract!Result(call[t])
                = Reply(m_data[call[t].key], FALSE, 0, FALSE)
            BY <2>1, <1>3 DEF Abstract!Result, at, In, Reply
        <3> QED
            BY <2>1, <3>1 DEF at, Answer
    <2>2. CASE at(t) /\ call[t].key \notin DOMAIN m_data
        <3>1. Abstract!Result(call[t]) = Reply(NoValue, TRUE, 0, FALSE)
            BY <2>2, <1>3 DEF Abstract!Result, at, In, Reply
        <3> QED
            BY <2>2, <3>1 DEF at, Answer
    <2>3. CASE size(t)
        <3>1. Abstract!Result(call[t])
                = Reply(NoValue, FALSE, Cardinality(DOMAIN m_data), FALSE)
            <4>1. call[t].op = "size"
                BY <2>3 DEF size, In
            <4>2. Abstract!Result(call[t])
                    = Reply(NoValue, FALSE, Cardinality(DOMAIN visible), FALSE)
                BY <4>1, SameCardinality DEF Abstract!Result, Reply
            <4> QED
                BY <4>2, <1>3
        <3> QED
            BY <2>3, <3>1 DEF size, Answer
    <2>4. CASE empty(t)
        <3>1. Abstract!Result(call[t])
                = Reply(NoValue, FALSE, 0, DOMAIN m_data = {})
            BY <2>4, <1>3 DEF Abstract!Result, empty, In, Reply
        <3> QED
            BY <2>4, <3>1 DEF empty, Answer
    <2> QED
        BY <2>1, <2>2, <2>3, <2>4
<1> QED
    BY <1>1, <1>2, <1>5, <1>6 DEF Abstract!TakeEffect

\* The entry m_data[key] makes is not visible yet.
LEMMA EntryStutters ==
    ASSUME SafeInv, NEW t \in Threads, insert_entry(t)
    PROVE  UNCHANGED visible
<1> DEFINE k == call[t].key
<1>1. CASE k \in DOMAIN m_data
    BY <1>1, SameVisible DEF insert_entry
<1>2. CASE k \notin DOMAIN m_data
    <2>1. m_data' = [l \in DOMAIN m_data \cup {k} |->
                        IF l = k THEN Default ELSE m_data[l]]
        BY <1>2 DEF insert_entry
    <2>2. {l \in DOMAIN m_data' : m_data'[l] # Default}
            = {l \in DOMAIN m_data : m_data[l] # Default}
        BY <1>2, <2>1
    <2>3. \A l \in DOMAIN m_data : m_data'[l] = m_data[l]
        BY <1>2, <2>1
    <2> QED
        BY <2>2, <2>3 DEF visible, Restrict
<1> QED
    BY <1>1, <1>2

\* Every step is a step of the abstract map, or none.
LEMMA StepRefines ==
    ASSUME SafeInv, [Next]_vars
    PROVE  Abstract!Next \/ Stutter
<1>1. ASSUME NEW t \in Threads, Begin(t) PROVE Abstract!Begin(t)
    <2>1. /\ Goto(t, "idle", "lock") /\ UNCHANGED <<m_data, result>>
          /\ \E c \in Calls : call' = [call EXCEPT ![t] = c]
        BY <1>1 DEF Begin
    <2> QED
        BY <2>1, PhaseStep, SameVisible DEF Abstract!Begin, Calls
<1>2. ASSUME NEW t \in Threads, Lock(t) PROVE Stutter
    BY <1>2, SamePhase, SameVisible DEF Lock, Stutter
<1>3. ASSUME NEW t \in Threads, destroy(t) PROVE Abstract!Return(t) \/ Stutter
    <2>1. UNCHANGED <<m_data, call, result>>
        BY <1>3 DEF destroy
    <2>2. CASE Goto(t, "unwind", "unwind")
        BY <2>1, <2>2, SamePhase, SameVisible DEF Stutter
    <2>3. CASE Goto(t, "unwind", "idle")
        BY <2>1, <2>3, PhaseStep, SameVisible DEF Abstract!Return
    <2> QED
        BY <1>3, <2>2, <2>3 DEF destroy
<1>4. ASSUME NEW t \in Threads, insert_entry(t) PROVE Stutter
    BY <1>4, SamePhase, EntryStutters DEF insert_entry, Stutter
<1>5. ASSUME NEW t \in Threads, clear_begin(t) PROVE Stutter
    BY <1>5, SamePhase, SameVisible DEF clear_begin, Stutter
<1>6. ASSUME NEW t \in Threads, clear_delete(t) PROVE Stutter
    BY <1>6, SamePhase, SameVisible DEF clear_delete, Stutter
<1>7. ASSUME NEW t \in Threads,
             \/ insert_assign(t) \/ clear_end(t)
             \/ at(t) \/ size(t) \/ empty(t)
      PROVE  Abstract!TakeEffect(t)
    BY <1>7, InsertRefines, ClearRefines, ReadRefines
<1>8. CASE UNCHANGED vars
    BY <1>8, SameVisible DEF vars, Stutter, phase
<1> QED
    BY <1>1, <1>2, <1>3, <1>4, <1>5, <1>6, <1>7, <1>8
    DEF Next, Step, Abstract!Next

(***************************************************************************)
(* "thread-safe reads and writes": for any threads, keys and values the    *)
(* methods of LockedMap are those of a plain map, each at one moment.      *)
(***************************************************************************)
THEOREM IsThreadSafe == Spec => ImplementsAtomicMap
  BY InitRefines, StepRefines, MapSafe, PTL
  DEF Spec, ImplementsAtomicMap, Abstract!Spec, Stutter
=============================================================================
