----------------------------- MODULE AtomicMap -----------------------------
(***************************************************************************)
(* What a thread-safe map promises: every call takes effect at one moment  *)
(* between its beginning and its return, on a plain map.                   *)
(***************************************************************************)
EXTENDS FiniteSets, Integers
CONSTANTS Threads, Keys, Values, NoValue
VARIABLES map,    \* a function on the keys that are present
          phase,  \* of each thread: "idle", "called", "done"
          call, result

Calls == [op : {"insert"}, key : Keys, value : Values]
           \cup [op : {"at"}, key : Keys, value : {NoValue}]
           \cup [op : {"clear", "size", "empty"}, key : {NoValue},
                 value : {NoValue}]

\* What a call returned or threw.
Reply(v, x, n, e) == [value |-> v, throws |-> x, size |-> n, empty |-> e]

NoResult == Reply(NoValue, FALSE, 0, FALSE)

EmptyMap == [k \in {} |-> NoValue]

Init ==
    /\ map = EmptyMap
    /\ phase = [t \in Threads |-> "idle"]
    /\ call = [t \in Threads |-> NoValue]
    /\ result = [t \in Threads |-> NoResult]

Begin(t) ==
    /\ phase[t] = "idle"
    /\ \E c \in Calls : call' = [call EXCEPT ![t] = c]
    /\ phase' = [phase EXCEPT ![t] = "called"]
    /\ UNCHANGED <<map, result>>

\* The map after a call, and what the call returns.
After(c) ==
    IF c.op = "insert"
    THEN [k \in DOMAIN map \cup {c.key} |->
            IF k = c.key THEN c.value ELSE map[k]]
    ELSE IF c.op = "clear" THEN EmptyMap ELSE map

Result(c) ==
    CASE c.op = "at" /\ c.key \in DOMAIN map ->
            Reply(map[c.key], FALSE, 0, FALSE)
      [] c.op = "at" /\ c.key \notin DOMAIN map ->
            Reply(NoValue, TRUE, 0, FALSE)
      [] c.op = "size"  -> Reply(NoValue, FALSE, Cardinality(DOMAIN map), FALSE)
      [] c.op = "empty" -> Reply(NoValue, FALSE, 0, DOMAIN map = {})
      [] OTHER          -> NoResult

TakeEffect(t) ==
    /\ phase[t] = "called"
    /\ map' = After(call[t])
    /\ result' = [result EXCEPT ![t] = Result(call[t])]
    /\ phase' = [phase EXCEPT ![t] = "done"]
    /\ UNCHANGED call

Return(t) ==
    /\ phase[t] = "done"
    /\ phase' = [phase EXCEPT ![t] = "idle"]
    /\ UNCHANGED <<map, call, result>>

Next == \E t \in Threads : Begin(t) \/ TakeEffect(t) \/ Return(t)

Spec == Init /\ [][Next]_<<map, phase, call, result>>
=============================================================================
