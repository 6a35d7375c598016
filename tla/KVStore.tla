------------------------------ MODULE KVStore ------------------------------
(***************************************************************************)
(* What the clerks of a key/value service are promised: every Put and      *)
(* Append takes effect exactly once between its call and its return, and a *)
(* Get returns a value the key had at some moment between its call and its *)
(* return.  One key is enough: keys are independent of each other.         *)
(***************************************************************************)
EXTENDS Integers, Sequences

CONSTANTS
    Clerk,   \* the clients
    Name,    \* names for their calls
    Nil      \* no call pending, no result yet

VARIABLES
    store,   \* the value: the writes that make it up, oldest first
    call,    \* call[c]: the call of clerk c that has not returned
    done,    \* done[c]: whether it has taken effect
    seen,    \* seen[c]: the values of the store since it was made
    result   \* result[c]: what the last call of clerk c returned, if it has

vars == <<store, call, done, seen, result>>

Type == {"GET", "PUT", "APPEND"}

(* a write with value w *)
Written(value, type, w) ==
    CASE type = "PUT"    -> <<w>>
      [] type = "APPEND" -> Append(value, w)
      [] type = "GET"    -> value

Init ==
    /\ store = <<>>
    /\ call = [c \in Clerk |-> Nil]
    /\ done = [c \in Clerk |-> FALSE]
    /\ seen = [c \in Clerk |-> {}]
    /\ result = [c \in Clerk |-> Nil]

(* a new call, with a name of its own *)
Invoke(c) ==
    /\ call[c] = Nil
    /\ \E type \in Type, w \in Name :
          call' = [call EXCEPT ![c] = [type |-> type, w |-> w]]
    /\ seen' = [seen EXCEPT ![c] = {store}]
    /\ result' = [result EXCEPT ![c] = Nil]
    /\ UNCHANGED <<store, done>>

Effect(c) ==
    /\ call[c] # Nil /\ ~done[c]
    /\ done' = [done EXCEPT ![c] = TRUE]
    /\ store' = Written(store, call[c].type, call[c].w)
    /\ seen' = [d \in Clerk |-> IF call[d] = Nil THEN {} ELSE seen[d] \cup {store'}]
    /\ UNCHANGED <<call, result>>

(* a Get returns what it has seen, a write that it is done *)
Return(c) ==
    /\ call[c] # Nil
    /\ call' = [call EXCEPT ![c] = Nil]
    /\ call[c].type # "GET" => done[c]
    /\ \E value \in IF call[c].type = "GET" THEN seen[c] ELSE {<<>>} :
          result' = [result EXCEPT ![c] = value]
    /\ done' = [done EXCEPT ![c] = FALSE]
    /\ seen' = [seen EXCEPT ![c] = {}]
    /\ UNCHANGED store

Next == \E c \in Clerk : Invoke(c) \/ Effect(c) \/ Return(c)

Spec == Init /\ [][Next]_vars
=============================================================================
