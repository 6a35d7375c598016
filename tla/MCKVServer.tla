----------------------------- MODULE MCKVServer -----------------------------
(* KVServer for TLC: who calls what. *)
EXTENDS KVServer

(* every clerk appends *)
Appends == [c \in Clerk |-> {"APPEND"}]

(* one clerk reads what the others put *)
ReaderAndWriters ==
    LET reader == CHOOSE c \in Clerk : TRUE
    IN [c \in Clerk |-> IF c = reader THEN {"GET"} ELSE {"PUT"}]
=============================================================================
