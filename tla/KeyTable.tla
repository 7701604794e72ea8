------------------------------ MODULE KeyTable ------------------------------
(***************************************************************************)
(* What DifEngine, Graph and the plugins rely on in a table of DbCore.c:   *)
(* a row stays where it was created and is handed out once, and a key      *)
(* finds the row that was last created for it.                             *)
(***************************************************************************)
CONSTANTS Key, Row, NoRow

VARIABLES
    row,    \* per key: its row, or NoRow
    used,   \* the rows that have been handed out
    ack     \* the answer to the last request

Init == row = [k \in Key |-> NoRow] /\ used = {} /\ ack = NoRow

\* The new row hides an older one of the same key.
Create(k) ==
    \E r \in Row \ used :
        /\ row' = [row EXCEPT ![k] = r]
        /\ used' = used \cup {r}
        /\ ack' = r

Query(k) == ack' = row[k] /\ UNCHANGED <<row, used>>

Spec == Init /\ [][\E k \in Key : Create(k) \/ Query(k)]_<<row, used, ack>>
=============================================================================
