----------------------------- MODULE AppendLog -----------------------------
(***************************************************************************)
(* What the sharded contributor storage promises: one list of bounded      *)
(* length, extended at its end and never changed elsewhere.                *)
(***************************************************************************)
EXTENDS Integers, Sequences

CONSTANTS Entries,   \* what can be stored
          Capacity   \* how many entries fit

VARIABLE log

Init == log = <<>>

AppendEntry(e) == Len(log) < Capacity /\ log' = Append(log, e)

Next == \E e \in Entries : AppendEntry(e)

Spec == Init /\ [][Next]_log
=============================================================================
