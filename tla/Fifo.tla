-------------------------------- MODULE Fifo --------------------------------
(***************************************************************************)
(* What a pipe promises: a bounded queue of bytes with two ends, each      *)
(* closed once.                                                            *)
(***************************************************************************)
EXTENDS Naturals, Sequences

CONSTANTS Bytes, Capacity

VARIABLES queue, ropen, wopen

vars == <<queue, ropen, wopen>>

Init == queue = <<>> /\ ropen = TRUE /\ wopen = TRUE

\* Nothing is put into a pipe nobody can read.
Put(b) ==
  /\ ropen /\ wopen
  /\ Len(queue) < Capacity
  /\ queue' = Append(queue, b)
  /\ UNCHANGED <<ropen, wopen>>

Get ==
  /\ ropen
  /\ queue # <<>>
  /\ queue' = Tail(queue)
  /\ UNCHANGED <<ropen, wopen>>

CloseRead == ropen /\ ropen' = FALSE /\ UNCHANGED <<queue, wopen>>
CloseWrite == wopen /\ wopen' = FALSE /\ UNCHANGED <<queue, ropen>>

Next == (\E b \in Bytes : Put(b)) \/ Get \/ CloseRead \/ CloseWrite

Spec == Init /\ [][Next]_vars
=============================================================================
