---------------------------- MODULE InOrderServer ----------------------------
(***************************************************************************)
(* What an SFTP server promises its client (the comment at the head of     *)
(* pkgsftp/packet-manager.go and the ones in workerChan): responses leave  *)
(* in the order of the requests, one for each, after the request has been  *)
(* executed; requests other than reads and writes are executed one after   *)
(* the other; a close is executed after everything sent before it.  Reads  *)
(* and writes may be executed in any order.                                *)
(***************************************************************************)
EXTENDS Naturals, Sequences

CONSTANT Ops           \* the kinds of requests

VARIABLES
  received,            \* the kinds of the requests received, in order
  executed,            \* positions in received that have been executed
  sent                 \* positions whose responses have been sent, in order

avars == <<received, executed, sent>>

RWOps == {"read", "write"}

AInit == received = <<>> /\ executed = {} /\ sent = <<>>

Receive(op) ==
  /\ received' = Append(received, op)
  /\ UNCHANGED <<executed, sent>>

\* What has to be executed before the request at position i.
Before(i) ==
  IF received[i] = "close" THEN 1..(i - 1)
  ELSE IF received[i] \in RWOps THEN {}
  ELSE {j \in 1..(i - 1) : received[j] \notin RWOps}

Execute(i) ==
  /\ i \in 1..Len(received)
  /\ i \notin executed
  /\ Before(i) \subseteq executed
  /\ executed' = executed \cup {i}
  /\ UNCHANGED <<received, sent>>

Respond ==
  /\ Len(sent) + 1 \in executed
  /\ sent' = Append(sent, Len(sent) + 1)
  /\ UNCHANGED <<received, executed>>

ANext ==
  \/ \E op \in Ops : Receive(op)
  \/ \E i \in 1..Len(received) : Execute(i)
  \/ Respond

InOrder == AInit /\ [][ANext]_avars
=============================================================================
