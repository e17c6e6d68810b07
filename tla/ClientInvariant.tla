-------------------------- MODULE ClientInvariant ---------------------------
(***************************************************************************)
(* Requests and results on a connection of the SFTP client, and what the   *)
(* transfers make of them, for any size of the file, of packets and of the *)
(* window, any transfer and any number of faults.                          *)
(***************************************************************************)
EXTENDS ClientFile

ReqSet == [id : Nat, typ : {"read", "write", "other"}, off : Nat, len : Nat]
Errs == {"nil", "EOF", "reset", "send", "failure"}
ResultSet ==
  [typ : {"error"}, id : {0}, err : Errs] \cup [typ : {"status"}, id : Nat, err : Errs]
    \cup [typ : {"data"}, id : Nat, data : Seq(Nat)]

RecvStates == {"recv", "deliver", "close", "listeners", "broadcast", "closed"}
Broadcasting == recv.pc \in {"broadcast", "closed"}

ConnTypes ==
  /\ nextid \in Nat
  /\ \A id \in DOMAIN inflight : id \in 1..nextid /\ inflight[id] \in Callers
  /\ wire \subseteq ReqSet
  /\ ch \in [Callers -> Seq(ResultSet)]
  /\ sending \in [Callers -> [pc : {"none", "send", "fail"}, req : ReqSet \cup {NoRequest}]]
  /\ \A c \in Callers : sending[c].pc # "none" => sending[c].req \in ReqSet
  /\ DOMAIN recv = {"pc", "to", "res"} /\ recv.pc \in RecvStates
  /\ \A id \in DOMAIN recv.to : id \in 1..nextid /\ recv.to[id] \in Callers
  /\ recv.pc \in {"deliver", "broadcast"} => recv.res \in ResultSet
  /\ open \in BOOLEAN
  /\ recv.pc \in {"listeners", "broadcast", "closed"} => ~open
  /\ ended \in {"nil", "EOF", "reset"}

\* A request has one id, and until it has been sent it is in flight.
OneId ==
  /\ \A p, q \in wire : p.id = q.id => p = q
  /\ \A q \in wire : q.id \in DOMAIN inflight
  /\ \A c \in Callers : sending[c].pc = "send" =>
       /\ sending[c].req.id \in DOMAIN inflight /\ inflight[sending[c].req.id] = c
       /\ \A q \in wire : q.id # sending[c].req.id

\* The requests of c in flight, and those whose channel recv is about to send to.
Owed(c) == {id \in DOMAIN inflight : inflight[id] = c}
Told(c) == {id \in DOMAIN recv.to : recv.to[id] = c}

\* The results that may still be sent to c.
Coming(c) ==
  IF Broadcasting THEN Cardinality(Told(c)) + (IF sending[c].pc = "none" THEN 0 ELSE 1)
  ELSE Cardinality(Owed(c)) + (IF recv.pc = "deliver" THEN Cardinality(Told(c)) ELSE 0)
         + (IF sending[c].pc = "fail" THEN 1 ELSE 0)

\* The results that c waits for.
Awaited(c) == IF c = F THEN xfer.n ELSE IF call = "wait" THEN 1 ELSE 0

\* Only a request that was being sent when the listeners were collected may have two.
NotTooMany(c) == Len(ch[c]) + Coming(c) <= Awaited(c) + (IF Broadcasting THEN 1 ELSE 0)
DueOK == \A c \in Callers : NotTooMany(c)

OpFields == {"kind", "start", "next", "end", "n", "want", "reqs", "err", "got", "out", "size", "done"}
Kinds == {"ReadAt", "WriteTo", "Write", "ReadFrom"}

Shape(x) ==
  /\ DOMAIN x = OpFields
  /\ x.kind \in Kinds /\ x.done \in BOOLEAN
  /\ x.start \in Nat /\ x.next \in Nat /\ x.end \in Nat /\ x.size \in Nat
  /\ x.n \in 0..MaxConcurrent /\ x.want \in 1..MaxConcurrent
  /\ x.start <= x.next /\ (x.kind # "WriteTo" => x.next <= x.end)
  /\ x.err # <<>> => x.err \in Nat \X (Errs \cup {"read", "write", "inconsistency"})
  /\ IsFiniteSet(DOMAIN x.got)
Remembered(reqs, n) == \A id \in DOMAIN reqs : id \in 1..n /\ reqs[id] \in [off : Nat, len : Nat]

OpTypes ==
  /\ Shape(xfer) /\ Remembered(xfer.reqs, nextid)
  /\ call \in {"idle", "wait", "done"} /\ (call = "idle" => sending[C].pc = "none")
  /\ dropped \in BOOLEAN /\ faults \in 0..MaxFaults

-----------------------------------------------------------------------------
\* A request of c, and what the transfer remembers of it.
AskedFor(c, q) ==
  IF c = F THEN /\ q.id \in DOMAIN xfer.reqs
                /\ q.typ = (IF xfer.kind \in Reads THEN "read" ELSE "write")
                /\ xfer.reqs[q.id].off = q.off /\ xfer.reqs[q.id].len = q.len
  ELSE q.typ = "other"

WireOK == \A q \in wire : AskedFor(inflight[q.id], q)
SendOK == \A c \in Callers : sending[c].pc = "send" => AskedFor(c, sending[c].req)
FlightOK == \A id \in DOMAIN inflight : inflight[id] = F => id \in DOMAIN xfer.reqs

\* Requests of a transfer lie in the part it has come to.
InRange(q) ==
  /\ xfer.start <= q.off /\ q.off + q.len <= xfer.next
  /\ xfer.kind \in Reads => q.len > 0
  /\ xfer.kind = "WriteTo" => q.len = MaxPacket
RangesOK == \A id \in DOMAIN xfer.reqs : InRange(xfer.reqs[id])

ReqsOK == WireOK /\ SendOK /\ FlightOK /\ RangesOK

Written(lo, hi) == \A o \in lo..hi - 1 : o \in DOMAIN file /\ file[o] = Source(o)

\* The right answer to a request of the transfer.
Answer(r) ==
  /\ r.id \in DOMAIN xfer.reqs
  /\ LET q == xfer.reqs[r.id]
     IN IF xfer.kind \in Reads
        THEN \/ /\ r.typ = "data" /\ q.off < FileSize
                /\ Len(r.data) \in 1..min(q.len, FileSize - q.off)
                /\ xfer.kind = "WriteTo" => Len(r.data) = min(q.len, FileSize - q.off)
                /\ \A i \in 1..Len(r.data) : r.data[i] = Stored(q.off + i - 1)
             \/ /\ r.typ = "status"
                /\ r.err = "failure" \/ (r.err = "EOF" /\ q.off >= FileSize)
        ELSE r.typ = "status" /\ (r.err = "failure" \/ (r.err = "nil" /\ Written(q.off, q.off + q.len)))

ConnError(r) == r.typ = "error" /\ (r.err = "send" \/ (r.err = ended /\ ended # "nil"))

\* In the channel are the right answers, one to a request, and errors of the connection.
Held(i) ==
  \/ ConnError(ch[F][i])
  \/ /\ Answer(ch[F][i]) /\ ch[F][i].id \notin DOMAIN inflight
     /\ \A j \in 1..Len(ch[F]) : j # i => ch[F][j].id # ch[F][i].id
ChanOK == \A i \in 1..Len(ch[F]) : Held(i)

DeliverOK ==
  recv.pc = "deliver" =>
    /\ DOMAIN recv.to = {recv.res.id}
    /\ recv.to[recv.res.id] = F =>
         /\ Answer(recv.res) /\ recv.res.id \notin DOMAIN inflight
         /\ \A j \in 1..Len(ch[F]) : ch[F][j].id # recv.res.id

EndOK ==
  /\ recv.pc \in {"close", "listeners", "broadcast", "closed"} <=> ended # "nil"
  /\ recv.pc = "broadcast" => recv.res = Failed(ended)

FileOK == xfer.kind \in Reads => file = [o \in 0..FileSize - 1 |-> Stored(o)]

ResultsOK == ChanOK /\ DeliverOK /\ EndOK /\ FileOK

-----------------------------------------------------------------------------
\* Reads.  Nothing but the end of the file has been met before the end of the file.
AllWell == xfer.err = <<>> \/ (xfer.err[2] \in {"EOF", "failure"} /\ xfer.err[1] >= FileSize)

InRequest(o) ==
  \E id \in DOMAIN xfer.reqs : o \in xfer.reqs[id].off..xfer.reqs[id].off + xfer.reqs[id].len - 1

\* How far w has been written.
At == xfer.start + Len(xfer.out)
InChunk(o) == \E a \in DOMAIN xfer.got : o \in a..a + Len(xfer.got[a]) - 1

ReadErr ==
  /\ xfer.kind \in Reads /\ xfer.err # <<>> =>
       xfer.err[2] \in {"EOF", "failure"} \/ xfer.err[1] <= FileSize
  /\ xfer.kind \in Reads /\ xfer.err # <<>> /\ xfer.err[2] = "EOF" /\ ended # "EOF" =>
       xfer.err[1] >= FileSize /\ xfer.err[1] < xfer.next
  /\ xfer.kind \in Reads /\ AllWell /\ ended # "EOF" => xfer.n = Cardinality(DOMAIN xfer.reqs)

ReadAtOK ==
  xfer.kind = "ReadAt" =>
    /\ xfer.got = [o \in DOMAIN xfer.got |-> xfer.got[o]]
    /\ \A o \in DOMAIN xfer.got : o \in xfer.start..min(xfer.next, FileSize) - 1 /\ xfer.got[o] = Stored(o)
    /\ AllWell /\ ended # "EOF" =>
         \A o \in xfer.start..min(xfer.next, FileSize) - 1 : o \in DOMAIN xfer.got \/ InRequest(o)

\* Packets that are asked for or pending are behind what has been written, and apart.
Apart(a, b) == a + MaxPacket <= b \/ b + MaxPacket <= a
OutOK ==
  /\ xfer.out \in Seq(Nat) /\ \A i \in 1..Len(xfer.out) : xfer.out[i] = Stored(xfer.start + i - 1)
  /\ xfer.out # <<>> => At <= FileSize
  /\ At <= xfer.next
ChunksOK ==
  /\ \A a \in DOMAIN xfer.got :
       /\ a \in Nat /\ a > At /\ a < FileSize /\ a + MaxPacket <= xfer.next
       /\ xfer.got[a] \in Seq(Nat)
       /\ Len(xfer.got[a]) = min(MaxPacket, FileSize - a)
       /\ \A i \in 1..Len(xfer.got[a]) : xfer.got[a][i] = Stored(a + i - 1)
  /\ \A a, b \in DOMAIN xfer.got : a = b \/ Apart(a, b)
AskedApart ==
  \A id \in DOMAIN xfer.reqs :
    /\ xfer.reqs[id].off >= At
    /\ \A a \in DOMAIN xfer.got : Apart(xfer.reqs[id].off, a)
    /\ \A k \in DOMAIN xfer.reqs : id = k \/ Apart(xfer.reqs[id].off, xfer.reqs[k].off)
Covered ==
  AllWell /\ ended # "EOF" =>
    \A o \in xfer.start..min(xfer.next, FileSize) - 1 : o < At \/ InChunk(o) \/ InRequest(o)
WriteToOK == xfer.kind = "WriteTo" => OutOK /\ ChunksOK /\ AskedApart /\ Covered

\* Writes.
WriteOK ==
  xfer.kind \in {"Write", "ReadFrom"} /\ ended # "EOF" /\ ~dropped
    /\ (xfer.err = <<>> \/ (xfer.kind = "ReadFrom" /\ xfer.err[2] = "EOF")) =>
    /\ xfer.n = Cardinality(DOMAIN xfer.reqs)
    /\ \A o \in xfer.start..xfer.next - 1 : (o \in DOMAIN file /\ file[o] = Source(o)) \/ InRequest(o)
    /\ xfer.err # <<>> => xfer.next = xfer.end

DoneOK ==
  xfer.done =>
    /\ xfer.n = 0
    /\ xfer.err = <<>> => xfer.kind \in {"ReadAt", "Write"} /\ xfer.next = xfer.end

ConnOK == ConnTypes /\ OneId
ConnInv == ConnTypes /\ OneId /\ DueOK
Basics == ConnOK /\ OpTypes /\ ReqsOK /\ ResultsOK
Data == ReadErr /\ ReadAtOK /\ WriteToOK /\ WriteOK /\ DoneOK
ClientInv == Basics /\ DueOK /\ Data

\* What the proofs use of finite sets, of their sizes and of the least of some numbers.
Counting ==
  /\ \A S \in SUBSET Nat : S # {} => \E x \in S : \A y \in S : x <= y
  /\ \A a, b \in Int : IsFiniteSet(a..b)
  /\ IsFiniteSet({}) /\ Cardinality({}) = 0 /\ \A x : IsFiniteSet({x}) /\ Cardinality({x}) = 1
  /\ \A S : IsFiniteSet(S) => (Cardinality(S) = 0 <=> S = {})
  /\ \A S : IsFiniteSet(S) => Cardinality(S) \in Nat /\ \A T \in SUBSET S : IsFiniteSet(T)
  /\ \A S, T : IsFiniteSet(S) /\ IsFiniteSet(T) => IsFiniteSet(S \cup T)
  /\ \A S, x : IsFiniteSet(S) /\ x \notin S =>
       IsFiniteSet(S \cup {x}) /\ Cardinality(S \cup {x}) = Cardinality(S) + 1
  /\ \A S, x : IsFiniteSet(S) /\ x \in S => Cardinality(S \ {x}) = Cardinality(S) - 1
=============================================================================
