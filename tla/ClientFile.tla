----------------------------- MODULE ClientFile -----------------------------
(***************************************************************************)
(* Transfers of a file by pipelined requests (File in pkgsftp/client.go):  *)
(* ReadAt, WriteTo, Write and ReadFrom keep a window of requests in flight *)
(* that grows with every response, and put together what comes back out of *)
(* order.  Another goroutine makes a single request on the same connection *)
(* meanwhile.                                                              *)
(*                                                                         *)
(* A file is a function from offsets to bytes.  The server answers a read  *)
(* with what it has from the offset on, and with the status EOF behind the *)
(* end.  A request it has not answered may have been carried out or not.   *)
(***************************************************************************)
EXTENDS ClientConn, Integers

CONSTANTS
  MaxPacket,      \* Client.maxPacket
  MaxConcurrent,  \* Client.maxConcurrentRequests
  FileSize,       \* of the remote file that is read
  Transfers       \* <<kind, offset, length>>: the transfers of an instance

F == "file"
C == "call"

ASSUME FileAssumptions ==
  /\ Callers = {F, C}
  /\ Capacity = [c \in Callers |-> IF c = F THEN MaxConcurrent + 1 ELSE 2]
  /\ MaxPacket \in Nat \ {0} /\ MaxConcurrent \in Nat \ {0} /\ FileSize \in Nat
  /\ Transfers \subseteq {"ReadAt", "WriteTo", "Write", "ReadFrom"} \X Nat \X Nat

VARIABLES
  file,     \* the remote file
  xfer,     \* the transfer
  call,     \* the other request: "idle", "wait", "done"
  dropped   \* history: ReadFrom met a failure after the end of its source

vars == <<connVars, file, xfer, call, dropped, faults>>

Reads == {"ReadAt", "WriteTo"}
Stored(o) == o + 1         \* bytes of the file that is read
Source(o) == 100 + o       \* bytes that are written

\* next: offset of the next request; end: of the caller's data; n: inFlight, want:
\* desiredInFlight; reqs: what each request asked for; err: firstErr as <<offset, error>>;
\* got: the caller's buffer, for WriteTo the pendingWrites; out: what WriteTo has written
\* to w, from offset start on; size: what Stat said.
NewOp(t, size) ==
  [kind |-> t[1], start |-> t[2], next |-> t[2], end |-> t[2] + t[3], n |-> 0, want |-> 1,
   reqs |-> <<>>, err |-> <<>>, got |-> <<>>, out |-> <<>>, size |-> size, done |-> FALSE]

Init ==
  /\ ConnInit /\ faults = 0
  /\ \E t \in Transfers, size \in {0, FileSize} :
       /\ t[1] # "WriteTo" => size = 0
       /\ xfer = NewOp(t, size)
       /\ file = IF t[1] \in Reads THEN [o \in 0..FileSize - 1 |-> Stored(o)] ELSE <<>>
  /\ call = "idle" /\ dropped = FALSE

min(a, b) == IF a > b THEN b ELSE a

\* f, with what g has in its place.
Over(f, g) == [o \in DOMAIN f \cup DOMAIN g |-> IF o \in DOMAIN g THEN g[o] ELSE f[o]]

-----------------------------------------------------------------------------
(* The server.                                                             *)

Bytes(f, lo, hi) == [i \in 1..hi - lo |-> f[lo + i - 1]]

Status(q, err) == [typ |-> "status", id |-> q.id, err |-> err]

\* Only ReadAt copes with a server that gives fewer bytes than it has.
Lengths(q) ==
  LET most == min(q.len, FileSize - q.off) IN IF xfer.kind = "ReadAt" THEN 1..most ELSE {most}

Responses(q) ==
  CASE q.typ = "read" /\ q.off < FileSize ->
         {[typ |-> "data", id |-> q.id, data |-> Bytes(file, q.off, q.off + n)] :
             n \in Lengths(q)}
    [] q.typ = "read" /\ q.off >= FileSize -> {Status(q, "EOF")}
    [] q.typ \in {"write", "other"} -> {Status(q, "nil")}

Serve ==
  /\ \E q \in wire :
       \/ /\ \E res \in Responses(q) : RecvPacket(q, res)
          /\ file' = IF q.typ = "write"
                     THEN Over(file, [o \in q.off..q.off + q.len - 1 |-> Source(o)])
                     ELSE file
          /\ UNCHANGED faults
       \/ /\ Fault
          /\ RecvPacket(q, Status(q, "failure"))
          /\ UNCHANGED file
  /\ UNCHANGED <<xfer, call, dropped>>

-----------------------------------------------------------------------------
(* What the four transfers share.                                          *)

Running(kinds) == xfer.kind \in kinds /\ ~xfer.done /\ sending[F].pc = "none"

\* May another request be sent?
Room ==
  /\ xfer.err = <<>>
  /\ CASE xfer.kind = "WriteTo" -> xfer.n + Cardinality(DOMAIN xfer.got) < xfer.want
       [] xfer.kind = "ReadFrom" -> xfer.n < xfer.want
       [] OTHER -> xfer.n < xfer.want /\ xfer.next < xfer.end

\* The request is dispatched, counted and remembered under its id; next is where the one
\* after it begins.
Request(o, typ, off, len) ==
  /\ Dispatch(F, [id |-> 0, typ |-> typ, off |-> off, len |-> len])
  /\ xfer' = [o EXCEPT !.n = @ + 1, !.reqs = Put(@, nextID, [off |-> off, len |-> len])]

sendRest == <<wire, open, recv, ended, file, call>>

\* <-ch, once nothing more can be sent.
res == Head(ch[F])
req == xfer.reqs[res.id]
taken == [xfer EXCEPT !.n = @ - 1, !.reqs = Restrict(@, DOMAIN @ \ {res.id})]
Receive ==
  /\ ~Room /\ xfer.n > 0 /\ ch[F] # <<>>
  /\ ch' = [ch EXCEPT ![F] = Tail(@)]
  /\ UNCHANGED sendRest

\* Mutant: the window grows by one too many.
TooWide(o) == [o EXCEPT !.want = IF @ <= MaxConcurrent THEN @ + 1 ELSE @]

Wider(o) == [o EXCEPT !.want = IF @ < MaxConcurrent THEN @ + 1 ELSE @]

\* Nothing to send and nothing to wait for.
Finish(kind) ==
  /\ Running({kind}) /\ ~Room /\ xfer.n = 0
  /\ xfer' = [xfer EXCEPT !.done = TRUE,
                      !.err = IF kind = "WriteTo" /\ @ = <<>> THEN <<0, "inconsistency">> ELSE @]
  /\ UNCHANGED <<connVars, file, call, dropped, faults>>

\* An error of the connection.
TakeError ==
  /\ Running({xfer.kind}) /\ Receive /\ res.typ = "error"
  /\ xfer' = [taken EXCEPT !.err = <<0, res.err>>]
  /\ UNCHANGED <<nextid, inflight, sending, dropped, faults>>

\* Mutant: the first error to come in is kept, whatever its offset.
FirstCome(err, off, e) == IF err = <<>> THEN <<off, e>> ELSE err

\* Of the errors of reads, the one at the lowest offset counts.
LowestErr(err, off, e) == IF err = <<>> \/ off < err[1] THEN <<off, e>> ELSE err

TakeReadStatus ==
  /\ Running(Reads) /\ Receive /\ res.typ = "status"
  /\ xfer' = [taken EXCEPT !.err = LowestErr(@, req.off, res.err)]
  /\ UNCHANGED <<nextid, inflight, sending, dropped, faults>>

-----------------------------------------------------------------------------
(* ReadAt: the buffer is asked for in packets; of a short one the rest is  *)
(* asked for again.                                                        *)

ReadAtSends ==
  LET len == min(MaxPacket, xfer.end - xfer.next)
  IN /\ Running({"ReadAt"}) /\ Room
     /\ Request([xfer EXCEPT !.next = @ + len], "read", xfer.next, len)
     /\ UNCHANGED <<sendRest, ch, dropped, faults>>

ReadAtTakes ==
  LET n == Len(res.data)
      here == [o \in req.off..req.off + n - 1 |-> res.data[o - req.off + 1]]
      copied == Wider([taken EXCEPT !.got = Over(@, here)])
  IN /\ Running({"ReadAt"}) /\ Receive /\ res.typ = "data"
     /\ IF n < req.len
        THEN Request(copied, "read", req.off + n, req.len - n)
        ELSE xfer' = copied /\ UNCHANGED <<nextid, inflight, sending>>
     /\ UNCHANGED <<dropped, faults>>

-----------------------------------------------------------------------------
(* WriteTo: packets are asked for until one is answered with EOF.  Behind  *)
(* the size the file is said to have, one at a time.                       *)

WriteToSends ==
  LET next == xfer.next + MaxPacket
  IN /\ Running({"WriteTo"}) /\ Room
     /\ Request([xfer EXCEPT !.next = next, !.want = IF next > xfer.size THEN 1 ELSE @],
                "read", xfer.next, MaxPacket)
     /\ UNCHANGED <<sendRest, ch, dropped, faults>>

\* The pendingWrites that follow on each other from offset at on: the least set with the one
\* at at, if there is one, and with the one at the end of each of its members.
Chain(got, at) ==
  LET Follows(S) == /\ at \in DOMAIN got => at \in S
                    /\ \A b \in S : b + Len(got[b]) \in DOMAIN got => b + Len(got[b]) \in S
  IN {a \in DOMAIN got : \A S \in SUBSET DOMAIN got : Follows(S) => a \in S}

\* They are written one after the other, up to an offset where none begins.
Flush(o) ==
  LET at == o.start + Len(o.out)
      chain == Chain(o.got, at)
      stop == CHOOSE e \in {at} \cup {a + Len(o.got[a]) : a \in chain} : e \notin DOMAIN o.got
      of(p) == CHOOSE a \in chain : p \in a..a + Len(o.got[a]) - 1
  IN [o EXCEPT !.out = @ \o [i \in 1..stop - at |-> o.got[of(at + i - 1)][at + i - of(at + i - 1)]],
               !.got = Restrict(@, DOMAIN @ \ chain)]

\* Data is written if it is next, and kept otherwise.
WriteOut(o) ==
  IF req.off # o.start + Len(o.out) THEN [o EXCEPT !.got = Put(@, req.off, res.data)]
  ELSE LET w == [o EXCEPT !.out = @ \o res.data]
       IN Flush(IF o.next > o.size THEN [w EXCEPT !.want = 1] ELSE Wider(w))

\* w.Write may fail, or write less than it is given: writeOffset then stays behind, and no
\* other response begins there.
WriteToTakes ==
  LET o == WriteOut(taken)
  IN /\ Running({"WriteTo"}) /\ Receive /\ res.typ = "data"
     /\ \/ xfer' = o /\ UNCHANGED faults
        \/ /\ Fault
           /\ \E k \in Len(xfer.out)..Len(o.out) - 1 :
                xfer' = [o EXCEPT !.out = SubSeq(@, 1, k), !.err = <<xfer.start + k, "write">>]
     /\ UNCHANGED <<nextid, inflight, sending, dropped>>

-----------------------------------------------------------------------------
(* Write and ReadFrom: what is written comes from a buffer, or from a      *)
(* reader until its end, which goes out as an empty write.                 *)

WriteSends ==
  LET len == min(MaxPacket, xfer.end - xfer.next)
  IN /\ Running({"Write"}) /\ Room
     /\ Request([xfer EXCEPT !.next = @ + len], "write", xfer.next, len)
     /\ UNCHANGED <<sendRest, ch, dropped, faults>>

\* r.Read may fail.
ReadFromSends ==
  LET len == min(MaxPacket, xfer.end - xfer.next)
  IN /\ Running({"ReadFrom"}) /\ Room
     /\ \/ /\ Request([xfer EXCEPT !.next = @ + len, !.err = IF len = 0 THEN <<0, "EOF">> ELSE @],
                      "write", xfer.next, len)
           /\ UNCHANGED faults
        \/ Fault /\ Request([xfer EXCEPT !.err = <<0, "read">>], "write", xfer.next, 0)
     /\ UNCHANGED <<sendRest, ch, dropped>>

\* A failure is not recorded over an earlier error, nor over the end of the source.
WriteStatus(o) ==
  IF res.err # "nil" /\ o.err = <<>> THEN [o EXCEPT !.err = <<0, res.err>>] ELSE Wider(o)

TakeWriteStatus ==
  /\ Running({"Write", "ReadFrom"}) /\ Receive /\ res.typ = "status"
  /\ xfer' = WriteStatus(taken)
  /\ dropped' = (dropped \/ (xfer.kind = "ReadFrom" /\ xfer.err # <<>> /\ res.err # "nil"))
  /\ UNCHANGED <<nextid, inflight, sending, faults>>

TransferStep ==
  \/ ReadAtSends \/ ReadAtTakes \/ WriteToSends \/ WriteToTakes \/ WriteSends \/ ReadFromSends
  \/ TakeError \/ TakeReadStatus \/ TakeWriteStatus \/ Finish(xfer.kind)

-----------------------------------------------------------------------------
(* The single request: sendPacket.                                         *)

CallSend ==
  /\ call = "idle"
  /\ call' = "wait"
  /\ Dispatch(C, [id |-> 0, typ |-> "other", off |-> 0, len |-> 0])
  /\ UNCHANGED <<wire, open, ch, recv, ended, file, xfer, dropped, faults>>

CallReturns ==
  /\ call = "wait" /\ sending[C].pc = "none" /\ ch[C] # <<>>
  /\ call' = "done"
  /\ ch' = [ch EXCEPT ![C] = Tail(@)]
  /\ UNCHANGED <<nextid, inflight, wire, open, sending, recv, ended, file, xfer, dropped, faults>>

ConnStep ==
  /\ Loop \/ (\E c \in Callers : Send(c) \/ SendFailed(c))
       \/ (\E err \in {"EOF", "reset"} : RecvError(err))
  /\ UNCHANGED <<file, xfer, call, dropped>>

Next == Serve \/ ConnStep \/ TransferStep \/ CallSend \/ CallReturns

Spec == Init /\ [][Next]_vars

\* Goroutines keep running, and a server that does not answer ends the connection.
FairSpec == Spec /\ WF_vars(Next)

-----------------------------------------------------------------------------
TypeOK ==
  /\ nextid \in Nat /\ DOMAIN inflight \subseteq 1..nextid /\ Range(inflight) \subseteq Callers
  /\ \A q \in wire : q.id \in DOMAIN inflight /\ q.typ \in {"read", "write", "other"}
  /\ \A c \in Callers : Len(ch[c]) <= Capacity[c] /\ sending[c].pc \in {"none", "send", "fail"}
  /\ recv.pc \in {"recv", "deliver", "close", "listeners", "broadcast", "closed"}
  /\ {open, xfer.done, dropped} \subseteq BOOLEAN /\ call \in {"idle", "wait", "done"}
  /\ xfer.n \in 0..MaxConcurrent /\ xfer.want \in 1..MaxConcurrent
  /\ xfer.kind \in {"ReadAt", "WriteTo", "Write", "ReadFrom"}

\* A transfer that reports success is exact: ReadAt has filled the buffer, or read up to the
\* end of the file with EOF; WriteTo has written the rest of the file to w in order; what Write
\* and ReadFrom were given is in the remote file (client.go:870-1265).  Except when the stream
\* was closed in order, which WriteTo, ReadFrom and ReadAt take for the end of the file, and
\* when ReadFrom met a failing write after the end of its source, which it drops.
Succeeded == xfer.done /\ (xfer.err = <<>> \/ (xfer.kind # "Write" /\ xfer.err[2] = "EOF"))
TransfersExact ==
  Succeeded /\ ended # "EOF" /\ ~dropped =>
    CASE xfer.kind = "ReadAt" ->
           xfer.got = [o \in xfer.start..min(xfer.end, FileSize) - 1 |-> Stored(o)]
      [] xfer.kind = "WriteTo" ->
           xfer.out = Bytes([o \in 0..FileSize - 1 |-> Stored(o)], xfer.start, FileSize)
      [] OTHER -> \A o \in xfer.start..xfer.end - 1 : o \in DOMAIN file /\ file[o] = Source(o)

\* Every call returns, with the connection lost at any moment: nobody is left waiting for a
\* response that will not come (conn.go:121-146).
CallsReturn == <>(xfer.done /\ call = "done")
=============================================================================
