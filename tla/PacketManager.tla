---------------------------- MODULE PacketManager ----------------------------
(***************************************************************************)
(* One session of an SFTP server: Serve, which reads packets; the          *)
(* dispatcher, the workers and the controller of the packet manager, which *)
(* puts responses back into the order of the requests; the table of open   *)
(* handles; the page allocator (pkgsftp/packet-manager.go, server.go,      *)
(* request-server.go).  Server and RequestServer differ in what they do    *)
(* with a packet that cannot be decoded and with an open that fails.       *)
(*                                                                         *)
(* Packets are numbered as they are received; channels and queues hold     *)
(* these numbers.  The number modulo 2^32 is the packet's order id.  What  *)
(* a request does to a file, and the status it returns, matter only as far *)
(* as handles are concerned.                                               *)
(***************************************************************************)
EXTENDS Naturals, Sequences, FiniteSets, PageAllocator

CONSTANTS
  SftpServerWorkerCount,  \* number of RWWorkers, and the capacity of the channels
  RWWorkers,              \* the workers that serve rwChan
  CmdWorker,              \* the worker that serves cmdChan
  Scripts,                \* bound: clients send prefixes of these sequences of requests
  MaxPackets,             \* bound: packets a client sends in a session
  OrderIdSpace,           \* 2^32 in the code: packetCount is a uint32
  ServerKinds             \* the servers of this instance

ASSUME PacketManagerAssumptions ==
  /\ SftpServerWorkerCount \in Nat \ {0}
  /\ CmdWorker \notin RWWorkers
  /\ MaxPackets \in Nat
  /\ OrderIdSpace \in Nat /\ MaxPackets + 1 < OrderIdSpace
  /\ ServerKinds \subseteq {"Server", "RequestServer"}

VARIABLES
  kind,        \* which server this is
  conn,        \* "open"; "eof": the client sends no more; "closed"
  serve,       \* Serve: "recv", "queue" (has a packet for pktChan), "wait", "done"
  received,    \* the kind of every packet received
  target,      \* the handle a packet names, or 0
  pktChan,     \* channel from Serve to the dispatcher
  disp,        \* dispatcher: "idle", "wait", "register", "hand", "closing", "done"
  dpkt,        \* the packet the dispatcher has in hand
  working,     \* WaitGroup working
  rwChan,      \* channel from the dispatcher to the read/write workers
  requests, responses,  \* channels to the controller
  incoming, outgoing,   \* the controller's lists, kept sorted: a set does
  ctl,         \* controller: "select", "sending", "returned", "panicked"
  wpc, wpkt,   \* workers: "idle", "handle", "ready", "done", "exited"; the packet
  entries,     \* keys of OpenFiles or openRequests
  files,       \* "none", "open" or "closed": the file behind each handle
  opener,      \* the packet that opened each handle, or 0
  handleCount,
  result,      \* status of a packet's response: "none", "ok", "failed", "badhandle"
  executed,    \* history: packets that have been handled
  sent,        \* the responses passed to sendPacket, in order
  alloc        \* the page allocator

vars == <<kind, conn, serve, received, target, pktChan, disp, dpkt, working, rwChan,
          requests, responses, incoming, outgoing, ctl, wpc, wpkt, entries, files,
          opener, handleCount, result, executed, sent, alloc>>

serveVars == <<conn, serve, received, target>>
dispVars == <<disp, dpkt>>
ctlVars == <<incoming, outgoing, ctl, sent>>
workerVars == <<wpc, wpkt>>
handleVars == <<entries, files, opener, handleCount, result, executed>>

Packets == 1..MaxPackets
Handles == 1..MaxPackets
Workers == RWWorkers \cup {CmdWorker}
Ops == {"open", "read", "write", "close", "cmd", "nil"}
ReadWrite == {"read", "write"}
OrderIds == 0..(OrderIdSpace - 1)

\* newOrderID: packetCount is incremented, modulo 2^32, for every packet.
orderID(i) == i % OrderIdSpace

getNextOrderID == orderID(Len(received) + 1)

\* recvPacket takes its page before it waits for the packet.
Init ==
  /\ kind \in ServerKinds
  /\ conn = "open" /\ serve = "recv"
  /\ received = <<>> /\ target = [i \in Packets |-> 0]
  /\ pktChan = <<>>
  /\ disp = "idle" /\ dpkt = 0
  /\ working = 0
  /\ rwChan = <<>> /\ requests = <<>> /\ responses = <<>>
  /\ incoming = {} /\ outgoing = {} /\ ctl = "select" /\ sent = <<>>
  /\ wpc = [w \in Workers |-> "idle"] /\ wpkt = [w \in Workers |-> 0]
  /\ entries = {} /\ handleCount = 0
  /\ files = [h \in Handles |-> "none"] /\ opener = [h \in Handles |-> 0]
  /\ result = [i \in Packets |-> "none"] /\ executed = {}
  /\ alloc = GetPage(newAllocator(OrderIds), orderID(1))

-----------------------------------------------------------------------------
(* The client and Serve.                                                   *)

\* Handles the client has been told of.
Known == {h \in Handles : opener[h] # 0 /\ \E k \in DOMAIN sent : sent[k] = opener[h]
                          /\ result[opener[h]] = "ok"}

NewPacket(op, h) ==
  /\ Len(received) < MaxPackets
  /\ \E s \in Scripts : /\ Len(received) < Len(s)
                        /\ SubSeq(s, 1, Len(received) + 1) = Append(received, op)
  /\ received' = Append(received, op)
  /\ target' = [target EXCEPT ![Len(received) + 1] = h]

\* A packet arrives and makePacket decodes it.
RecvPacket(op, h) ==
  /\ serve = "recv" /\ conn = "open"
  /\ op \in Ops \ {"nil"}
  /\ IF op \in ReadWrite \cup {"close"} THEN h \in Known ELSE h = 0
  /\ NewPacket(op, h)
  /\ serve' = "queue"
  /\ UNCHANGED <<kind, conn, pktChan, dispVars, working, rwChan, requests, responses,
                 ctlVars, workerVars, handleVars, alloc>>

\* makePacket returns an error.  RequestServer closes the connection and ends its
\* loop.  In Server the break leaves only the switch: the packet, decoded in part
\* (without a handle) or nil for an unknown type, is queued all the same.
RecvUndecodable(op) ==
  /\ serve = "recv" /\ conn = "open"
  /\ conn' = "closed"
  /\ IF kind = "RequestServer"
     THEN serve' = "wait" /\ UNCHANGED <<received, target>>
     ELSE serve' = "queue" /\ NewPacket(op, 0)
  /\ UNCHANGED <<kind, pktChan, dispVars, working, rwChan, requests, responses,
                 ctlVars, workerVars, handleVars, alloc>>

\* recvPacket returns an error; pktChan is closed.
RecvError ==
  /\ serve = "recv" /\ conn # "open"
  /\ serve' = "wait"
  /\ UNCHANGED <<kind, conn, received, target, pktChan, dispVars, working, rwChan,
                 requests, responses, ctlVars, workerVars, handleVars, alloc>>

\* The send on pktChan, and the page for the next packet.
QueuePacket ==
  /\ serve = "queue" /\ Len(pktChan) < SftpServerWorkerCount
  /\ pktChan' = Append(pktChan, Len(received))
  /\ alloc' = GetPage(alloc, getNextOrderID)
  /\ serve' = "recv"
  /\ UNCHANGED <<kind, conn, received, target, dispVars, working, rwChan, requests,
                 responses, ctlVars, workerVars, handleVars>>

\* The client ends its side of the stream, or the connection breaks.
ConnEnds(how) ==
  /\ conn = "open"
  /\ conn' = how
  /\ UNCHANGED <<kind, serve, received, target, pktChan, dispVars, working, rwChan,
                 requests, responses, ctlVars, workerVars, handleVars, alloc>>

\* Mutant: files of handles that were never closed stay open.
LeaveOpen == files

CloseLeftOpen == [h \in Handles |-> IF h \in entries /\ files[h] = "open" THEN "closed"
                                    ELSE files[h]]

\* All workers have exited: what is left open is closed and the allocator freed.
\* RequestServer also clears its table.
ServeReturns ==
  /\ serve = "wait"
  /\ \A w \in Workers : wpc[w] = "exited"
  /\ serve' = "done"
  /\ files' = CloseLeftOpen
  /\ entries' = IF kind = "RequestServer" THEN {} ELSE entries
  /\ alloc' = Free(alloc)
  /\ UNCHANGED <<kind, conn, received, target, pktChan, dispVars, working, rwChan,
                 requests, responses, ctlVars, workerVars, opener, handleCount,
                 result, executed>>

-----------------------------------------------------------------------------
(* The dispatcher: the goroutine of workerChan.                            *)

\* Mutant: a close does not wait for the packets before it.
TakeWithoutWaiting ==
  /\ disp = "idle" /\ pktChan # <<>>
  /\ dpkt' = Head(pktChan) /\ pktChan' = Tail(pktChan)
  /\ disp' = "register" /\ working' = working + 1
  /\ UNCHANGED <<kind, serveVars, rwChan, requests, responses, ctlVars, workerVars,
                 handleVars, alloc>>

\* A close waits; anything else is counted by incomingPacket.
TakePacket ==
  /\ disp = "idle" /\ pktChan # <<>>
  /\ dpkt' = Head(pktChan) /\ pktChan' = Tail(pktChan)
  /\ IF received[Head(pktChan)] = "close"
     THEN disp' = "wait" /\ UNCHANGED working
     ELSE disp' = "register" /\ working' = working + 1
  /\ UNCHANGED <<kind, serveVars, rwChan, requests, responses, ctlVars, workerVars,
                 handleVars, alloc>>

WaitBeforeClose ==
  /\ disp = "wait" /\ working = 0
  /\ disp' = "register" /\ working' = 1
  /\ UNCHANGED <<kind, serveVars, dpkt, pktChan, rwChan, requests, responses, ctlVars,
                 workerVars, handleVars, alloc>>

\* The send of incomingPacket.
RegisterPacket ==
  /\ disp = "register" /\ Len(requests) < SftpServerWorkerCount
  /\ requests' = Append(requests, dpkt)
  /\ disp' = "hand"
  /\ UNCHANGED <<kind, serveVars, dpkt, pktChan, working, rwChan, responses, ctlVars,
                 workerVars, handleVars, alloc>>

HandToRW ==
  /\ disp = "hand" /\ received[dpkt] \in ReadWrite
  /\ Len(rwChan) < SftpServerWorkerCount
  /\ rwChan' = Append(rwChan, dpkt)
  /\ disp' = "idle" /\ dpkt' = 0
  /\ UNCHANGED <<kind, serveVars, pktChan, working, requests, responses, ctlVars,
                 workerVars, handleVars, alloc>>

\* cmdChan is unbuffered.
HandToCmd ==
  /\ disp = "hand" /\ received[dpkt] \notin ReadWrite
  /\ wpc[CmdWorker] = "idle"
  /\ wpc' = [wpc EXCEPT ![CmdWorker] = "handle"] /\ wpkt' = [wpkt EXCEPT ![CmdWorker] = dpkt]
  /\ disp' = "idle" /\ dpkt' = 0
  /\ UNCHANGED <<kind, serveVars, pktChan, working, rwChan, requests, responses,
                 ctlVars, handleVars, alloc>>

\* pktChan is closed and drained: rwChan and cmdChan are closed.
CloseChannels ==
  /\ disp = "idle" /\ pktChan = <<>> /\ serve \in {"wait", "done"}
  /\ disp' = "closing"
  /\ UNCHANGED <<kind, serveVars, dpkt, pktChan, working, rwChan, requests, responses,
                 ctlVars, workerVars, handleVars, alloc>>

\* packetManager.close: the channel fini is closed.
CloseFini ==
  /\ disp = "closing" /\ working = 0
  /\ disp' = "done"
  /\ UNCHANGED <<kind, serveVars, dpkt, pktChan, working, rwChan, requests, responses,
                 ctlVars, workerVars, handleVars, alloc>>

-----------------------------------------------------------------------------
(* The workers.                                                            *)

TakeRW(w) ==
  /\ w \in RWWorkers /\ wpc[w] = "idle" /\ rwChan # <<>>
  /\ wpc' = [wpc EXCEPT ![w] = "handle"] /\ wpkt' = [wpkt EXCEPT ![w] = Head(rwChan)]
  /\ rwChan' = Tail(rwChan)
  /\ UNCHANGED <<kind, serveVars, pktChan, dispVars, working, requests, responses,
                 ctlVars, handleVars, alloc>>

Handling(w, ops) == wpc[w] = "handle" /\ received[wpkt[w]] \in ops

\* The packet is handled with status s; its response is ready to be queued.
Answer(w, s) ==
  /\ wpc' = [wpc EXCEPT ![w] = "ready"]
  /\ result' = [result EXCEPT ![wpkt[w]] = s]
  /\ executed' = executed \cup {wpkt[w]}
  /\ UNCHANGED <<kind, serveVars, pktChan, dispVars, working, rwChan, requests,
                 responses, ctlVars, wpkt>>

\* An open, of a file or a directory.  Server enters a file it could open.
\* RequestServer enters the request first and leaves it there on a failure.
HandleOpen(w, s) ==
  /\ Handling(w, {"open"}) /\ s \in {"ok", "failed"}
  /\ Answer(w, s)
  /\ IF s = "ok" \/ kind = "RequestServer"
     THEN /\ handleCount' = handleCount + 1
          /\ entries' = entries \cup {handleCount + 1}
          /\ files' = [files EXCEPT ![handleCount + 1] = IF s = "ok" THEN "open" ELSE "none"]
          /\ opener' = [opener EXCEPT ![handleCount + 1] = wpkt[w]]
     ELSE UNCHANGED <<handleCount, entries, files, opener>>
  /\ UNCHANGED alloc

\* A read or a write looks its handle up.  What is read goes into a page of its own.
HandleReadWrite(w) ==
  LET i == wpkt[w]
  IN /\ Handling(w, ReadWrite)
     /\ Answer(w, IF target[i] \in entries THEN "ok" ELSE "badhandle")
     /\ alloc' = IF received[i] = "read" /\ target[i] \in entries
                 THEN GetPage(alloc, orderID(i)) ELSE alloc
     /\ UNCHANGED <<entries, files, opener, handleCount>>

\* closeHandle, closeRequest.
HandleClose(w) ==
  LET h == target[wpkt[w]]
  IN /\ Handling(w, {"close"})
     /\ Answer(w, IF h \in entries THEN "ok" ELSE "badhandle")
     /\ entries' = entries \ {h}
     /\ files' = [g \in Handles |-> IF g = h /\ g \in entries /\ files[g] = "open"
                                    THEN "closed" ELSE files[g]]
     /\ UNCHANGED <<opener, handleCount, alloc>>

\* Every other request; handles are none of its business.
HandleCmd(w) ==
  /\ Handling(w, {"cmd"})
  /\ Answer(w, "ok")
  /\ UNCHANGED <<entries, files, opener, handleCount, alloc>>

\* The default case of handlePacket: the worker closes the connection and returns.
HandleUnexpected(w) ==
  /\ Handling(w, {"nil"})
  /\ wpc' = [wpc EXCEPT ![w] = "exited"]
  /\ conn' = "closed"
  /\ UNCHANGED <<kind, serve, received, target, pktChan, dispVars, working, rwChan,
                 requests, responses, ctlVars, wpkt, handleVars, alloc>>

\* readyPacket: the response is queued, then working.Done is called.
ReadyPacket(w) ==
  /\ wpc[w] = "ready" /\ Len(responses) < SftpServerWorkerCount
  /\ responses' = Append(responses, wpkt[w])
  /\ wpc' = [wpc EXCEPT ![w] = "done"]
  /\ UNCHANGED <<kind, serveVars, pktChan, dispVars, working, rwChan, requests,
                 ctlVars, wpkt, handleVars, alloc>>

\* Mutants: working.Done is called a second time, or not at all.
DoneTwice(w) ==
  /\ wpc[w] = "done"
  /\ working' = working - 2
  /\ wpc' = [wpc EXCEPT ![w] = "idle"] /\ wpkt' = [wpkt EXCEPT ![w] = 0]
  /\ UNCHANGED <<kind, serveVars, pktChan, dispVars, rwChan, requests, responses,
                 ctlVars, handleVars, alloc>>
DoneForgotten(w) ==
  /\ wpc[w] = "done"
  /\ wpc' = [wpc EXCEPT ![w] = "idle"] /\ wpkt' = [wpkt EXCEPT ![w] = 0]
  /\ UNCHANGED <<kind, serveVars, pktChan, dispVars, working, rwChan, requests,
                 responses, ctlVars, handleVars, alloc>>

WorkingDone(w) ==
  /\ wpc[w] = "done"
  /\ working' = working - 1
  /\ wpc' = [wpc EXCEPT ![w] = "idle"] /\ wpkt' = [wpkt EXCEPT ![w] = 0]
  /\ UNCHANGED <<kind, serveVars, pktChan, dispVars, rwChan, requests, responses,
                 ctlVars, handleVars, alloc>>

\* Mutant: cmdChan is not closed.
RWWorkerExits(w) ==
  /\ wpc[w] = "idle" /\ disp \in {"closing", "done"}
  /\ w \in RWWorkers /\ rwChan = <<>>
  /\ wpc' = [wpc EXCEPT ![w] = "exited"]
  /\ UNCHANGED <<kind, serveVars, pktChan, dispVars, working, rwChan, requests,
                 responses, ctlVars, wpkt, handleVars, alloc>>

\* The worker's channel is closed and empty.
WorkerExits(w) ==
  /\ wpc[w] = "idle" /\ disp \in {"closing", "done"}
  /\ w \in RWWorkers => rwChan = <<>>
  /\ wpc' = [wpc EXCEPT ![w] = "exited"]
  /\ UNCHANGED <<kind, serveVars, pktChan, dispVars, working, rwChan, requests,
                 responses, ctlVars, wpkt, handleVars, alloc>>

-----------------------------------------------------------------------------
(* The controller.                                                         *)

\* i is the head of the list S, which Sort has put into the order of the order ids.
IsHead(i, S) == i \in S /\ \A j \in S : orderID(i) <= orderID(j)

\* Mutant: whatever response is first in its list is sent.
AnyHeadMatches(in, out) == in # {} /\ out # {}

\* The test of maybeSendPackets.
HeadsMatch(in, out) ==
  \E i \in in, o \in out : IsHead(i, in) /\ IsHead(o, out) /\ orderID(i) = orderID(o)

Continue(in, out) == IF HeadsMatch(in, out) THEN "sending" ELSE "select"

\* The controller logs the id of the request, which a nil request does not have.
SelectRequest ==
  /\ ctl = "select" /\ requests # <<>>
  /\ requests' = Tail(requests)
  /\ incoming' = incoming \cup {Head(requests)}
  /\ ctl' = IF received[Head(requests)] = "nil" THEN "panicked"
            ELSE Continue(incoming', outgoing)
  /\ UNCHANGED <<kind, serveVars, pktChan, dispVars, working, rwChan, responses,
                 outgoing, sent, workerVars, handleVars, alloc>>

SelectResponse ==
  /\ ctl = "select" /\ responses # <<>>
  /\ responses' = Tail(responses)
  /\ outgoing' = outgoing \cup {Head(responses)}
  /\ ctl' = Continue(incoming, outgoing')
  /\ UNCHANGED <<kind, serveVars, pktChan, dispVars, working, rwChan, requests,
                 incoming, sent, workerVars, handleVars, alloc>>

\* One round of the loop of maybeSendPackets; an error of sendPacket is ignored.
SendHead ==
  /\ ctl = "sending"
  /\ \E i \in incoming, o \in outgoing :
       /\ IsHead(i, incoming) /\ IsHead(o, outgoing)
       /\ sent' = Append(sent, o)
       /\ alloc' = ReleasePages(alloc, orderID(i))
       /\ incoming' = incoming \ {i} /\ outgoing' = outgoing \ {o}
  /\ ctl' = Continue(incoming', outgoing')
  /\ UNCHANGED <<kind, serveVars, pktChan, dispVars, working, rwChan, requests,
                 responses, workerVars, handleVars>>

\* select may prefer fini to requests and responses that are still in their channels.
SelectFini ==
  /\ ctl = "select" /\ disp = "done"
  /\ ctl' = "returned"
  /\ UNCHANGED <<kind, serveVars, pktChan, dispVars, working, rwChan, requests,
                 responses, incoming, outgoing, sent, workerVars, handleVars, alloc>>

-----------------------------------------------------------------------------
ClientStep ==
  \/ \E op \in Ops, h \in 0..MaxPackets : RecvPacket(op, h)
  \/ \E op \in Ops : RecvUndecodable(op)
  \/ \E how \in {"eof", "closed"} : ConnEnds(how)

Serve == RecvError \/ QueuePacket \/ ServeReturns

Dispatcher ==
  TakePacket \/ WaitBeforeClose \/ RegisterPacket \/ HandToRW \/ HandToCmd
    \/ CloseChannels \/ CloseFini

Handler(w) ==
  \/ \E s \in {"ok", "failed"} : HandleOpen(w, s)
  \/ HandleReadWrite(w) \/ HandleClose(w) \/ HandleCmd(w)

Worker(w) ==
  TakeRW(w) \/ Handler(w) \/ HandleUnexpected(w) \/ ReadyPacket(w) \/ WorkingDone(w)
    \/ WorkerExits(w)

Controller == SelectRequest \/ SelectResponse \/ SendHead \/ SelectFini

ServerStep == Serve \/ Dispatcher \/ (\E w \in Workers : Worker(w)) \/ Controller

\* A panic ends the process.
Next ==
  /\ ctl # "panicked"
  /\ ClientStep \/ ServerStep

Spec == Init /\ [][Next]_vars

\* As long as a goroutine of the server can run, one does.
FairSpec == Spec /\ WF_vars(ctl # "panicked" /\ ServerStep)

-----------------------------------------------------------------------------
FlowTypeOK ==
  /\ serve \in {"recv", "queue", "wait", "done"}
  /\ received \in Seq(Ops) /\ Len(received) <= MaxPackets
  /\ pktChan \in Seq(Packets) /\ rwChan \in Seq(Packets)
  /\ requests \in Seq(Packets) /\ responses \in Seq(Packets)
  /\ disp \in {"idle", "wait", "register", "hand", "closing", "done"}
  /\ dpkt \in 0..MaxPackets
  /\ incoming \subseteq Packets /\ outgoing \subseteq Packets
  /\ ctl \in {"select", "sending", "returned", "panicked"}
  /\ sent \in Seq(Packets)
  /\ wpc \in [Workers -> {"idle", "handle", "ready", "done", "exited"}]
  /\ wpkt \in [Workers -> 0..MaxPackets]
  /\ executed \subseteq Packets

TypeOK ==
  /\ FlowTypeOK
  /\ kind \in ServerKinds /\ conn \in {"open", "eof", "closed"}
  /\ working \in Nat
  /\ target \in [Packets -> 0..MaxPackets]
  /\ entries \subseteq Handles /\ handleCount \in 0..MaxPackets
  /\ files \in [Handles -> {"none", "open", "closed"}]
  /\ opener \in [Handles -> 0..MaxPackets]
  /\ result \in [Packets -> {"none", "ok", "failed", "badhandle"}]

Abstract == INSTANCE InOrderServer

\* The session is an in-order server (packet-manager.go:9-10, :124, :137): responses
\* leave in the order of the requests, once each and after the request has been
\* executed; commands are executed one by one; a close is executed after everything
\* before it.
InOrderResponses == Abstract!InOrder

\* A request on a handle that the client had been told of, and had not closed in an
\* earlier request, finds the handle in the table (the wait at packet-manager.go:139):
\* only a request without a handle, or one sent after a close, is told EBADF.
OpenHandlesFound ==
  \A i \in Packets :
    result[i] = "badhandle" =>
      target[i] = 0 \/ \E j \in 1..(i - 1) : received[j] = "close" /\ target[j] = target[i]

\* While a session is served no page has two users (allocator.go:25-60), and the page
\* of a request belongs to it until its response has been sent.
PagesExclusive ==
  serve # "done" =>
    /\ \A x, y \in Places(alloc, {orderID(i) : i \in 1..(Len(received) + 1)}) :
         x[4] = y[4] => x = y
    /\ \A i \in 1..Len(received) :
         (\A k \in DOMAIN sent : sent[k] # i) => alloc.used[orderID(i)] # <<>>

\* When Serve has returned no file that was opened in the session is open
\* (server.go:472, request-server.go:168).
FilesClosed == serve = "done" => \A h \in Handles : files[h] # "open"

\* While the connection is up the server always catches up with its client: no order of
\* workers, dispatcher and controller makes them wait for each other.
RequestsAnswered ==
  []<>(Len(sent) = Len(received) \/ conn # "open" \/ ctl = "panicked")

\* After the end of the connection Serve returns and the controller ends.
SessionEnds ==
  conn # "open" ~> ((serve = "done" /\ ctl = "returned") \/ ctl = "panicked")
=============================================================================
