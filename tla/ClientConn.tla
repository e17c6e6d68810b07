----------------------------- MODULE ClientConn -----------------------------
(***************************************************************************)
(* The client's end of an SFTP connection (pkgsftp/conn.go): requests of   *)
(* several goroutines are sent under one id each, and one goroutine hands  *)
(* the responses to the channels of those who wait for them.  When the     *)
(* stream ends or makes no sense, everybody waiting is sent the error.     *)
(*                                                                         *)
(* A caller is a goroutine that uses the connection; it has a channel of   *)
(* capacity Capacity[c].  The server answers requests in any order.  What  *)
(* it answers is left to the module that uses this one.                    *)
(***************************************************************************)
EXTENDS Sequences, FiniteSets, Functions, Faults

CONSTANTS
  Callers,
  Capacity   \* of each caller's channel

NoRequest == [id |-> 0]

VARIABLES
  nextid,     \* Client.nextid
  inflight,   \* id |-> caller
  wire,       \* requests the server has not answered
  open,       \* the connection has not been closed on this side
  ch,         \* the channels, each a sequence of results
  sending,    \* each caller's request on its way through dispatchRequest
  recv,       \* the goroutine of loop
  ended       \* history: how the stream ended; "nil" before that

connVars == <<nextid, inflight, wire, open, ch, sending, recv, ended>>

\* to: the channels, by request, that are to be sent res.
Reading == [pc |-> "recv", to |-> <<>>, res |-> <<>>]
NoDispatch == [pc |-> "none", req |-> NoRequest]

ConnInit ==
  /\ nextid = 0
  /\ inflight = <<>>
  /\ wire = {} /\ open = TRUE
  /\ ch = [c \in Callers |-> <<>>]
  /\ sending = [c \in Callers |-> NoDispatch]
  /\ recv = Reading
  /\ ended = "nil"

Failed(err) == [typ |-> "error", id |-> 0, err |-> err]
Push(c, res) == ch' = [ch EXCEPT ![c] = Append(@, res)]
Without(id) == Restrict(inflight, DOMAIN inflight \ {id})
Put(f, x, y) == [z \in DOMAIN f \cup {x} |-> IF z = x THEN y ELSE f[z]]

-----------------------------------------------------------------------------
(* dispatchRequest, on the caller's goroutine.                             *)

nextID == nextid + 1

\* The channel is registered before the packet is sent.
Dispatch(c, req) ==
  /\ nextid' = nextID
  /\ inflight' = Put(inflight, nextID, c)
  /\ sending' = [sending EXCEPT ![c] = [pc |-> "send", req |-> [req EXCEPT !.id = nextID]]]

Send(c) ==
  /\ sending[c].pc = "send"
  /\ \/ /\ open
        /\ wire' = wire \cup {sending[c].req}
        /\ sending' = [sending EXCEPT ![c] = NoDispatch]
        /\ UNCHANGED <<inflight, faults>>
     \/ /\ Fault \/ (~open /\ UNCHANGED faults)
        /\ inflight' = Without(sending[c].req.id)
        /\ sending' = [sending EXCEPT ![c].pc = "fail"]
        /\ UNCHANGED wire
  /\ UNCHANGED <<nextid, open, ch, recv, ended>>

SendFailed(c) ==
  /\ sending[c].pc = "fail"
  /\ Len(ch[c]) < Capacity[c]
  /\ Push(c, Failed("send"))
  /\ sending' = [sending EXCEPT ![c] = NoDispatch]
  /\ UNCHANGED <<nextid, inflight, wire, open, recv, ended, faults>>

-----------------------------------------------------------------------------
(* loop, recv and broadcastErr.                                            *)

\* Mutant: the id is looked up and not forgotten.
RecvRemembers(req, res) ==
  /\ recv.pc = "recv" /\ req \in wire /\ req.id \in DOMAIN inflight
  /\ wire' = wire \ {req}
  /\ recv' = [pc |-> "deliver", to |-> Restrict(inflight, {req.id}), res |-> res]
  /\ UNCHANGED <<nextid, inflight, open, ch, sending, ended>>

\* A response, whose id is looked up and forgotten.
RecvPacket(req, res) ==
  /\ recv.pc = "recv" /\ req \in wire /\ req.id \in DOMAIN inflight
  /\ wire' = wire \ {req}
  /\ inflight' = Without(req.id)
  /\ recv' = [pc |-> "deliver", to |-> Restrict(inflight, {req.id}), res |-> res]
  /\ UNCHANGED <<nextid, open, ch, sending, ended>>

\* The stream ends, in order or not, or a packet comes with an id that is not in use.
RecvError(err) ==
  /\ recv.pc = "recv" /\ Fault
  /\ recv' = [recv EXCEPT !.pc = "close"] /\ ended' = err
  /\ UNCHANGED <<nextid, inflight, wire, open, ch, sending>>

\* ch <- res, for one of the channels.
Hand(id) ==
  LET c == recv.to[id] IN Len(ch[c]) < Capacity[c] /\ Push(c, recv.res)

Deliver ==
  /\ recv.pc = "deliver"
  /\ \E id \in DOMAIN recv.to : Hand(id)
  /\ recv' = Reading
  /\ UNCHANGED <<nextid, inflight, wire, open, sending, ended, faults>>

\* Mutant: the connection stays open for sending when recv returns.
CloseNot ==
  /\ recv.pc = "close"
  /\ recv' = [recv EXCEPT !.pc = "listeners"]
  /\ UNCHANGED <<nextid, inflight, wire, open, ch, sending, ended, faults>>

\* The deferred Close of recv.
CloseConn ==
  /\ recv.pc = "close"
  /\ open' = FALSE
  /\ recv' = [recv EXCEPT !.pc = "listeners"]
  /\ UNCHANGED <<nextid, inflight, wire, ch, sending, ended, faults>>

\* broadcastErr: the listeners are collected under the lock, one for each request ...
Listeners ==
  /\ recv.pc = "listeners"
  /\ recv' = [pc |-> "broadcast", to |-> inflight, res |-> Failed(ended)]
  /\ UNCHANGED <<nextid, inflight, wire, open, ch, sending, ended, faults>>

\* ... and sent the error without it.
Broadcast ==
  /\ recv.pc = "broadcast"
  /\ \E id \in DOMAIN recv.to :
       Hand(id) /\ recv' = [recv EXCEPT !.to = Restrict(@, DOMAIN @ \ {id})]
  /\ UNCHANGED <<nextid, inflight, wire, open, sending, ended, faults>>

Closed ==
  /\ recv.pc = "broadcast" /\ recv.to = <<>>
  /\ recv' = [recv EXCEPT !.pc = "closed"]
  /\ UNCHANGED <<nextid, inflight, wire, open, ch, sending, ended, faults>>

Loop == Deliver \/ CloseConn \/ Listeners \/ Broadcast \/ Closed

\* Whoever is about to send a result finds room in the channel: recv never waits for a caller,
\* and a caller's own failed dispatch does not block it, although a request may be given both
\* the error of broadcastErr and that of its dispatch (conn.go:97, :129, :142).
RoomToSend ==
  /\ \A c \in Callers : sending[c].pc = "fail" => Len(ch[c]) < Capacity[c]
  /\ recv.pc \in {"deliver", "broadcast"} =>
       \A id \in DOMAIN recv.to : Len(ch[recv.to[id]]) < Capacity[recv.to[id]]
=============================================================================
