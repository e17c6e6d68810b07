---------------------------- MODULE ClientProofs ----------------------------
(***************************************************************************)
(* The results that are sent to the channels of the SFTP client, and the   *)
(* theorems about its connection and transfers: for any size of the file,  *)
(* of packets and of the window, any transfer and any number of faults.    *)
(***************************************************************************)
EXTENDS ClientResultProofs, ClientDataProofs

LEMMA OwedCount ==
  ASSUME Counting, ConnTypes, NEW c
  PROVE  /\ IsFiniteSet(Owed(c)) /\ Cardinality(Owed(c)) \in Nat
         /\ IsFiniteSet(Told(c)) /\ Cardinality(Told(c)) \in Nat
<1>1. nextid \in Nat /\ Owed(c) \in SUBSET (1..nextid) /\ Told(c) \in SUBSET (1..nextid)
  BY Zenon DEF ConnTypes, Owed, Told
<1> QED BY Zenon, <1>1, CountUpTo

LEMMA ComingTypes ==
  ASSUME Counting, ConnTypes, NEW c \in Callers
  PROVE  Coming(c) \in Nat /\ Len(ch[c]) \in Nat
<1>1. Len(ch[c]) \in Nat
  BY DEF ConnTypes
<1>2. Coming(c) \in Nat
  BY OwedCount DEF Coming
<1> QED BY Zenon, <1>1, <1>2

LEMMA AwaitedTypes ==
  ASSUME OpTypes, NEW c \in Callers
  PROVE  Awaited(c) \in Nat /\ (Awaited(c) + 1) <= Capacity[c]
BY FileAssumptions DEF OpTypes, Shape, Awaited, F, C

\* A step after which c waits for k results more, and k more are there or may come.
LEMMA DueStep ==
  ASSUME Counting, DueOK, ConnTypes, OpTypes, NEW c \in Callers, NEW k \in Int,
         Broadcasting' <=> Broadcasting, Awaited(c)' = Awaited(c) + k,
         Len(ch'[c]) + Coming(c)' <= Len(ch[c]) + Coming(c) + k,
         Len(ch'[c]) \in Nat, Coming(c)' \in Int
  PROVE  NotTooMany(c)'
<1>1. Coming(c) \in Nat /\ Len(ch[c]) \in Nat /\ Awaited(c) \in Nat
  BY Zenon, ComingTypes, AwaitedTypes
<1>2. Len(ch[c]) + Coming(c) <= Awaited(c) + (IF Broadcasting THEN 1 ELSE 0)
  BY Zenon DEF DueOK, NotTooMany
<1>3. PICK e \in {0, 1} : /\ e = (IF Broadcasting THEN 1 ELSE 0)
                         /\ e = (IF Broadcasting' THEN 1 ELSE 0)
  BY Zenon
<1>4. PICK l, m, w : l = Len(ch[c]) /\ m = Coming(c) /\ w = Awaited(c)
  BY Zenon
<1>5. PICK l1, m1 : l1 = Len(ch'[c]) /\ m1 = Coming(c)'
  BY Zenon
<1>6. l \in Nat /\ m \in Nat /\ w \in Nat /\ k \in Int /\ l1 \in Nat /\ m1 \in Int /\ e \in {0, 1}
  BY Zenon, <1>1, <1>4, <1>5
<1>7. l + m <= w + e /\ l1 + m1 <= l + m + k
  BY Zenon, <1>2, <1>3, <1>4, <1>5
<1>8. l1 + m1 <= (w + k) + e
  BY ONLY <1>6, <1>7
<1> QED BY Zenon, <1>3, <1>4, <1>5, <1>8 DEF NotTooMany

\* A step that does not concern c.
LEMMA DueSame ==
  ASSUME DueOK, NEW c \in Callers,
         ch'[c] = ch[c], sending'[c] = sending[c], recv'.pc = recv.pc,
         Owed(c)' = Owed(c), Told(c)' = Told(c), Awaited(c)' = Awaited(c)
  PROVE  NotTooMany(c)'
BY Zenon DEF DueOK, NotTooMany, Coming, Broadcasting

LEMMA SendKeeps ==
  ASSUME Counting, ConnInv, OpTypes, NEW c \in Callers, Send(c), UNCHANGED <<xfer, call>>
  PROVE  ConnInv'
<1> USE DEF ConnInv
<1>a. UNCHANGED <<nextid, open, ch, recv, ended>> /\ sending[c].pc = "send" /\ Sent(c) \in ReqSet
  BY Zenon DEF Send, Sent, ConnTypes
<1>b. \A d : Awaited(d)' = Awaited(d)
  BY Zenon DEF Awaited
<1>c. \A d : Told(d)' = Told(d)
  BY Zenon, <1>a DEF Told
<1>d. Broadcasting' <=> Broadcasting
  BY Zenon, <1>a DEF Broadcasting
<1>e. Awaited(c) \in Nat /\ Coming(c) \in Nat /\ Len(ch[c]) \in Nat
  BY Zenon, ComingTypes, AwaitedTypes
<1>1. CASE open /\ wire' = wire \cup {Sent(c)} /\ sending' = [sending EXCEPT ![c] = NoDispatch] /\ UNCHANGED inflight
  <2>1. ~Broadcasting
    BY Zenon, <1>1 DEF ConnTypes, Broadcasting
  <2>2. ConnTypes'
    BY Zenon, <1>a, <1>1 DEF ConnTypes, NoDispatch
  <2>3. OneId'
    BY <1>a, <1>1 DEF OneId, ConnTypes, NoDispatch, Sent
  <2>4. ASSUME NEW d \in Callers
        PROVE  NotTooMany(d)'
    <3>1. Owed(d)' = Owed(d)
      BY Zenon, <1>1 DEF Owed
    <3>2. sending'[d].pc = "fail" <=> sending[d].pc = "fail"
      BY Zenon, <1>a, <1>1 DEF ConnTypes, NoDispatch
    <3> QED BY <1>a, <1>b, <1>c, <2>1, <3>1, <3>2, Zenon DEF DueOK, NotTooMany, Coming, Broadcasting
  <2> QED BY Zenon, <2>2, <2>3, <2>4 DEF DueOK
<1>2. CASE inflight' = Without(Sent(c).id) /\ sending' = [sending EXCEPT ![c].pc = "fail"] /\ UNCHANGED wire
  <2>1. /\ DOMAIN inflight' = DOMAIN inflight \ {Sent(c).id}
        /\ \A id \in DOMAIN inflight' : inflight'[id] = inflight[id]
    BY <1>2, RestrictFacts DEF Without
  <2>2. /\ Sent(c).id \in DOMAIN inflight /\ inflight[Sent(c).id] = c
        /\ \A q \in wire : q.id # Sent(c).id
    BY Zenon, <1>a DEF OneId, Sent
  <2>3. PICK row : row = [sending[c] EXCEPT !.pc = "fail"]
    BY Zenon
  <2>4. row.pc = "fail" /\ row.req = Sent(c) /\ row \in [pc : {"none", "send", "fail"}, req : ReqSet \cup {NoRequest}]
    BY <1>a, <2>3 DEF ConnTypes, Sent
  <2>5. sending' = [sending EXCEPT ![c] = row]
    BY Zenon, <1>2, <2>3
  <2>6. ConnTypes'
    BY <1>a, <1>2, <2>1, <2>4, <2>5 DEF ConnTypes
  <2>7. OneId'
    <3>1. \A d \in Callers : sending'[d].pc = "send" => d # c /\ sending'[d] = sending[d]
      BY Zenon, <2>4, <2>5 DEF ConnTypes
    <3>2. \A d \in Callers : sending'[d].pc = "send" => sending[d].req.id # Sent(c).id
      BY <2>2, <3>1 DEF OneId
    <3> QED BY <1>2, <2>1, <2>2, <3>1, <3>2 DEF OneId
  <2>8. ASSUME NEW d \in Callers, d # c
        PROVE  NotTooMany(d)'
    <3>1. Owed(d)' = Owed(d)
      BY Zenon, <2>1, <2>2, <2>8 DEF Owed
    <3>2. sending'[d] = sending[d]
      BY Zenon, <2>5, <2>8 DEF ConnTypes
    <3> QED BY Zenon, <1>a, <1>b, <1>c, <3>1, <3>2, DueSame
  <2>9. NotTooMany(c)'
    <3>1. Owed(c)' = Owed(c) \ {Sent(c).id} /\ Sent(c).id \in Owed(c)
      BY Zenon, <2>1, <2>2 DEF Owed
    <3>2. Cardinality(Owed(c)') = Cardinality(Owed(c)) - 1 /\ Cardinality(Owed(c)) \in Nat /\ Cardinality(Told(c)) \in Nat
      BY Zenon, <3>1, OwedCount, CountRemove
    <3>3. sending'[c].pc = "fail"
      BY Zenon, <2>4, <2>5 DEF ConnTypes
    <3>4. Coming(c)' = Coming(c)
      BY <1>a, <1>c, <3>2, <3>3 DEF Coming, Broadcasting
    <3>5. /\ Awaited(c)' = Awaited(c) + 0 /\ Len(ch'[c]) \in Nat /\ Coming(c)' \in Int
          /\ Len(ch'[c]) + Coming(c)' <= Len(ch[c]) + Coming(c) + 0
      BY <1>a, <1>b, <1>e, <3>4
    <3> QED BY <1>d, <3>5, DueStep
  <2> QED BY Zenon, <2>6, <2>7, <2>8, <2>9 DEF DueOK
<1> QED BY <1>1, <1>2, Zenon DEF Send, Sent

LEMMA SendFailedKeeps ==
  ASSUME Counting, ConnInv, OpTypes, NEW c \in Callers, SendFailed(c), UNCHANGED <<xfer, call>>
  PROVE  ConnInv'
<1> USE DEF ConnInv
<1>a. /\ UNCHANGED <<nextid, inflight, wire, open, recv, ended>> /\ sending[c].pc = "fail"
      /\ Push(c, Failed("send")) /\ sending' = [sending EXCEPT ![c] = NoDispatch]
  BY Zenon DEF SendFailed
<1>b. \A d : Awaited(d)' = Awaited(d)
  BY Zenon DEF Awaited
<1>c. \A d : Told(d)' = Told(d) /\ Owed(d)' = Owed(d)
  BY Zenon, <1>a DEF Told, Owed
<1>d. Failed("send") \in ResultSet
  BY Zenon DEF Failed, ResultSet, Errs
<1>e. /\ ch' \in [Callers -> Seq(ResultSet)]
      /\ Len(ch'[c]) = Len(ch[c]) + 1 /\ \A d \in Callers \ {c} : ch'[d] = ch[d]
  BY Zenon, <1>a, <1>d, PushFacts
<1>1. ConnTypes'
  BY Zenon, <1>a, <1>e DEF ConnTypes, NoDispatch
<1>2. OneId'
  BY <1>a DEF OneId, ConnTypes, NoDispatch
<1>3. ASSUME NEW d \in Callers, d # c
      PROVE  NotTooMany(d)'
  <2>1. sending'[d] = sending[d]
    BY Zenon, <1>a, <1>3 DEF ConnTypes
  <2> QED BY Zenon, <1>a, <1>b, <1>c, <1>e, <1>3, <2>1, DueSame
<1>4. NotTooMany(c)'
  <2>1. sending'[c].pc = "none"
    BY Zenon, <1>a DEF ConnTypes, NoDispatch
  <2>2. Awaited(c) \in Nat /\ Coming(c) \in Nat /\ Len(ch[c]) \in Nat
    BY Zenon, ComingTypes, AwaitedTypes
  <2>3. Cardinality(Told(c)) \in Nat /\ Cardinality(Owed(c)) \in Nat
    BY Zenon, OwedCount
  <2>4. Coming(c)' = Coming(c) - 1
    BY <1>a, <1>c, <2>1, <2>3 DEF Coming, Broadcasting
  <2>5. Broadcasting' <=> Broadcasting
    BY Zenon, <1>a DEF Broadcasting
  <2> QED BY SMTT(60), <1>b, <1>e, <2>2, <2>4, <2>5, DueStep
<1> QED BY Zenon, <1>1, <1>2, <1>3, <1>4 DEF DueOK

LEMMA RecvPacketKeeps ==
  ASSUME Counting, ConnInv, OpTypes, NEW q \in wire, NEW r \in ResultSet, RecvPacket(q, r), UNCHANGED <<xfer, call>>
  PROVE  ConnInv'
<1> USE DEF ConnInv
<1>a. /\ UNCHANGED <<nextid, open, ch, sending, ended>> /\ recv.pc = "recv" /\ q.id \in DOMAIN inflight
      /\ wire' = wire \ {q} /\ inflight' = Without(q.id)
      /\ recv' = [pc |-> "deliver", to |-> Restrict(inflight, {q.id}), res |-> r]
  BY Zenon DEF RecvPacket
<1>b. PICK c \in Callers : inflight[q.id] = c
  BY Zenon, <1>a DEF ConnTypes
<1>c. /\ DOMAIN inflight' = DOMAIN inflight \ {q.id}
      /\ \A id \in DOMAIN inflight' : inflight'[id] = inflight[id]
  BY <1>a, RestrictFacts DEF Without
<1>d. DOMAIN recv'.to = {q.id} /\ recv'.to[q.id] = c /\ recv'.pc = "deliver" /\ recv'.res = r
  BY <1>a, <1>b, RestrictFacts
<1>1. ConnTypes'
  BY ZenonT(60), <1>a, <1>b, <1>c, <1>d DEF ConnTypes, RecvStates
<1>2. OneId'
  BY <1>a, <1>c DEF OneId
<1>3. \A d : Awaited(d)' = Awaited(d)
  BY Zenon DEF Awaited
<1>4. ~Broadcasting /\ ~Broadcasting'
  BY Zenon, <1>a, <1>d DEF Broadcasting
<1>5. ASSUME NEW d \in Callers, d # c
      PROVE  NotTooMany(d)'
  <2>1. Owed(d)' = Owed(d)
    BY Zenon, <1>b, <1>c, <1>5 DEF Owed
  <2>2. Told(d)' = {}
    BY Zenon, <1>d, <1>5 DEF Told
  <2>3. Cardinality(Told(d)') = 0
    BY Zenon, <2>2 DEF Counting
  <2>4. Coming(d)' = Coming(d)
    BY Zenon, <1>a, <1>d, <1>4, <2>1, <2>3, OwedCount DEF Coming
  <2> QED BY <1>a, <1>3, <1>4, <2>4, Zenon DEF DueOK, NotTooMany
<1>6. NotTooMany(c)'
  <2>1. Owed(c)' = Owed(c) \ {q.id} /\ q.id \in Owed(c)
    BY Zenon, <1>a, <1>b, <1>c DEF Owed
  <2>2. Cardinality(Owed(c)') = Cardinality(Owed(c)) - 1 /\ Cardinality(Owed(c)) \in Nat
    BY Zenon, <2>1, OwedCount, CountRemove
  <2>3. Told(c)' = {q.id}
    BY Zenon, <1>d DEF Told
  <2>4. Cardinality(Told(c)') = 1
    BY Zenon, <2>3 DEF Counting
  <2>5. Coming(c)' = Coming(c)
    BY <1>a, <1>d, <1>4, <2>2, <2>4 DEF Coming
  <2> QED BY <1>a, <1>3, <1>4, <2>5, Zenon DEF DueOK, NotTooMany
<1> QED BY Zenon, <1>1, <1>2, <1>5, <1>6 DEF DueOK

LEMMA RecvErrorKeeps ==
  ASSUME ConnInv, NEW err \in {"EOF", "reset"}, RecvError(err), UNCHANGED <<xfer, call>>
  PROVE  ConnInv'
<1> USE DEF ConnInv
<1>a. /\ UNCHANGED <<nextid, inflight, wire, open, ch, sending>> /\ recv.pc = "recv"
      /\ recv' = [recv EXCEPT !.pc = "close"] /\ ended' = err
  BY Zenon DEF RecvError
<1>b. recv'.pc = "close" /\ recv'.to = recv.to /\ DOMAIN recv' = {"pc", "to", "res"}
  BY Zenon, <1>a DEF ConnTypes
<1>1. ConnTypes'
  BY Zenon, <1>a, <1>b DEF ConnTypes, RecvStates
<1>2. OneId'
  BY Zenon, <1>a DEF OneId
<1>3. ASSUME NEW d \in Callers
      PROVE  NotTooMany(d)'
  <2>1. Owed(d)' = Owed(d) /\ Awaited(d)' = Awaited(d)
    BY Zenon, <1>a DEF Owed, Awaited
  <2>2. ~Broadcasting /\ ~Broadcasting'
    BY Zenon, <1>a, <1>b DEF Broadcasting
  <2>3. Coming(d)' = Coming(d)
    BY Zenon, <1>a, <1>b, <2>1, <2>2 DEF Coming
  <2> QED BY <1>a, <2>1, <2>2, <2>3, Zenon DEF DueOK, NotTooMany
<1> QED BY Zenon, <1>1, <1>2, <1>3 DEF DueOK

LEMMA CloseKeeps ==
  ASSUME ConnInv, CloseConn, UNCHANGED <<xfer, call>>
  PROVE  ConnInv'
<1> USE DEF ConnInv
<1>a. /\ UNCHANGED <<nextid, inflight, wire, ch, sending, ended>> /\ recv.pc = "close"
      /\ recv' = [recv EXCEPT !.pc = "listeners"] /\ open' = FALSE
  BY Zenon DEF CloseConn
<1>b. recv'.pc = "listeners" /\ recv'.to = recv.to /\ DOMAIN recv' = {"pc", "to", "res"}
  BY Zenon, <1>a DEF ConnTypes
<1>c. open' \in BOOLEAN
  BY <1>a, Zenon
<1>1. ConnTypes'
  BY Zenon, <1>a, <1>b, <1>c DEF ConnTypes, RecvStates
<1>2. OneId'
  BY Zenon, <1>a DEF OneId
<1>3. ASSUME NEW d \in Callers
      PROVE  NotTooMany(d)'
  <2>1. Owed(d)' = Owed(d) /\ Awaited(d)' = Awaited(d)
    BY Zenon, <1>a DEF Owed, Awaited
  <2>2. ~Broadcasting /\ ~Broadcasting'
    BY Zenon, <1>a, <1>b DEF Broadcasting
  <2>3. Coming(d)' = Coming(d)
    BY Zenon, <1>a, <1>b, <2>1, <2>2 DEF Coming
  <2> QED BY <1>a, <2>1, <2>2, <2>3, Zenon DEF DueOK, NotTooMany
<1> QED BY Zenon, <1>1, <1>2, <1>3 DEF DueOK

LEMMA ListenersKeeps ==
  ASSUME Counting, ConnInv, OpTypes, Listeners, UNCHANGED <<xfer, call>>
  PROVE  ConnInv'
<1> USE DEF ConnInv
<1>a. /\ UNCHANGED <<nextid, inflight, wire, open, ch, sending, ended>> /\ recv.pc = "listeners"
      /\ recv' = [pc |-> "broadcast", to |-> inflight, res |-> Failed(ended)]
  BY Zenon DEF Listeners
<1>b. Failed(ended) \in ResultSet
  BY Zenon DEF ConnTypes, Failed, ResultSet, Errs
<1>1. ConnTypes'
  BY Zenon, <1>a, <1>b DEF ConnTypes, RecvStates
<1>2. OneId'
  BY Zenon, <1>a DEF OneId
<1>3. ASSUME NEW d \in Callers
      PROVE  NotTooMany(d)'
  <2>1. Told(d)' = Owed(d) /\ Awaited(d)' = Awaited(d)
    BY Zenon, <1>a DEF Told, Owed, Awaited
  <2>2. ~Broadcasting /\ Broadcasting'
    BY Zenon, <1>a DEF Broadcasting
  <2>3. Coming(d)' <= Coming(d) + 1 /\ Coming(d)' \in Nat
    BY <1>a, <2>1, <2>2, OwedCount DEF Coming
  <2>4. Coming(d) \in Nat /\ Len(ch[d]) \in Nat /\ Awaited(d) \in Nat
    BY Zenon, ComingTypes, AwaitedTypes
  <2>5. Len(ch[d]) + Coming(d) <= Awaited(d)
    BY <2>2, <2>4 DEF DueOK, NotTooMany
  <2>6. Len(ch'[d]) + Coming(d)' <= Awaited(d)' + 1
    BY SMTT(60), <1>a, <2>1, <2>3, <2>4, <2>5
  <2> QED BY <2>2, <2>6, Zenon DEF NotTooMany
<1> QED BY Zenon, <1>1, <1>2, <1>3 DEF DueOK

LEMMA DeliverKeeps ==
  ASSUME Counting, ConnInv, OpTypes, Deliver, UNCHANGED <<xfer, call>>
  PROVE  ConnInv'
<1> USE DEF ConnInv
<1>a. UNCHANGED <<nextid, inflight, wire, open, sending, ended>> /\ recv.pc = "deliver" /\ recv' = Reading
  BY Zenon DEF Deliver
<1>b. PICK id \in DOMAIN recv.to : Push(recv.to[id], recv.res)
  BY Zenon DEF Deliver, Hand
<1>c. PICK c \in Callers : recv.to[id] = c
  BY Zenon, <1>b DEF ConnTypes
<1>d. /\ ch' \in [Callers -> Seq(ResultSet)]
      /\ Len(ch'[c]) = Len(ch[c]) + 1 /\ \A d \in Callers \ {c} : ch'[d] = ch[d]
  BY Zenon, <1>a, <1>b, <1>c, PushFacts DEF ConnTypes
<1>e. recv'.pc = "recv" /\ DOMAIN recv' = {"pc", "to", "res"} /\ DOMAIN recv'.to = {}
  BY <1>a DEF Reading
<1>1. ConnTypes'
  BY Zenon, <1>a, <1>d, <1>e DEF ConnTypes, RecvStates
<1>2. OneId'
  BY Zenon, <1>a DEF OneId
<1>3. ASSUME NEW d \in Callers
      PROVE  NotTooMany(d)'
  <2>1. Owed(d)' = Owed(d) /\ Awaited(d)' = Awaited(d) + 0
    BY <1>a, AwaitedTypes DEF Owed, Awaited
  <2>2. ~Broadcasting /\ ~Broadcasting'
    BY Zenon, <1>a, <1>e DEF Broadcasting
  <2>3. Coming(d)' = Coming(d) - Cardinality(Told(d))
    BY <1>a, <1>e, <2>1, <2>2, OwedCount DEF Coming
  <2>4. d = c => Cardinality(Told(d)) >= 1
    <3>1. d = c => Told(d) # {}
      BY Zenon, <1>b, <1>c DEF Told
    <3>2. Cardinality(Told(d)) \in Nat /\ (Cardinality(Told(d)) = 0 <=> Told(d) = {})
      BY Zenon, OwedCount DEF Counting
    <3> QED BY <3>1, <3>2
  <2>5. Coming(d) \in Nat /\ Len(ch[d]) \in Nat /\ Cardinality(Told(d)) \in Nat
    BY Zenon, ComingTypes, OwedCount
  <2>6. Len(ch'[d]) + Coming(d)' <= Len(ch[d]) + Coming(d) + 0 /\ Len(ch'[d]) \in Nat /\ Coming(d)' \in Int
    <3>1. CASE d = c
      BY SMTT(60), <1>d, <2>3, <2>4, <2>5, <3>1
    <3>2. CASE d # c
      <4>1. ch'[d] = ch[d]
        BY Zenon, <1>d, <3>2
      <4> QED BY <2>3, <2>5, <4>1
    <3> QED BY Zenon, <3>1, <3>2
  <2> QED BY <2>1, <2>2, <2>6, DueStep
<1> QED BY Zenon, <1>1, <1>2, <1>3 DEF DueOK

LEMMA BroadcastKeeps ==
  ASSUME Counting, ConnInv, OpTypes, Broadcast, UNCHANGED <<xfer, call>>
  PROVE  ConnInv'
<1> USE DEF ConnInv
<1>a. UNCHANGED <<nextid, inflight, wire, open, sending, ended>> /\ recv.pc = "broadcast"
  BY Zenon DEF Broadcast
<1>b. PICK id \in DOMAIN recv.to :
        /\ Push(recv.to[id], recv.res)
        /\ recv' = [recv EXCEPT !.to = Restrict(@, DOMAIN @ \ {id})]
  BY Zenon DEF Broadcast, Hand
<1>c. PICK c \in Callers : recv.to[id] = c
  BY Zenon, <1>b DEF ConnTypes
<1>d. /\ ch' \in [Callers -> Seq(ResultSet)]
      /\ Len(ch'[c]) = Len(ch[c]) + 1 /\ \A d \in Callers \ {c} : ch'[d] = ch[d]
  BY Zenon, <1>a, <1>b, <1>c, PushFacts DEF ConnTypes
<1>e. recv'.pc = "broadcast" /\ DOMAIN recv' = {"pc", "to", "res"} /\ recv'.res = recv.res
      /\ recv'.to = Restrict(recv.to, DOMAIN recv.to \ {id})
  BY Zenon, <1>a, <1>b DEF ConnTypes
<1>f. /\ DOMAIN recv'.to = DOMAIN recv.to \ {id}
      /\ \A k \in DOMAIN recv'.to : recv'.to[k] = recv.to[k]
  BY <1>e, RestrictFacts
<1>1. ConnTypes'
  BY Zenon, <1>a, <1>d, <1>e, <1>f DEF ConnTypes, RecvStates
<1>2. OneId'
  BY Zenon, <1>a DEF OneId
<1>3. Broadcasting /\ Broadcasting' /\ \A d : Awaited(d)' = Awaited(d)
  BY Zenon, <1>a, <1>e DEF Broadcasting, Awaited
<1>4. ASSUME NEW d \in Callers, d # c
      PROVE  NotTooMany(d)'
  <2>1. Told(d)' = Told(d)
    BY Zenon, <1>b, <1>c, <1>f, <1>4 DEF Told
  <2>2. Owed(d)' = Owed(d)
    BY Zenon, <1>a DEF Owed
  <2> QED BY Zenon, <1>a, <1>d, <1>e, <1>3, <1>4, <2>1, <2>2, DueSame
<1>5. NotTooMany(c)'
  <2>1. Told(c)' = Told(c) \ {id} /\ id \in Told(c)
    BY Zenon, <1>b, <1>c, <1>f DEF Told
  <2>2. Cardinality(Told(c)') = Cardinality(Told(c)) - 1 /\ Cardinality(Told(c)) \in Nat
    BY Zenon, <2>1, OwedCount, CountRemove
  <2>3. Coming(c)' = Coming(c) - 1
    BY <1>a, <1>3, <2>2 DEF Coming
  <2>4. /\ Awaited(c)' = Awaited(c) + 0 /\ Len(ch'[c]) \in Nat /\ Coming(c)' \in Int
        /\ Len(ch'[c]) + Coming(c)' <= Len(ch[c]) + Coming(c) + 0
    BY SMTT(60), <1>d, <1>3, <2>3, ComingTypes, AwaitedTypes
  <2> QED BY <1>3, <2>4, DueStep
<1> QED BY Zenon, <1>1, <1>2, <1>4, <1>5 DEF DueOK

LEMMA ClosedKeeps ==
  ASSUME ConnInv, Closed, UNCHANGED <<xfer, call>>
  PROVE  ConnInv'
<1> USE DEF ConnInv
<1>a. /\ UNCHANGED <<nextid, inflight, wire, open, ch, sending, ended>> /\ recv.pc = "broadcast"
      /\ recv' = [recv EXCEPT !.pc = "closed"]
  BY Zenon DEF Closed
<1>b. recv'.pc = "closed" /\ recv'.to = recv.to /\ DOMAIN recv' = {"pc", "to", "res"}
  BY Zenon, <1>a DEF ConnTypes
<1>1. ConnTypes'
  BY Zenon, <1>a, <1>b DEF ConnTypes, RecvStates
<1>2. OneId'
  BY Zenon, <1>a DEF OneId
<1>3. ASSUME NEW d \in Callers
      PROVE  NotTooMany(d)'
  <2>1. Told(d)' = Told(d) /\ Awaited(d)' = Awaited(d)
    BY Zenon, <1>b DEF Told, Awaited
  <2>2. Broadcasting /\ Broadcasting'
    BY Zenon, <1>a, <1>b DEF Broadcasting
  <2>3. Coming(d)' = Coming(d)
    BY Zenon, <1>a, <2>1, <2>2 DEF Coming
  <2> QED BY <1>a, <2>1, <2>2, <2>3, Zenon DEF DueOK, NotTooMany
<1> QED BY Zenon, <1>1, <1>2, <1>3 DEF DueOK

\* A caller that begins to send a request waits for one result more.
LEMMA DispatchKeeps ==
  ASSUME Counting, ConnInv, OpTypes, NEW c \in Callers, NEW q \in ReqSet, Dispatch(c, q),
         sending[c].pc = "none", UNCHANGED <<wire, open, recv, ended>>,
         ch' \in [Callers -> Seq(ResultSet)], NEW k \in Int,
         Awaited(c)' = Awaited(c) + k, Len(ch'[c]) + 1 <= Len(ch[c]) + k,
         \A d \in Callers \ {c} : Awaited(d)' = Awaited(d) /\ ch'[d] = ch[d]
  PROVE  ConnInv'
<1> USE DEF ConnInv
<1>a. nextid \in Nat /\ nextid' = nextid + 1 /\ nextid + 1 \notin DOMAIN inflight
  BY DEF Dispatch, ConnTypes, nextID
<1>b. PICK row : row = [q EXCEPT !.id = nextid + 1]
  BY Zenon
<1>c. row \in ReqSet /\ row.id = nextid + 1
  <2>1. nextid + 1 \in Nat
    BY <1>a
  <2> QED BY <1>b, <2>1, WithId, ZenonT(60)
<1>d. sending' = [sending EXCEPT ![c] = [pc |-> "send", req |-> row]]
  BY Zenon, <1>b DEF Dispatch, nextID
<1>e. /\ DOMAIN inflight' = DOMAIN inflight \cup {nextid + 1} /\ inflight'[nextid + 1] = c
      /\ \A id \in DOMAIN inflight : inflight'[id] = inflight[id]
  <2>1. inflight' = Put(inflight, nextid + 1, c)
    BY Zenon DEF Dispatch, nextID
  <2>2. PICK m : m = nextid + 1
    BY Zenon
  <2>3. inflight' = Put(inflight, m, c)
    BY Zenon, <2>1, <2>2
  <2>4. /\ DOMAIN inflight' = DOMAIN inflight \cup {m} /\ inflight'[m] = c
        /\ \A id \in DOMAIN inflight : id # m => inflight'[id] = inflight[id]
    BY Zenon, <2>3 DEF Put
  <2> QED BY Zenon, <1>a, <2>2, <2>4
<1>1. ConnTypes'
  BY SMTT(60), <1>a, <1>c, <1>d, <1>e DEF ConnTypes
<1>2. OneId'
  BY SMTT(60), <1>a, <1>c, <1>d, <1>e DEF OneId, ConnTypes
<1>3. \A d : Told(d)' = Told(d)
  BY Zenon DEF Told
<1>4. ASSUME NEW d \in Callers, d # c
      PROVE  NotTooMany(d)'
  <2>1. Owed(d)' = Owed(d)
    BY Zenon, <1>a, <1>e, <1>4 DEF Owed
  <2>2. sending'[d] = sending[d]
    BY Zenon, <1>d, <1>4 DEF ConnTypes
  <2> QED BY Zenon, <1>3, <1>4, <2>1, <2>2, DueSame
<1>5. NotTooMany(c)'
  <2>1. Owed(c)' = Owed(c) \cup {nextid + 1} /\ nextid + 1 \notin Owed(c)
    BY Zenon, <1>a, <1>e DEF Owed
  <2>2. Cardinality(Owed(c)') = Cardinality(Owed(c)) + 1 /\ Cardinality(Owed(c)) \in Nat /\ Cardinality(Told(c)) \in Nat
    BY Zenon, <2>1, OwedCount, CountAdd
  <2>3. sending'[c].pc = "send"
    BY Zenon, <1>d DEF ConnTypes
  <2>4. Coming(c)' = Coming(c) + 1
    <3>1. CASE Broadcasting
      BY <1>3, <2>2, <2>3, <3>1 DEF Coming, Broadcasting
    <3>2. CASE ~Broadcasting
      BY SMTT(60), <1>3, <2>2, <2>3, <3>2 DEF Coming, Broadcasting
    <3> QED BY Zenon, <3>1, <3>2
  <2>5. /\ Len(ch'[c]) \in Nat /\ Coming(c)' \in Int
        /\ Len(ch'[c]) + Coming(c)' <= Len(ch[c]) + Coming(c) + k
    BY SMTT(60), <2>4, ComingTypes
  <2>6. Broadcasting' <=> Broadcasting
    BY Zenon DEF Broadcasting
  <2> QED BY Zenon, <2>5, <2>6, DueStep
<1> QED BY Zenon, <1>1, <1>2, <1>4, <1>5 DEF DueOK

\* A caller that takes a result waits for one less.
LEMMA TakeKeeps ==
  ASSUME Counting, ConnInv, OpTypes, NEW c \in Callers, ch[c] # <<>>, ch' = [ch EXCEPT ![c] = Tail(@)],
         UNCHANGED <<nextid, inflight, wire, open, sending, recv, ended>>,
         Awaited(c)' = Awaited(c) - 1, \A d \in Callers \ {c} : Awaited(d)' = Awaited(d)
  PROVE  ConnInv'
<1> USE DEF ConnInv
<1>1. ConnTypes'
  BY Zenon, TailFacts DEF ConnTypes
<1>2. OneId'
  BY Zenon DEF OneId
<1>3. \A d : Told(d)' = Told(d) /\ Owed(d)' = Owed(d)
  BY Zenon DEF Told, Owed
<1>4. ASSUME NEW d \in Callers, d # c
      PROVE  NotTooMany(d)'
  BY Zenon, <1>3, <1>4, TailFacts, DueSame
<1>5. NotTooMany(c)'
  <2>1. Coming(c)' = Coming(c) /\ (Broadcasting' <=> Broadcasting)
    BY Zenon, <1>3 DEF Coming, Broadcasting
  <2>2. /\ Awaited(c)' = Awaited(c) + (-1) /\ Len(ch'[c]) \in Nat /\ Coming(c)' \in Int
        /\ Len(ch'[c]) + Coming(c)' <= Len(ch[c]) + Coming(c) + (-1)
    <3>1. Coming(c) \in Nat /\ Len(ch[c]) \in Nat /\ Awaited(c) \in Nat
      BY Zenon, ComingTypes, AwaitedTypes
    <3>2. Len(ch'[c]) = Len(ch[c]) - 1 /\ Len(ch[c]) > 0
      BY TailFacts, Zenon
    <3> QED BY SMTT(60), <2>1, <3>1, <3>2
  <2> QED BY <2>1, <2>2, DueStep
<1> QED BY Zenon, <1>1, <1>2, <1>4, <1>5 DEF DueOK

-----------------------------------------------------------------------------
(* The actions.                                                            *)

LEMMA ConnStepKeeps ==
  ASSUME Counting, ConnInv, OpTypes, ConnStep
  PROVE  ConnInv'
<1>1. UNCHANGED <<xfer, call>>
  BY Zenon DEF ConnStep
<1>2. CASE Loop
  BY Zenon, <1>1, <1>2, DeliverKeeps, CloseKeeps, ListenersKeeps, BroadcastKeeps, ClosedKeeps DEF Loop
<1>3. ASSUME NEW c \in Callers, Send(c) \/ SendFailed(c)
      PROVE  ConnInv'
  BY Zenon, <1>1, <1>3, SendKeeps, SendFailedKeeps
<1>4. ASSUME NEW err \in {"EOF", "reset"}, RecvError(err)
      PROVE  ConnInv'
  BY Zenon, <1>1, <1>4, RecvErrorKeeps
<1> QED BY Zenon, <1>2, <1>3, <1>4 DEF ConnStep

LEMMA ServeKeeps ==
  ASSUME Counting, Basics, DueOK, Serve
  PROVE  ConnInv'
<1>1. ConnOK /\ OpTypes /\ ReqsOK /\ ResultsOK /\ ConnInv /\ UNCHANGED <<xfer, call>>
  BY Zenon DEF Basics, ConnOK, ConnInv, Serve
<1>2. PICK q \in wire, r \in ResultSet : RecvPacket(q, r)
  BY Zenon, <1>1, ServeAnswers
<1> QED BY Zenon, <1>1, <1>2, RecvPacketKeeps

LEMMA CallKeeps ==
  ASSUME Counting, ConnInv, OpTypes, CallSend \/ CallReturns
  PROVE  ConnInv'
<1>1. CASE CallSend
  <2>1. /\ UNCHANGED <<wire, open, ch, recv, ended, xfer>>
        /\ call = "idle" /\ call' = "wait" /\ sending[C].pc = "none"
    BY Zenon, <1>1 DEF CallSend, OpTypes
  <2>2. PICK q \in ReqSet : Dispatch(C, q)
    BY Zenon, <1>1 DEF CallSend, ReqSet
  <2>3. Awaited(C)' = Awaited(C) + 1 /\ \A d \in Callers \ {C} : Awaited(d)' = Awaited(d)
    BY <2>1, FileIsCaller, FileAssumptions DEF Awaited
  <2>4. ch' \in [Callers -> Seq(ResultSet)] /\ Len(ch'[C]) + 1 <= Len(ch[C]) + 1 /\ 1 \in Int
    BY <2>1, FileIsCaller DEF ConnInv, ConnTypes
  <2>5. \A d \in Callers \ {C} : Awaited(d)' = Awaited(d) /\ ch'[d] = ch[d]
    BY Zenon, <2>1, <2>3
  <2> QED BY Zenon, <2>1, <2>2, <2>3, <2>4, <2>5, FileIsCaller, DispatchKeeps
<1>2. CASE CallReturns
  <2>1. /\ UNCHANGED <<nextid, inflight, wire, open, sending, recv, ended, xfer>>
        /\ call = "wait" /\ call' = "done" /\ ch[C] # <<>> /\ ch' = [ch EXCEPT ![C] = Tail(@)]
    BY Zenon, <1>2 DEF CallReturns
  <2>2. Awaited(C)' = Awaited(C) - 1 /\ \A d \in Callers \ {C} : Awaited(d)' = Awaited(d)
    BY <2>1, FileIsCaller, FileAssumptions DEF Awaited
  <2> QED BY Zenon, <2>1, <2>2, FileIsCaller, TakeKeeps
<1> QED BY Zenon, <1>1, <1>2

LEMMA SendsKeep ==
  ASSUME Counting, ConnInv, OpTypes, ReadAtSends \/ WriteSends \/ WriteToSends \/ ReadFromSends
  PROVE  ConnInv'
<1>a. UNCHANGED <<wire, open, recv, ended, call, ch>> /\ sending[F].pc = "none" /\ ConnTypes
  BY Zenon DEF ReadAtSends, WriteSends, WriteToSends, ReadFromSends, Running, sendRest, ConnInv
<1>b. PICK typ \in {"read", "write"}, len \in Nat :
        xfer'.n = xfer.n + 1 /\ Dispatch(F, [id |-> 0, typ |-> typ, off |-> xfer.next, len |-> len])
  <2>1. CASE ReadAtSends
    <3>1. Len1 \in Nat
      BY Zenon, <2>1, Len1Facts DEF ReadAtSends, Running
    <3> QED BY Zenon, <2>1, <3>1, ReadAtSendsFields
  <2>2. CASE WriteSends
    <3>1. Len1 \in Nat
      BY Zenon, <2>2, Len1Facts DEF WriteSends, Running
    <3> QED BY Zenon, <2>2, <3>1, WriteSendsFields
  <2>3. CASE WriteToSends
    BY Zenon, <2>3, WriteToSendsFields, FileAssumptions
  <2>4. CASE ReadFromSends
    <3>1. Len1 \in Nat
      BY Zenon, <2>4, Len1Facts DEF ReadFromSends, Running
    <3>2. PICK len :
             /\ xfer'.n = xfer.n + 1 /\ (len = Len1 \/ len = 0)
             /\ Dispatch(F, [id |-> 0, typ |-> "write", off |-> xfer.next, len |-> len])
      BY <2>4, ReadFromSendsFields, Zenon
    <3> QED BY Zenon, <3>1, <3>2
  <2> QED BY Zenon, <2>1, <2>2, <2>3, <2>4
<1>c. PICK q : q = [id |-> 0, typ |-> typ, off |-> xfer.next, len |-> len]
  BY Zenon
<1>d. q \in ReqSet /\ Dispatch(F, q)
  BY Zenon, <1>b, <1>c DEF ReqSet, OpTypes, Shape
<1>1. Awaited(F)' = Awaited(F) + 1 /\ \A d \in Callers \ {F} : Awaited(d)' = Awaited(d) /\ ch'[d] = ch[d]
  BY Zenon, <1>a, <1>b, FileIsCaller, FileAssumptions DEF Awaited
<1>2. ch' \in [Callers -> Seq(ResultSet)] /\ Len(ch'[F]) + 1 <= Len(ch[F]) + 1 /\ 1 \in Int
  BY <1>a, FileIsCaller DEF ConnTypes
<1> QED BY Zenon, <1>a, <1>d, <1>1, <1>2, FileIsCaller, DispatchKeeps

LEMMA TakesKeep ==
  ASSUME Counting, Basics, DueOK,
         TakeError \/ TakeReadStatus \/ TakeWriteStatus \/ WriteToTakes \/ ReadAtTakes
  PROVE  ConnInv'
<1>a. /\ ConnInv /\ OpTypes /\ ConnTypes /\ Receive /\ sending[F].pc = "none"
      /\ UNCHANGED <<wire, open, recv, ended, call>>
  BY Zenon DEF Basics, ConnOK, ConnInv, TakeError, TakeReadStatus, TakeWriteStatus, WriteToTakes, ReadAtTakes,
         Receive, sendRest, Running
<1>b. ch[F] # <<>> /\ ch' = [ch EXCEPT ![F] = Tail(@)]
  BY Zenon, <1>a DEF Receive
<1>c. xfer.n \in Nat
  BY Zenon, <1>a, TakenOne
<1>1. ASSUME xfer'.n = xfer.n - 1, UNCHANGED <<nextid, inflight, sending>>
      PROVE  ConnInv'
  <2>1. Awaited(F)' = Awaited(F) - 1 /\ \A d \in Callers \ {F} : Awaited(d)' = Awaited(d)
    BY Zenon, <1>a, <1>1, FileIsCaller, FileAssumptions DEF Awaited
  <2> QED BY Zenon, <1>a, <1>b, <1>1, <2>1, FileIsCaller, TakeKeeps
<1>2. CASE TakeError
  <2>1. xfer'.n = xfer.n - 1 /\ UNCHANGED <<nextid, inflight, sending>>
    BY Zenon, <1>a, <1>2, TakeErrorFields DEF TakeError
  <2> QED BY Zenon, <1>1, <2>1
<1>3. CASE TakeReadStatus
  <2>1. xfer'.n = xfer.n - 1 /\ UNCHANGED <<nextid, inflight, sending>>
    BY Zenon, <1>a, <1>3, TakeReadStatusFields DEF TakeReadStatus
  <2> QED BY Zenon, <1>1, <2>1
<1>4. CASE TakeWriteStatus
  <2>1. xfer'.n = xfer.n - 1 /\ UNCHANGED <<nextid, inflight, sending>>
    BY Zenon, <1>a, <1>4, TakeWriteStatusFields DEF TakeWriteStatus
  <2> QED BY Zenon, <1>1, <2>1
<1>5. CASE WriteToTakes
  <2>1. PICK o : o = WriteOut(taken) /\ DOMAIN o = OpFields /\ o.n = xfer.n - 1
    BY <1>a, WriteOutFields, Zenon
  <2>2. xfer' = o \/ \E k \in Len(xfer.out)..Len(o.out) - 1 :
          xfer' = [o EXCEPT !.out = SubSeq(@, 1, k), !.err = <<xfer.start + k, "write">>]
    BY <1>5, <2>1, Zenon DEF WriteToTakes
  <2>3. xfer'.n = o.n
    BY Zenon, <2>1, <2>2 DEF OpFields
  <2>4. UNCHANGED <<nextid, inflight, sending>>
    BY Zenon, <1>5 DEF WriteToTakes
  <2> QED BY Zenon, <1>1, <2>1, <2>3, <2>4
<1>6. CASE ReadAtTakes /\ ~(Len(res.data) < req.len)
  <2>1. xfer'.n = xfer.n - 1 /\ UNCHANGED <<nextid, inflight, sending>>
    BY Zenon, <1>a, <1>6, ReadAtTakesFields
  <2> QED BY Zenon, <1>1, <2>1
<1>7. CASE ReadAtTakes /\ Len(res.data) < req.len
  <2>1. req \in [off : Nat, len : Nat] /\ Len(res.data) \in Nat
    BY Zenon, <1>a, <1>7, HeadFacts, DataFacts DEF ReadAtTakes, Running, Reads
  <2>2. PICK off \in Nat, len \in Nat : off = req.off + Len(res.data) /\ len = req.len - Len(res.data)
    BY <1>7, <2>1
  <2>3. xfer'.n = xfer.n - 1 + 1 /\ Dispatch(F, [id |-> 0, typ |-> "read", off |-> off, len |-> len])
    BY Zenon, <1>a, <1>7, <2>2, ReadAtTakesFields
  <2>4. PICK q \in ReqSet : q = [id |-> 0, typ |-> "read", off |-> off, len |-> len]
    BY Zenon DEF ReqSet
  <2>5. Dispatch(F, q) /\ xfer'.n = xfer.n
    BY <1>c, <2>3, <2>4
  <2>6. /\ ch' \in [Callers -> Seq(ResultSet)] /\ Len(ch[F]) \in Nat /\ Len(ch'[F]) = Len(ch[F]) - 1
        /\ \A d \in Callers \ {F} : ch'[d] = ch[d]
    BY Zenon, <1>a, HeadFacts
  <2>7. Awaited(F)' = Awaited(F) + 0 /\ Len(ch'[F]) + 1 <= Len(ch[F]) + 0 /\ 0 \in Int
    BY <1>c, <2>5, <2>6 DEF Awaited
  <2>8. \A d \in Callers \ {F} : Awaited(d)' = Awaited(d) /\ ch'[d] = ch[d]
    BY Zenon, <1>a, <2>6, FileIsCaller DEF Awaited
  <2> QED BY Zenon, <1>a, <2>5, <2>6, <2>7, <2>8, FileIsCaller, DispatchKeeps
<1> QED BY Zenon, <1>2, <1>3, <1>4, <1>5, <1>6, <1>7

\* Also the step of a call that returns, and none at all.
LEMMA OthersKeep ==
  ASSUME ConnInv, UNCHANGED <<connVars, call>>, xfer'.n = xfer.n
  PROVE  ConnInv'
<1>1. UNCHANGED <<nextid, inflight, wire, open, ch, sending, recv, ended>>
  BY Zenon DEF connVars
<1>2. ConnTypes' /\ OneId'
  BY <1>1, ZenonT(60) DEF ConnInv, ConnTypes, OneId
<1>3. ASSUME NEW c \in Callers
      PROVE  NotTooMany(c)'
  <2>1. Owed(c)' = Owed(c) /\ Told(c)' = Told(c)
    BY Zenon, <1>1 DEF Owed, Told
  <2>2. Awaited(c)' = Awaited(c)
    BY Zenon DEF Awaited
  <2> QED BY Zenon, <1>1, <2>1, <2>2, DueSame DEF ConnInv
<1> QED BY Zenon, <1>2, <1>3 DEF ConnInv, DueOK

-----------------------------------------------------------------------------
(* The first state, and every step.                                        *)

LEMMA Starts ==
  ASSUME Counting, Init
  PROVE  ClientInv
<1> USE FileIsCaller
<1>a. /\ nextid = 0 /\ inflight = <<>> /\ wire = {} /\ open = TRUE /\ ended = "nil"
      /\ ch = [c \in Callers |-> <<>>] /\ recv = Reading /\ recv.pc = "recv" /\ recv.to = <<>>
      /\ sending = [c \in Callers |-> NoDispatch] /\ \A c \in Callers : sending[c].pc = "none"
  BY Zenon DEF Init, ConnInit, Reading, NoDispatch
<1>b. PICK t \in Transfers, size \in {0, FileSize} :
        /\ t[1] # "WriteTo" => size = 0
        /\ xfer = NewOp(t, size)
        /\ file = IF t[1] \in Reads THEN [o \in 0..FileSize - 1 |-> Stored(o)] ELSE <<>>
  BY Zenon DEF Init
<1>c. /\ xfer.kind = t[1] /\ xfer.start = t[2] /\ xfer.next = t[2] /\ xfer.end = t[2] + t[3]
      /\ xfer.n = 0 /\ xfer.want = 1 /\ xfer.reqs = <<>> /\ xfer.err = <<>> /\ xfer.got = <<>>
      /\ xfer.out = <<>> /\ xfer.size = size /\ xfer.done = FALSE /\ DOMAIN xfer = OpFields
  BY Zenon, <1>b DEF NewOp, OpFields
<1>d. t[1] \in Kinds /\ t[2] \in Nat /\ t[3] \in Nat /\ size \in Nat
  BY FileAssumptions DEF Kinds
<1>e. DOMAIN xfer.reqs = {} /\ DOMAIN xfer.got = {} /\ DOMAIN inflight = {} /\ DOMAIN recv.to = {}
  BY <1>a, <1>c
<1>f. Cardinality({}) = 0 /\ IsFiniteSet({})
  BY Zenon DEF Counting
<1>1. ConnOK
  BY <1>a, <1>e DEF ConnOK, ConnTypes, OneId, Reading, NoDispatch, RecvStates
<1>2. OpTypes
  <2>1. Shape(xfer)
    <3>1. t[2] + t[3] \in Nat /\ t[2] <= t[2] + t[3] /\ 0 \in 0..MaxConcurrent /\ 1 \in 1..MaxConcurrent
      BY <1>d, FileAssumptions
    <3>2. xfer.start <= xfer.next
      BY <1>c, <1>d
    <3> QED BY <1>c, <1>d, <1>e, <1>f, <3>1, <3>2, Zenon DEF Shape
  <2>2. call = "idle" /\ dropped = FALSE /\ faults = 0
    BY Zenon DEF Init
  <2>3. faults \in 0..MaxFaults /\ sending[C].pc = "none"
    BY <1>a, <2>2, FaultsAssumption
  <2> QED BY <1>e, <2>1, <2>2, <2>3, Zenon DEF OpTypes, Remembered
<1>3. ReqsOK
  BY Zenon, <1>a, <1>e DEF ReqsOK, WireOK, SendOK, FlightOK, RangesOK
<1>4. ResultsOK
  BY <1>a, <1>b, <1>c DEF ResultsOK, ChanOK, DeliverOK, EndOK, FileOK
<1>5. DueOK
  <2>1. ASSUME NEW c \in Callers
        PROVE  NotTooMany(c)
    <3>1. Owed(c) = {} /\ ~Broadcasting
      BY Zenon, <1>a, <1>e DEF Owed, Broadcasting
    <3>2. Coming(c) = 0 /\ Len(ch[c]) = 0
      BY <1>a, <1>f, <3>1 DEF Coming
    <3>3. Awaited(c) \in Nat
      BY Zenon, <1>2, AwaitedTypes
    <3> QED BY <3>1, <3>2, <3>3 DEF NotTooMany
  <2> QED BY Zenon, <2>1 DEF DueOK
<1>6. ReadErr /\ DoneOK
  BY Zenon, <1>c, <1>e, <1>f DEF ReadErr, DoneOK
<1>7. ReadAtOK
  BY SMTT(60), <1>c, <1>d, <1>e, FileAssumptions DEF ReadAtOK, min
<1>8. WriteToOK
  <2>1. OutOK /\ At = xfer.start
    BY <1>c, <1>d DEF OutOK, At
  <2> QED BY SMTT(60), <1>c, <1>d, <1>e, <2>1, FileAssumptions
          DEF WriteToOK, ChunksOK, AskedApart, Covered, min
<1>9. WriteOK
  BY <1>c, <1>d, <1>e, <1>f DEF WriteOK
<1> QED BY Zenon, <1>1, <1>2, <1>3, <1>4, <1>5, <1>6, <1>7, <1>8, <1>9 DEF ClientInv, Basics, Data

LEMMA ConnectionSteps ==
  ASSUME Counting, ClientInv, Serve \/ ConnStep \/ CallSend \/ CallReturns
  PROVE  ClientInv'
<1>a. Basics /\ ConnInv /\ OpTypes /\ DueOK /\ Data /\ EndOK /\ ConnOK /\ ReqsOK /\ ResultsOK
  BY Zenon DEF ClientInv, Basics, ConnInv, ConnOK, ResultsOK
<1>1. Known'
  BY Zenon, <1>a, ConnStepBasics, ServeBasics, CallSendBasics, CallReturnsBasics
<1>2. ConnInv'
  BY Zenon, <1>a, ConnStepKeeps, ServeKeeps, CallKeeps
<1>3. UNCHANGED <<xfer, dropped>>
  BY Zenon DEF Serve, ConnStep, CallSend, CallReturns
<1>4. Grows /\ (ended' = ended \/ ended = "nil")
  <2>1. CASE Serve
    <3>1. PICK q \in wire, r \in ResultSet : RecvPacket(q, r) /\ Grows
      BY Zenon, <1>a, <2>1, ServeAnswers
    <3> QED BY Zenon, <3>1 DEF RecvPacket
  <2>2. CASE ConnStep
    <3>1. file' = file
      BY Zenon, <2>2 DEF ConnStep
    <3>2. ended' = ended \/ \E err \in {"EOF", "reset"} : RecvError(err)
      BY Zenon, <2>2 DEF ConnStep, Loop, Deliver, CloseConn, Listeners, Broadcast, Closed, Send, SendFailed
    <3>3. ended' = ended \/ recv.pc = "recv"
      BY Zenon, <3>2 DEF RecvError
    <3> QED BY Zenon, <1>a, <3>1, <3>3 DEF Grows, EndOK
  <2>3. CASE CallSend \/ CallReturns
    BY Zenon, <2>3 DEF CallSend, CallReturns, Grows
  <2> QED BY Zenon, <2>1, <2>2, <2>3
<1>5. Data'
  BY Zenon, <1>a, <1>3, <1>4, OthersData
<1> QED BY Zenon, <1>1, <1>2, <1>5 DEF Known, ConnInv, ClientInv, Basics, ConnOK

LEMMA TransferSteps ==
  ASSUME Counting, ClientInv, TransferStep
  PROVE  ClientInv'
<1>a. Basics /\ ConnInv /\ OpTypes /\ DueOK /\ Data /\ WriteToOK /\ Counting
  BY Zenon DEF ClientInv, Basics, ConnInv, ConnOK, Data
<1>1. CASE ReadAtSends \/ WriteToSends \/ WriteSends \/ ReadFromSends
  <2>1. Known' /\ ConnInv'
    BY Zenon, <1>a, <1>1, SendsBasics, SendsKeep
  <2>2. Data'
    BY Zenon, <1>a, <1>1, ReadsSendData, WritesSendData
  <2> QED BY Zenon, <2>1, <2>2 DEF Known, ConnInv, ClientInv, Basics, ConnOK
<1>2. CASE TakeError \/ TakeReadStatus \/ TakeWriteStatus \/ WriteToTakes \/ ReadAtTakes
  <2>1. Known'
    BY Zenon, <1>a, <1>2, TakeErrorBasics, TakeReadStatusBasics, TakeWriteStatusBasics, ReadAtTakesBasics,
       WriteToTakesBasics
  <2>2. ConnInv'
    BY Zenon, <1>a, <1>2, TakesKeep
  <2>3. Data'
    BY Zenon, <1>a, <1>2, TakeErrorData, TakeReadStatusData, TakeWriteStatusData, ReadAtTakesData,
       WriteToTakesData
  <2> QED BY Zenon, <2>1, <2>2, <2>3 DEF Known, ConnInv, ClientInv, Basics, ConnOK
<1>3. CASE Finish(xfer.kind)
  <2>1. Known' /\ Data'
    BY Zenon, <1>a, <1>3, FinishBasics, FinishData
  <2>2. UNCHANGED <<connVars, call>>
    BY Zenon, <1>3 DEF Finish
  <2>3. xfer'.n = xfer.n
    <3>1. DOMAIN xfer = OpFields
      BY Zenon, <1>a DEF OpTypes, Shape
    <3> QED BY Zenon, <1>3, <3>1 DEF Finish, OpFields
  <2>4. ConnInv'
    BY Zenon, <1>a, <2>2, <2>3, OthersKeep
  <2> QED BY Zenon, <2>1, <2>4 DEF Known, ConnInv, ClientInv, Basics, ConnOK
<1> QED BY Zenon, <1>1, <1>2, <1>3 DEF TransferStep

LEMMA Stutters ==
  ASSUME ClientInv, UNCHANGED vars
  PROVE  ClientInv'
<1>a. /\ UNCHANGED <<nextid, inflight, wire, open, ch, sending, recv, ended>>
      /\ UNCHANGED <<file, xfer, call, dropped, faults, connVars>>
  BY Zenon DEF vars, connVars
<1>b. Basics /\ ConnInv /\ Data
  BY Zenon DEF ClientInv, Basics, ConnInv, ConnOK
<1>1. ConnInv'
  BY Zenon, <1>a, <1>b, OthersKeep
<1>2. Data'
  BY Zenon, <1>a, <1>b, OthersData DEF Grows
<1>3. OpTypes'
  BY <1>a, <1>b, Zenon DEF Basics, OpTypes
<1>4. ReqsOK'
  BY <1>a, <1>b, Zenon DEF Basics, ReqsOK, WireOK, SendOK, FlightOK, RangesOK, AskedFor, InRange
<1>5. ResultsOK'
  <2>1. ChanOK' /\ DeliverOK'
    BY Zenon, <1>a, <1>b, SameChan, SameDeliver DEF Basics, ResultsOK, Grows
  <2>2. EndOK' /\ FileOK'
    BY <1>a, <1>b, Zenon DEF Basics, ResultsOK, EndOK, FileOK
  <2> QED BY Zenon, <2>1, <2>2 DEF ResultsOK
<1> QED BY Zenon, <1>1, <1>2, <1>3, <1>4, <1>5 DEF ConnInv, ClientInv, Basics, ConnOK

LEMMA RoomFollows ==
  ASSUME Counting, ClientInv
  PROVE  RoomToSend
<1>a. ConnTypes /\ OpTypes /\ DueOK /\ DeliverOK
  BY Zenon DEF ClientInv, Basics, ConnOK, ResultsOK
<1>b. ASSUME NEW c \in Callers, Coming(c) > 0
      PROVE  Len(ch[c]) < Capacity[c]
  <2>1. /\ Coming(c) \in Nat /\ Len(ch[c]) \in Nat /\ Awaited(c) \in Nat /\ Awaited(c) + 1 <= Capacity[c]
        /\ Capacity[c] \in Nat
    BY <1>a, ComingTypes, AwaitedTypes, FileAssumptions
  <2>2. Len(ch[c]) + Coming(c) <= Awaited(c) + (IF Broadcasting THEN 1 ELSE 0)
    BY Zenon, <1>a DEF DueOK, NotTooMany
  <2> QED BY <1>b, <2>1, <2>2
<1>1. ASSUME NEW c \in Callers, sending[c].pc = "fail"
      PROVE  Len(ch[c]) < Capacity[c]
  <2>1. Cardinality(Owed(c)) \in Nat /\ Cardinality(Told(c)) \in Nat
    BY Zenon, <1>a, OwedCount
  <2>2. Coming(c) > 0
    BY <1>1, <2>1 DEF Coming
  <2> QED BY Zenon, <1>b, <2>2
<1>2. ASSUME NEW id \in DOMAIN recv.to, recv.pc \in {"deliver", "broadcast"}
      PROVE  Len(ch[recv.to[id]]) < Capacity[recv.to[id]]
  <2>1. PICK c \in Callers : c = recv.to[id]
    BY Zenon, <1>a DEF ConnTypes
  <2>2. IsFiniteSet(Told(c)) /\ Cardinality(Told(c)) \in Nat /\ Cardinality(Owed(c)) \in Nat /\ id \in Told(c)
    BY Zenon, <1>a, <2>1, OwedCount DEF Told
  <2>3. Cardinality(Told(c)) > 0
    BY <2>2 DEF Counting
  <2>4. Coming(c) > 0
    BY <1>2, <2>2, <2>3 DEF Coming, Broadcasting
  <2> QED BY Zenon, <1>b, <2>1, <2>4
<1> QED BY Zenon, <1>1, <1>2 DEF RoomToSend

LEMMA TypesFollow ==
  ASSUME Counting, ClientInv
  PROVE  TypeOK
<1>a. ConnTypes /\ OneId /\ OpTypes /\ DueOK
  BY Zenon DEF ClientInv, Basics, ConnOK
<1>1. nextid \in Nat /\ DOMAIN inflight \subseteq 1..nextid /\ Range(inflight) \subseteq Callers
  BY <1>a DEF ConnTypes, Range
<1>2. \A q \in wire : q.id \in DOMAIN inflight /\ q.typ \in {"read", "write", "other"}
  BY Zenon, <1>a DEF ConnTypes, OneId, ReqSet
<1>3. ASSUME NEW c \in Callers
      PROVE  Len(ch[c]) <= Capacity[c] /\ sending[c].pc \in {"none", "send", "fail"}
  <2>1. /\ Coming(c) \in Nat /\ Len(ch[c]) \in Nat /\ Awaited(c) \in Nat /\ Awaited(c) + 1 <= Capacity[c]
        /\ Capacity[c] \in Nat
    BY SMTT(60), <1>a, ComingTypes, AwaitedTypes, FileAssumptions
  <2>2. Len(ch[c]) + Coming(c) <= Awaited(c) + (IF Broadcasting THEN 1 ELSE 0)
    BY Zenon, <1>a DEF DueOK, NotTooMany
  <2>3. sending[c].pc \in {"none", "send", "fail"}
    BY Zenon, <1>a DEF ConnTypes
  <2> QED BY <2>1, <2>2, <2>3
<1>4. /\ recv.pc \in RecvStates /\ {open, xfer.done, dropped} \subseteq BOOLEAN
      /\ call \in {"idle", "wait", "done"} /\ xfer.kind \in Kinds
      /\ xfer.n \in 0..MaxConcurrent /\ xfer.want \in 1..MaxConcurrent
  BY <1>a, Zenon DEF ConnTypes, OpTypes, Shape
<1> QED BY <1>1, <1>2, <1>3, <1>4, Zenon DEF TypeOK, RecvStates, Kinds

LEMMA ExactFollows ==
  ASSUME Counting, ClientInv
  PROVE  TransfersExact
<1> SUFFICES ASSUME Succeeded, ended # "EOF", ~dropped
             PROVE  CASE xfer.kind = "ReadAt" ->
                           xfer.got = [o \in xfer.start..min(xfer.end, FileSize) - 1 |-> Stored(o)]
                      [] xfer.kind = "WriteTo" ->
                           xfer.out = Bytes([o \in 0..FileSize - 1 |-> Stored(o)], xfer.start, FileSize)
                      [] OTHER -> \A o \in xfer.start..xfer.end - 1 : o \in DOMAIN file /\ file[o] = Source(o)
  BY Zenon DEF TransfersExact
<1>a. ConnTypes /\ OpTypes /\ ReadErr /\ ReadAtOK /\ WriteToOK /\ WriteOK /\ DoneOK
  BY Zenon DEF ClientInv, Basics, ConnOK, Data
<1>b. /\ xfer.done /\ xfer.n = 0
      /\ xfer.err = <<>> \/ (xfer.kind # "Write" /\ xfer.err[2] = "EOF")
      /\ xfer.err = <<>> => xfer.kind \in {"ReadAt", "Write"} /\ xfer.next = xfer.end
  BY <1>a, Zenon DEF Succeeded, DoneOK
<1>c. /\ xfer.start \in Nat /\ xfer.next \in Nat /\ xfer.end \in Nat /\ FileSize \in Nat
      /\ xfer.kind \in Kinds /\ (xfer.kind # "WriteTo" => xfer.next <= xfer.end)
  BY <1>a, FileAssumptions, Zenon DEF OpTypes, Shape
<1>d. IsFiniteSet(DOMAIN xfer.reqs)
  <2>1. nextid \in Nat /\ DOMAIN xfer.reqs \in SUBSET (1..nextid)
    BY Zenon, <1>a DEF ConnTypes, OpTypes, Remembered
  <2> QED BY <2>1, CountUpTo, Zenon
<1>e. ASSUME xfer.n = Cardinality(DOMAIN xfer.reqs)
      PROVE  \A o : ~InRequest(o)
  <2>1. DOMAIN xfer.reqs = {}
    BY Zenon, <1>b, <1>d, <1>e DEF Counting
  <2> QED BY <2>1, Zenon DEF InRequest
<1>f. ASSUME xfer.kind \in Reads
      PROVE  /\ AllWell /\ \A o : ~InRequest(o)
             /\ xfer.err # <<>> => FileSize < xfer.next
             /\ min(xfer.next, FileSize) = FileSize \/ xfer.next = xfer.end
  <2>1. xfer.err # <<>> => xfer.err[1] \in Nat
    BY Zenon, <1>a DEF OpTypes, Shape
  <2>2. xfer.err # <<>> => xfer.err[1] >= FileSize /\ xfer.err[1] < xfer.next
    BY <1>a, <1>b, <1>f, Zenon DEF ReadErr
  <2>3. AllWell
    BY <1>b, <2>2, Zenon DEF AllWell
  <2>4. xfer.n = Cardinality(DOMAIN xfer.reqs)
    BY <1>a, <1>f, <2>3, Zenon DEF ReadErr
  <2>5. xfer.err # <<>> => FileSize < xfer.next /\ min(xfer.next, FileSize) = FileSize
    BY <1>c, <2>1, <2>2 DEF min
  <2> QED BY <1>b, <1>e, <2>3, <2>4, <2>5, Zenon
<1>1. CASE xfer.kind = "ReadAt"
  <2>0. xfer.kind \in Reads
    BY Zenon, <1>1 DEF Reads
  <2>1. min(xfer.next, FileSize) = min(xfer.end, FileSize)
    BY <1>1, <1>c, <1>f, <2>0 DEF min
  <2>2. \A o \in xfer.start..min(xfer.next, FileSize) - 1 : o \in DOMAIN xfer.got
    BY <1>a, <1>1, <1>f, <2>0, Zenon DEF ReadAtOK
  <2>3. PICK g, S : g = xfer.got /\ S = xfer.start..min(xfer.end, FileSize) - 1
    BY Zenon
  <2>4. /\ g = [o \in DOMAIN g |-> g[o]] /\ \A o \in DOMAIN g : o \in S /\ g[o] = Stored(o)
        /\ \A o \in S : o \in DOMAIN g
    BY <1>a, <1>1, <2>1, <2>2, <2>3, Zenon DEF ReadAtOK
  <2>5. g = [o \in S |-> Stored(o)]
    BY ONLY Zenon, <2>4
  <2> QED BY <1>1, <2>3, <2>5, Zenon
<1>2. CASE xfer.kind = "WriteTo"
  <2>0. xfer.kind \in Reads
    BY Zenon, <1>2 DEF Reads
  <2>1. OutOK /\ ChunksOK /\ Covered
    BY Zenon, <1>a, <1>2 DEF WriteToOK
  <2>2. xfer.err # <<>> /\ FileSize < xfer.next
    BY Zenon, <1>2, <1>b, <1>f, <2>0
  <2>3. PICK out, s : out = xfer.out /\ s = xfer.start
    BY Zenon
  <2>4. /\ s \in Nat /\ out \in Seq(Nat) /\ (out # <<>> => s + Len(out) <= FileSize)
        /\ \A i \in 1..Len(out) : out[i] = Stored(s + i - 1)
    BY <1>c, <2>1, <2>3, Zenon DEF OutOK, At
  <2>5. s + Len(out) >= FileSize
    <3> SUFFICES ASSUME s + Len(out) < FileSize
                 PROVE  FALSE
      BY <1>c, <2>4
    <3>1. At = s + Len(out) /\ At \in Nat
      BY <2>3, <2>4 DEF At
    <3>2. At \in xfer.start..min(xfer.next, FileSize) - 1
      BY SMTT(60), <1>c, <2>2, <2>3, <2>4, <3>1 DEF min
    <3>3. At < At \/ InChunk(At)
      BY <1>f, <2>0, <2>1, <3>2, Zenon DEF Covered
    <3>4. ASSUME NEW a \in DOMAIN xfer.got, At \in a..a + Len(xfer.got[a]) - 1
          PROVE  FALSE
      <4>1. a \in Nat /\ a > At
        BY <2>1, Zenon DEF ChunksOK
      <4> QED BY <3>1, <3>4, <4>1
    <3> QED BY <3>1, <3>3, <3>4 DEF InChunk
  <2>6. PICK whole : whole = Bytes([o \in 0..FileSize - 1 |-> Stored(o)], s, FileSize)
    BY Zenon
  <2>7. whole = [i \in 1..FileSize - s |-> [o \in 0..FileSize - 1 |-> Stored(o)][s + i - 1]]
    BY <2>6, Zenon DEF Bytes
  <2>8. \A i \in 1..FileSize - s : whole[i] = Stored(s + i - 1)
    BY <1>c, <2>4, <2>7
  <2>9. 1..FileSize - s = 1..Len(out)
    <3>1. PICK len \in Nat : len = Len(out)
      BY <2>4
    <3>2. len = 0 \/ s + len <= FileSize
      BY <2>4, <3>1
    <3>3. 1..FileSize - s = 1..len
      BY ONLY SMTT(60), <1>c, <2>4, <2>5, <3>1, <3>2
    <3> QED BY <3>1, <3>3, Zenon
  <2>10. out = whole
    <3>1. out = [i \in 1..Len(out) |-> out[i]]
      BY <2>4
    <3>2. \A i \in 1..Len(out) : whole[i] = out[i]
      BY <2>4, <2>8, <2>9, Zenon
    <3>3. whole = [i \in 1..Len(out) |-> whole[i]]
      BY <2>7, <2>9
    <3> QED BY ONLY Zenon, <3>1, <3>2, <3>3
  <2> QED BY <1>2, <2>3, <2>6, <2>10, Zenon
<1>3. CASE xfer.kind \notin Reads
  <2>1. xfer.kind \in {"Write", "ReadFrom"}
    BY Zenon, <1>3, <1>c DEF Reads, Kinds
  <2>2. xfer.err = <<>> \/ (xfer.kind = "ReadFrom" /\ xfer.err[2] = "EOF")
    BY Zenon, <1>b, <2>1
  <2>3. /\ xfer.n = Cardinality(DOMAIN xfer.reqs) /\ (xfer.err # <<>> => xfer.next = xfer.end)
        /\ \A o \in xfer.start..xfer.next - 1 : (o \in DOMAIN file /\ file[o] = Source(o)) \/ InRequest(o)
    BY <1>a, <2>1, <2>2, Zenon DEF WriteOK
  <2>4. xfer.next = xfer.end
    BY <1>b, <2>3, Zenon
  <2>5. \A o \in xfer.start..xfer.end - 1 : o \in DOMAIN file /\ file[o] = Source(o)
    BY <1>e, <2>3, <2>4, Zenon
  <2> QED BY <1>3, <2>5, Zenon DEF Reads
<1> QED BY <1>1, <1>2, <1>3, Zenon DEF Reads

-----------------------------------------------------------------------------
(* The theorems.                                                           *)

INSTANCE FiniteSetTheorems

LEMMA CountingHolds == Counting
<1>1. \A a, b \in Int : IsFiniteSet(a..b)
  BY Zenon, FS_Interval
<1>2. \A S : IsFiniteSet(S) => Cardinality(S) \in Nat /\ \A T \in SUBSET S : IsFiniteSet(T)
  BY Zenon, FS_CardinalityType, FS_Subset
<1>3. \A S, T : IsFiniteSet(S) /\ IsFiniteSet(T) => IsFiniteSet(S \cup T)
  BY Zenon, FS_Union
<1>4. \A S, x : IsFiniteSet(S) /\ x \notin S =>
        IsFiniteSet(S \cup {x}) /\ Cardinality(S \cup {x}) = Cardinality(S) + 1
  BY Zenon, FS_AddElement
<1>5. \A S, x : IsFiniteSet(S) /\ x \in S => Cardinality(S \ {x}) = Cardinality(S) - 1
  BY Zenon, FS_RemoveElement
<1>6. ASSUME NEW S \in SUBSET Nat, S # {}
      PROVE  \E x \in S : \A y \in S : x <= y
  <2>1. PICK x \in S : \A y \in S : ~(<<y, x>> \in OpToRel(<, Nat))
    BY <1>6, NatLessThanWellFounded, WFMin, Zenon
  <2>2. \A y \in S : ~(y < x)
    BY <1>6, <2>1, Zenon DEF OpToRel
  <2> QED BY <1>6, <2>2
<1>7. IsFiniteSet({}) /\ Cardinality({}) = 0 /\ \A x : IsFiniteSet({x}) /\ Cardinality({x}) = 1
  BY Zenon, FS_EmptySet, FS_Singleton
<1>8. \A S : IsFiniteSet(S) => (Cardinality(S) = 0 <=> S = {})
  BY Zenon, FS_EmptySet
<1> QED BY <1>7, <1>8, <1>1, <1>2, <1>3, <1>4, <1>5, <1>6, Zenon DEF Counting

\* What has reached the channels, what a transfer has asked for and what it has put together
\* stay in step, whatever the order of the responses and wherever the connection is lost:
\* ClientInv is an invariant (conn.go:84-146, client.go:870-1265).
THEOREM ClientInvariantHolds == Spec => []ClientInv
<1>1. Init => ClientInv
  BY Zenon, CountingHolds, Starts
<1>2. ClientInv /\ [Next]_vars => ClientInv'
  <2>1. ASSUME ClientInv, Next
        PROVE  ClientInv'
    BY Zenon, <2>1, CountingHolds, ConnectionSteps, TransferSteps DEF Next
  <2> QED BY Zenon, <2>1, Stutters
<1> QED BY <1>1, <1>2, PTL DEF Spec

\* Whoever is about to send a result to a channel finds room in it: neither the goroutine of
\* loop nor a failed dispatch ever waits for a caller (conn.go:97, :129, :142).
THEOREM ClientRoomToSend == Spec => []RoomToSend
<1>1. ClientInv => RoomToSend
  BY Zenon, CountingHolds, RoomFollows
<1> QED BY <1>1, ClientInvariantHolds, PTL

\* The types of the connection and of the transfer: ids in use are those given out, no channel
\* holds more than its capacity, and the window of a transfer never exceeds
\* maxConcurrentRequests (conn.go:84-146, client.go:870-1265).
THEOREM ClientTypes == Spec => []TypeOK
<1>1. ClientInv => TypeOK
  BY Zenon, CountingHolds, TypesFollow
<1> QED BY <1>1, ClientInvariantHolds, PTL

\* A transfer that reports success is exact, for every size of the file and of packets, every
\* window and every order of the responses: ReadAt, WriteTo, Write and ReadFrom
\* (client.go:870-1265).
THEOREM ClientTransfersExact == Spec => []TransfersExact
<1>1. ClientInv => TransfersExact
  BY Zenon, CountingHolds, ExactFollows
<1> QED BY <1>1, ClientInvariantHolds, PTL
=============================================================================
