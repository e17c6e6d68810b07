------------------------- MODULE ClientResultProofs -------------------------
(***************************************************************************)
(* Requests and results: after every step of the connection and of a       *)
(* transfer the results that reach the channel of the transfer are right   *)
(* answers to its requests, one to each, or errors of the connection.      *)
(***************************************************************************)
EXTENDS ClientFieldProofs

LEMMA AskedKept ==
  ASSUME NEW c, NEW q, AskedFor(c, q), xfer'.kind = xfer.kind,
         c = F => q.id \in DOMAIN xfer'.reqs /\ xfer'.reqs[q.id] = xfer.reqs[q.id]
  PROVE  AskedFor(c, q)'
BY Zenon DEF AskedFor

LEMMA AnswerKept ==
  ASSUME NEW r, Answer(r), xfer'.kind = xfer.kind, Grows,
         r.id \in DOMAIN xfer'.reqs, xfer'.reqs[r.id] = xfer.reqs[r.id]
  PROVE  Answer(r)'
<1>1. ASSUME NEW lo, NEW hi, Written(lo, hi)
      PROVE  Written(lo, hi)'
  BY Zenon, <1>1 DEF Written, Grows
<1>2. CASE xfer.kind \in Reads
  BY <1>2, Zenon DEF Answer
<1>3. CASE xfer.kind \notin Reads
  BY <1>1, <1>3, Zenon DEF Answer
<1> QED BY Zenon, <1>2, <1>3

\* The answer of a request is no other's: what the transfer remembers of the others is kept.

LEMMA StepKeepsResults ==
  ASSUME ConnOK, OpTypes, ReqsOK, ResultsOK,
         UNCHANGED <<wire, open, recv, ended, file>>, xfer'.kind = xfer.kind,
         xfer'.start = xfer.start, xfer.next <= xfer'.next, xfer'.next \in Nat,
         NEW k \in {0, 1}, ch' \in [Callers -> Seq(ResultSet)], Len(ch'[F]) = Len(ch[F]) - k,
         \A i \in 1..Len(ch'[F]) : ch'[F][i] = ch[F][i + k],
         NEW gone, gone = IF k = 0 THEN 0 ELSE ch[F][1].id,
         \A id \in DOMAIN xfer.reqs \ {gone} :
           id \in DOMAIN xfer'.reqs /\ xfer'.reqs[id] = xfer.reqs[id],
         \A id \in DOMAIN xfer'.reqs :
           (id \in DOMAIN xfer.reqs /\ xfer'.reqs[id] = xfer.reqs[id]) \/ InRange(xfer.reqs[id])',
         \/ UNCHANGED <<nextid, inflight, sending>>
         \/ \E q \in ReqSet :
              /\ Dispatch(F, q) /\ q.typ = IF xfer.kind \in Reads THEN "read" ELSE "write"
              /\ nextid + 1 \in DOMAIN xfer'.reqs
              /\ xfer'.reqs[nextid + 1].off = q.off /\ xfer'.reqs[nextid + 1].len = q.len
  PROVE  ReqsOK' /\ ResultsOK'
<1> USE DEF ConnOK
<1>a. \A id \in DOMAIN inflight : id # gone \/ inflight[id] # F
  <2>1. CASE k = 0
    BY <2>1 DEF ConnTypes
  <2>2. CASE k = 1
    <3>1. 1 \in 1..Len(ch[F])
      BY <2>2, FileIsCaller DEF ConnTypes
    <3>2. ConnError(ch[F][1]) \/ ch[F][1].id \notin DOMAIN inflight
      BY Zenon, <3>1 DEF ResultsOK, ChanOK, Held
    <3>3. ch[F][1] \in ResultSet
      BY <3>1, FileIsCaller DEF ConnTypes
    <3>4. ConnError(ch[F][1]) => gone = 0
      BY Zenon, <2>2, <3>3 DEF ConnError, ResultSet
    <3>5. 0 \notin DOMAIN inflight
      BY DEF ConnTypes
    <3> QED BY ZenonT(60), <2>2, <3>2, <3>4, <3>5
  <2> QED BY Zenon, <2>1, <2>2
<1>b. \A id \in DOMAIN inflight : inflight[id] = F =>
        id \in DOMAIN xfer.reqs /\ id \in DOMAIN xfer'.reqs /\ xfer'.reqs[id] = xfer.reqs[id]
  BY Zenon, <1>a DEF ReqsOK, FlightOK
<1>c. /\ nextid \in Nat /\ \A id \in DOMAIN inflight : id \in DOMAIN inflight' /\ inflight'[id] = inflight[id]
      /\ \A id \in DOMAIN inflight' : id \in DOMAIN inflight \/ (id = nextid + 1 /\ nextid + 1 \in DOMAIN xfer'.reqs)
  <2>1. CASE UNCHANGED <<nextid, inflight, sending>>
    BY Zenon, <2>1 DEF ConnTypes
  <2>2. CASE \E q \in ReqSet : Dispatch(F, q) /\ nextid + 1 \in DOMAIN xfer'.reqs
    <3>1. inflight' = Put(inflight, nextid + 1, F) /\ nextid + 1 \in DOMAIN xfer'.reqs
      BY <2>2, Zenon DEF Dispatch, nextID
    <3>2. nextid \in Nat /\ nextid + 1 \notin DOMAIN inflight
      BY DEF ConnTypes
    <3> QED BY Zenon, <3>1, <3>2 DEF Put
  <2> QED BY <2>1, <2>2, Zenon
<1>1. WireOK'
  <2> SUFFICES ASSUME NEW p \in wire
               PROVE  AskedFor(inflight[p.id], p)'
    BY Zenon DEF WireOK
  <2>1. PICK c : c = inflight[p.id]
    BY Zenon
  <2>2. p.id \in DOMAIN inflight /\ inflight'[p.id] = c /\ AskedFor(c, p)
    BY Zenon, <1>c, <2>1 DEF OneId, ReqsOK, WireOK
  <2>3. c = F => p.id \in DOMAIN xfer'.reqs /\ xfer'.reqs[p.id] = xfer.reqs[p.id]
    BY Zenon, <1>b, <2>1, <2>2
  <2>4. AskedFor(c, p)'
    BY Zenon, <2>2, <2>3, AskedKept
  <2> QED BY Zenon, <2>2, <2>4
<1>2. SendOK'
  <2> SUFFICES ASSUME NEW c \in Callers, sending'[c].pc = "send"
               PROVE  AskedFor(c, sending[c].req)'
    BY Zenon DEF SendOK
  <2>1. CASE sending'[c] = sending[c]
    <3>1. PICK p : p = sending[c].req
      BY Zenon
    <3>2. p.id \in DOMAIN inflight /\ inflight[p.id] = c /\ AskedFor(c, p)
      BY Zenon, <2>1, <3>1 DEF OneId, ReqsOK, SendOK
    <3>3. c = F => p.id \in DOMAIN xfer'.reqs /\ xfer'.reqs[p.id] = xfer.reqs[p.id]
      BY Zenon, <1>b, <3>2
    <3>4. AskedFor(c, p)'
      BY Zenon, <3>2, <3>3, AskedKept
    <3> QED BY Zenon, <2>1, <3>1, <3>4
  <2>2. CASE sending'[c] # sending[c]
    <3>1. PICK q \in ReqSet :
              /\ Dispatch(F, q) /\ q.typ = IF xfer.kind \in Reads THEN "read" ELSE "write"
              /\ nextid + 1 \in DOMAIN xfer'.reqs
              /\ xfer'.reqs[nextid + 1].off = q.off /\ xfer'.reqs[nextid + 1].len = q.len
      BY Zenon, <2>2
    <3>2. PICK row : row = [q EXCEPT !.id = nextid + 1]
      BY Zenon
    <3>3. sending' = [sending EXCEPT ![F] = [pc |-> "send", req |-> row]]
      BY <3>1, <3>2, Zenon DEF Dispatch, nextID
    <3>4. c = F /\ sending'[c].req = row
      BY Zenon, <2>2, <3>3, FileIsCaller DEF ConnTypes
    <3>5. nextid + 1 \in Nat
      BY DEF ConnTypes
    <3>6. row.id = nextid + 1 /\ row.typ = q.typ /\ row.off = q.off /\ row.len = q.len
      BY <3>2, <3>5, WithId
    <3>7. AskedFor(F, row)'
      BY Zenon, <3>1, <3>6 DEF AskedFor
    <3> QED BY Zenon, <3>4, <3>7
  <2> QED BY Zenon, <2>1, <2>2
<1>3. FlightOK'
  BY Zenon, <1>b, <1>c DEF FlightOK
<1>4. RangesOK'
  <2> SUFFICES ASSUME NEW id \in DOMAIN xfer'.reqs
               PROVE  InRange(xfer.reqs[id])'
    BY Zenon DEF RangesOK
  <2>1. CASE id \in DOMAIN xfer.reqs /\ xfer'.reqs[id] = xfer.reqs[id]
    <3>1. PICK q \in [off : Nat, len : Nat] : q = xfer.reqs[id]
      BY Zenon, <2>1 DEF OpTypes, Remembered
    <3>2. InRange(q) /\ xfer.next \in Nat
      BY Zenon, <2>1, <3>1 DEF ReqsOK, RangesOK, OpTypes, Shape
    <3>3. InRange(q)'
      BY SMTT(60), <3>2 DEF InRange
    <3> QED BY Zenon, <2>1, <3>1, <3>3
  <2> QED BY Zenon, <2>1
<1>d. /\ 0 \notin DOMAIN xfer.reqs /\ nextid + 1 \notin DOMAIN xfer.reqs
      /\ \A id \in DOMAIN xfer.reqs : id \notin DOMAIN inflight => id \notin DOMAIN inflight'
  BY SMTT(60), <1>c DEF OpTypes, Remembered, ConnTypes
<1>e. Grows
  BY Zenon DEF Grows
<1>5. ChanOK'
  <2> SUFFICES ASSUME NEW i \in 1..Len(ch'[F])
               PROVE  Held(i)'
    BY Zenon DEF ChanOK
  <2>1. Len(ch[F]) \in Nat /\ Len(ch'[F]) \in Nat
    BY FileIsCaller DEF ConnTypes
  <2>2. i + k \in 1..Len(ch[F])
    BY <2>1
  <2>3. PICK r : r = ch[F][i + k]
    BY Zenon
  <2>4. ch'[F][i] = r
    BY Zenon, <2>3
  <2>5. CASE ConnError(r)
    <3>1. ConnError(r)'
      BY Zenon, <2>5 DEF ConnError
    <3> QED BY Zenon, <2>4, <3>1 DEF Held
  <2>6. CASE ~ConnError(r)
    <3>1. /\ Answer(r) /\ r.id \notin DOMAIN inflight
          /\ \A j \in 1..Len(ch[F]) : j # i + k => ch[F][j].id # r.id
      BY Zenon, <2>2, <2>3, <2>6 DEF ResultsOK, ChanOK, Held
    <3>2. r.id \in DOMAIN xfer.reqs
      BY Zenon, <3>1 DEF Answer
    <3>3. r.id # gone
      BY <1>d, <2>1, <2>2, <3>1, <3>2
    <3>4. Answer(r)'
      BY Zenon, <1>e, <3>1, <3>2, <3>3, AnswerKept
    <3>5. r.id \notin DOMAIN inflight'
      BY Zenon, <1>d, <3>1, <3>2
    <3>6. ASSUME NEW j \in 1..Len(ch'[F]), j # i
          PROVE  ch'[F][j].id # r.id
      <4>1. j + k \in 1..Len(ch[F]) /\ j + k # i + k
        BY <2>1, <3>6
      <4> QED BY Zenon, <3>1, <4>1
    <3> QED BY Zenon, <2>4, <3>4, <3>5, <3>6 DEF Held
  <2> QED BY Zenon, <2>5, <2>6
<1>6. DeliverOK'
  <2> SUFFICES ASSUME recv.pc = "deliver", recv.to[recv.res.id] = F
               PROVE  /\ Answer(recv.res)' /\ recv.res.id \notin DOMAIN inflight'
                      /\ \A j \in 1..Len(ch'[F]) : ch'[F][j].id # recv.res.id
    BY Zenon DEF ResultsOK, DeliverOK
  <2>1. PICK r : r = recv.res
    BY Zenon
  <2>2. /\ Answer(r) /\ r.id \notin DOMAIN inflight
        /\ \A j \in 1..Len(ch[F]) : ch[F][j].id # r.id
    BY Zenon, <2>1 DEF ResultsOK, DeliverOK
  <2>3. r.id \in DOMAIN xfer.reqs
    BY Zenon, <2>2 DEF Answer
  <2>4. Len(ch[F]) \in Nat /\ Len(ch'[F]) \in Nat
    BY FileIsCaller DEF ConnTypes
  <2>5. r.id # gone
    <3>1. CASE k = 0
      BY Zenon, <1>d, <2>3, <3>1
    <3>2. CASE k = 1
      <4>1. 1 \in 1..Len(ch[F])
        BY <2>4, <3>2
      <4> QED BY <2>2, <3>2, <4>1
    <3> QED BY <3>1, <3>2
  <2>6. Answer(r)'
    BY ZenonT(60), <1>e, <2>2, <2>3, <2>5, AnswerKept
  <2>7. r.id \notin DOMAIN inflight'
    BY Zenon, <1>d, <2>2, <2>3
  <2>8. \A j \in 1..Len(ch'[F]) : ch'[F][j].id # r.id
    BY SMTT(60), <2>2, <2>4
  <2> QED BY Zenon, <2>1, <2>6, <2>7, <2>8
<1>7. EndOK' /\ FileOK'
  BY Zenon DEF ResultsOK, EndOK, FileOK
<1> QED BY Zenon, <1>1, <1>2, <1>3, <1>4, <1>5, <1>6, <1>7 DEF ReqsOK, ResultsOK

\* A step that puts nothing in the channel of the transfer.

LEMMA SameChan ==
  ASSUME ChanOK, UNCHANGED xfer, Grows, ch'[F] = ch[F], ended = "nil" \/ ended' = ended,
         \A id \in DOMAIN xfer.reqs : id \notin DOMAIN inflight => id \notin DOMAIN inflight'
  PROVE  ChanOK'
<1> SUFFICES ASSUME NEW i \in 1..Len(ch[F])
             PROVE  Held(i)'
  BY Zenon DEF ChanOK
<1>1. PICK r : r = ch[F][i]
  BY Zenon
<1>2. Held(i)
  BY Zenon DEF ChanOK
<1>3. CASE ConnError(r)
  <2>1. ConnError(r)'
    BY Zenon, <1>3 DEF ConnError
  <2> QED BY Zenon, <1>1, <2>1 DEF Held
<1>4. CASE ~ConnError(r)
  <2>1. Answer(r) /\ r.id \notin DOMAIN inflight /\ \A j \in 1..Len(ch[F]) : j # i => ch[F][j].id # r.id
    BY Zenon, <1>1, <1>2, <1>4 DEF Held
  <2>2. r.id \in DOMAIN xfer.reqs
    BY Zenon, <2>1 DEF Answer
  <2>3. Answer(r)'
    BY Zenon, <2>1, <2>2, AnswerKept
  <2> QED BY Zenon, <1>1, <2>1, <2>2, <2>3 DEF Held
<1> QED BY Zenon, <1>3, <1>4

LEMMA SameDeliver ==
  ASSUME DeliverOK, UNCHANGED <<xfer, recv>>, Grows, ch'[F] = ch[F],
         \A id \in DOMAIN xfer.reqs : id \notin DOMAIN inflight => id \notin DOMAIN inflight'
  PROVE  DeliverOK'
<1> SUFFICES ASSUME recv.pc = "deliver", recv.to[recv.res.id] = F
             PROVE  /\ Answer(recv.res)' /\ recv.res.id \notin DOMAIN inflight'
                    /\ \A j \in 1..Len(ch'[F]) : ch'[F][j].id # recv.res.id
  BY Zenon DEF DeliverOK
<1>1. PICK r : r = recv.res
  BY Zenon
<1>2. Answer(r) /\ r.id \notin DOMAIN inflight /\ \A j \in 1..Len(ch[F]) : ch[F][j].id # r.id
  BY Zenon, <1>1 DEF DeliverOK
<1>3. r.id \in DOMAIN xfer.reqs
  BY Zenon, <1>2 DEF Answer
<1>4. Answer(r)'
  BY Zenon, <1>2, <1>3, AnswerKept
<1> QED BY Zenon, <1>1, <1>2, <1>3, <1>4

LEMMA PushedChan ==
  ASSUME ConnTypes, OpTypes, ChanOK, UNCHANGED <<inflight, file, xfer, ended>>,
         NEW r \in ResultSet, ch'[F] = Append(ch[F], r),
         \/ ConnError(r)
         \/ /\ Answer(r) /\ r.id \notin DOMAIN inflight
            /\ \A j \in 1..Len(ch[F]) : ch[F][j].id # r.id
  PROVE  ChanOK'
<1>1. PICK n \in Nat : n = Len(ch[F])
  BY FileIsCaller DEF ConnTypes
<1>2. /\ Len(ch'[F]) = n + 1 /\ ch'[F][n + 1] = r /\ \A i \in 1..n : ch'[F][i] = ch[F][i]
      /\ \A i \in 1..n : ch[F][i] \in ResultSet
  BY <1>1, FileIsCaller DEF ConnTypes
<1>3. \A x : (ConnError(x) => ConnError(x)') /\ (Answer(x) => Answer(x)')
  BY ZenonT(60) DEF ConnError, Answer, Written
<1>4. 0 \notin DOMAIN xfer.reqs
  BY DEF OpTypes, Remembered
<1> SUFFICES ASSUME NEW i \in 1..n + 1
             PROVE  Held(i)'
  BY Zenon, <1>2 DEF ChanOK
<1>5. CASE i = n + 1
  <2>1. CASE ConnError(r)
    BY <1>2, <1>3, <1>5, <2>1, Zenon DEF Held
  <2>2. CASE Answer(r) /\ r.id \notin DOMAIN inflight /\ \A j \in 1..Len(ch[F]) : ch[F][j].id # r.id
    <3>1. Answer(r)' /\ \A j \in 1..Len(ch'[F]) : j # i => ch'[F][j].id # r.id
      BY SMTT(60), <1>1, <1>2, <1>3, <1>5, <2>2
    <3> QED BY Zenon, <1>2, <1>5, <2>2, <3>1 DEF Held
  <2> QED BY Zenon, <2>1, <2>2
<1>6. CASE i \in 1..n
  <2>1. PICK x \in ResultSet : x = ch[F][i]
    BY Zenon, <1>2, <1>6
  <2>2. ch'[F][i] = x
    BY Zenon, <1>2, <1>6, <2>1
  <2>3. CASE ConnError(x)
    BY <1>3, <2>2, <2>3, Zenon DEF Held
  <2>4. CASE ~ConnError(x)
    <3>1. Answer(x) /\ x.id \notin DOMAIN inflight /\ \A j \in 1..n : j # i => ch[F][j].id # x.id
      BY Zenon, <1>1, <1>6, <2>1, <2>4 DEF ChanOK, Held
    <3>2. x.id \in DOMAIN xfer.reqs
      BY Zenon, <3>1 DEF Answer
    <3>3. r.id # x.id
      <4>1. CASE ConnError(r)
        BY Zenon, <1>4, <3>2, <4>1, ErrorId
      <4>2. CASE \A j \in 1..Len(ch[F]) : ch[F][j].id # r.id
        BY Zenon, <1>1, <1>6, <2>1, <4>2
      <4> QED BY Zenon, <4>1, <4>2
    <3>4. \A j \in 1..Len(ch'[F]) : j # i => ch'[F][j].id # x.id
      BY SMTT(60), <1>2, <3>1, <3>3
    <3> QED BY Zenon, <1>3, <2>2, <3>1, <3>4 DEF Held
  <2> QED BY Zenon, <2>3, <2>4
<1> QED BY <1>5, <1>6

LEMMA SendResults ==
  ASSUME ConnOK, OpTypes, ReqsOK, ResultsOK, NEW c \in Callers, Send(c), UNCHANGED <<xfer, call, file>>
  PROVE  ReqsOK' /\ ResultsOK'
<1> USE DEF ConnOK
<1>a. UNCHANGED <<nextid, open, ch, recv, ended>> /\ sending[c].pc = "send"
  BY Zenon DEF Send
<1>b. Grows /\ \A d, q : AskedFor(d, q) => AskedFor(d, q)'
  BY Zenon DEF Grows, AskedFor
<1>c. /\ Sent(c).id \in DOMAIN inflight /\ inflight[Sent(c).id] = c
      /\ \A q \in wire : q.id # Sent(c).id
  BY Zenon, <1>a DEF OneId, Sent
<1>d. RangesOK' /\ EndOK' /\ FileOK'
  BY <1>a, Zenon DEF ReqsOK, RangesOK, InRange, ResultsOK, EndOK, FileOK
<1>1. CASE wire' = wire \cup {Sent(c)} /\ sending' = [sending EXCEPT ![c] = NoDispatch] /\ UNCHANGED inflight
  <2>1. AskedFor(c, Sent(c))
    BY Zenon, <1>a DEF ReqsOK, SendOK, Sent
  <2>2. WireOK'
    BY Zenon, <1>1, <1>b, <1>c, <2>1 DEF ReqsOK, WireOK
  <2>3. SendOK'
    <3>1. \A d \in Callers : sending'[d].pc = "send" => sending'[d] = sending[d]
      BY Zenon, <1>1 DEF ConnTypes, NoDispatch
    <3> QED BY Zenon, <1>b, <3>1 DEF ReqsOK, SendOK
  <2>4. FlightOK'
    BY Zenon, <1>1 DEF ReqsOK, FlightOK
  <2>5. ChanOK' /\ DeliverOK'
    BY Zenon, <1>1, <1>a, <1>b, SameChan, SameDeliver DEF ResultsOK
  <2> QED BY Zenon, <1>d, <2>2, <2>3, <2>4, <2>5 DEF ReqsOK, ResultsOK
<1>2. CASE inflight' = Without(Sent(c).id) /\ sending' = [sending EXCEPT ![c].pc = "fail"] /\ UNCHANGED wire
  <2>1. /\ DOMAIN inflight' = DOMAIN inflight \ {Sent(c).id}
        /\ \A id \in DOMAIN inflight' : inflight'[id] = inflight[id]
    BY <1>2, RestrictFacts DEF Without
  <2>2. WireOK'
    <3> SUFFICES ASSUME NEW q \in wire
                 PROVE  AskedFor(inflight[q.id], q)'
      BY Zenon, <1>2 DEF WireOK
    <3>1. inflight'[q.id] = inflight[q.id]
      BY Zenon, <1>c, <2>1 DEF OneId
    <3>2. PICK d : d = inflight[q.id]
      BY Zenon
    <3>3. AskedFor(d, q)'
      BY Zenon, <1>b, <3>2 DEF ReqsOK, WireOK
    <3> QED BY Zenon, <3>1, <3>2, <3>3
  <2>3. SendOK'
    <3>1. PICK row : row = [sending[c] EXCEPT !.pc = "fail"]
      BY Zenon
    <3>2. row.pc = "fail"
      BY <3>1 DEF ConnTypes
    <3>3. sending' = [sending EXCEPT ![c] = row]
      BY Zenon, <1>2, <3>1
    <3>4. \A d \in Callers : sending'[d].pc = "send" => sending'[d] = sending[d]
      BY Zenon, <3>2, <3>3 DEF ConnTypes
    <3> QED BY Zenon, <1>b, <3>4 DEF ReqsOK, SendOK
  <2>4. FlightOK'
    BY Zenon, <2>1 DEF ReqsOK, FlightOK
  <2>5. ChanOK' /\ DeliverOK'
    BY Zenon, <1>a, <1>b, <2>1, SameChan, SameDeliver DEF ResultsOK
  <2> QED BY Zenon, <1>d, <2>2, <2>3, <2>4, <2>5 DEF ReqsOK, ResultsOK
<1> QED BY <1>1, <1>2, Zenon DEF Send, Sent

\* Requests stay what they are when no id is given out or forgotten.

LEMMA SameReqs ==
  ASSUME ReqsOK, UNCHANGED <<xfer, wire, inflight>>,
         \A d \in Callers : sending'[d].pc = "send" => sending'[d] = sending[d]
  PROVE  ReqsOK'
<1>1. \A d, q : AskedFor(d, q) => AskedFor(d, q)'
  BY Zenon DEF AskedFor
<1>2. WireOK' /\ SendOK'
  BY Zenon, <1>1 DEF ReqsOK, WireOK, SendOK
<1>3. FlightOK' /\ RangesOK'
  BY Zenon DEF ReqsOK, FlightOK, RangesOK, InRange
<1> QED BY Zenon, <1>2, <1>3 DEF ReqsOK

LEMMA SendFailedResults ==
  ASSUME ConnOK, OpTypes, ReqsOK, ResultsOK, NEW c \in Callers, SendFailed(c), UNCHANGED <<xfer, call, file>>
  PROVE  ReqsOK' /\ ResultsOK'
<1> USE DEF ConnOK
<1>a. /\ UNCHANGED <<nextid, inflight, wire, open, recv, ended>>
      /\ Push(c, Failed("send")) /\ sending' = [sending EXCEPT ![c] = NoDispatch]
  BY Zenon DEF SendFailed
<1>1. ReqsOK'
  <2>1. \A d \in Callers : sending'[d].pc = "send" => sending'[d] = sending[d]
    BY Zenon, <1>a DEF ConnTypes, NoDispatch
  <2> QED BY Zenon, <1>a, <2>1, SameReqs
<1>2. EndOK' /\ FileOK'
  BY <1>a, Zenon DEF ResultsOK, EndOK, FileOK
<1>r. PICK r : r = Failed("send")
  BY Zenon
<1>3. r \in ResultSet /\ r = Failed("send") /\ r.id = 0 /\ ConnError(r)
  BY Zenon, <1>r DEF Failed, ResultSet, Errs, ConnError
<1>b. ch' \in [Callers -> Seq(ResultSet)] /\ ch'[c] = Append(ch[c], r) /\ \A d \in Callers \ {c} : ch'[d] = ch[d]
  BY Zenon, <1>a, <1>3, PushFacts
<1>4. CASE c # F
  <2>1. ch'[F] = ch[F] /\ Grows
    BY Zenon, <1>b, <1>4, FileIsCaller DEF Grows
  <2>2. ChanOK' /\ DeliverOK'
    BY Zenon, <1>a, <2>1, SameChan, SameDeliver DEF ResultsOK
  <2> QED BY Zenon, <1>1, <1>2, <2>2 DEF ResultsOK
<1>5. CASE c = F
  <2>1. ch'[F] = Append(ch[F], r)
    BY Zenon, <1>b, <1>5
  <2>2. ChanOK'
    BY Zenon, <1>a, <1>3, <2>1, PushedChan DEF ResultsOK
  <2>3. DeliverOK'
    <3> SUFFICES ASSUME recv.pc = "deliver", recv.to[recv.res.id] = F
                 PROVE  /\ Answer(recv.res)' /\ recv.res.id \notin DOMAIN inflight'
                        /\ \A j \in 1..Len(ch'[F]) : ch'[F][j].id # recv.res.id
      BY Zenon, <1>a DEF ResultsOK, DeliverOK
    <3>1. PICK x : x = recv.res
      BY Zenon
    <3>2. Answer(x) /\ x.id \notin DOMAIN inflight /\ \A j \in 1..Len(ch[F]) : ch[F][j].id # x.id
      BY Zenon, <3>1 DEF ResultsOK, DeliverOK
    <3>3. x.id # 0
      BY <3>2 DEF Answer, OpTypes, Remembered
    <3>4. Answer(x)'
      BY <3>2, Zenon DEF Answer, Written
    <3>5. \A j \in 1..Len(ch'[F]) : ch'[F][j].id # x.id
      <4>1. PICK s \in Seq(ResultSet) : s = ch[F]
        BY Zenon, FileIsCaller DEF ConnTypes
      <4>2. \A j \in 1..Len(Append(s, r)) : Append(s, r)[j] = r \/ (j \in 1..Len(s) /\ Append(s, r)[j] = s[j])
        OBVIOUS
      <4> QED BY <1>3, <2>1, <3>2, <3>3, <4>1, <4>2
    <3> QED BY Zenon, <1>a, <3>1, <3>2, <3>4, <3>5
  <2> QED BY Zenon, <1>1, <1>2, <2>2, <2>3 DEF ResultsOK
<1> QED BY Zenon, <1>4, <1>5

\* After the stream has ended nothing is being delivered.

LEMMA LoopResults ==
  ASSUME ConnOK, OpTypes, ReqsOK, ResultsOK, Loop, UNCHANGED <<xfer, call, file>>
  PROVE  ReqsOK' /\ ResultsOK'
<1> USE DEF ConnOK
<1>a. UNCHANGED <<nextid, inflight, wire, sending, ended>>
  BY Zenon DEF Loop, Deliver, CloseConn, Listeners, Broadcast, Closed
<1>b. ReqsOK'
  BY Zenon, <1>a, SameReqs
<1>c. FileOK' /\ Grows
  BY Zenon DEF ResultsOK, FileOK, Grows
<1>1. CASE Deliver
  <2>1. PICK id \in DOMAIN recv.to : Push(recv.to[id], recv.res) /\ recv.pc = "deliver" /\ recv' = Reading
    BY Zenon, <1>1 DEF Deliver, Hand
  <2>2. recv.res \in ResultSet /\ recv.to[id] \in Callers /\ id = recv.res.id
    BY Zenon, <2>1 DEF ConnTypes, ResultsOK, DeliverOK
  <2>3. recv'.pc = "recv"
    BY Zenon, <2>1 DEF Reading
  <2>4. DeliverOK' /\ EndOK'
    BY <1>a, <2>1, <2>3, Zenon DEF DeliverOK, ResultsOK, EndOK
  <2>5. /\ ch'[recv.to[id]] = Append(ch[recv.to[id]], recv.res)
        /\ \A d \in Callers \ {recv.to[id]} : ch'[d] = ch[d]
    BY Zenon, <2>1, <2>2, PushFacts
  <2>6. ChanOK'
    <3>1. CASE recv.to[id] = F
      <4>1. /\ Answer(recv.res) /\ recv.res.id \notin DOMAIN inflight
            /\ \A j \in 1..Len(ch[F]) : ch[F][j].id # recv.res.id
        BY Zenon, <2>1, <2>2, <3>1 DEF ResultsOK, DeliverOK
      <4> QED BY Zenon, <1>a, <2>2, <2>5, <3>1, <4>1, PushedChan DEF ResultsOK
    <3>2. CASE recv.to[id] # F
      BY Zenon, <1>a, <1>c, <2>5, <3>2, SameChan, FileIsCaller DEF ResultsOK
    <3> QED BY Zenon, <3>1, <3>2
  <2> QED BY Zenon, <1>b, <1>c, <2>4, <2>6 DEF ResultsOK
<1>2. CASE CloseConn \/ Listeners \/ Closed
  <2>1. UNCHANGED ch
    BY Zenon, <1>2 DEF CloseConn, Listeners, Closed
  <2>2. ChanOK'
    BY Zenon, <1>a, <1>c, <2>1, SameChan DEF ResultsOK
  <2>3. /\ recv.pc \in {"close", "listeners", "broadcast"}
        /\ recv'.pc \in {"listeners", "broadcast", "closed"} /\ (recv'.pc = "broadcast" => recv'.res = Failed(ended))
    BY <1>2 DEF CloseConn, Listeners, Closed, ConnTypes
  <2>4. DeliverOK' /\ EndOK'
    BY Zenon, <1>a, <2>3 DEF DeliverOK, ResultsOK, EndOK, Failed
  <2> QED BY Zenon, <1>b, <1>c, <2>2, <2>4 DEF ResultsOK
<1>3. CASE Broadcast
  <2>1. PICK id \in DOMAIN recv.to :
          /\ Push(recv.to[id], recv.res) /\ recv.pc = "broadcast"
          /\ recv' = [recv EXCEPT !.to = Restrict(@, DOMAIN @ \ {id})]
    BY Zenon, <1>3 DEF Broadcast, Hand
  <2>2. recv.res \in ResultSet /\ recv.to[id] \in Callers /\ recv.res = Failed(ended) /\ ended # "nil"
    BY Zenon, <2>1 DEF ConnTypes, ResultsOK, EndOK
  <2>3. ConnError(recv.res)
    BY <2>2 DEF ConnError, Failed
  <2>4. recv'.pc = "broadcast" /\ recv'.res = recv.res
    BY Zenon, <2>1 DEF ConnTypes
  <2>5. DeliverOK' /\ EndOK'
    BY Zenon, <1>a, <2>2, <2>4 DEF DeliverOK, EndOK, Failed
  <2>6. /\ ch'[recv.to[id]] = Append(ch[recv.to[id]], recv.res)
        /\ \A d \in Callers \ {recv.to[id]} : ch'[d] = ch[d]
    BY ZenonT(60), <2>1, <2>2, PushFacts
  <2>7. ChanOK'
    <3>1. CASE recv.to[id] = F
      BY Zenon, <1>a, <2>2, <2>3, <2>6, <3>1, PushedChan DEF ResultsOK
    <3>2. CASE recv.to[id] # F
      BY Zenon, <1>a, <1>c, <2>6, <3>2, SameChan, FileIsCaller DEF ResultsOK
    <3> QED BY Zenon, <3>1, <3>2
  <2> QED BY Zenon, <1>b, <1>c, <2>5, <2>7 DEF ResultsOK
<1> QED BY Zenon, <1>1, <1>2, <1>3 DEF Loop

LEMMA RecvErrorResults ==
  ASSUME ConnOK, OpTypes, ReqsOK, ResultsOK, NEW err \in {"EOF", "reset"}, RecvError(err),
         UNCHANGED <<xfer, call, file>>
  PROVE  ReqsOK' /\ ResultsOK'
<1> USE DEF ConnOK
<1>a. UNCHANGED <<nextid, inflight, wire, sending, ch>> /\ ended' = err /\ recv'.pc = "close"
  BY Zenon DEF RecvError, ConnTypes
<1>b. ended = "nil" /\ Grows
  BY Zenon DEF RecvError, ResultsOK, EndOK, Grows
<1>1. ReqsOK'
  BY Zenon, <1>a, SameReqs
<1>2. ChanOK'
  BY Zenon, <1>a, <1>b, SameChan DEF ResultsOK
<1>3. DeliverOK' /\ EndOK' /\ FileOK'
  BY <1>a, Zenon DEF ResultsOK, DeliverOK, EndOK, FileOK
<1> QED BY Zenon, <1>1, <1>2, <1>3 DEF ResultsOK

LEMMA WriteGrows ==
  ASSUME NEW q \in ReqSet,
         file' = Over(file, [o \in q.off..q.off + q.len - 1 |-> Source(o)])
  PROVE  Grows /\ Written(q.off, q.off + q.len)'
BY DEF Grows, Over, Written, ReqSet

LEMMA ReadAnswer ==
  ASSUME ConnTypes, OpTypes, ResultsOK, UNCHANGED <<xfer, file>>, NEW q \in ReqSet, AskedFor(F, q),
         xfer.kind \in Reads, q.off < FileSize, InRange(xfer.reqs[q.id]), NEW n \in Lengths(q), NEW r,
         r = [typ |-> "data", id |-> q.id, data |-> Bytes(file, q.off, q.off + n)]
  PROVE  r \in ResultSet /\ Answer(r)'
<1>a. q.off \in Nat /\ q.len \in Nat /\ q.id \in Nat /\ FileSize \in Nat
  BY Zenon, FileAssumptions DEF ReqSet
<1>b. /\ q.id \in DOMAIN xfer.reqs /\ xfer.reqs[q.id].off = q.off /\ xfer.reqs[q.id].len = q.len
      /\ q.len > 0
  BY Zenon DEF AskedFor, InRange
<1>c. file = [o \in 0..FileSize - 1 |-> Stored(o)]
  BY Zenon DEF ResultsOK, FileOK
<1>1. /\ n \in 1..min(q.len, FileSize - q.off)
      /\ xfer.kind = "WriteTo" => n = min(q.len, FileSize - q.off)
  BY <1>a, <1>b DEF Lengths, min, Reads
<1>2. n \in Nat /\ n > 0 /\ q.off + n <= FileSize
  BY <1>1, <1>a DEF min
<1>3. PICK d : d = Bytes(file, q.off, q.off + n)
  BY Zenon
<1>4. d = [i \in 1..n |-> file[q.off + i - 1]]
  BY <1>3, <1>a, <1>2 DEF Bytes
<1>5. \A i \in 1..n : file[q.off + i - 1] = Stored(q.off + i - 1) /\ Stored(q.off + i - 1) \in Nat
  BY SMTT(60), <1>a, <1>c, <1>2 DEF Stored
<1>6. d \in Seq(Nat) /\ Len(d) = n /\ \A i \in 1..n : d[i] = Stored(q.off + i - 1)
  <2>1. \A i \in 1..n : d[i] = Stored(q.off + i - 1) /\ d[i] \in Nat
    BY Zenon, <1>4, <1>5
  <2>2. d = [i \in 1..n |-> d[i]]
    BY Zenon, <1>4
  <2>3. n \in Nat /\ \A i \in 1..n : d[i] \in Nat
    BY Zenon, <1>2, <2>1
  <2>4. d \in Seq(Nat) /\ Len(d) = n
    BY ONLY <2>2, <2>3
  <2> QED BY Zenon, <2>1, <2>4
<1>7. r.typ = "data" /\ r.id = q.id /\ r.data = d /\ r \in ResultSet
  BY Zenon, <1>a, <1>3, <1>6 DEF ResultSet
<1>8. Answer(r)
  BY Zenon, <1>1, <1>6, <1>7, <1>b DEF Answer
<1> QED BY <1>7, <1>8, Zenon DEF Answer, Written

LEMMA StatusAnswer ==
  ASSUME UNCHANGED xfer, NEW q \in ReqSet, NEW e \in Errs, NEW r, r = Status(q, e),
         AskedFor(F, q),
         \/ e = "failure"
         \/ e = "EOF" /\ q.typ = "read" /\ q.off >= FileSize
         \/ e = "nil" /\ q.typ = "write" /\ Written(q.off, q.off + q.len)'
  PROVE  Answer(r)'
<1>a. r.typ = "status" /\ r.id = q.id /\ r.err = e
  BY Zenon DEF Status
<1>b. /\ q.id \in DOMAIN xfer'.reqs /\ xfer'.reqs[q.id].off = q.off /\ xfer'.reqs[q.id].len = q.len
      /\ q.typ = IF xfer'.kind \in Reads THEN "read" ELSE "write"
  BY Zenon DEF AskedFor
<1>1. CASE xfer'.kind \in Reads
  BY Zenon, <1>a, <1>b, <1>1 DEF Answer
<1>2. CASE xfer'.kind \notin Reads
  BY Zenon, <1>a, <1>b, <1>2 DEF Answer
<1> QED BY Zenon, <1>1, <1>2

\* A result of the server, and what it means.

LEMMA ServeAnswers ==
  ASSUME ConnOK, OpTypes, ReqsOK, ResultsOK, Serve
  PROVE  \E q \in wire, r \in ResultSet :
           /\ RecvPacket(q, r) /\ r.id = q.id /\ Grows /\ FileOK'
           /\ inflight[q.id] = F => Answer(r)'
<1> USE DEF ConnOK
<1>a. PICK q \in wire :
        \/ /\ \E r \in Responses(q) : RecvPacket(q, r)
           /\ file' = IF q.typ = "write"
                      THEN Over(file, [o \in q.off..q.off + q.len - 1 |-> Source(o)])
                      ELSE file
        \/ RecvPacket(q, Status(q, "failure")) /\ UNCHANGED file
  BY Zenon DEF Serve
<1>b. UNCHANGED xfer
  BY Zenon DEF Serve
<1>c. q \in ReqSet /\ AskedFor(inflight[q.id], q)
  BY Zenon DEF ConnTypes, ReqsOK, WireOK
<1>d. \A e \in Errs : Status(q, e) \in ResultSet /\ Status(q, e).id = q.id
  BY Zenon, <1>c DEF Status, ResultSet, ReqSet
<1>e. UNCHANGED file => Grows /\ FileOK'
  BY <1>b, Zenon DEF Grows, ResultsOK, FileOK
<1>1. CASE RecvPacket(q, Status(q, "failure")) /\ UNCHANGED file
  <2>1. inflight[q.id] = F => Answer(Status(q, "failure"))'
    <3>1. PICK r : r = Status(q, "failure")
      BY Zenon
    <3>2. inflight[q.id] = F => Answer(r)'
      BY Zenon, <1>b, <1>c, <3>1, StatusAnswer DEF Errs
    <3> QED BY Zenon, <3>1, <3>2 DEF Status
  <2> QED BY Zenon, <1>1, <1>d, <1>e, <2>1 DEF Errs
<1>2. ASSUME NEW r \in Responses(q), RecvPacket(q, r),
             file' = IF q.typ = "write"
                     THEN Over(file, [o \in q.off..q.off + q.len - 1 |-> Source(o)])
                     ELSE file
      PROVE  r \in ResultSet /\ r.id = q.id /\ Grows /\ FileOK' /\ (inflight[q.id] = F => Answer(r)')
  <2>1. CASE q.typ = "read" /\ q.off < FileSize
    <3>1. UNCHANGED file /\ inflight[q.id] = F /\ AskedFor(F, q) /\ xfer.kind \in Reads
      BY Zenon, <1>2, <1>c, <2>1 DEF AskedFor
    <3>2. InRange(xfer.reqs[q.id])
      BY Zenon, <3>1 DEF AskedFor, ReqsOK, RangesOK
    <3>3. PICK n \in Lengths(q) : r = [typ |-> "data", id |-> q.id, data |-> Bytes(file, q.off, q.off + n)]
      <4>1. ~(q.off >= FileSize)
        BY <1>c, <2>1, FileAssumptions DEF ReqSet
      <4>2. Responses(q) = {[typ |-> "data", id |-> q.id, data |-> Bytes(file, q.off, q.off + n)] :
                              n \in Lengths(q)}
        BY <2>1, <4>1, Zenon DEF Responses
      <4> QED BY <1>2, <4>2, Zenon
    <3>4. r \in ResultSet /\ Answer(r)'
      BY Zenon, <1>b, <1>c, <2>1, <3>1, <3>2, <3>3, ReadAnswer
    <3> QED BY Zenon, <1>e, <3>1, <3>3, <3>4
  <2>2. CASE q.typ = "read" /\ ~(q.off < FileSize)
    <3>1. UNCHANGED file
      BY Zenon, <1>2, <2>2
    <3>2. q.off >= FileSize
      BY <1>c, <2>2, FileAssumptions DEF ReqSet
    <3>3. r = Status(q, "EOF")
      BY Zenon, <1>2, <2>2, <3>2 DEF Responses
    <3>4. inflight[q.id] = F => Answer(r)'
      BY Zenon, <1>b, <1>c, <2>2, <3>2, <3>3, StatusAnswer DEF Errs
    <3> QED BY Zenon, <1>d, <1>e, <3>1, <3>3, <3>4 DEF Errs
  <2>3. CASE q.typ = "write"
    <3>1. r = Status(q, "nil")
      BY Zenon, <1>2, <2>3 DEF Responses
    <3>2. Grows /\ Written(q.off, q.off + q.len)'
      BY Zenon, <1>2, <1>c, <2>3, WriteGrows
    <3>3. inflight[q.id] = F => Answer(r)'
      BY Zenon, <1>b, <1>c, <2>3, <3>1, <3>2, StatusAnswer DEF Errs
    <3>4. FileOK'
      BY Zenon, <1>b, <1>c, <2>3 DEF FileOK, AskedFor
    <3> QED BY Zenon, <1>d, <3>1, <3>2, <3>3, <3>4 DEF Errs
  <2>4. CASE q.typ = "other"
    <3>1. r = Status(q, "nil")
      BY Zenon, <1>2, <2>4 DEF Responses
    <3>2. inflight[q.id] # F /\ UNCHANGED file
      BY Zenon, <1>2, <1>c, <2>4 DEF AskedFor
    <3> QED BY Zenon, <1>d, <1>e, <3>1, <3>2 DEF Errs
  <2> QED BY Zenon, <1>c, <2>1, <2>2, <2>3, <2>4 DEF ReqSet
<1> QED BY Zenon, <1>a, <1>1, <1>2

LEMMA ServeResults ==
  ASSUME ConnOK, OpTypes, ReqsOK, ResultsOK, Serve
  PROVE  ReqsOK' /\ ResultsOK'
<1> USE DEF ConnOK
<1>a. PICK q \in wire, r \in ResultSet :
        /\ RecvPacket(q, r) /\ r.id = q.id /\ Grows /\ FileOK'
        /\ inflight[q.id] = F => Answer(r)'
  BY Zenon, ServeAnswers
<1>b. /\ recv.pc = "recv" /\ q.id \in DOMAIN inflight /\ wire' = wire \ {q} /\ inflight' = Without(q.id)
      /\ recv' = [pc |-> "deliver", to |-> Restrict(inflight, {q.id}), res |-> r]
      /\ UNCHANGED <<nextid, ch, sending, ended, xfer>>
  BY Zenon, <1>a DEF RecvPacket, Serve
<1>c. /\ DOMAIN inflight' = DOMAIN inflight \ {q.id}
      /\ \A id \in DOMAIN inflight' : inflight'[id] = inflight[id]
  BY <1>b, RestrictFacts DEF Without
<1>d. \A d, p : AskedFor(d, p) => AskedFor(d, p)'
  BY <1>b, Zenon DEF AskedFor
<1>1. WireOK'
  <2> SUFFICES ASSUME NEW p \in wire, p # q
               PROVE  AskedFor(inflight[p.id], p)'
    BY Zenon, <1>b DEF WireOK
  <2>1. inflight'[p.id] = inflight[p.id]
    BY ZenonT(60), <1>c DEF OneId
  <2>2. PICK d : d = inflight[p.id]
    BY Zenon
  <2>3. AskedFor(d, p)'
    BY Zenon, <1>d, <2>2 DEF ReqsOK, WireOK
  <2> QED BY Zenon, <2>1, <2>2, <2>3
<1>2. SendOK' /\ RangesOK'
  BY Zenon, <1>b, <1>d DEF ReqsOK, SendOK, RangesOK, InRange
<1>3. FlightOK'
  BY Zenon, <1>b, <1>c DEF ReqsOK, FlightOK
<1>4. ChanOK'
  BY Zenon, <1>a, <1>b, <1>c, SameChan DEF ResultsOK
<1>5. recv'.pc = "deliver" /\ recv'.res = r /\ DOMAIN recv'.to = {q.id} /\ recv'.to[q.id] = inflight[q.id]
  BY <1>b, RestrictFacts
<1>6. \A j \in 1..Len(ch[F]) : ch[F][j].id # q.id
  <2> SUFFICES ASSUME NEW j \in 1..Len(ch[F])
               PROVE  ch[F][j].id # q.id
    BY Zenon
  <2>1. ch[F][j] \in ResultSet
    BY FileIsCaller DEF ConnTypes
  <2>2. q.id \in 1..nextid /\ nextid \in Nat
    BY Zenon, <1>b DEF ConnTypes
  <2>3. Held(j)
    BY Zenon DEF ResultsOK, ChanOK
  <2> QED BY <1>b, <2>1, <2>2, <2>3, ErrorId DEF Held
<1>7. DeliverOK'
  BY ZenonT(60), <1>a, <1>b, <1>c, <1>5, <1>6 DEF DeliverOK
<1>8. EndOK'
  BY Zenon, <1>b, <1>5 DEF ResultsOK, EndOK
<1> QED BY Zenon, <1>a, <1>1, <1>2, <1>3, <1>4, <1>7, <1>8 DEF ReqsOK, ResultsOK

LEMMA SameTypes ==
  ASSUME OpTypes, UNCHANGED <<nextid, xfer, call, dropped>>, Fault \/ UNCHANGED faults,
         sending'[C].pc = "none" \/ sending[C].pc # "none"
  PROVE  OpTypes'
<1>1. faults' \in 0..MaxFaults
  BY Zenon, FaultCounts
<1> QED BY <1>1, Zenon DEF OpTypes

LEMMA ConnStepBasics ==
  ASSUME Basics, ConnStep
  PROVE  Known'
<1> USE DEF Basics, Known
<1>a. UNCHANGED <<file, xfer, call, dropped>>
  BY Zenon DEF ConnStep
<1>1. CASE Loop
  <2>2. UNCHANGED <<nextid, sending, faults>>
    BY Zenon, <1>1 DEF Loop, Deliver, CloseConn, Listeners, Broadcast, Closed
  <2>3. OpTypes'
    BY Zenon, <1>a, <2>2, SameTypes
  <2> QED BY Zenon, <1>1, <1>a, <2>3, LoopResults
<1>2. ASSUME NEW c \in Callers, Send(c)
      PROVE  Known'
  <2>1. UNCHANGED nextid /\ (Fault \/ UNCHANGED faults)
    BY Zenon, <1>2 DEF Send
  <2>2. sending'[C].pc = "none" \/ sending[C].pc # "none"
    <3>1. sending[c].pc = "send" /\ (c = C \/ sending'[C] = sending[C])
      BY Zenon, <1>2, FileIsCaller DEF Send, ConnOK, ConnTypes
    <3> QED BY Zenon, <3>1
  <2>3. OpTypes'
    BY Zenon, <1>a, <2>1, <2>2, SameTypes
  <2> QED BY Zenon, <1>2, <1>a, <2>3, SendResults
<1>3. ASSUME NEW c \in Callers, SendFailed(c)
      PROVE  Known'
  <2>1. UNCHANGED <<nextid, faults>>
    BY Zenon, <1>3 DEF SendFailed
  <2>2. sending'[C].pc = "none" \/ sending[C].pc # "none"
    <3>1. sending[c].pc = "fail" /\ (c = C \/ sending'[C] = sending[C])
      BY Zenon, <1>3, FileIsCaller DEF SendFailed, ConnOK, ConnTypes
    <3> QED BY Zenon, <3>1
  <2>3. OpTypes'
    BY Zenon, <1>a, <2>1, <2>2, SameTypes
  <2> QED BY Zenon, <1>3, <1>a, <2>3, SendFailedResults
<1>4. ASSUME NEW err \in {"EOF", "reset"}, RecvError(err)
      PROVE  Known'
  <2>1. UNCHANGED <<nextid, sending>> /\ Fault
    BY Zenon, <1>4 DEF RecvError
  <2>2. OpTypes'
    BY Zenon, <1>a, <2>1, SameTypes
  <2> QED BY Zenon, <1>4, <1>a, <2>2, RecvErrorResults
<1> QED BY Zenon, <1>1, <1>2, <1>3, <1>4 DEF ConnStep

LEMMA ServeBasics ==
  ASSUME Basics, Serve
  PROVE  Known'
<1> USE DEF Basics, Known
<1>1. PICK q \in wire, r \in ResultSet : RecvPacket(q, r)
  BY Zenon, ServeAnswers
<1>2. UNCHANGED <<xfer, call, dropped>> /\ (Fault \/ UNCHANGED faults)
  BY Zenon DEF Serve
<1>3. UNCHANGED <<nextid, sending>>
  BY Zenon, <1>1 DEF RecvPacket
<1>4. OpTypes'
  BY Zenon, <1>2, <1>3, SameTypes
<1> QED BY Zenon, <1>4, ServeResults

LEMMA CallSendBasics ==
  ASSUME Basics, CallSend
  PROVE  Known'
<1> USE DEF Basics, Known
<1>a. /\ UNCHANGED <<wire, open, ch, recv, ended, file, xfer, dropped, faults>>
      /\ call = "idle" /\ call' = "wait" /\ sending[C].pc = "none"
  BY Zenon DEF CallSend, OpTypes
<1>b. PICK q \in ReqSet : Dispatch(C, q) /\ q.typ = "other"
  BY DEF CallSend, ReqSet
<1>c. nextid \in Nat /\ nextid' = nextid + 1 /\ inflight' = Put(inflight, nextid + 1, C)
  BY Zenon, <1>b DEF ConnOK, ConnTypes, Dispatch, nextID
<1>2. OpTypes'
  <2>1. Remembered(xfer.reqs, nextid + 1)
    BY <1>c DEF OpTypes, Remembered
  <2> QED BY Zenon, <1>a, <1>c, <2>1 DEF OpTypes
<1>d. /\ \A id \in DOMAIN inflight : id \in DOMAIN inflight' /\ inflight'[id] = inflight[id]
      /\ \A id \in DOMAIN inflight' : id \in DOMAIN inflight \/ (id = nextid + 1 /\ inflight'[id] = C)
  BY <1>c DEF Put, ConnOK, ConnTypes
<1>e. \A d, p : AskedFor(d, p) => AskedFor(d, p)'
  BY <1>a, Zenon DEF AskedFor
<1>3. WireOK'
  <2> SUFFICES ASSUME NEW p \in wire
               PROVE  AskedFor(inflight[p.id], p)'
    BY Zenon, <1>a DEF WireOK
  <2>1. inflight'[p.id] = inflight[p.id]
    BY Zenon, <1>d DEF ConnOK, OneId
  <2>2. PICK d : d = inflight[p.id]
    BY Zenon
  <2>3. AskedFor(d, p)'
    BY Zenon, <1>e, <2>2 DEF ReqsOK, WireOK
  <2> QED BY Zenon, <2>1, <2>2, <2>3
<1>4. SendOK'
  <2> SUFFICES ASSUME NEW c \in Callers, sending'[c].pc = "send"
               PROVE  AskedFor(c, sending[c].req)'
    BY Zenon DEF SendOK
  <2>1. CASE c # C
    <3>1. sending'[c] = sending[c]
      BY Zenon, <1>b, <2>1 DEF Dispatch, ConnOK, ConnTypes
    <3> QED BY Zenon, <1>e, <3>1 DEF ReqsOK, SendOK
  <2>2. CASE c = C
    <3>1. PICK row : row = [q EXCEPT !.id = nextid + 1]
      BY Zenon
    <3>2. sending' = [sending EXCEPT ![C] = [pc |-> "send", req |-> row]]
      BY <1>b, <3>1, Zenon DEF Dispatch, nextID
    <3>3. sending'[c].req = row
      BY Zenon, <2>2, <3>2 DEF ConnOK, ConnTypes
    <3>4. row.typ = "other"
      BY <1>b, <1>c, <3>1, WithId
    <3> QED BY Zenon, <2>2, <3>3, <3>4, FileIsCaller DEF AskedFor
  <2> QED BY Zenon, <2>1, <2>2
<1>5. FlightOK' /\ RangesOK'
  BY Zenon, <1>a, <1>d, FileIsCaller DEF ReqsOK, FlightOK, RangesOK, InRange
<1>6. ResultsOK'
  <2>1. \A id \in DOMAIN xfer.reqs : id \notin DOMAIN inflight => id \notin DOMAIN inflight'
    BY <1>c, <1>d DEF OpTypes, Remembered
  <2>2. Grows
    BY Zenon, <1>a DEF Grows
  <2>3. ChanOK' /\ DeliverOK'
    BY Zenon, <1>a, <2>1, <2>2, SameChan, SameDeliver DEF ResultsOK
  <2>4. EndOK' /\ FileOK'
    BY <1>a, Zenon DEF ResultsOK, EndOK, FileOK
  <2> QED BY Zenon, <2>3, <2>4 DEF ResultsOK
<1> QED BY Zenon, <1>2, <1>3, <1>4, <1>5, <1>6 DEF ReqsOK

LEMMA CallReturnsBasics ==
  ASSUME Basics, CallReturns
  PROVE  Known'
<1> USE DEF Basics, Known
<1>a. /\ UNCHANGED <<nextid, inflight, wire, open, sending, recv, ended, file, xfer, dropped, faults>>
      /\ call = "wait" /\ call' = "done" /\ ch[C] # <<>> /\ ch' = [ch EXCEPT ![C] = Tail(@)]
  BY Zenon DEF CallReturns
<1>2. OpTypes'
  BY <1>a, Zenon DEF OpTypes
<1>3. ReqsOK'
  BY Zenon, <1>a, SameReqs
<1>4. ResultsOK'
  <2>1. ch'[F] = ch[F] /\ Grows
    BY Zenon, <1>a, FileIsCaller DEF ConnOK, ConnTypes, Grows
  <2>2. ChanOK' /\ DeliverOK'
    BY Zenon, <1>a, <2>1, SameChan, SameDeliver DEF ResultsOK
  <2>3. EndOK' /\ FileOK'
    BY <1>a, Zenon DEF ResultsOK, EndOK, FileOK
  <2> QED BY Zenon, <2>2, <2>3 DEF ResultsOK
<1> QED BY Zenon, <1>2, <1>3, <1>4

\* A request of the transfer that is not one it has asked before.

LEMMA AskBasics ==
  ASSUME Basics, OpTypes', UNCHANGED <<sendRest, ch>>, sending[F].pc = "none",
         xfer'.kind = xfer.kind, xfer'.start = xfer.start, xfer.next <= xfer'.next,
         xfer'.n = xfer.n + 1, NEW off \in Nat, NEW len \in Nat, NEW typ,
         xfer'.reqs = Put(xfer.reqs, nextid + 1, [off |-> off, len |-> len]),
         Dispatch(F, [id |-> 0, typ |-> typ, off |-> off, len |-> len]),
         typ = IF xfer.kind \in Reads THEN "read" ELSE "write",
         xfer.start <= off, off + len <= xfer'.next, xfer.kind \in Reads => len > 0,
         xfer.kind = "WriteTo" => len = MaxPacket
  PROVE  Known'
<1> USE DEF Basics, Known
<1>a. UNCHANGED <<wire, open, recv, ended, file, call, ch>>
  BY Zenon DEF sendRest
<1>b. PICK q \in ReqSet : q = [id |-> 0, typ |-> typ, off |-> off, len |-> len]
  BY Zenon DEF ReqSet
<1>c. Dispatch(F, q) /\ q.typ = typ /\ q.off = off /\ q.len = len
  BY Zenon, <1>b
<1>d. ch' \in [Callers -> Seq(ResultSet)] /\ Len(ch'[F]) \in Nat /\ Len(ch'[F]) = Len(ch[F])
  BY <1>a, FileIsCaller DEF ConnOK, ConnTypes
<1>e. PICK r \in [off : Nat, len : Nat] : r = [off |-> off, len |-> len]
  BY Zenon
<1>f. /\ DOMAIN xfer'.reqs = DOMAIN xfer.reqs \cup {nextid + 1} /\ xfer'.reqs[nextid + 1] = r
      /\ \A id \in DOMAIN xfer.reqs : xfer'.reqs[id] = xfer.reqs[id]
  <2>1. xfer'.reqs = Put(xfer.reqs, nextid + 1, r) /\ nextid \in Nat /\ Remembered(xfer.reqs, nextid)
    BY Zenon, <1>e DEF ConnOK, ConnTypes, OpTypes
  <2>2. /\ DOMAIN Put(xfer.reqs, nextid + 1, r) = DOMAIN xfer.reqs \cup {nextid + 1}
        /\ Put(xfer.reqs, nextid + 1, r)[nextid + 1] = r
        /\ \A id \in DOMAIN xfer.reqs : Put(xfer.reqs, nextid + 1, r)[id] = xfer.reqs[id]
    <3>1. nextid + 1 \notin DOMAIN xfer.reqs
      BY <2>1 DEF Remembered
    <3> QED BY <3>1, Zenon DEF Put
  <2> QED BY Zenon, <2>1, <2>2
<1>2. InRange(r)'
  BY Zenon, <1>e DEF InRange
<1>3. ReqsOK' /\ ResultsOK'
  <2>1. Len(ch'[F]) = Len(ch[F]) - 0 /\ \A i \in 1..Len(ch'[F]) : ch'[F][i] = ch[F][i + 0]
    BY <1>a, <1>d
  <2>2. PICK gone : gone = 0
    BY Zenon
  <2>3. gone = IF 0 = 0 THEN 0 ELSE ch[F][1].id
    BY Zenon, <2>2
  <2>4. \A id \in DOMAIN xfer.reqs \ {gone} : id \in DOMAIN xfer'.reqs /\ xfer'.reqs[id] = xfer.reqs[id]
    BY Zenon, <1>f
  <2>5. \A id \in DOMAIN xfer'.reqs :
          (id \in DOMAIN xfer.reqs /\ xfer'.reqs[id] = xfer.reqs[id]) \/ InRange(xfer.reqs[id])'
    BY Zenon, <1>f, <1>2
  <2>6. /\ Dispatch(F, q) /\ q.typ = IF xfer.kind \in Reads THEN "read" ELSE "write"
        /\ nextid + 1 \in DOMAIN xfer'.reqs
        /\ xfer'.reqs[nextid + 1].off = q.off /\ xfer'.reqs[nextid + 1].len = q.len
    BY <1>c, <1>e, <1>f
  <2>7. xfer'.next \in Nat /\ 0 \in {0, 1}
    BY Zenon DEF OpTypes, Shape
  <2> QED BY ZenonT(60), <1>a, <1>d, <2>1, <2>3, <2>4, <2>5, <2>6, <2>7, StepKeepsResults
<1> QED BY Zenon, <1>3

LEMMA SendsBasics ==
  ASSUME Counting, Basics, ReadAtSends \/ WriteSends \/ WriteToSends \/ ReadFromSends
  PROVE  Known'
<1>a. OpTypes /\ ConnTypes /\ OpTypes'
  BY Zenon, SendTypes DEF Basics, ConnOK
<1>b. UNCHANGED <<sendRest, ch>> /\ sending[F].pc = "none"
  BY Zenon DEF ReadAtSends, WriteSends, WriteToSends, ReadFromSends, Running
<1>c. /\ xfer.next \in Nat /\ xfer.start \in Nat /\ xfer.start <= xfer.next
      /\ MaxPacket \in Nat /\ MaxPacket > 0
  BY <1>a, FileAssumptions DEF OpTypes, Shape
<1>d. Room
  BY Zenon DEF ReadAtSends, WriteSends, WriteToSends, ReadFromSends
<1>1. CASE ReadAtSends
  <2>1. xfer.kind = "ReadAt"
    BY Zenon, <1>1 DEF ReadAtSends, Running
  <2>2. Len1 \in Nat /\ Len1 > 0 /\ xfer.next < xfer.end /\ xfer.end \in Nat
    BY SMTT(60), <1>a, <1>c, <1>d, <2>1, RoomFacts, Len1Facts DEF OpTypes, Shape
  <2>3. "read" = (IF xfer.kind \in Reads THEN "read" ELSE "write") /\ xfer.kind # "WriteTo"
    BY Zenon, <2>1 DEF Reads
  <2>4. /\ xfer'.kind = xfer.kind /\ xfer'.start = xfer.start /\ xfer.next <= xfer'.next
        /\ xfer'.n = xfer.n + 1 /\ xfer.next + Len1 <= xfer'.next
        /\ xfer'.reqs = Put(xfer.reqs, nextid + 1, [off |-> xfer.next, len |-> Len1])
        /\ Dispatch(F, [id |-> 0, typ |-> "read", off |-> xfer.next, len |-> Len1])
    BY <1>1, <1>a, <1>c, <2>2, ReadAtSendsFields
  <2> HIDE <1>1
  <2> QED BY Zenon, <1>a, <1>b, <1>c, <2>2, <2>3, <2>4, AskBasics
<1>2. CASE WriteSends
  <2>1. xfer.kind = "Write"
    BY Zenon, <1>2 DEF WriteSends, Running
  <2>2. Len1 \in Nat
    BY Zenon, <1>a, <2>1, Len1Facts
  <2>3. /\ "write" = (IF xfer.kind \in Reads THEN "read" ELSE "write")
        /\ xfer.kind # "WriteTo" /\ xfer.kind \notin Reads
    BY Zenon, <2>1 DEF Reads
  <2>4. /\ xfer'.kind = xfer.kind /\ xfer'.start = xfer.start /\ xfer.next <= xfer'.next
        /\ xfer'.n = xfer.n + 1 /\ xfer.next + Len1 <= xfer'.next
        /\ xfer'.reqs = Put(xfer.reqs, nextid + 1, [off |-> xfer.next, len |-> Len1])
        /\ Dispatch(F, [id |-> 0, typ |-> "write", off |-> xfer.next, len |-> Len1])
    BY <1>2, <1>a, <1>c, <2>2, WriteSendsFields
  <2> QED BY Zenon, <1>a, <1>b, <1>c, <2>2, <2>3, <2>4, AskBasics
<1>3. CASE WriteToSends
  <2>1. xfer.kind = "WriteTo" /\ "read" = (IF xfer.kind \in Reads THEN "read" ELSE "write")
    BY Zenon, <1>3 DEF WriteToSends, Running, Reads
  <2>2. /\ xfer'.kind = xfer.kind /\ xfer'.start = xfer.start /\ xfer.next <= xfer'.next
        /\ xfer'.n = xfer.n + 1 /\ xfer.next + MaxPacket <= xfer'.next
        /\ xfer'.reqs = Put(xfer.reqs, nextid + 1, [off |-> xfer.next, len |-> MaxPacket])
        /\ Dispatch(F, [id |-> 0, typ |-> "read", off |-> xfer.next, len |-> MaxPacket])
    BY <1>3, <1>a, <1>c, WriteToSendsFields
  <2> QED BY Zenon, <1>a, <1>b, <1>c, <2>1, <2>2, AskBasics
<1>4. CASE ReadFromSends
  <2>1. xfer.kind = "ReadFrom"
    BY Zenon, <1>4 DEF ReadFromSends, Running
  <2>2. PICK len :
           /\ xfer'.kind = xfer.kind /\ xfer'.start = xfer.start
           /\ xfer'.n = xfer.n + 1 /\ xfer'.next = xfer.next + len
           /\ xfer'.reqs = Put(xfer.reqs, nextid + 1, [off |-> xfer.next, len |-> len])
           /\ Dispatch(F, [id |-> 0, typ |-> "write", off |-> xfer.next, len |-> len])
           /\ len = Len1 \/ len = 0
    BY <1>4, <1>a, ReadFromSendsFields, Zenon
  <2>3. len \in Nat
    BY <1>a, <2>1, <2>2, Len1Facts
  <2>4. /\ "write" = (IF xfer.kind \in Reads THEN "read" ELSE "write")
        /\ xfer.kind # "WriteTo" /\ xfer.kind \notin Reads
    BY Zenon, <2>1 DEF Reads
  <2>5. xfer.next <= xfer'.next /\ xfer.next + len <= xfer'.next
    BY <1>c, <2>2, <2>3
  <2> QED BY Zenon, <1>a, <1>b, <1>c, <2>2, <2>3, <2>4, <2>5, AskBasics
<1> QED BY Zenon, <1>1, <1>2, <1>3, <1>4

\* What is taken from the channel.

LEMMA TakeBasics ==
  ASSUME Basics, OpTypes', Receive, UNCHANGED <<nextid, inflight, sending>>,
         xfer'.kind = xfer.kind, xfer'.start = xfer.start, xfer'.next = xfer.next,
         xfer'.n = xfer.n - 1, xfer'.reqs = Rest
  PROVE  Known'
<1>a. UNCHANGED <<wire, open, recv, ended, file, call>> /\ ch[F] # <<>> /\ ch' = [ch EXCEPT ![F] = Tail(@)]
  BY Zenon DEF Receive, sendRest
<1>b. OpTypes /\ ConnOK /\ ReqsOK /\ ResultsOK
  BY Zenon DEF Basics
<1>2. ReqsOK' /\ ResultsOK'
  <2>1. /\ DOMAIN xfer'.reqs = DOMAIN xfer.reqs \ {res.id}
        /\ \A id \in DOMAIN xfer'.reqs : xfer'.reqs[id] = xfer.reqs[id]
    BY Zenon, <1>b, LessReqs
  <2>2. PICK gone : gone = res.id
    BY Zenon
  <2>3. gone = IF 1 = 0 THEN 0 ELSE ch[F][1].id
    BY <2>2, HeadFacts
  <2>4. \A id \in DOMAIN xfer.reqs \ {gone} : id \in DOMAIN xfer'.reqs /\ xfer'.reqs[id] = xfer.reqs[id]
    BY Zenon, <2>1, <2>2
  <2>5. \A id \in DOMAIN xfer'.reqs :
          (id \in DOMAIN xfer.reqs /\ xfer'.reqs[id] = xfer.reqs[id]) \/ InRange(xfer.reqs[id])'
    BY Zenon, <2>1
  <2>6. xfer'.next \in Nat /\ xfer.next <= xfer'.next /\ 1 \in {0, 1}
    BY SMTT(60), <1>b DEF OpTypes, Shape
  <2>7. /\ ch' \in [Callers -> Seq(ResultSet)] /\ Len(ch'[F]) = Len(ch[F]) - 1
        /\ \A i \in 1..Len(ch'[F]) : ch'[F][i] = ch[F][i + 1]
    BY Zenon, HeadFacts
  <2> QED BY Zenon, <1>a, <1>b, <2>3, <2>4, <2>5, <2>6, <2>7, StepKeepsResults
<1> QED BY Zenon, <1>2 DEF Known

LEMMA ResultErr ==
  ASSUME NEW r \in ResultSet, r.typ \in {"error", "status"}, NEW a \in Nat
  PROVE  <<a, r.err>> \in Nat \X (Errs \cup {"read", "write", "inconsistency"})
BY Zenon DEF ResultSet

LEMMA TakeErrorBasics ==
  ASSUME Basics, TakeError
  PROVE  Known'
<1>a. OpTypes /\ Receive /\ res.typ = "error" /\ UNCHANGED <<nextid, inflight, sending, dropped, faults, call>>
  BY Zenon DEF Basics, TakeError, Receive, sendRest
<1>b. res \in ResultSet /\ xfer.n > 0
  BY Zenon, <1>a, HeadFacts, TakenOne
<1>c. <<0, res.err>> \in Nat \X (Errs \cup {"read", "write", "inconsistency"})
  BY Zenon, <1>a, <1>b, ResultErr
<1>d. Shape(xfer) /\ xfer.want \in 1..MaxConcurrent /\ IsFiniteSet(DOMAIN xfer.got) /\ dropped' \in BOOLEAN
  BY <1>a, Zenon DEF OpTypes, Shape
<1>1. Shape(xfer')
  BY Zenon, <1>a, <1>b, <1>c, <1>d, TakeErrorFields, TakesShape
<1>2. OpTypes'
  BY Zenon, <1>a, <1>d, <1>1, TakeErrorFields, TakesTypes
<1> QED BY Zenon, <1>a, <1>2, TakeErrorFields, TakeBasics

LEMMA TakeReadStatusBasics ==
  ASSUME Basics, TakeReadStatus
  PROVE  Known'
<1>a. OpTypes /\ Receive /\ res.typ = "status" /\ UNCHANGED <<nextid, inflight, sending, dropped, faults, call>>
  BY Zenon DEF Basics, TakeReadStatus, Receive, sendRest
<1>b. res \in ResultSet /\ xfer.n > 0 /\ req.off \in Nat
  BY Zenon, <1>a, HeadFacts, TakenOne
<1>c. <<req.off, res.err>> \in Nat \X (Errs \cup {"read", "write", "inconsistency"})
  BY Zenon, <1>a, <1>b, ResultErr
<1>d. Shape(xfer) /\ xfer.want \in 1..MaxConcurrent /\ IsFiniteSet(DOMAIN xfer.got) /\ dropped' \in BOOLEAN
  BY <1>a, Zenon DEF OpTypes, Shape
<1>e. xfer'.err # <<>> => xfer'.err \in Nat \X (Errs \cup {"read", "write", "inconsistency"})
  BY <1>a, <1>c, <1>d, TakeReadStatusFields, Zenon DEF LowestErr, Shape
<1>1. Shape(xfer')
  BY Zenon, <1>a, <1>b, <1>d, <1>e, TakeReadStatusFields, TakesShape
<1>2. OpTypes'
  BY Zenon, <1>a, <1>d, <1>1, TakeReadStatusFields, TakesTypes
<1> QED BY Zenon, <1>a, <1>2, TakeReadStatusFields, TakeBasics

LEMMA TakeWriteStatusBasics ==
  ASSUME Basics, TakeWriteStatus
  PROVE  Known'
<1>a. /\ OpTypes /\ Receive /\ res.typ = "status" /\ UNCHANGED <<nextid, inflight, sending, faults, call>>
      /\ dropped' \in BOOLEAN
  BY Zenon DEF Basics, TakeWriteStatus, Receive, sendRest, OpTypes
<1>b. res \in ResultSet /\ xfer.n > 0
  BY Zenon, <1>a, HeadFacts, TakenOne
<1>c. <<0, res.err>> \in Nat \X (Errs \cup {"read", "write", "inconsistency"})
  BY Zenon, <1>a, <1>b, ResultErr
<1>d. Shape(xfer) /\ IsFiniteSet(DOMAIN xfer.got)
  BY <1>a, Zenon DEF OpTypes, Shape
<1>e. xfer'.err # <<>> => xfer'.err \in Nat \X (Errs \cup {"read", "write", "inconsistency"})
  BY <1>a, <1>c, <1>d, TakeWriteStatusFields, Zenon DEF Shape
<1>1. Shape(xfer')
  BY Zenon, <1>a, <1>b, <1>d, <1>e, TakeWriteStatusFields, TakesShape
<1>2. OpTypes'
  BY Zenon, <1>a, <1>1, TakeWriteStatusFields, TakesTypes
<1> QED BY Zenon, <1>a, <1>2, TakeWriteStatusFields, TakeBasics

\* The data in an answer.

LEMMA ReadAtTakesBasics ==
  ASSUME Counting, Basics, ReadAtTakes
  PROVE  Known'
<1>a. /\ OpTypes /\ ConnTypes /\ Receive /\ res.typ = "data" /\ xfer.kind = "ReadAt" /\ sending[F].pc = "none"
      /\ UNCHANGED <<dropped, faults, call, wire, open, recv, ended, file>>
      /\ ConnOK /\ ReqsOK /\ ResultsOK
  BY Zenon DEF Basics, ConnOK, ReadAtTakes, Receive, sendRest, Running
<1>b. xfer.n \in Nat /\ xfer.n > 0 /\ req \in [off : Nat, len : Nat] /\ InRange(req)
  BY Zenon, <1>a, HeadFacts, TakenOne
<1>c. /\ Len(res.data) \in Nat /\ Len(res.data) > 0 /\ Len(res.data) <= req.len
  BY Zenon, <1>a, DataFacts DEF Reads
<1>d. /\ Shape(xfer) /\ dropped' \in BOOLEAN /\ faults' \in 0..MaxFaults /\ (Fault \/ UNCHANGED faults)
      /\ xfer.next \in Nat /\ xfer.start \in Nat
  BY <1>a, Zenon DEF OpTypes, Shape
<1>e. IsFiniteSet(DOMAIN xfer'.got)
  <2>1. DOMAIN xfer'.got = DOMAIN xfer.got \cup (req.off..req.off + Len(res.data) - 1)
    BY Zenon, <1>a, ReadAtTakesFields DEF Over, Here
  <2>2. IsFiniteSet(DOMAIN xfer.got)
    BY Zenon, <1>d DEF Shape
  <2>3. IsFiniteSet(req.off..req.off + Len(res.data) - 1)
    <3>1. req.off \in Int /\ req.off + Len(res.data) - 1 \in Int
      BY <1>b, <1>c
    <3> QED BY <3>1, Zenon DEF Counting
  <2> QED BY <2>1, <2>2, <2>3, Zenon DEF Counting
<1>f. xfer'.err # <<>> => xfer'.err \in Nat \X (Errs \cup {"read", "write", "inconsistency"})
  BY <1>a, <1>d, ReadAtTakesFields, Zenon DEF Shape
<1>1. CASE ~(Len(res.data) < req.len)
  <2>1. xfer'.n = xfer.n - 1 /\ xfer'.reqs = Rest /\ UNCHANGED <<nextid, inflight, sending>>
    BY Zenon, <1>a, <1>1, ReadAtTakesFields
  <2>2. Shape(xfer')
    BY Zenon, <1>a, <1>b, <1>d, <1>e, <1>f, <2>1, ReadAtTakesFields, TakesShape
  <2>3. OpTypes'
    BY Zenon, <1>a, <1>d, <2>1, <2>2, TakesTypes
  <2> QED BY Zenon, <1>a, <2>1, <2>3, ReadAtTakesFields, TakeBasics
<1>2. CASE Len(res.data) < req.len
  <2>1. PICK off \in Nat, len \in Nat : off = req.off + Len(res.data) /\ len = req.len - Len(res.data)
    BY SMTT(60), <1>b, <1>c
  <2>2. /\ xfer'.n = xfer.n - 1 + 1 /\ xfer'.reqs = Put(Rest, nextid + 1, [off |-> off, len |-> len])
        /\ Dispatch(F, [id |-> 0, typ |-> "read", off |-> off, len |-> len])
    BY Zenon, <1>a, <1>2, <2>1, ReadAtTakesFields
  <2>3. xfer'.n = xfer.n
    BY <1>b, <2>2
  <2>4. /\ DOMAIN xfer' = OpFields /\ xfer'.kind = xfer.kind /\ xfer'.start = xfer.start
        /\ xfer'.next = xfer.next /\ xfer'.end = xfer.end /\ xfer'.size = xfer.size
        /\ xfer'.done = xfer.done /\ xfer'.want \in 1..MaxConcurrent
    BY Zenon, <1>a, ReadAtTakesFields
  <2>5. Shape(xfer')
    BY Zenon, <1>d, <1>e, <1>f, <2>3, <2>4 DEF Shape
  <2>6. Remembered(Rest, nextid) /\ DOMAIN Rest = DOMAIN xfer.reqs \ {res.id}
        /\ \A id \in DOMAIN Rest : Rest[id] = xfer.reqs[id]
    BY Zenon, <1>a, LessReqs
  <2>7. OpTypes'
    BY <1>a, <1>d, <2>2, <2>5, <2>6, SendsTypes
  <2>8. PICK q \in ReqSet : q = [id |-> 0, typ |-> "read", off |-> off, len |-> len]
    BY Zenon DEF ReqSet
  <2>9. Dispatch(F, q) /\ q.typ = "read" /\ q.off = off /\ q.len = len
    BY Zenon, <2>2, <2>8
  <2>10. /\ ch' \in [Callers -> Seq(ResultSet)] /\ Len(ch[F]) \in Nat /\ Len(ch'[F]) = Len(ch[F]) - 1
         /\ \A i \in 1..Len(ch'[F]) : ch'[F][i] = ch[F][i + 1]
         /\ \A d \in Callers \ {F} : ch'[d] = ch[d]
         /\ res = ch[F][1]
    BY Zenon, <1>a, HeadFacts
  <2>12. PICK r \in [off : Nat, len : Nat] : r = [off |-> off, len |-> len]
    BY Zenon
  <2>13. InRange(r)'
    <3>1. PICK a \in Nat, b \in Nat, n \in Nat : a = req.off /\ b = req.len /\ n = Len(res.data)
      BY Zenon, <1>b, <1>c
    <3>2. xfer.start <= a /\ a + b <= xfer.next /\ n < b
      BY Zenon, <1>b, <1>2, <3>1 DEF InRange
    <3>3. xfer.start <= off /\ off + len <= xfer.next /\ len > 0
      <4>1. off = a + n /\ len = b - n
        BY <2>1, <3>1, Zenon
      <4>2. PICK s \in Nat, e \in Nat : s = xfer.start /\ e = xfer.next
        BY <1>d, Zenon
      <4>3. s <= a /\ a + b <= e /\ n < b
        BY <3>2, <4>2, Zenon
      <4>4. s <= off /\ off + len <= e /\ len > 0
        BY ONLY a \in Nat, b \in Nat, n \in Nat, s \in Nat, e \in Nat, <4>1, <4>3
      <4> QED BY <4>2, <4>4, Zenon
    <3>4. r.off = off /\ r.len = len
      BY Zenon, <2>12
    <3> QED BY <1>a, <2>4, <3>3, <3>4, Zenon DEF InRange
  <2>14. /\ DOMAIN xfer'.reqs = DOMAIN Rest \cup {nextid + 1} /\ xfer'.reqs[nextid + 1] = r
         /\ \A id \in DOMAIN Rest : xfer'.reqs[id] = xfer.reqs[id]
    <3>1. nextid + 1 \notin DOMAIN Rest
      BY <1>a, <2>6 DEF Remembered, ConnTypes
    <3>2. xfer'.reqs = Put(Rest, nextid + 1, r)
      BY Zenon, <2>2, <2>12
    <3> QED BY <2>6, <3>1, <3>2, Zenon DEF Put
  <2>15. ReqsOK' /\ ResultsOK'
    <3>1. PICK gone : gone = res.id
      BY Zenon
    <3>2. gone = IF 1 = 0 THEN 0 ELSE ch[F][1].id
      BY <2>10, <3>1
    <3>3. \A id \in DOMAIN xfer.reqs \ {gone} : id \in DOMAIN xfer'.reqs /\ xfer'.reqs[id] = xfer.reqs[id]
      BY Zenon, <2>6, <2>14, <3>1
    <3>4. \A id \in DOMAIN xfer'.reqs :
            (id \in DOMAIN xfer.reqs /\ xfer'.reqs[id] = xfer.reqs[id]) \/ InRange(xfer.reqs[id])'
      BY Zenon, <2>6, <2>13, <2>14
    <3>5. xfer'.next \in Nat /\ xfer.next <= xfer'.next /\ 1 \in {0, 1}
      BY <1>d, <2>4
    <3>6. /\ Dispatch(F, q) /\ q.typ = IF xfer.kind \in Reads THEN "read" ELSE "write"
          /\ nextid + 1 \in DOMAIN xfer'.reqs
          /\ xfer'.reqs[nextid + 1].off = q.off /\ xfer'.reqs[nextid + 1].len = q.len
      BY <1>a, <2>9, <2>12, <2>14 DEF Reads
    <3> QED BY ZenonT(60), <1>a, <2>4, <2>10, <3>2, <3>3, <3>4, <3>5, <3>6, StepKeepsResults
  <2> QED BY Zenon, <2>7, <2>15 DEF Known
<1> QED BY Zenon, <1>1, <1>2

LEMMA FlushGot ==
  ASSUME NEW o, DOMAIN o = OpFields
  PROVE  DOMAIN Flush(o).got \subseteq DOMAIN o.got
BY RestrictFacts DEF Flush, OpFields

LEMMA WriteToTakesBasics ==
  ASSUME Counting, Basics, WriteToOK, WriteToTakes
  PROVE  Known'
<1>a. /\ OpTypes /\ Receive /\ res.typ = "data" /\ (Fault \/ UNCHANGED faults) /\ xfer.kind = "WriteTo"
      /\ UNCHANGED <<nextid, inflight, sending, dropped, call>>
  BY Zenon DEF Basics, WriteToTakes, Receive, sendRest, Running
<1>b. xfer.n \in Nat /\ xfer.n > 0 /\ req \in [off : Nat, len : Nat]
  BY Zenon, <1>a, HeadFacts, TakenOne
<1>c. Shape(xfer) /\ dropped' \in BOOLEAN /\ IsFiniteSet(DOMAIN xfer.got)
  BY <1>a, Zenon DEF OpTypes, Shape
<1>d. PICK o :
        /\ o = WriteOut(taken) /\ o.n = xfer.n - 1 /\ o.reqs = Rest /\ o.want \in 1..MaxConcurrent
        /\ DOMAIN o = OpFields /\ o.kind = xfer.kind /\ o.start = xfer.start
        /\ o.next = xfer.next /\ o.end = xfer.end /\ o.err = xfer.err /\ o.size = xfer.size
        /\ o.done = xfer.done
        /\ \/ o.got = Put(xfer.got, req.off, res.data)
           \/ \E w : DOMAIN w = OpFields /\ w.got = xfer.got /\ o.got = Flush(w).got
  BY <1>a, WriteOutFields, ZenonT(60)
<1>e. IsFiniteSet(DOMAIN o.got)
  <2>1. CASE o.got = Put(xfer.got, req.off, res.data)
    <3>1. DOMAIN o.got = DOMAIN xfer.got \cup {req.off}
      BY Zenon, <2>1 DEF Put
    <3>2. CASE req.off \in DOMAIN xfer.got
      <4>1. DOMAIN o.got = DOMAIN xfer.got
        BY Zenon, <3>1, <3>2
      <4> QED BY Zenon, <1>c, <4>1
    <3> QED BY <1>c, <3>1, <3>2, Zenon DEF Counting
  <2>2. ASSUME NEW w, DOMAIN w = OpFields, w.got = xfer.got, o.got = Flush(w).got
        PROVE  IsFiniteSet(DOMAIN o.got)
    <3>1. DOMAIN o.got \in SUBSET DOMAIN xfer.got
      BY Zenon, <2>2, FlushGot
    <3> QED BY <1>c, <3>1, Zenon DEF Counting
  <2> QED BY Zenon, <1>d, <2>1, <2>2
<1>f. /\ xfer'.n = xfer.n - 1 /\ xfer'.reqs = Rest /\ xfer'.want \in 1..MaxConcurrent
      /\ DOMAIN xfer' = OpFields /\ xfer'.kind = xfer.kind /\ xfer'.start = xfer.start
      /\ xfer'.next = xfer.next /\ xfer'.end = xfer.end /\ xfer'.size = xfer.size
      /\ xfer'.done = xfer.done /\ xfer'.got = o.got
      /\ xfer'.err # <<>> => xfer'.err \in Nat \X (Errs \cup {"read", "write", "inconsistency"})
  <2>1. CASE xfer' = o
    BY <1>c, <1>d, <2>1, Zenon DEF Shape
  <2>2. ASSUME NEW k \in Len(xfer.out)..Len(o.out) - 1,
               xfer' = [o EXCEPT !.out = SubSeq(@, 1, k), !.err = <<xfer.start + k, "write">>]
        PROVE  /\ xfer'.n = xfer.n - 1 /\ xfer'.reqs = Rest /\ xfer'.want \in 1..MaxConcurrent
               /\ DOMAIN xfer' = OpFields /\ xfer'.kind = xfer.kind /\ xfer'.start = xfer.start
               /\ xfer'.next = xfer.next /\ xfer'.end = xfer.end /\ xfer'.size = xfer.size
               /\ xfer'.done = xfer.done /\ xfer'.got = o.got
               /\ xfer'.err # <<>> => xfer'.err \in Nat \X (Errs \cup {"read", "write", "inconsistency"})
    <3>1. /\ xfer'.n = o.n /\ xfer'.reqs = o.reqs /\ xfer'.want = o.want /\ DOMAIN xfer' = OpFields
          /\ xfer'.kind = o.kind /\ xfer'.start = o.start /\ xfer'.next = o.next /\ xfer'.end = o.end
          /\ xfer'.size = o.size /\ xfer'.done = o.done /\ xfer'.got = o.got
          /\ xfer'.err = <<xfer.start + k, "write">>
      BY Zenon, <1>d, <2>2 DEF OpFields
    <3>2. xfer.start + k \in Nat
      <4>1. xfer.start \in Nat /\ Len(xfer.out) \in Nat
        BY SMTT(60), <1>a, <1>c DEF Shape, WriteToOK, OutOK
      <4> QED BY <2>2, <4>1
    <3> QED BY <1>d, <3>1, <3>2
  <2>3. xfer' = o \/ \E k \in Len(xfer.out)..Len(o.out) - 1 :
          xfer' = [o EXCEPT !.out = SubSeq(@, 1, k), !.err = <<xfer.start + k, "write">>]
    BY <1>d, Zenon DEF WriteToTakes
  <2> QED BY Zenon, <2>1, <2>2, <2>3
<1>1. Shape(xfer')
  BY Zenon, <1>b, <1>c, <1>e, <1>f, TakesShape
<1>2. OpTypes'
  BY Zenon, <1>a, <1>c, <1>f, <1>1, TakesTypes
<1> QED BY Zenon, <1>a, <1>f, <1>2, TakeBasics

LEMMA FinishBasics ==
  ASSUME Basics, Finish(xfer.kind)
  PROVE  Known'
<1> USE DEF Basics, Known
<1>a. UNCHANGED <<connVars, file, call, dropped, faults>>
  BY Zenon DEF Finish
<1>b. UNCHANGED <<nextid, inflight, wire, open, ch, sending, recv, ended>>
  BY Zenon, <1>a DEF connVars
<1>c. /\ xfer'.kind = xfer.kind /\ xfer'.start = xfer.start /\ xfer'.next = xfer.next
      /\ xfer'.n = xfer.n /\ xfer'.reqs = xfer.reqs
  BY Zenon, FinishFields
<1>2. OpTypes'
  <2>1. xfer'.err # <<>> => xfer'.err \in Nat \X (Errs \cup {"read", "write", "inconsistency"})
    <3>1. <<0, "inconsistency">> \in Nat \X (Errs \cup {"read", "write", "inconsistency"})
      BY Zenon
    <3> QED BY <3>1, FinishFields, Zenon DEF OpTypes, Shape
  <2>2. Shape(xfer')
    BY Zenon, <2>1, FinishFields DEF OpTypes, Shape
  <2> QED BY <1>a, <1>b, <1>c, <2>2, Zenon DEF OpTypes
<1>3. ReqsOK' /\ ResultsOK'
  <2>1. \A d, p : AskedFor(d, p)' <=> AskedFor(d, p)
    BY Zenon, <1>c DEF AskedFor
  <2>2. WireOK' /\ SendOK' /\ FlightOK' /\ RangesOK'
    BY Zenon, <1>b, <1>c, <2>1 DEF ReqsOK, WireOK, SendOK, FlightOK, RangesOK, InRange
  <2>3. \A r : Answer(r)' <=> Answer(r)
    BY <1>a, <1>c, ZenonT(60) DEF Answer, Written
  <2>4. ChanOK' /\ DeliverOK'
    BY <1>b, <2>3, ZenonT(60) DEF ResultsOK, ChanOK, Held, DeliverOK, ConnError
  <2>5. EndOK' /\ FileOK'
    BY <1>a, <1>b, <1>c, Zenon DEF ResultsOK, EndOK, FileOK
  <2> QED BY Zenon, <2>2, <2>4, <2>5 DEF ReqsOK, ResultsOK
<1> QED BY Zenon, <1>2, <1>3
=============================================================================
