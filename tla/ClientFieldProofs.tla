------------------------- MODULE ClientFieldProofs --------------------------
(***************************************************************************)
(* What the steps of a transfer do to it, field by field, and what is known *)
(* of the first result in its channel.                                     *)
(***************************************************************************)
EXTENDS ClientInvariant, TLAPS

LEMMA RestrictFacts ==
  ASSUME NEW f, NEW S
  PROVE  DOMAIN Restrict(f, S) = S /\ \A z \in S : Restrict(f, S)[z] = f[z]
BY Zenon DEF Restrict

LEMMA CountUpTo ==
  ASSUME Counting, NEW n \in Nat, NEW S \in SUBSET (1..n)
  PROVE  IsFiniteSet(S) /\ Cardinality(S) \in Nat
<1>1. IsFiniteSet(1..n)
  <2>1. 1 \in Int /\ n \in Int
    OBVIOUS
  <2> QED BY <2>1, Zenon DEF Counting
<1> QED BY <1>1, Zenon DEF Counting

LEMMA CountAdd ==
  ASSUME Counting, NEW S, IsFiniteSet(S), NEW x, x \notin S
  PROVE  Cardinality(S \cup {x}) = Cardinality(S) + 1
BY Zenon DEF Counting

LEMMA CountRemove ==
  ASSUME Counting, NEW S, IsFiniteSet(S), NEW x, x \in S
  PROVE  Cardinality(S \ {x}) = Cardinality(S) - 1
BY Zenon DEF Counting

Sent(c) == sending[c].req

LEMMA PushFacts ==
  ASSUME ConnTypes, NEW c \in Callers, NEW r \in ResultSet, Push(c, r)
  PROVE  /\ ch' \in [Callers -> Seq(ResultSet)]
         /\ Len(ch'[c]) = Len(ch[c]) + 1 /\ \A d \in Callers \ {c} : ch'[d] = ch[d]
         /\ ch'[c] = Append(ch[c], r)
BY DEF ConnTypes, Push

LEMMA WithId ==
  ASSUME NEW q \in ReqSet, NEW n \in Nat, NEW row, row = [q EXCEPT !.id = n]
  PROVE  row \in ReqSet /\ row.id = n /\ row.typ = q.typ /\ row.off = q.off /\ row.len = q.len
BY Zenon DEF ReqSet

LEMMA TailFacts ==
  ASSUME ConnTypes, NEW c \in Callers, ch[c] # <<>>, ch' = [ch EXCEPT ![c] = Tail(@)]
  PROVE  /\ ch' \in [Callers -> Seq(ResultSet)] /\ Head(ch[c]) \in ResultSet
         /\ Len(ch'[c]) = Len(ch[c]) - 1 /\ \A i \in 1..Len(ch'[c]) : ch'[c][i] = ch[c][i + 1]
         /\ Head(ch[c]) = ch[c][1] /\ Len(ch[c]) > 0
         /\ \A d \in Callers \ {c} : ch'[d] = ch[d]
BY DEF ConnTypes

-----------------------------------------------------------------------------
(* What the steps of a transfer do to it, field by field.                  *)

LEMMA RequestFields ==
  ASSUME NEW o, DOMAIN o = OpFields, NEW typ, NEW off, NEW len, Request(o, typ, off, len)
  PROVE  /\ DOMAIN xfer' = OpFields /\ xfer'.kind = o.kind /\ xfer'.start = o.start
         /\ xfer'.next = o.next /\ xfer'.end = o.end /\ xfer'.want = o.want /\ xfer'.err = o.err
         /\ xfer'.got = o.got /\ xfer'.out = o.out /\ xfer'.size = o.size /\ xfer'.done = o.done
         /\ xfer'.n = o.n + 1
         /\ xfer'.reqs = Put(o.reqs, nextid + 1, [off |-> off, len |-> len])
         /\ Dispatch(F, [id |-> 0, typ |-> typ, off |-> off, len |-> len])
BY Zenon DEF Request, OpFields, nextID

LEMMA TakenFields ==
  ASSUME DOMAIN xfer = OpFields
  PROVE  /\ DOMAIN taken = OpFields /\ taken.kind = xfer.kind /\ taken.start = xfer.start
         /\ taken.next = xfer.next /\ taken.end = xfer.end /\ taken.want = xfer.want
         /\ taken.err = xfer.err /\ taken.got = xfer.got /\ taken.out = xfer.out
         /\ taken.size = xfer.size /\ taken.done = xfer.done
         /\ taken.n = xfer.n - 1
         /\ taken.reqs = Restrict(xfer.reqs, DOMAIN xfer.reqs \ {res.id})
BY Zenon DEF taken, OpFields

LEMMA WiderFields ==
  ASSUME NEW o, DOMAIN o = OpFields, o.want \in 1..MaxConcurrent
  PROVE  /\ DOMAIN Wider(o) = OpFields /\ Wider(o).kind = o.kind /\ Wider(o).start = o.start
         /\ Wider(o).next = o.next /\ Wider(o).end = o.end /\ Wider(o).n = o.n
         /\ Wider(o).reqs = o.reqs /\ Wider(o).err = o.err /\ Wider(o).got = o.got
         /\ Wider(o).out = o.out /\ Wider(o).size = o.size /\ Wider(o).done = o.done
         /\ Wider(o).want \in 1..MaxConcurrent
<1>1. /\ DOMAIN Wider(o) = OpFields /\ Wider(o).kind = o.kind /\ Wider(o).start = o.start
      /\ Wider(o).next = o.next /\ Wider(o).end = o.end /\ Wider(o).n = o.n
      /\ Wider(o).reqs = o.reqs /\ Wider(o).err = o.err /\ Wider(o).got = o.got
      /\ Wider(o).out = o.out /\ Wider(o).size = o.size /\ Wider(o).done = o.done
  BY Zenon DEF Wider, OpFields
<1>2. Wider(o).want = IF o.want < MaxConcurrent THEN o.want + 1 ELSE o.want
  BY Zenon DEF Wider, OpFields
<1> QED BY <1>1, <1>2, FileAssumptions

LEMMA minFacts ==
  ASSUME NEW a \in Nat, NEW b \in Nat
  PROVE  min(a, b) \in Nat /\ min(a, b) <= a /\ min(a, b) <= b /\ (min(a, b) = a \/ min(a, b) = b)
BY DEF min

LEMMA RoomFacts ==
  ASSUME Counting, OpTypes, Room
  PROVE  xfer.n < MaxConcurrent /\ xfer.err = <<>> /\ (xfer.kind \notin {"WriteTo", "ReadFrom"} => xfer.next < xfer.end)
<1>1. xfer.n \in Nat /\ xfer.want <= MaxConcurrent /\ xfer.want \in Nat /\ MaxConcurrent \in Nat
  BY SMTT(60), FileAssumptions DEF OpTypes, Shape
<1>2. Cardinality(DOMAIN xfer.got) \in Nat
  BY Zenon DEF Counting, OpTypes, Shape
<1>3. xfer.n < xfer.want
  BY <1>1, <1>2 DEF Room, OpTypes, Shape, Kinds
<1>4. xfer.err = <<>> /\ (xfer.kind \notin {"WriteTo", "ReadFrom"} => xfer.next < xfer.end)
  BY Zenon DEF Room, OpTypes, Shape, Kinds
<1> QED BY <1>1, <1>3, <1>4

Len1 == min(MaxPacket, xfer.end - xfer.next)

LEMMA ReadAtSendsFields ==
  ASSUME OpTypes, ReadAtSends
  PROVE  /\ DOMAIN xfer' = OpFields /\ xfer'.kind = xfer.kind /\ xfer'.start = xfer.start
         /\ xfer'.end = xfer.end /\ xfer'.want = xfer.want /\ xfer'.err = xfer.err
         /\ xfer'.got = xfer.got /\ xfer'.out = xfer.out /\ xfer'.size = xfer.size
         /\ xfer'.done = xfer.done
         /\ xfer'.n = xfer.n + 1 /\ xfer'.next = xfer.next + Len1
         /\ xfer'.reqs = Put(xfer.reqs, nextid + 1, [off |-> xfer.next, len |-> Len1])
         /\ Dispatch(F, [id |-> 0, typ |-> "read", off |-> xfer.next, len |-> Len1])
<1>1. PICK o : o = [xfer EXCEPT !.next = @ + Len1]
  BY Zenon
<1>2. /\ DOMAIN o = OpFields /\ o.kind = xfer.kind /\ o.start = xfer.start /\ o.end = xfer.end
      /\ o.n = xfer.n /\ o.want = xfer.want /\ o.reqs = xfer.reqs /\ o.err = xfer.err
      /\ o.got = xfer.got /\ o.out = xfer.out /\ o.size = xfer.size /\ o.done = xfer.done
      /\ o.next = xfer.next + Len1
  BY Zenon, <1>1 DEF OpTypes, Shape, OpFields
<1>3. Request(o, "read", xfer.next, Len1)
  BY <1>1, Zenon DEF ReadAtSends, Len1
<1> QED BY <1>2, <1>3, RequestFields

LEMMA WriteSendsFields ==
  ASSUME OpTypes, WriteSends
  PROVE  /\ DOMAIN xfer' = OpFields /\ xfer'.kind = xfer.kind /\ xfer'.start = xfer.start
         /\ xfer'.end = xfer.end /\ xfer'.want = xfer.want /\ xfer'.err = xfer.err
         /\ xfer'.got = xfer.got /\ xfer'.out = xfer.out /\ xfer'.size = xfer.size
         /\ xfer'.done = xfer.done
         /\ xfer'.n = xfer.n + 1 /\ xfer'.next = xfer.next + Len1
         /\ xfer'.reqs = Put(xfer.reqs, nextid + 1, [off |-> xfer.next, len |-> Len1])
         /\ Dispatch(F, [id |-> 0, typ |-> "write", off |-> xfer.next, len |-> Len1])
<1>1. PICK o : o = [xfer EXCEPT !.next = @ + Len1]
  BY Zenon
<1>2. /\ DOMAIN o = OpFields /\ o.kind = xfer.kind /\ o.start = xfer.start /\ o.end = xfer.end
      /\ o.n = xfer.n /\ o.want = xfer.want /\ o.reqs = xfer.reqs /\ o.err = xfer.err
      /\ o.got = xfer.got /\ o.out = xfer.out /\ o.size = xfer.size /\ o.done = xfer.done
      /\ o.next = xfer.next + Len1
  BY Zenon, <1>1 DEF OpTypes, Shape, OpFields
<1>3. Request(o, "write", xfer.next, Len1)
  BY <1>1, Zenon DEF WriteSends, Len1
<1> QED BY <1>2, <1>3, RequestFields

LEMMA WriteToSendsFields ==
  ASSUME OpTypes, WriteToSends
  PROVE  /\ DOMAIN xfer' = OpFields /\ xfer'.kind = xfer.kind /\ xfer'.start = xfer.start
         /\ xfer'.end = xfer.end /\ xfer'.err = xfer.err /\ xfer'.got = xfer.got
         /\ xfer'.out = xfer.out /\ xfer'.size = xfer.size /\ xfer'.done = xfer.done
         /\ xfer'.n = xfer.n + 1 /\ xfer'.next = xfer.next + MaxPacket
         /\ xfer'.want \in {1, xfer.want}
         /\ xfer'.reqs = Put(xfer.reqs, nextid + 1, [off |-> xfer.next, len |-> MaxPacket])
         /\ Dispatch(F, [id |-> 0, typ |-> "read", off |-> xfer.next, len |-> MaxPacket])
<1>1. PICK w \in {1, xfer.want} : w = IF xfer.next + MaxPacket > xfer.size THEN 1 ELSE xfer.want
  BY Zenon
<1>2. PICK o : o = [xfer EXCEPT !.next = xfer.next + MaxPacket, !.want = w]
  BY Zenon
<1>3. /\ DOMAIN o = OpFields /\ o.kind = xfer.kind /\ o.start = xfer.start /\ o.end = xfer.end
      /\ o.n = xfer.n /\ o.reqs = xfer.reqs /\ o.err = xfer.err /\ o.got = xfer.got
      /\ o.out = xfer.out /\ o.size = xfer.size /\ o.done = xfer.done
      /\ o.next = xfer.next + MaxPacket /\ o.want = w
  BY Zenon, <1>2 DEF OpTypes, Shape, OpFields
<1>4. Request(o, "read", xfer.next, MaxPacket)
  BY <1>1, <1>2, Zenon DEF WriteToSends
<1> QED BY <1>1, <1>3, <1>4, RequestFields

LEMMA ReadFromSendsFields ==
  ASSUME OpTypes, ReadFromSends
  PROVE  \E len, e :
           /\ DOMAIN xfer' = OpFields /\ xfer'.kind = xfer.kind /\ xfer'.start = xfer.start
           /\ xfer'.end = xfer.end /\ xfer'.want = xfer.want /\ xfer'.got = xfer.got
           /\ xfer'.out = xfer.out /\ xfer'.size = xfer.size /\ xfer'.done = xfer.done
           /\ xfer'.n = xfer.n + 1 /\ xfer'.next = xfer.next + len /\ xfer'.err = e
           /\ xfer'.reqs = Put(xfer.reqs, nextid + 1, [off |-> xfer.next, len |-> len])
           /\ Dispatch(F, [id |-> 0, typ |-> "write", off |-> xfer.next, len |-> len])
           /\ \/ len = Len1 /\ e = IF len = 0 THEN <<0, "EOF">> ELSE xfer.err
              \/ len = 0 /\ e = <<0, "read">>
<1>1. PICK len, e, o :
        /\ Request(o, "write", xfer.next, len)
        /\ o = [xfer EXCEPT !.next = xfer.next + len, !.err = e] \/ (len = 0 /\ o = [xfer EXCEPT !.err = e])
        /\ \/ len = Len1 /\ e = IF len = 0 THEN <<0, "EOF">> ELSE xfer.err
           \/ len = 0 /\ e = <<0, "read">>
  <2>1. CASE Request([xfer EXCEPT !.next = @ + Len1, !.err = IF Len1 = 0 THEN <<0, "EOF">> ELSE @],
                     "write", xfer.next, Len1)
    BY <2>1, Zenon
  <2>2. CASE Request([xfer EXCEPT !.err = <<0, "read">>], "write", xfer.next, 0)
    BY <2>2, Zenon
  <2> QED BY <2>1, <2>2, Zenon DEF ReadFromSends, Len1
<1>2. /\ DOMAIN o = OpFields /\ o.kind = xfer.kind /\ o.start = xfer.start /\ o.end = xfer.end
      /\ o.n = xfer.n /\ o.want = xfer.want /\ o.reqs = xfer.reqs /\ o.got = xfer.got
      /\ o.out = xfer.out /\ o.size = xfer.size /\ o.done = xfer.done
      /\ o.next = xfer.next + len /\ o.err = e
  <2>1. DOMAIN xfer = OpFields /\ xfer.next \in Nat
    BY Zenon DEF OpTypes, Shape
  <2>2. CASE o = [xfer EXCEPT !.next = xfer.next + len, !.err = e]
    BY Zenon, <2>1, <2>2 DEF OpFields
  <2>3. CASE len = 0 /\ o = [xfer EXCEPT !.err = e]
    BY <2>1, <2>3 DEF OpFields
  <2> QED BY <1>1, <2>2, <2>3, Zenon
<1>3. Request(o, "write", xfer.next, len)
  BY Zenon, <1>1
<1>4. /\ DOMAIN xfer' = OpFields /\ xfer'.kind = xfer.kind /\ xfer'.start = xfer.start
      /\ xfer'.end = xfer.end /\ xfer'.want = xfer.want /\ xfer'.got = xfer.got
      /\ xfer'.out = xfer.out /\ xfer'.size = xfer.size /\ xfer'.done = xfer.done
      /\ xfer'.n = xfer.n + 1 /\ xfer'.next = xfer.next + len /\ xfer'.err = e
      /\ xfer'.reqs = Put(xfer.reqs, nextid + 1, [off |-> xfer.next, len |-> len])
      /\ Dispatch(F, [id |-> 0, typ |-> "write", off |-> xfer.next, len |-> len])
  BY <1>2, <1>3, RequestFields
<1> QED BY <1>1, <1>4, Zenon

Rest == Restrict(xfer.reqs, DOMAIN xfer.reqs \ {res.id})

LEMMA TakeErrorFields ==
  ASSUME OpTypes, TakeError
  PROVE  /\ DOMAIN xfer' = OpFields /\ xfer'.kind = xfer.kind /\ xfer'.start = xfer.start
         /\ xfer'.next = xfer.next /\ xfer'.end = xfer.end /\ xfer'.want = xfer.want
         /\ xfer'.got = xfer.got /\ xfer'.out = xfer.out /\ xfer'.size = xfer.size
         /\ xfer'.done = xfer.done
         /\ xfer'.n = xfer.n - 1 /\ xfer'.reqs = Rest /\ xfer'.err = <<0, res.err>>
<1>1. DOMAIN xfer = OpFields
  BY Zenon DEF OpTypes, Shape
<1>2. xfer' = [taken EXCEPT !.err = <<0, res.err>>]
  BY Zenon DEF TakeError
<1> QED BY Zenon, <1>1, <1>2, TakenFields DEF OpFields, Rest

LEMMA TakeReadStatusFields ==
  ASSUME OpTypes, TakeReadStatus
  PROVE  /\ DOMAIN xfer' = OpFields /\ xfer'.kind = xfer.kind /\ xfer'.start = xfer.start
         /\ xfer'.next = xfer.next /\ xfer'.end = xfer.end /\ xfer'.want = xfer.want
         /\ xfer'.got = xfer.got /\ xfer'.out = xfer.out /\ xfer'.size = xfer.size
         /\ xfer'.done = xfer.done
         /\ xfer'.n = xfer.n - 1 /\ xfer'.reqs = Rest /\ xfer'.err = LowestErr(xfer.err, req.off, res.err)
<1>1. DOMAIN xfer = OpFields
  BY Zenon DEF OpTypes, Shape
<1>2. PICK e : e = LowestErr(taken.err, req.off, res.err)
  BY Zenon
<1>3. xfer' = [taken EXCEPT !.err = e]
  BY <1>2, Zenon DEF TakeReadStatus
<1> QED BY Zenon, <1>1, <1>2, <1>3, TakenFields DEF OpFields, Rest

LEMMA TakeWriteStatusFields ==
  ASSUME OpTypes, TakeWriteStatus
  PROVE  /\ DOMAIN xfer' = OpFields /\ xfer'.kind = xfer.kind /\ xfer'.start = xfer.start
         /\ xfer'.next = xfer.next /\ xfer'.end = xfer.end /\ xfer'.got = xfer.got
         /\ xfer'.out = xfer.out /\ xfer'.size = xfer.size /\ xfer'.done = xfer.done
         /\ xfer'.n = xfer.n - 1 /\ xfer'.reqs = Rest /\ xfer'.want \in 1..MaxConcurrent
         /\ xfer'.err = IF res.err # "nil" /\ xfer.err = <<>> THEN <<0, res.err>> ELSE xfer.err
<1>1. DOMAIN xfer = OpFields /\ xfer.want \in 1..MaxConcurrent
  BY Zenon DEF OpTypes, Shape
<1>2. xfer' = WriteStatus(taken)
  BY Zenon DEF TakeWriteStatus
<1>3. /\ DOMAIN taken = OpFields /\ taken.kind = xfer.kind /\ taken.start = xfer.start
      /\ taken.next = xfer.next /\ taken.end = xfer.end /\ taken.want = xfer.want
      /\ taken.err = xfer.err /\ taken.got = xfer.got /\ taken.out = xfer.out
      /\ taken.size = xfer.size /\ taken.done = xfer.done
      /\ taken.n = xfer.n - 1 /\ taken.reqs = Rest
  BY Zenon, <1>1, TakenFields DEF Rest
<1>4. CASE res.err # "nil" /\ xfer.err = <<>>
  <2>1. xfer' = [taken EXCEPT !.err = <<0, res.err>>]
    BY Zenon, <1>2, <1>3, <1>4 DEF WriteStatus
  <2> QED BY Zenon, <1>1, <1>3, <1>4, <2>1 DEF OpFields
<1>5. CASE ~(res.err # "nil" /\ xfer.err = <<>>)
  <2>1. xfer' = Wider(taken)
    BY Zenon, <1>2, <1>3, <1>5 DEF WriteStatus
  <2> QED BY <1>1, <1>3, <1>5, <2>1, WiderFields
<1> QED BY Zenon, <1>4, <1>5

Here == [o \in req.off..req.off + Len(res.data) - 1 |-> res.data[o - req.off + 1]]

LEMMA ReadAtTakesFields ==
  ASSUME OpTypes, ReadAtTakes
  PROVE  /\ DOMAIN xfer' = OpFields /\ xfer'.kind = xfer.kind /\ xfer'.start = xfer.start
         /\ xfer'.next = xfer.next /\ xfer'.end = xfer.end /\ xfer'.err = xfer.err
         /\ xfer'.out = xfer.out /\ xfer'.size = xfer.size /\ xfer'.done = xfer.done
         /\ xfer'.got = Over(xfer.got, Here) /\ xfer'.want \in 1..MaxConcurrent
         /\ \/ /\ Len(res.data) < req.len
               /\ xfer'.n = xfer.n - 1 + 1
               /\ xfer'.reqs = Put(Rest, nextid + 1, [off |-> req.off + Len(res.data), len |-> req.len - Len(res.data)])
               /\ Dispatch(F, [id |-> 0, typ |-> "read", off |-> req.off + Len(res.data), len |-> req.len - Len(res.data)])
            \/ /\ ~(Len(res.data) < req.len)
               /\ xfer'.n = xfer.n - 1 /\ xfer'.reqs = Rest /\ UNCHANGED <<nextid, inflight, sending>>
<1>1. DOMAIN xfer = OpFields /\ xfer.want \in 1..MaxConcurrent
  BY Zenon DEF OpTypes, Shape
<1>2. /\ DOMAIN taken = OpFields /\ taken.kind = xfer.kind /\ taken.start = xfer.start
      /\ taken.next = xfer.next /\ taken.end = xfer.end /\ taken.want = xfer.want
      /\ taken.err = xfer.err /\ taken.got = xfer.got /\ taken.out = xfer.out
      /\ taken.size = xfer.size /\ taken.done = xfer.done
      /\ taken.n = xfer.n - 1 /\ taken.reqs = Rest
  BY Zenon, <1>1, TakenFields DEF Rest
<1>3. PICK t : t = [taken EXCEPT !.got = Over(taken.got, Here)]
  BY Zenon
<1>4. /\ DOMAIN t = OpFields /\ t.kind = xfer.kind /\ t.start = xfer.start /\ t.next = xfer.next
      /\ t.end = xfer.end /\ t.want = xfer.want /\ t.err = xfer.err /\ t.out = xfer.out
      /\ t.size = xfer.size /\ t.done = xfer.done
      /\ t.n = xfer.n - 1 /\ t.reqs = Rest /\ t.got = Over(xfer.got, Here)
  BY Zenon, <1>1, <1>2, <1>3 DEF OpFields
<1>5. PICK o : o = Wider(t)
  BY Zenon
<1>6. /\ DOMAIN o = OpFields /\ o.kind = xfer.kind /\ o.start = xfer.start /\ o.next = xfer.next
      /\ o.end = xfer.end /\ o.err = xfer.err /\ o.out = xfer.out /\ o.size = xfer.size
      /\ o.done = xfer.done
      /\ o.n = xfer.n - 1 /\ o.reqs = Rest /\ o.got = Over(xfer.got, Here) /\ o.want \in 1..MaxConcurrent
  BY <1>1, <1>4, <1>5, WiderFields
<1>7. IF Len(res.data) < req.len
      THEN Request(o, "read", req.off + Len(res.data), req.len - Len(res.data))
      ELSE xfer' = o /\ UNCHANGED <<nextid, inflight, sending>>
  BY <1>3, <1>5, Zenon DEF ReadAtTakes, Here
<1>8. CASE Len(res.data) < req.len
  BY <1>6, <1>7, <1>8, RequestFields
<1>9. CASE ~(Len(res.data) < req.len)
  BY Zenon, <1>6, <1>7, <1>9
<1> QED BY Zenon, <1>8, <1>9

LEMMA FinishFields ==
  ASSUME OpTypes, Finish(xfer.kind)
  PROVE  /\ DOMAIN xfer' = OpFields /\ xfer'.kind = xfer.kind /\ xfer'.start = xfer.start
         /\ xfer'.next = xfer.next /\ xfer'.end = xfer.end /\ xfer'.n = xfer.n
         /\ xfer'.want = xfer.want /\ xfer'.reqs = xfer.reqs /\ xfer'.got = xfer.got
         /\ xfer'.out = xfer.out /\ xfer'.size = xfer.size
         /\ xfer'.done = TRUE
         /\ xfer'.err = IF xfer.kind = "WriteTo" /\ xfer.err = <<>> THEN <<0, "inconsistency">> ELSE xfer.err
<1>1. PICK e : e = IF xfer.kind = "WriteTo" /\ xfer.err = <<>> THEN <<0, "inconsistency">> ELSE xfer.err
  BY Zenon
<1>2. xfer' = [xfer EXCEPT !.done = TRUE, !.err = e]
  BY <1>1, Zenon DEF Finish
<1>3. /\ DOMAIN xfer' = OpFields /\ xfer'.kind = xfer.kind /\ xfer'.start = xfer.start
      /\ xfer'.next = xfer.next /\ xfer'.end = xfer.end /\ xfer'.n = xfer.n
      /\ xfer'.want = xfer.want /\ xfer'.reqs = xfer.reqs /\ xfer'.got = xfer.got
      /\ xfer'.out = xfer.out /\ xfer'.size = xfer.size /\ xfer'.done = TRUE /\ xfer'.err = e
  BY Zenon, <1>2 DEF OpTypes, Shape, OpFields
<1> QED BY <1>1, <1>3, Zenon

LEMMA FlushFields ==
  ASSUME NEW o, DOMAIN o = OpFields
  PROVE  /\ DOMAIN Flush(o) = OpFields /\ Flush(o).kind = o.kind /\ Flush(o).start = o.start
         /\ Flush(o).next = o.next /\ Flush(o).end = o.end /\ Flush(o).n = o.n
         /\ Flush(o).want = o.want /\ Flush(o).reqs = o.reqs /\ Flush(o).err = o.err
         /\ Flush(o).size = o.size /\ Flush(o).done = o.done
BY Zenon DEF Flush, OpFields

LEMMA WriteOutFields ==
  ASSUME OpTypes
  PROVE  \E o :
           /\ o = WriteOut(taken) /\ o.n = xfer.n - 1 /\ o.reqs = Rest /\ o.want \in 1..MaxConcurrent
           /\ DOMAIN o = OpFields /\ o.kind = xfer.kind /\ o.start = xfer.start
           /\ o.next = xfer.next /\ o.end = xfer.end /\ o.err = xfer.err /\ o.size = xfer.size
           /\ o.done = xfer.done
           /\ \/ /\ req.off # xfer.start + Len(xfer.out)
                 /\ o.got = Put(xfer.got, req.off, res.data) /\ o.out = xfer.out
              \/ /\ req.off = xfer.start + Len(xfer.out)
                 /\ \E w : /\ DOMAIN w = OpFields /\ w.start = xfer.start
                           /\ w.got = xfer.got /\ w.out = xfer.out \o res.data
                           /\ o.got = Flush(w).got /\ o.out = Flush(w).out
<1>1. DOMAIN xfer = OpFields /\ xfer.want \in 1..MaxConcurrent
  BY Zenon DEF OpTypes, Shape
<1>2. /\ DOMAIN taken = OpFields /\ taken.kind = xfer.kind /\ taken.start = xfer.start
      /\ taken.next = xfer.next /\ taken.end = xfer.end /\ taken.want = xfer.want
      /\ taken.err = xfer.err /\ taken.got = xfer.got /\ taken.out = xfer.out
      /\ taken.size = xfer.size /\ taken.done = xfer.done
      /\ taken.n = xfer.n - 1 /\ taken.reqs = Rest
  BY Zenon, <1>1, TakenFields DEF Rest
<1>3. PICK o : o = WriteOut(taken)
  BY Zenon
<1>4. CASE req.off # xfer.start + Len(xfer.out)
  <2>1. PICK g : g = Put(taken.got, req.off, res.data)
    BY Zenon
  <2>2. o = [taken EXCEPT !.got = g]
    BY <1>2, <1>3, <1>4, <2>1, Zenon DEF WriteOut
  <2>3. /\ DOMAIN o = OpFields /\ o.kind = taken.kind /\ o.start = taken.start
        /\ o.next = taken.next /\ o.end = taken.end /\ o.n = taken.n /\ o.want = taken.want
        /\ o.reqs = taken.reqs /\ o.err = taken.err /\ o.out = taken.out /\ o.size = taken.size
        /\ o.done = taken.done
        /\ o.got = g
    BY Zenon, <1>2, <2>2 DEF OpFields
  <2> QED BY ZenonT(60), <1>1, <1>2, <1>3, <1>4, <2>1, <2>3
<1>5. CASE req.off = xfer.start + Len(xfer.out)
  <2>1. PICK v : v = [taken EXCEPT !.out = taken.out \o res.data]
    BY Zenon
  <2>2. /\ DOMAIN v = OpFields /\ v.kind = taken.kind /\ v.start = taken.start
        /\ v.next = taken.next /\ v.end = taken.end /\ v.n = taken.n /\ v.want = taken.want
        /\ v.reqs = taken.reqs /\ v.err = taken.err /\ v.got = taken.got /\ v.size = taken.size
        /\ v.done = taken.done
        /\ v.out = taken.out \o res.data
    BY Zenon, <1>2, <2>1 DEF OpFields
  <2>3. PICK w : w = IF taken.next > taken.size THEN [v EXCEPT !.want = 1] ELSE Wider(v)
    BY Zenon
  <2>4. /\ DOMAIN w = OpFields /\ w.kind = v.kind /\ w.start = v.start /\ w.next = v.next
        /\ w.end = v.end /\ w.n = v.n /\ w.reqs = v.reqs /\ w.err = v.err /\ w.got = v.got
        /\ w.out = v.out /\ w.size = v.size /\ w.done = v.done
        /\ w.want \in 1..MaxConcurrent
    <3>1. CASE w = [v EXCEPT !.want = 1]
      <4>1. 1 \in 1..MaxConcurrent
        BY FileAssumptions
      <4> QED BY Zenon, <1>2, <2>2, <3>1, <4>1 DEF OpFields
    <3>2. CASE w = Wider(v)
      BY ZenonT(60), <1>1, <1>2, <2>2, <3>2, WiderFields
    <3> QED BY Zenon, <2>3, <3>1, <3>2
  <2>5. o = Flush(w)
    BY <1>2, <1>3, <1>5, <2>1, <2>3, Zenon DEF WriteOut
  <2>6. /\ DOMAIN o = OpFields /\ o.kind = w.kind /\ o.start = w.start /\ o.next = w.next
        /\ o.end = w.end /\ o.n = w.n /\ o.want = w.want /\ o.reqs = w.reqs /\ o.err = w.err
        /\ o.size = w.size /\ o.done = w.done
    BY ZenonT(60), <2>4, <2>5, FlushFields
  <2>7. o.n = xfer.n - 1 /\ o.reqs = Rest /\ o.want \in 1..MaxConcurrent
        /\ DOMAIN o = OpFields /\ o.kind = xfer.kind /\ o.start = xfer.start
        /\ o.next = xfer.next /\ o.end = xfer.end /\ o.err = xfer.err /\ o.size = xfer.size
        /\ o.done = xfer.done
        /\ w.start = xfer.start /\ w.got = xfer.got /\ w.out = xfer.out \o res.data
    BY <1>2, <2>2, <2>4, <2>6, ZenonT(60)
  <2> QED BY <1>3, <1>5, <2>4, <2>5, <2>7, ZenonT(60)
<1> QED BY Zenon, <1>4, <1>5

-----------------------------------------------------------------------------
(* Types.                                                                  *)

LEMMA FileIsCaller == F \in Callers /\ C \in Callers /\ F # C
BY Zenon, FileAssumptions DEF F, C

\* Its requests have ids that have been given out, with one more ...

LEMMA MoreReqs ==
  ASSUME NEW m \in Nat, NEW r \in [off : Nat, len : Nat], NEW reqs, Remembered(reqs, m)
  PROVE  /\ Remembered(Put(reqs, m + 1, r), m + 1)
         /\ DOMAIN Put(reqs, m + 1, r) = DOMAIN reqs \cup {m + 1} /\ m + 1 \notin DOMAIN reqs
         /\ Put(reqs, m + 1, r)[m + 1] = r
         /\ \A id \in DOMAIN reqs : Put(reqs, m + 1, r)[id] = reqs[id]
<1>1. DOMAIN Put(reqs, m + 1, r) = DOMAIN reqs \cup {m + 1} /\ m + 1 \notin DOMAIN reqs
  BY DEF Put, Remembered
<1>2. Put(reqs, m + 1, r)[m + 1] = r /\ \A id \in DOMAIN reqs : Put(reqs, m + 1, r)[id] = reqs[id]
  BY Zenon, <1>1 DEF Put
<1> QED BY <1>1, <1>2 DEF Remembered

\* ... or one less.

LEMMA LessReqs ==
  ASSUME OpTypes
  PROVE  /\ Remembered(Rest, nextid) /\ DOMAIN Rest = DOMAIN xfer.reqs \ {res.id}
         /\ \A id \in DOMAIN Rest : Rest[id] = xfer.reqs[id]
BY RestrictFacts DEF OpTypes, Remembered, Rest

LEMMA SendsShape ==
  ASSUME NEW x, Shape(x), NEW y, NEW len \in Nat,
         DOMAIN y = OpFields, y.kind = x.kind, y.start = x.start, y.end = x.end, y.size = x.size,
         y.want \in {1, x.want}, y.got = x.got, y.done = x.done,
         y.n = x.n + 1, x.n < MaxConcurrent, y.next = x.next + len, x.kind # "WriteTo" => x.next + len <= x.end,
         y.err # <<>> => y.err \in Nat \X (Errs \cup {"read", "write", "inconsistency"})
  PROVE  Shape(y)
<1>1. y.n \in 0..MaxConcurrent /\ y.want \in 1..MaxConcurrent
  <2>1. x.n \in 0..MaxConcurrent /\ x.want \in 1..MaxConcurrent /\ MaxConcurrent \in Nat \ {0}
    BY FileAssumptions, Zenon DEF Shape
  <2> QED BY SMTT(60), <2>1
<1>2. y.next \in Nat /\ y.start <= y.next /\ (y.kind # "WriteTo" => y.next <= y.end)
  <2>1. x.next \in Nat /\ x.start \in Nat /\ x.start <= x.next
    BY Zenon DEF Shape
  <2>2. PICK a, b : a = x.start /\ b = x.next
    BY Zenon
  <2>3. a \in Nat /\ b \in Nat /\ a <= b /\ len \in Nat
    BY Zenon, <2>1, <2>2
  <2>4. b + len \in Nat /\ a <= b + len
    BY ONLY <2>3
  <2> QED BY Zenon, <2>2, <2>4
<1> QED BY Zenon, <1>1, <1>2 DEF Shape

LEMMA SendsTypes ==
  ASSUME ConnTypes, OpTypes, UNCHANGED <<call, dropped>>, faults' \in 0..MaxFaults, Shape(xfer'),
         NEW reqs, Remembered(reqs, nextid), NEW off \in Nat, NEW len \in Nat,
         xfer'.reqs = Put(reqs, nextid + 1, [off |-> off, len |-> len]),
         NEW q, Dispatch(F, q)
  PROVE  OpTypes'
<1>1. nextid \in Nat /\ nextid' = nextid + 1
  BY Zenon DEF ConnTypes, Dispatch, nextID
<1>2. Remembered(xfer'.reqs, nextid')
  <2>1. PICK r \in [off : Nat, len : Nat] : r = [off |-> off, len |-> len]
    BY Zenon
  <2>2. Remembered(Put(reqs, nextid + 1, r), nextid + 1)
    BY Zenon, <1>1, MoreReqs
  <2>3. xfer'.reqs = Put(reqs, nextid + 1, r)
    BY Zenon, <2>1
  <2> QED BY Zenon, <1>1, <2>2, <2>3
<1>3. sending'[C] = sending[C]
  BY Zenon, FileIsCaller DEF Dispatch, ConnTypes
<1>4. dropped' \in BOOLEAN
  BY Zenon DEF OpTypes
<1> QED BY <1>2, <1>3, <1>4, Zenon DEF OpTypes

LEMMA Len1Facts ==
  ASSUME OpTypes, xfer.kind # "WriteTo"
  PROVE  Len1 \in Nat /\ Len1 <= MaxPacket /\ xfer.next + Len1 <= xfer.end /\ (Len1 = 0 <=> xfer.next = xfer.end)
<1>1. /\ xfer.next \in Nat /\ xfer.end \in Nat /\ xfer.next <= xfer.end
      /\ MaxPacket \in Nat /\ MaxPacket > 0
  BY FileAssumptions DEF OpTypes, Shape
<1> QED BY <1>1 DEF Len1, min

LEMMA SendTypes ==
  ASSUME Counting, ConnTypes, OpTypes, ReadAtSends \/ WriteSends \/ WriteToSends \/ ReadFromSends
  PROVE  OpTypes'
<1>a. /\ Shape(xfer) /\ Remembered(xfer.reqs, nextid) /\ xfer.next \in Nat /\ faults \in 0..MaxFaults
      /\ xfer.next \in Nat /\ xfer.next <= xfer.next + MaxPacket /\ MaxPacket \in Nat
  BY FileAssumptions DEF OpTypes, Shape
<1>b. Room /\ xfer.n < MaxConcurrent /\ UNCHANGED <<call, dropped>>
  BY Zenon, RoomFacts DEF ReadAtSends, WriteSends, WriteToSends, ReadFromSends, sendRest
<1>c. xfer.err = <<>> /\ xfer.want \in {1, xfer.want}
  BY Zenon, <1>b, RoomFacts
<1>1. CASE ReadAtSends
  <2>1. xfer.kind = "ReadAt" /\ UNCHANGED faults
    BY Zenon, <1>1 DEF ReadAtSends, Running
  <2>2. Len1 \in Nat /\ xfer.next + Len1 <= xfer.end
    BY Zenon, <2>1, Len1Facts
  <2>3. Shape(xfer')
    BY Zenon, <1>1, <1>a, <1>b, <1>c, <2>1, <2>2, ReadAtSendsFields, SendsShape
  <2> QED BY Zenon, <1>1, <1>a, <1>b, <2>1, <2>2, <2>3, ReadAtSendsFields, SendsTypes
<1>2. CASE WriteSends
  <2>1. xfer.kind = "Write" /\ UNCHANGED faults
    BY Zenon, <1>2 DEF WriteSends, Running
  <2>2. Len1 \in Nat /\ xfer.next + Len1 <= xfer.end
    BY Zenon, <2>1, Len1Facts
  <2>3. Shape(xfer')
    BY Zenon, <1>2, <1>a, <1>b, <1>c, <2>1, <2>2, WriteSendsFields, SendsShape
  <2> QED BY Zenon, <1>2, <1>a, <1>b, <2>1, <2>2, <2>3, WriteSendsFields, SendsTypes
<1>3. CASE WriteToSends
  <2>1. xfer.kind = "WriteTo" /\ UNCHANGED faults
    BY Zenon, <1>3 DEF WriteToSends, Running
  <2>2. Shape(xfer')
    BY Zenon, <1>3, <1>a, <1>b, <1>c, <2>1, WriteToSendsFields, SendsShape
  <2> QED BY Zenon, <1>3, <1>a, <1>b, <2>1, <2>2, WriteToSendsFields, SendsTypes
<1>4. CASE ReadFromSends
  <2>1. xfer.kind = "ReadFrom" /\ faults' \in 0..MaxFaults
    BY <1>4, <1>a, FaultsAssumption DEF ReadFromSends, Running, Fault
  <2>2. PICK len, e :
           /\ DOMAIN xfer' = OpFields /\ xfer'.kind = xfer.kind /\ xfer'.start = xfer.start
           /\ xfer'.end = xfer.end /\ xfer'.want = xfer.want /\ xfer'.got = xfer.got
           /\ xfer'.size = xfer.size /\ xfer'.done = xfer.done
           /\ xfer'.n = xfer.n + 1 /\ xfer'.next = xfer.next + len /\ xfer'.err = e
           /\ xfer'.reqs = Put(xfer.reqs, nextid + 1, [off |-> xfer.next, len |-> len])
           /\ Dispatch(F, [id |-> 0, typ |-> "write", off |-> xfer.next, len |-> len])
           /\ \/ len = Len1 /\ e = IF len = 0 THEN <<0, "EOF">> ELSE xfer.err
              \/ len = 0 /\ e = <<0, "read">>
    BY <1>4, ReadFromSendsFields, Zenon
  <2>3. len \in Nat /\ xfer.next + len <= xfer.end
    <3>1. xfer.next \in Nat /\ xfer.end \in Nat /\ xfer.next <= xfer.end
      BY Zenon, <1>a, <2>1 DEF Shape
    <3> QED BY <2>1, <2>2, <3>1, Len1Facts
  <2>4. e # <<>> => e \in Nat \X (Errs \cup {"read", "write", "inconsistency"})
    BY <1>c, <2>2 DEF Errs
  <2>5. Shape(xfer')
    <3> HIDE <1>4
    <3> QED BY Zenon, <1>a, <1>b, <1>c, <2>2, <2>3, <2>4, SendsShape
  <2> QED BY Zenon, <1>a, <1>b, <2>1, <2>2, <2>3, <2>5, SendsTypes
<1> QED BY Zenon, <1>1, <1>2, <1>3, <1>4

Grows == \A o \in DOMAIN file : file[o] = Source(o) => o \in DOMAIN file' /\ file'[o] = Source(o)

LEMMA ErrorId ==
  ASSUME NEW r \in ResultSet, ConnError(r)
  PROVE  r.id = 0
BY Zenon DEF ResultSet, ConnError

\* A result that is put in the channel: an error, or the answer of a request that has none.

-----------------------------------------------------------------------------
(* The first result in the channel.                                        *)

Known == OpTypes /\ ReqsOK /\ ResultsOK

LEMMA FaultCounts ==
  ASSUME OpTypes, Fault \/ UNCHANGED faults
  PROVE  faults' \in 0..MaxFaults
BY FaultsAssumption DEF OpTypes, Fault

LEMMA HeadFacts ==
  ASSUME Basics, Receive
  PROVE  /\ res \in ResultSet /\ res = ch[F][1] /\ ch' \in [Callers -> Seq(ResultSet)]
         /\ Len(ch[F]) \in Nat /\ Len(ch'[F]) = Len(ch[F]) - 1
         /\ \A i \in 1..Len(ch'[F]) : ch'[F][i] = ch[F][i + 1]
         /\ \A d \in Callers \ {F} : ch'[d] = ch[d]
         /\ res.typ = "error" => ConnError(res) /\ res.id = 0
         /\ res.typ # "error" => /\ Answer(res) /\ res.id \in DOMAIN xfer.reqs
                                 /\ req \in [off : Nat, len : Nat] /\ InRange(req)
<1> USE DEF Basics, Known, ConnOK
<1>1. ch[F] # <<>> /\ ch' = [ch EXCEPT ![F] = Tail(@)]
  BY Zenon DEF Receive
<1>2. /\ res \in ResultSet /\ res = ch[F][1] /\ ch' \in [Callers -> Seq(ResultSet)]
      /\ Len(ch[F]) \in Nat /\ Len(ch'[F]) = Len(ch[F]) - 1 /\ Len(ch[F]) > 0
      /\ \A i \in 1..Len(ch'[F]) : ch'[F][i] = ch[F][i + 1]
      /\ \A d \in Callers \ {F} : ch'[d] = ch[d]
  BY <1>1, FileIsCaller, TailFacts DEF res, ConnTypes
<1>3. Held(1)
  BY <1>2 DEF ResultsOK, ChanOK
<1>4. ConnError(res) \/ Answer(res)
  BY Zenon, <1>2, <1>3 DEF Held
<1>5. Answer(res) => res.typ # "error" /\ res.id \in DOMAIN xfer.reqs
  BY Zenon DEF Answer
<1>6. res.id \in DOMAIN xfer.reqs => req \in [off : Nat, len : Nat] /\ InRange(req)
  BY Zenon DEF req, OpTypes, Remembered, ReqsOK, RangesOK
<1>7. ConnError(res) => res.typ = "error" /\ res.id = 0
  BY Zenon, <1>2, ErrorId DEF ConnError
<1> QED BY Zenon, <1>2, <1>4, <1>5, <1>6, <1>7

LEMMA TakenOne ==
  ASSUME OpTypes, Receive
  PROVE  xfer.n \in Nat /\ xfer.n > 0
BY DEF Receive, OpTypes, Shape

\* A result is taken, and nothing is asked for.

LEMMA TakesShape ==
  ASSUME NEW x, Shape(x), NEW y, x.n > 0,
         DOMAIN y = OpFields, y.kind = x.kind, y.start = x.start, y.next = x.next, y.end = x.end,
         y.size = x.size, y.done = x.done, y.n = x.n - 1, y.want \in 1..MaxConcurrent,
         y.err # <<>> => y.err \in Nat \X (Errs \cup {"read", "write", "inconsistency"}),
         IsFiniteSet(DOMAIN y.got)
  PROVE  Shape(y)
<1>1. x.n \in 0..MaxConcurrent /\ MaxConcurrent \in Nat
  BY Zenon, FileAssumptions DEF Shape
<1>2. y.n \in 0..MaxConcurrent
  BY <1>1
<1> QED BY Zenon, <1>2 DEF Shape

LEMMA TakesTypes ==
  ASSUME OpTypes, UNCHANGED <<nextid, sending, call>>, Fault \/ UNCHANGED faults, Shape(xfer'),
         xfer'.reqs = Rest, dropped' \in BOOLEAN
  PROVE  OpTypes'
<1>1. faults' \in 0..MaxFaults /\ Remembered(Rest, nextid)
  BY Zenon, FaultCounts, LessReqs
<1> QED BY <1>1, Zenon DEF OpTypes

LEMMA DataFacts ==
  ASSUME Basics, Receive, res.typ = "data", xfer.kind \in Reads
  PROVE  /\ res.data \in Seq(Nat) /\ Len(res.data) \in Nat /\ Len(res.data) > 0
         /\ Len(res.data) <= req.len /\ req.off + Len(res.data) <= FileSize /\ req.off < FileSize
         /\ xfer.kind = "WriteTo" => Len(res.data) = min(req.len, FileSize - req.off)
         /\ \A i \in 1..Len(res.data) : res.data[i] = Stored(req.off + i - 1)
<1>1. res \in ResultSet /\ Answer(res) /\ req \in [off : Nat, len : Nat]
  BY Zenon, HeadFacts
<1>2. res.data \in Seq(Nat) /\ FileSize \in Nat
  BY Zenon, <1>1, FileAssumptions DEF ResultSet
<1>3. PICK n \in Nat : n = Len(res.data)
  BY <1>2
<1>4. /\ req.off < FileSize /\ n \in 1..min(req.len, FileSize - req.off)
      /\ xfer.kind = "WriteTo" => n = min(req.len, FileSize - req.off)
      /\ \A i \in 1..n : res.data[i] = Stored(req.off + i - 1)
  BY Zenon, <1>1, <1>3 DEF Answer, req
<1>5. n > 0 /\ n <= req.len /\ req.off + n <= FileSize
  BY SMTT(60), <1>1, <1>2, <1>3, <1>4 DEF min
<1> QED BY Zenon, <1>2, <1>3, <1>4, <1>5
=============================================================================
