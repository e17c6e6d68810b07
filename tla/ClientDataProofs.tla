-------------------------- MODULE ClientDataProofs --------------------------
(***************************************************************************)
(* What a transfer makes of the results: every step keeps what it has read *)
(* or written true to the file, WriteTo in the order of the file.          *)
(***************************************************************************)
EXTENDS ClientFieldProofs

\* A step in which the transfer has no part.
LEMMA OthersData ==
  ASSUME Data, UNCHANGED <<xfer, dropped>>, Grows, ended' = ended \/ ended = "nil"
  PROVE  Data'
<1> USE DEF Data
<1>1. ended' # "EOF" => ended # "EOF"
  BY Zenon
<1>2. /\ AllWell' <=> AllWell /\ At' = At
      /\ \A o : (InRequest(o)' <=> InRequest(o)) /\ (InChunk(o)' <=> InChunk(o))
  BY Zenon DEF AllWell, At, InRequest, InChunk
<1>3. ReadErr'
  BY <1>1, <1>2, Zenon DEF ReadErr
<1>4. ReadAtOK'
  BY <1>1, <1>2, Zenon DEF ReadAtOK
<1>5. WriteToOK'
  <2>1. UNCHANGED <<OutOK, ChunksOK, AskedApart>>
    BY Zenon DEF OutOK, ChunksOK, AskedApart, At
  <2>2. Covered => Covered'
    BY <1>1, <1>2, Zenon DEF Covered
  <2> QED BY <2>1, <2>2, Zenon DEF WriteToOK
<1>6. WriteOK'
  BY <1>1, <1>2, Zenon DEF WriteOK, Grows
<1>7. DoneOK'
  BY Zenon DEF DoneOK
<1> QED BY Zenon, <1>3, <1>4, <1>5, <1>6, <1>7

-----------------------------------------------------------------------------
(* The requests of the transfer, with one more ...                         *)

LEMMA MoreAsked ==
  ASSUME Counting, ConnTypes, OpTypes, NEW off \in Nat, NEW len \in Nat,
         xfer'.reqs = Put(xfer.reqs, nextid + 1, [off |-> off, len |-> len])
  PROVE  /\ DOMAIN xfer'.reqs = DOMAIN xfer.reqs \cup {nextid + 1} /\ nextid + 1 \notin DOMAIN xfer.reqs
         /\ xfer'.reqs[nextid + 1].off = off /\ xfer'.reqs[nextid + 1].len = len
         /\ \A id \in DOMAIN xfer.reqs : xfer'.reqs[id] = xfer.reqs[id]
         /\ Cardinality(DOMAIN xfer'.reqs) = Cardinality(DOMAIN xfer.reqs) + 1
         /\ \A o : InRequest(o) => InRequest(o)'
         /\ \A o \in off..off + len - 1 : InRequest(o)'
<1>1. nextid \in Nat /\ Remembered(xfer.reqs, nextid)
  BY Zenon DEF ConnTypes, OpTypes
<1>2. nextid + 1 \notin DOMAIN xfer.reqs
  BY <1>1 DEF Remembered
<1>3. PICK r : r = [off |-> off, len |-> len]
  BY Zenon
<1>4. r.off = off /\ r.len = len
  BY Zenon, <1>3
<1>5. xfer'.reqs = Put(xfer.reqs, nextid + 1, r)
  BY Zenon, <1>3
<1>6. /\ DOMAIN xfer'.reqs = DOMAIN xfer.reqs \cup {nextid + 1} /\ xfer'.reqs[nextid + 1] = r
      /\ \A id \in DOMAIN xfer.reqs : xfer'.reqs[id] = xfer.reqs[id]
  BY <1>2, <1>5, Zenon DEF Put
<1>7. DOMAIN xfer.reqs \in SUBSET (1..nextid)
  BY Zenon, <1>1 DEF Remembered
<1>8. Cardinality(DOMAIN xfer'.reqs) = Cardinality(DOMAIN xfer.reqs) + 1
  BY Zenon, <1>1, <1>2, <1>6, <1>7, CountUpTo, CountAdd
<1>9. \A o : InRequest(o) => InRequest(o)'
  BY <1>6, Zenon DEF InRequest
<1>10. \A o \in off..off + len - 1 : InRequest(o)'
  BY <1>4, <1>6, Zenon DEF InRequest
<1> QED BY Zenon, <1>2, <1>4, <1>6, <1>8, <1>9, <1>10

\* ... and with one less.
LEMMA LessAsked ==
  ASSUME Counting, ConnTypes, OpTypes, xfer'.reqs = Rest
  PROVE  /\ DOMAIN xfer'.reqs = DOMAIN xfer.reqs \ {res.id}
         /\ \A id \in DOMAIN xfer'.reqs : xfer'.reqs[id] = xfer.reqs[id]
         /\ res.id \in DOMAIN xfer.reqs =>
              Cardinality(DOMAIN xfer'.reqs) = Cardinality(DOMAIN xfer.reqs) - 1
         /\ \A o : InRequest(o) => \/ InRequest(o)'
                                   \/ res.id \in DOMAIN xfer.reqs /\ o \in req.off..req.off + req.len - 1
<1>1. nextid \in Nat /\ DOMAIN xfer.reqs \in SUBSET (1..nextid)
  BY Zenon DEF ConnTypes, OpTypes, Remembered
<1>2. /\ DOMAIN xfer'.reqs = DOMAIN xfer.reqs \ {res.id}
      /\ \A id \in DOMAIN xfer'.reqs : xfer'.reqs[id] = xfer.reqs[id]
  BY Zenon, LessReqs
<1>3. res.id \in DOMAIN xfer.reqs =>
        Cardinality(DOMAIN xfer'.reqs) = Cardinality(DOMAIN xfer.reqs) - 1
  BY Zenon, <1>1, <1>2, CountUpTo, CountRemove
<1>4. ASSUME NEW o, InRequest(o)
      PROVE  InRequest(o)' \/ (res.id \in DOMAIN xfer.reqs /\ o \in req.off..req.off + req.len - 1)
  <2>1. PICK id \in DOMAIN xfer.reqs :
          o \in xfer.reqs[id].off..xfer.reqs[id].off + xfer.reqs[id].len - 1
    BY Zenon, <1>4 DEF InRequest
  <2>2. CASE id = res.id
    BY Zenon, <2>1, <2>2 DEF req
  <2>3. CASE id # res.id
    BY <1>2, <2>1, <2>3, Zenon DEF InRequest
  <2> QED BY Zenon, <2>2, <2>3
<1> QED BY Zenon, <1>2, <1>3, <1>4

-----------------------------------------------------------------------------
(* Sending.                                                                *)

\* What has been asked for reaches to the next request.
LEMMA Reach ==
  ASSUME NEW a \in Nat, NEW len \in Nat, NEW s \in Nat, NEW o \in s..min(a + len, FileSize) - 1
  PROVE  o \in s..min(a, FileSize) - 1 \/ o \in a..a + len - 1
BY FileAssumptions DEF min

LEMMA ReadsSendData ==
  ASSUME Counting, Basics, Data, ReadAtSends \/ WriteToSends
  PROVE  Data'
<1>a. /\ OpTypes /\ ConnTypes /\ Room /\ UNCHANGED <<ended, file, dropped>> /\ ~xfer.done
      /\ xfer.kind \in Reads
  BY Zenon DEF Basics, ConnOK, ReadAtSends, WriteToSends, sendRest, Running, Reads
<1>b. /\ xfer.next \in Nat /\ xfer.start \in Nat /\ xfer.n \in Nat /\ MaxPacket \in Nat
      /\ xfer.done = FALSE
  BY <1>a, FileAssumptions DEF OpTypes, Shape
<1>c. xfer.err = <<>>
  BY Zenon, <1>a, RoomFacts
<1>d. PICK len \in Nat :
        /\ xfer'.kind = xfer.kind /\ xfer'.start = xfer.start /\ xfer'.err = xfer.err
        /\ xfer'.got = xfer.got /\ xfer'.out = xfer.out /\ xfer'.done = xfer.done
        /\ xfer'.n = xfer.n + 1 /\ xfer'.next = xfer.next + len
        /\ xfer'.reqs = Put(xfer.reqs, nextid + 1, [off |-> xfer.next, len |-> len])
        /\ xfer.kind = "WriteTo" => len = MaxPacket
  <2>1. CASE ReadAtSends
    <3>1. xfer.kind = "ReadAt"
      BY Zenon, <2>1 DEF ReadAtSends, Running
    <3>2. Len1 \in Nat
      BY Zenon, <1>a, <3>1, Len1Facts
    <3> QED BY Zenon, <1>a, <2>1, <3>1, <3>2, ReadAtSendsFields
  <2>2. CASE WriteToSends
    BY Zenon, <1>a, <1>b, <2>2, WriteToSendsFields
  <2> QED BY Zenon, <2>1, <2>2
<1>e. /\ DOMAIN xfer'.reqs = DOMAIN xfer.reqs \cup {nextid + 1} /\ nextid + 1 \notin DOMAIN xfer.reqs
      /\ xfer'.reqs[nextid + 1].off = xfer.next /\ xfer'.reqs[nextid + 1].len = len
      /\ \A id \in DOMAIN xfer.reqs : xfer'.reqs[id] = xfer.reqs[id]
      /\ Cardinality(DOMAIN xfer'.reqs) = Cardinality(DOMAIN xfer.reqs) + 1
      /\ \A o : InRequest(o) => InRequest(o)'
      /\ \A o \in xfer.next..xfer.next + len - 1 : InRequest(o)'
  BY Zenon, <1>a, <1>b, <1>d, MoreAsked
<1>f. AllWell /\ xfer'.err = <<>>
  BY Zenon, <1>c, <1>d DEF AllWell
<1>g. \A o \in xfer.start..min(xfer'.next, FileSize) - 1 :
        o \in xfer.start..min(xfer.next, FileSize) - 1 \/ InRequest(o)'
  BY Zenon, <1>b, <1>d, <1>e, Reach
<1>1. ReadErr'
  BY Zenon, <1>a, <1>d, <1>e, <1>f DEF Data, ReadErr
<1>2. DoneOK' /\ WriteOK'
  BY Zenon, <1>a, <1>b, <1>d DEF DoneOK, WriteOK, Reads
<1>3. ReadAtOK'
  <2>1. \A o : o \in xfer.start..min(xfer.next, FileSize) - 1 => o \in xfer.start..min(xfer'.next, FileSize) - 1
    BY <1>b, <1>d, FileAssumptions DEF min
  <2>2. CASE xfer.kind = "ReadAt"
    <3>1. /\ xfer.got = [o \in DOMAIN xfer.got |-> xfer.got[o]]
          /\ \A o \in DOMAIN xfer.got : o \in xfer.start..min(xfer.next, FileSize) - 1 /\ xfer.got[o] = Stored(o)
          /\ ended # "EOF" =>
               \A o \in xfer.start..min(xfer.next, FileSize) - 1 : o \in DOMAIN xfer.got \/ InRequest(o)
      BY Zenon, <1>f, <2>2 DEF Data, ReadAtOK
    <3>2. /\ xfer'.got = [o \in DOMAIN xfer'.got |-> xfer'.got[o]]
          /\ \A o \in DOMAIN xfer'.got :
               o \in xfer'.start..min(xfer'.next, FileSize) - 1 /\ xfer'.got[o] = Stored(o)
      BY <1>d, <2>1, <3>1, Zenon
    <3>3. ended' # "EOF" =>
            \A o \in xfer'.start..min(xfer'.next, FileSize) - 1 : o \in DOMAIN xfer'.got \/ InRequest(o)'
      BY <1>a, <1>d, <1>e, <1>g, <3>1, Zenon
    <3> QED BY <3>2, <3>3, Zenon DEF ReadAtOK
  <2> QED BY Zenon, <1>d, <2>2 DEF ReadAtOK
<1>4. WriteToOK'
  <2> SUFFICES ASSUME xfer.kind = "WriteTo"
               PROVE  WriteToOK'
    BY Zenon, <1>d DEF WriteToOK
  <2>1. WriteToOK /\ len = MaxPacket /\ At' = At
    BY Zenon, <1>d DEF Data, At
  <2>2. /\ xfer.out \in Seq(Nat) /\ At \in Nat /\ At <= xfer.next
    BY <1>b, <2>1 DEF WriteToOK, OutOK, At
  <2>3. \A a \in DOMAIN xfer.got : a \in Nat /\ a + MaxPacket <= xfer.next
    BY Zenon, <2>1 DEF WriteToOK, ChunksOK
  <2>4. \A id \in DOMAIN xfer.reqs : xfer.reqs[id].off \in Nat /\ xfer.reqs[id].off + MaxPacket <= xfer.next
    BY Zenon, <1>a DEF Basics, ReqsOK, RangesOK, InRange, OpTypes, Remembered
  <2>5. AskedApart'
    <3> SUFFICES ASSUME NEW id \in DOMAIN xfer'.reqs
                 PROVE  /\ xfer'.reqs[id].off >= At
                        /\ \A a \in DOMAIN xfer.got : Apart(xfer'.reqs[id].off, a)
                        /\ \A k \in DOMAIN xfer'.reqs : id = k \/ Apart(xfer'.reqs[id].off, xfer'.reqs[k].off)
      BY Zenon, <1>d, <2>1 DEF AskedApart, Apart
    <3>1. CASE id = nextid + 1
      <4>1. xfer'.reqs[id].off = xfer.next
        BY Zenon, <1>e, <3>1
      <4>2. \A k \in DOMAIN xfer'.reqs : k # id => k \in DOMAIN xfer.reqs /\ xfer'.reqs[k] = xfer.reqs[k]
        BY Zenon, <1>e, <3>1
      <4> QED BY Zenon, <1>b, <2>2, <2>3, <2>4, <4>1, <4>2 DEF Apart
    <3>2. CASE id # nextid + 1
      <4>1. id \in DOMAIN xfer.reqs /\ xfer'.reqs[id] = xfer.reqs[id]
        BY Zenon, <1>e, <3>2
      <4>2. xfer.reqs[id].off >= At /\ \A a \in DOMAIN xfer.got : Apart(xfer.reqs[id].off, a)
        BY <2>1, <4>1, Zenon DEF WriteToOK, AskedApart
      <4>3. \A k \in DOMAIN xfer.reqs : id = k \/ Apart(xfer.reqs[id].off, xfer.reqs[k].off)
        BY <2>1, <4>1, Zenon DEF WriteToOK, AskedApart
      <4>4. Apart(xfer.reqs[id].off, xfer.next)
        BY Zenon, <2>4, <4>1 DEF Apart
      <4>5. \A k \in DOMAIN xfer'.reqs : id = k \/ Apart(xfer.reqs[id].off, xfer'.reqs[k].off)
        BY Zenon, <1>e, <4>3, <4>4
      <4> QED BY Zenon, <4>1, <4>2, <4>5
    <3> QED BY Zenon, <3>1, <3>2
  <2>6. xfer.next <= xfer'.next /\ \A x : x \in Nat /\ x <= xfer.next => x <= xfer'.next
    BY <1>b, <1>d
  <2>7. \A a \in DOMAIN xfer.got : a + MaxPacket <= xfer'.next
    BY <1>b, <2>3, <2>6
  <2>8. At <= xfer'.next
    BY Zenon, <2>2, <2>6
  <2>9. \A o : InChunk(o)' <=> InChunk(o)
    BY Zenon, <1>d DEF InChunk
  <2>10. Covered'
    <3> SUFFICES ASSUME ended' # "EOF", NEW o \in xfer'.start..min(xfer'.next, FileSize) - 1
                 PROVE  o < At' \/ InChunk(o)' \/ InRequest(o)'
      BY Zenon DEF Covered
    <3>1. o \in xfer.start..min(xfer.next, FileSize) - 1 => o < At \/ InChunk(o) \/ InRequest(o)
      BY <1>a, <1>f, <2>1, Zenon DEF WriteToOK, Covered
    <3> QED BY <1>d, <1>e, <1>g, <2>1, <2>9, <3>1, Zenon
  <2>11. OutOK'
    BY <1>d, <2>1, <2>8, Zenon DEF WriteToOK, OutOK
  <2>12. ChunksOK'
    BY <1>d, <2>1, <2>7, ZenonT(60) DEF WriteToOK, ChunksOK, Apart
  <2> QED BY <2>5, <2>10, <2>11, <2>12, Zenon DEF WriteToOK
<1> QED BY Zenon, <1>1, <1>2, <1>3, <1>4 DEF Data

LEMMA WritesSendData ==
  ASSUME Counting, Basics, Data, WriteSends \/ ReadFromSends
  PROVE  Data'
<1>a. /\ OpTypes /\ ConnTypes /\ Room /\ UNCHANGED <<ended, file, dropped>> /\ ~xfer.done
      /\ xfer.kind \in {"Write", "ReadFrom"}
  BY Zenon DEF Basics, ConnOK, WriteSends, ReadFromSends, sendRest, Running
<1>b. xfer.next \in Nat /\ xfer.start \in Nat /\ xfer.n \in Nat /\ xfer.done = FALSE
  BY <1>a DEF OpTypes, Shape
<1>c. xfer.err = <<>>
  BY Zenon, <1>a, RoomFacts
<1>d. PICK len, e :
        /\ len \in Nat /\ xfer'.kind = xfer.kind /\ xfer'.start = xfer.start /\ xfer'.end = xfer.end
        /\ xfer'.err = e /\ xfer'.done = xfer.done
        /\ xfer'.n = xfer.n + 1 /\ xfer'.next = xfer.next + len
        /\ xfer'.reqs = Put(xfer.reqs, nextid + 1, [off |-> xfer.next, len |-> len])
        /\ \/ e = <<>>
           \/ e = <<0, "EOF">> /\ xfer'.next = xfer'.end
           \/ e = <<0, "read">>
  <2>1. CASE WriteSends
    <3>1. Len1 \in Nat
      BY Zenon, <1>a, Len1Facts
    <3> QED BY Zenon, <1>a, <1>c, <2>1, <3>1, WriteSendsFields
  <2>2. CASE ReadFromSends
    <3>1. PICK len, e :
            /\ xfer'.kind = xfer.kind /\ xfer'.start = xfer.start /\ xfer'.end = xfer.end
            /\ xfer'.err = e /\ xfer'.done = xfer.done
            /\ xfer'.n = xfer.n + 1 /\ xfer'.next = xfer.next + len
            /\ xfer'.reqs = Put(xfer.reqs, nextid + 1, [off |-> xfer.next, len |-> len])
            /\ \/ len = Len1 /\ e = IF len = 0 THEN <<0, "EOF">> ELSE xfer.err
               \/ len = 0 /\ e = <<0, "read">>
      BY <1>a, <2>2, ReadFromSendsFields, Zenon
    <3>2. Len1 \in Nat /\ (Len1 = 0 => xfer.next = xfer.end)
      BY Zenon, <1>a, Len1Facts
    <3>3. len \in Nat /\ (len = Len1 /\ len = 0 => xfer'.next = xfer'.end)
      BY <1>b, <3>1, <3>2
    <3> QED BY Zenon, <1>c, <3>1, <3>3
  <2> QED BY Zenon, <1>a, <2>1, <2>2
<1>e. /\ DOMAIN xfer'.reqs = DOMAIN xfer.reqs \cup {nextid + 1} /\ nextid + 1 \notin DOMAIN xfer.reqs
      /\ Cardinality(DOMAIN xfer'.reqs) = Cardinality(DOMAIN xfer.reqs) + 1
      /\ \A o : InRequest(o) => InRequest(o)'
      /\ \A o \in xfer.next..xfer.next + len - 1 : InRequest(o)'
  BY Zenon, <1>a, <1>b, <1>d, MoreAsked
<1>1. ReadErr' /\ ReadAtOK' /\ WriteToOK' /\ DoneOK'
  BY Zenon, <1>a, <1>b, <1>d DEF ReadErr, ReadAtOK, WriteToOK, DoneOK, Reads
<1>2. WriteOK'
  <2> SUFFICES ASSUME ended # "EOF", ~dropped, xfer'.err = <<>> \/ xfer'.err[2] = "EOF"
               PROVE  /\ xfer'.n = Cardinality(DOMAIN xfer'.reqs)
                      /\ \A o \in xfer'.start..xfer'.next - 1 :
                           (o \in DOMAIN file /\ file[o] = Source(o)) \/ InRequest(o)'
                      /\ xfer'.err # <<>> => xfer'.next = xfer'.end
    BY <1>a, Zenon DEF WriteOK
  <2>1. /\ xfer.n = Cardinality(DOMAIN xfer.reqs)
        /\ \A o \in xfer.start..xfer.next - 1 :
             (o \in DOMAIN file /\ file[o] = Source(o)) \/ InRequest(o)
    BY <1>a, <1>c, Zenon DEF Data, WriteOK
  <2>2. \A o \in xfer.start..xfer.next + len - 1 :
          o \in xfer.start..xfer.next - 1 \/ o \in xfer.next..xfer.next + len - 1
    BY <1>b
  <2>3. xfer'.err # <<>> => xfer'.next = xfer'.end
    BY <1>d
  <2>4. xfer'.n = Cardinality(DOMAIN xfer'.reqs)
    BY <1>d, <1>e, <2>1, Zenon
  <2>5. xfer'.start = xfer.start /\ xfer'.next = xfer.next + len /\ len \in Nat
    BY <1>d, Zenon
  <2>6. \A o \in xfer'.start..xfer'.next - 1 :
          (o \in DOMAIN file /\ file[o] = Source(o)) \/ InRequest(o)'
    <3> SUFFICES ASSUME NEW o \in xfer'.start..xfer'.next - 1
                 PROVE  (o \in DOMAIN file /\ file[o] = Source(o)) \/ InRequest(o)'
      BY Zenon
    <3>1. o \in xfer.start..xfer.next + len - 1
      BY <1>b, <2>5
    <3>2. o \in xfer.start..xfer.next - 1 \/ o \in xfer.next..xfer.next + len - 1
      BY <2>2, <3>1, Zenon
    <3>3. CASE o \in xfer.start..xfer.next - 1
      BY <1>e, <2>1, <3>3, Zenon
    <3>4. CASE o \in xfer.next..xfer.next + len - 1
      BY <1>e, <3>4, Zenon
    <3> QED BY Zenon, <3>2, <3>3, <3>4
  <2> QED BY Zenon, <2>3, <2>4, <2>6
<1> QED BY Zenon, <1>1, <1>2 DEF Data

-----------------------------------------------------------------------------
(* Taking results.                                                         *)

LEMMA TakeErrorData ==
  ASSUME Counting, Basics, Data, TakeError
  PROVE  Data'
<1>a. /\ OpTypes /\ ConnTypes /\ Receive /\ res.typ = "error" /\ UNCHANGED <<ended, file, dropped>>
      /\ ~xfer.done
  BY Zenon DEF Basics, ConnOK, TakeError, Receive, sendRest, Running
<1>b. ConnError(res) /\ res.id = 0
  BY Zenon, <1>a, HeadFacts
<1>c. /\ xfer'.kind = xfer.kind /\ xfer'.start = xfer.start /\ xfer'.next = xfer.next
      /\ xfer'.end = xfer.end /\ xfer'.got = xfer.got /\ xfer'.out = xfer.out
      /\ xfer'.done = xfer.done /\ xfer'.reqs = Rest /\ xfer'.err = <<0, res.err>>
  BY Zenon, <1>a, TakeErrorFields
<1>d. /\ DOMAIN xfer'.reqs = DOMAIN xfer.reqs
      /\ \A id \in DOMAIN xfer'.reqs : xfer'.reqs[id] = xfer.reqs[id]
  <2>1. 0 \notin DOMAIN xfer.reqs
    BY <1>a DEF OpTypes, Remembered
  <2>2. /\ DOMAIN Rest = DOMAIN xfer.reqs \ {res.id}
        /\ \A id \in DOMAIN Rest : Rest[id] = xfer.reqs[id]
    BY Zenon, <1>a, LessReqs
  <2> QED BY Zenon, <1>b, <1>c, <2>1, <2>2
<1>e. /\ xfer'.err # <<>> /\ xfer'.err[1] = 0 /\ xfer'.err[2] = res.err /\ 0 <= FileSize
      /\ res.err \in {"send", "EOF", "reset"} /\ (res.err = "EOF" => ended = "EOF")
  BY <1>a, <1>b, <1>c, FileAssumptions DEF ConnError, ConnTypes
<1>f. ended' # "EOF" => ~AllWell'
  BY Zenon, <1>a, <1>e DEF AllWell
<1>1. ReadErr'
  BY Zenon, <1>a, <1>e, <1>f DEF ReadErr
<1>2. ReadAtOK'
  BY <1>a, <1>c, <1>f, Zenon DEF Data, ReadAtOK
<1>3. WriteToOK'
  <2>1. At' = At
    BY Zenon, <1>c DEF At
  <2>2. Covered'
    BY Zenon, <1>f DEF Covered
  <2>3. /\ OutOK => OutOK'
        /\ ChunksOK => ChunksOK'
    BY Zenon, <1>c, <2>1 DEF OutOK, ChunksOK
  <2>4. AskedApart => AskedApart'
    BY <1>c, <1>d, <2>1, Zenon DEF AskedApart
  <2> QED BY Zenon, <1>c, <2>2, <2>3, <2>4 DEF Data, WriteToOK
<1>4. WriteOK' /\ DoneOK'
  BY Zenon, <1>a, <1>c, <1>e DEF WriteOK, DoneOK
<1> QED BY Zenon, <1>1, <1>2, <1>3, <1>4 DEF Data

\* A request that the server refused leaves a hole, unless it lay behind the end of the file.
LEMMA LowestKept ==
  ASSUME Basics, ReadErr, Receive, xfer.kind \in Reads, res.typ = "status",
         xfer'.err = LowestErr(xfer.err, req.off, res.err), AllWell'
  PROVE  AllWell /\ req.off >= FileSize
<1>a. Answer(res) /\ req.off \in Nat /\ FileSize \in Nat /\ Shape(xfer)
  BY Zenon, HeadFacts, FileAssumptions DEF Basics, OpTypes
<1>b. res.err \in {"failure", "EOF"}
  BY Zenon, <1>a DEF Answer
<1>1. CASE xfer.err = <<>>
  <2>1. xfer'.err = <<req.off, res.err>>
    BY Zenon, <1>1 DEF LowestErr
  <2>2. req.off >= FileSize
    BY <2>1 DEF AllWell
  <2>3. AllWell
    BY <1>1, Zenon DEF AllWell
  <2> QED BY Zenon, <2>2, <2>3
<1>2. CASE xfer.err # <<>> /\ req.off < xfer.err[1]
  <2>1. xfer'.err = <<req.off, res.err>>
    BY Zenon, <1>2 DEF LowestErr
  <2>2. req.off >= FileSize
    BY <2>1 DEF AllWell
  <2>3. xfer.err[1] \in Nat
    BY Zenon, <1>2, <1>a DEF Shape
  <2>4. ~(xfer.err[1] <= FileSize) /\ xfer.err[1] >= FileSize
    BY <1>a, <1>2, <2>2, <2>3
  <2> QED BY Zenon, <1>2, <2>2, <2>4 DEF ReadErr, AllWell
<1>3. CASE xfer.err # <<>> /\ ~(req.off < xfer.err[1])
  <2>1. xfer'.err = xfer.err
    BY Zenon, <1>3 DEF LowestErr
  <2>2. AllWell /\ xfer.err[1] >= FileSize
    BY Zenon, <1>3, <2>1 DEF AllWell
  <2>3. xfer.err[1] \in Nat
    BY Zenon, <1>3, <1>a DEF Shape
  <2> QED BY <1>3, <1>a, <2>2, <2>3
<1> QED BY Zenon, <1>1, <1>2, <1>3

LEMMA TakeReadStatusData ==
  ASSUME Counting, Basics, Data, TakeReadStatus
  PROVE  Data'
<1>a. /\ OpTypes /\ ConnTypes /\ Receive /\ res.typ = "status" /\ UNCHANGED <<ended, file, dropped>>
      /\ ~xfer.done /\ xfer.kind \in Reads
  BY Zenon DEF Basics, ConnOK, TakeReadStatus, Receive, sendRest, Running
<1>b. Answer(res) /\ res.id \in DOMAIN xfer.reqs /\ req \in [off : Nat, len : Nat] /\ InRange(req)
  BY Zenon, <1>a, HeadFacts
<1>c. /\ xfer'.kind = xfer.kind /\ xfer'.start = xfer.start /\ xfer'.next = xfer.next
      /\ xfer'.end = xfer.end /\ xfer'.got = xfer.got /\ xfer'.out = xfer.out
      /\ xfer'.done = xfer.done /\ xfer'.reqs = Rest /\ xfer'.n = xfer.n - 1
      /\ xfer'.err = LowestErr(xfer.err, req.off, res.err)
  BY Zenon, <1>a, TakeReadStatusFields
<1>d. /\ DOMAIN xfer'.reqs = DOMAIN xfer.reqs \ {res.id}
      /\ \A id \in DOMAIN xfer'.reqs : xfer'.reqs[id] = xfer.reqs[id]
      /\ Cardinality(DOMAIN xfer'.reqs) = Cardinality(DOMAIN xfer.reqs) - 1
      /\ \A o : InRequest(o) => InRequest(o)' \/ o \in req.off..req.off + req.len - 1
  BY Zenon, <1>a, <1>b, <1>c, LessAsked
<1>e. AllWell' => AllWell /\ req.off >= FileSize
  BY Zenon, <1>a, <1>c, LowestKept DEF Data
<1>f. \A o \in xfer.start..min(xfer.next, FileSize) - 1 : AllWell' /\ InRequest(o) => InRequest(o)'
  <2>1. FileSize \in Nat /\ xfer.next \in Nat /\ xfer.start \in Nat
    BY Zenon, <1>a, FileAssumptions DEF OpTypes, Shape
  <2>2. \A o \in xfer.start..min(xfer.next, FileSize) - 1 : o \in Int /\ o < FileSize
    BY <2>1 DEF min
  <2> QED BY <1>b, <1>d, <1>e, <2>1, <2>2
<1>1. ReadErr'
  <2>1. xfer'.err = <<req.off, res.err>> \/ (xfer.err # <<>> /\ xfer'.err = xfer.err)
    BY Zenon, <1>c DEF LowestErr
  <2>2. /\ req.off < xfer.next /\ res.err \in {"failure", "EOF"}
        /\ res.err = "EOF" => req.off >= FileSize
    <3>1. xfer.next \in Nat
      BY Zenon, <1>a DEF OpTypes, Shape
    <3> QED BY <1>a, <1>b, <3>1 DEF Answer, InRange, req
  <2>3. AllWell' /\ ended' # "EOF" => xfer'.n = Cardinality(DOMAIN xfer'.reqs)
    BY Zenon, <1>a, <1>c, <1>d, <1>e DEF Data, ReadErr
  <2>4. CASE xfer'.err = <<req.off, res.err>>
    <3>1. xfer'.err[1] = req.off /\ xfer'.err[2] = res.err
      BY <2>4
    <3> QED BY <1>c, <2>2, <2>3, <3>1, Zenon DEF ReadErr
  <2>5. CASE xfer.err # <<>> /\ xfer'.err = xfer.err
    BY <1>a, <1>c, <2>3, <2>5, Zenon DEF Data, ReadErr
  <2> QED BY Zenon, <2>1, <2>4, <2>5
<1>2. ReadAtOK'
  BY <1>a, <1>c, <1>e, <1>f, Zenon DEF Data, ReadAtOK
<1>3. WriteToOK'
  <2>1. At' = At /\ \A o : InChunk(o)' <=> InChunk(o)
    BY Zenon, <1>c DEF At, InChunk
  <2>2. Covered => Covered'
    BY <1>a, <1>c, <1>e, <1>f, <2>1, Zenon DEF Covered
  <2>3. /\ OutOK => OutOK'
        /\ ChunksOK => ChunksOK'
    BY <1>c, <2>1 DEF OutOK, ChunksOK
  <2>4. AskedApart => AskedApart'
    BY Zenon, <1>c, <1>d, <2>1 DEF AskedApart, Apart
  <2> QED BY Zenon, <1>c, <2>2, <2>3, <2>4 DEF Data, WriteToOK
<1>4. WriteOK' /\ DoneOK'
  BY Zenon, <1>a, <1>c DEF WriteOK, DoneOK, Reads
<1> QED BY Zenon, <1>1, <1>2, <1>3, <1>4 DEF Data

LEMMA TakeWriteStatusData ==
  ASSUME Counting, Basics, Data, TakeWriteStatus
  PROVE  Data'
<1>a. /\ OpTypes /\ ConnTypes /\ Receive /\ res.typ = "status" /\ UNCHANGED <<ended, file>>
      /\ ~xfer.done /\ xfer.kind \in {"Write", "ReadFrom"}
      /\ dropped' = (dropped \/ (xfer.kind = "ReadFrom" /\ xfer.err # <<>> /\ res.err # "nil"))
  BY Zenon DEF Basics, ConnOK, TakeWriteStatus, Receive, sendRest, Running
<1>b. Answer(res) /\ res.id \in DOMAIN xfer.reqs
  BY Zenon, <1>a, HeadFacts
<1>c. /\ xfer'.kind = xfer.kind /\ xfer'.start = xfer.start /\ xfer'.next = xfer.next
      /\ xfer'.end = xfer.end /\ xfer'.done = xfer.done /\ xfer'.reqs = Rest /\ xfer'.n = xfer.n - 1
      /\ xfer'.err = IF res.err # "nil" /\ xfer.err = <<>> THEN <<0, res.err>> ELSE xfer.err
  BY Zenon, <1>a, TakeWriteStatusFields
<1>d. /\ Cardinality(DOMAIN xfer'.reqs) = Cardinality(DOMAIN xfer.reqs) - 1
      /\ \A o : InRequest(o) => InRequest(o)' \/ o \in req.off..req.off + req.len - 1
  BY Zenon, <1>a, <1>b, <1>c, LessAsked
<1>1. ReadErr' /\ ReadAtOK' /\ WriteToOK' /\ DoneOK'
  BY Zenon, <1>a, <1>c DEF ReadErr, ReadAtOK, WriteToOK, DoneOK, Reads
<1>2. WriteOK'
  <2> SUFFICES ASSUME ended # "EOF", ~dropped',
                      xfer'.err = <<>> \/ (xfer'.kind = "ReadFrom" /\ xfer'.err[2] = "EOF")
               PROVE  /\ xfer'.n = Cardinality(DOMAIN xfer'.reqs)
                      /\ \A o \in xfer'.start..xfer'.next - 1 :
                           (o \in DOMAIN file /\ file[o] = Source(o)) \/ InRequest(o)'
                      /\ xfer'.err # <<>> => xfer'.next = xfer'.end
    BY <1>a, Zenon DEF WriteOK
  <2>1. res.err = "failure" \/ (res.err = "nil" /\ Written(req.off, req.off + req.len))
    BY Zenon, <1>a, <1>b DEF Answer, Reads, req
  <2>2. res.err # "failure"
    <3> SUFFICES ASSUME res.err = "failure"
                 PROVE  FALSE
      BY Zenon
    <3>1. CASE xfer.err = <<>>
      <4>1. xfer'.err = <<0, "failure">>
        BY Zenon, <1>c, <3>1
      <4> QED BY <4>1
    <3>2. CASE xfer.err # <<>>
      <4>1. xfer'.err = xfer.err
        BY Zenon, <1>c, <3>2
      <4> QED BY Zenon, <1>a, <1>c, <3>2, <4>1
    <3> QED BY Zenon, <3>1, <3>2
  <2>3. xfer'.err = xfer.err /\ ~dropped /\ Written(req.off, req.off + req.len)
    BY Zenon, <1>a, <1>c, <2>1, <2>2
  <2>4. /\ xfer.n = Cardinality(DOMAIN xfer.reqs)
        /\ \A o \in xfer.start..xfer.next - 1 :
             (o \in DOMAIN file /\ file[o] = Source(o)) \/ InRequest(o)
        /\ xfer.err # <<>> => xfer.next = xfer.end
    BY <1>a, <1>c, <2>3, Zenon DEF Data, WriteOK
  <2>5. \A o \in req.off..req.off + req.len - 1 : o \in DOMAIN file /\ file[o] = Source(o)
    <3>1. req.off \in Nat /\ req.len \in Nat
      BY Zenon, <1>a, HeadFacts
    <3> QED BY <2>3, <3>1 DEF Written
  <2>6. \A o \in xfer.start..xfer.next - 1 :
          (o \in DOMAIN file /\ file[o] = Source(o)) \/ InRequest(o)'
    BY <1>d, <2>4, <2>5, Zenon
  <2> QED BY <1>c, <1>d, <2>3, <2>4, <2>6, Zenon
<1> QED BY Zenon, <1>1, <1>2 DEF Data

LEMMA ReadAtTakesData ==
  ASSUME Counting, Basics, Data, ReadAtTakes
  PROVE  Data'
<1>a. /\ OpTypes /\ ConnTypes /\ Receive /\ res.typ = "data" /\ UNCHANGED <<ended, file, dropped>>
      /\ ~xfer.done /\ xfer.kind = "ReadAt" /\ xfer.kind \in Reads
  BY Zenon DEF Basics, ConnOK, ReadAtTakes, Receive, sendRest, Running, Reads
<1>b. res.id \in DOMAIN xfer.reqs /\ req \in [off : Nat, len : Nat] /\ InRange(req)
  BY Zenon, <1>a, HeadFacts
<1>c. /\ xfer'.kind = xfer.kind /\ xfer'.start = xfer.start /\ xfer'.next = xfer.next
      /\ xfer'.err = xfer.err /\ xfer'.done = xfer.done /\ xfer'.got = Over(xfer.got, Here)
  BY Zenon, <1>a, ReadAtTakesFields
<1>d. PICK n \in Nat, a \in Nat, b \in Nat : n = Len(res.data) /\ a = req.off /\ b = req.len
  BY Zenon, <1>a, <1>b, DataFacts
<1>e. /\ n > 0 /\ n <= b /\ a + n <= FileSize
      /\ \A i \in 1..n : res.data[i] = Stored(a + i - 1)
  BY Zenon, <1>a, <1>d, DataFacts
<1>f. /\ xfer.start \in Nat /\ xfer.next \in Nat /\ FileSize \in Nat /\ xfer.n \in Nat
      /\ xfer.start <= a /\ a + b <= xfer.next
  BY SMTT(60), <1>a, <1>b, <1>d, FileAssumptions DEF OpTypes, Shape, InRange
<1>g. DOMAIN Here = a..a + n - 1 /\ \A o \in a..a + n - 1 : Here[o] = res.data[o - a + 1]
  BY Zenon, <1>d DEF Here
<1>h. \A o \in a..a + n - 1 : Here[o] = Stored(o)
  <2> SUFFICES ASSUME NEW o \in a..a + n - 1
               PROVE  Here[o] = Stored(o)
    BY Zenon
  <2>1. o - a + 1 \in 1..n /\ a + (o - a + 1) - 1 = o
    OBVIOUS
  <2>2. res.data[o - a + 1] = Stored(a + (o - a + 1) - 1)
    BY Zenon, <1>e, <2>1
  <2> QED BY Zenon, <1>g, <2>1, <2>2
<1>i. /\ DOMAIN xfer'.got = DOMAIN xfer.got \cup (a..a + n - 1)
      /\ xfer'.got = [o \in DOMAIN xfer'.got |-> xfer'.got[o]]
      /\ \A o \in DOMAIN xfer'.got : xfer'.got[o] = IF o \in a..a + n - 1 THEN Stored(o) ELSE xfer.got[o]
  BY Zenon, <1>c, <1>g, <1>h DEF Over
<1>j. /\ AllWell' <=> AllWell
      /\ AllWell /\ ended # "EOF" => xfer.n = Cardinality(DOMAIN xfer.reqs)
  BY Zenon, <1>a, <1>c DEF AllWell, Data, ReadErr
<1>k. /\ xfer.n = Cardinality(DOMAIN xfer.reqs) => xfer'.n = Cardinality(DOMAIN xfer'.reqs)
      /\ \A o : InRequest(o) => InRequest(o)' \/ o \in a..a + n - 1
  <2>1. /\ DOMAIN Rest = DOMAIN xfer.reqs \ {res.id}
        /\ \A id \in DOMAIN Rest : Rest[id] = xfer.reqs[id]
    BY Zenon, <1>a, LessReqs
  <2>2. nextid \in Nat /\ DOMAIN xfer.reqs \in SUBSET (1..nextid) /\ DOMAIN Rest \in SUBSET (1..nextid)
    BY Zenon, <1>a, <2>1 DEF ConnTypes, OpTypes, Remembered
  <2>3. Cardinality(DOMAIN Rest) = Cardinality(DOMAIN xfer.reqs) - 1 /\ IsFiniteSet(DOMAIN Rest)
    BY Zenon, <1>b, <2>1, <2>2, CountUpTo, CountRemove
  <2>4. Cardinality(DOMAIN xfer.reqs) \in Nat
    BY Zenon, <2>2, CountUpTo
  <2>5. CASE ~(n < b)
    <3>1. xfer'.n = xfer.n - 1 /\ xfer'.reqs = Rest /\ n = b
      BY <1>a, <1>d, <1>e, <2>5, ReadAtTakesFields
    <3>2. \A o : InRequest(o) => InRequest(o)' \/ o \in a..a + n - 1
      BY Zenon, <1>a, <1>d, <3>1, LessAsked
    <3> QED BY Zenon, <2>3, <3>1, <3>2
  <2>6. CASE n < b
    <3>1. PICK r : r = [off |-> a + n, len |-> b - n]
      BY Zenon
    <3>2. xfer'.n = xfer.n - 1 + 1 /\ xfer'.reqs = Put(Rest, nextid + 1, r)
      BY Zenon, <1>a, <1>d, <2>6, <3>1, ReadAtTakesFields
    <3>3. nextid + 1 \notin DOMAIN Rest
      BY <2>2
    <3>4. /\ DOMAIN xfer'.reqs = DOMAIN Rest \cup {nextid + 1} /\ xfer'.reqs[nextid + 1] = r
          /\ \A id \in DOMAIN Rest : xfer'.reqs[id] = xfer.reqs[id]
      BY <2>1, <3>2, <3>3, Zenon DEF Put
    <3>5. Cardinality(DOMAIN xfer'.reqs) = Cardinality(DOMAIN Rest) + 1
      BY Zenon, <2>3, <3>3, <3>4, CountAdd
    <3>6. ASSUME NEW o, InRequest(o)
          PROVE  InRequest(o)' \/ o \in a..a + n - 1
      <4>1. PICK id \in DOMAIN xfer.reqs :
              o \in xfer.reqs[id].off..xfer.reqs[id].off + xfer.reqs[id].len - 1
        BY Zenon, <3>6 DEF InRequest
      <4>2. CASE id = res.id
        <5>1. o \in a..a + b - 1
          BY Zenon, <1>d, <4>1, <4>2 DEF req
        <5>2. o \in a..a + n - 1 \/ o \in (a + n)..(a + n) + (b - n) - 1
          BY <1>e, <5>1
        <5>3. r.off = a + n /\ r.len = b - n
          BY Zenon, <3>1
        <5> QED BY <3>4, <5>2, <5>3, Zenon DEF InRequest
      <4>3. CASE id # res.id
        BY <2>1, <3>4, <4>1, <4>3, Zenon DEF InRequest
      <4> QED BY Zenon, <4>2, <4>3
    <3>7. xfer'.n = xfer.n
      BY <1>f, <3>2
    <3> QED BY <2>3, <2>4, <3>5, <3>6, <3>7
  <2> QED BY Zenon, <2>5, <2>6
<1>1. ReadErr'
  BY Zenon, <1>a, <1>c, <1>j, <1>k DEF Data, ReadErr
<1>2. ReadAtOK'
  <2>1. /\ \A o \in DOMAIN xfer.got : o \in xfer.start..min(xfer.next, FileSize) - 1 /\ xfer.got[o] = Stored(o)
        /\ AllWell /\ ended # "EOF" =>
             \A o \in xfer.start..min(xfer.next, FileSize) - 1 : o \in DOMAIN xfer.got \/ InRequest(o)
    BY Zenon, <1>a DEF Data, ReadAtOK
  <2>2. \A o \in a..a + n - 1 : o \in xfer.start..min(xfer.next, FileSize) - 1
    BY <1>e, <1>f DEF min
  <2>3. \A o \in DOMAIN xfer'.got : o \in xfer.start..min(xfer.next, FileSize) - 1 /\ xfer'.got[o] = Stored(o)
    BY Zenon, <1>i, <2>1, <2>2
  <2>4. AllWell' /\ ended' # "EOF" =>
          \A o \in xfer.start..min(xfer.next, FileSize) - 1 : o \in DOMAIN xfer'.got \/ InRequest(o)'
    BY <1>a, <1>i, <1>j, <1>k, <2>1, Zenon
  <2> QED BY <1>c, <1>i, <2>3, <2>4, Zenon DEF ReadAtOK
<1>3. WriteToOK' /\ WriteOK' /\ DoneOK'
  BY Zenon, <1>a, <1>c DEF WriteToOK, WriteOK, DoneOK
<1> QED BY Zenon, <1>1, <1>2, <1>3 DEF Data

LEMMA FinishData ==
  ASSUME Counting, Basics, Data, Finish(xfer.kind)
  PROVE  Data'
<1>a. OpTypes /\ ~Room /\ xfer.n = 0 /\ UNCHANGED <<ended, file, dropped>> /\ ~xfer.done
  BY Zenon DEF Basics, Finish, connVars, Running
<1>b. /\ xfer'.kind = xfer.kind /\ xfer'.start = xfer.start
      /\ xfer'.next = xfer.next /\ xfer'.end = xfer.end /\ xfer'.n = xfer.n
      /\ xfer'.reqs = xfer.reqs /\ xfer'.got = xfer.got /\ xfer'.out = xfer.out
      /\ xfer'.err = IF xfer.kind = "WriteTo" /\ xfer.err = <<>> THEN <<0, "inconsistency">> ELSE xfer.err
  BY Zenon, <1>a, FinishFields
<1>c. At' = At /\ \A o : (InRequest(o)' <=> InRequest(o)) /\ (InChunk(o)' <=> InChunk(o))
  BY Zenon, <1>b DEF At, InRequest, InChunk
<1>d. OutOK => OutOK'
  BY Zenon, <1>b, <1>c DEF OutOK
<1>e. ChunksOK => ChunksOK'
  BY ZenonT(60), <1>b, <1>c DEF ChunksOK
<1>f. AskedApart => AskedApart'
  BY Zenon, <1>b, <1>c DEF AskedApart
<1>1. CASE xfer.kind = "WriteTo" /\ xfer.err = <<>>
  <2>1. xfer'.err = <<0, "inconsistency">>
    BY Zenon, <1>b, <1>1
  <2>2. xfer'.err # <<>> /\ xfer'.err[1] = 0 /\ xfer'.err[2] = "inconsistency" /\ 0 <= FileSize
    BY <2>1, FileAssumptions
  <2>3. ~AllWell'
    BY Zenon, <2>2 DEF AllWell
  <2>4. ReadErr'
    BY <2>2, <2>3, Zenon DEF ReadErr
  <2>5. WriteToOK'
    BY <1>b, <1>d, <1>e, <1>f, <2>3, Zenon DEF Data, WriteToOK, Covered
  <2> QED BY Zenon, <1>a, <1>b, <1>1, <2>2, <2>4, <2>5 DEF Data, ReadAtOK, WriteOK, DoneOK
<1>2. CASE ~(xfer.kind = "WriteTo" /\ xfer.err = <<>>)
  <2>1. xfer'.err = xfer.err
    BY Zenon, <1>b, <1>2
  <2>2. AllWell' <=> AllWell
    BY Zenon, <2>1 DEF AllWell
  <2>3. ReadErr' /\ ReadAtOK' /\ WriteOK'
    BY <1>a, <1>b, <1>c, <2>1, <2>2, Zenon DEF Data, ReadErr, ReadAtOK, WriteOK
  <2>4. WriteToOK'
    BY <1>a, <1>b, <1>c, <1>d, <1>e, <1>f, <2>1, <2>2, Zenon DEF Data, WriteToOK, Covered
  <2>5. DoneOK'
    <3> SUFFICES ASSUME xfer.err = <<>>
                 PROVE  xfer.kind \in {"ReadAt", "Write"} /\ xfer.next = xfer.end
      BY Zenon, <1>a, <1>b, <2>1 DEF DoneOK
    <3>1. /\ xfer.kind \in {"ReadAt", "Write", "ReadFrom"} /\ xfer.next \in Nat /\ xfer.end \in Nat
          /\ xfer.next <= xfer.end /\ xfer.n < xfer.want
      BY <1>a, <1>2 DEF OpTypes, Shape, Kinds
    <3> QED BY <1>a, <3>1 DEF Room
  <2> QED BY Zenon, <2>3, <2>4, <2>5 DEF Data
<1> QED BY Zenon, <1>1, <1>2

-----------------------------------------------------------------------------
(* WriteTo: the packets it keeps until they are next.                       *)

\* The packets that WriteTo keeps, when it has written up to offset at.
Pending(g, at) ==
  /\ \A a \in DOMAIN g : /\ a \in Nat /\ a >= at /\ a < FileSize
                         /\ g[a] \in Seq(Nat) /\ Len(g[a]) = min(MaxPacket, FileSize - a)
                         /\ \A i \in 1..Len(g[a]) : g[a][i] = Stored(a + i - 1)
  /\ \A a, b \in DOMAIN g : a = b \/ Apart(a, b)

End(g, a) == a + Len(g[a])

LEMMA PacketEnds ==
  ASSUME NEW g, NEW at \in Nat, Pending(g, at), NEW a \in DOMAIN g
  PROVE  /\ a \in Nat /\ at <= a /\ Len(g[a]) \in Nat /\ End(g, a) \in Nat /\ a < End(g, a)
         /\ End(g, a) <= a + MaxPacket /\ End(g, a) <= FileSize
         /\ \A b \in DOMAIN g : b # a => End(g, a) <= b \/ (b < a /\ End(g, b) <= a)
<1>1. MaxPacket \in Nat /\ MaxPacket > 0 /\ FileSize \in Nat
  BY FileAssumptions
<1>2. ASSUME NEW b \in DOMAIN g
      PROVE  /\ b \in Nat /\ at <= b /\ Len(g[b]) \in Nat /\ End(g, b) \in Nat /\ b < End(g, b)
             /\ End(g, b) <= b + MaxPacket /\ End(g, b) <= FileSize
  <2>1. b \in Nat /\ b >= at /\ b < FileSize /\ Len(g[b]) = min(MaxPacket, FileSize - b)
    BY Zenon DEF Pending
  <2> QED BY SMTT(60), <1>1, <2>1 DEF End, min
<1>3. ASSUME NEW b \in DOMAIN g, b # a
      PROVE  End(g, a) <= b \/ (b < a /\ End(g, b) <= a)
  <2>1. Apart(a, b)
    BY <1>3, Zenon DEF Pending
  <2> QED BY SMTT(60), <1>1, <1>2, <2>1 DEF Apart
<1> QED BY Zenon, <1>2, <1>3

\* Chain is a set of packets that begins at at and is closed, and the least such.
Follows(S, g, at) ==
  /\ at \in DOMAIN g => at \in S
  /\ \A b \in S : End(g, b) \in DOMAIN g => End(g, b) \in S

LEMMA ChainLeast ==
  ASSUME NEW g, NEW at
  PROVE  /\ Chain(g, at) \in SUBSET DOMAIN g /\ Follows(Chain(g, at), g, at)
         /\ \A S \in SUBSET DOMAIN g : Follows(S, g, at) => Chain(g, at) \subseteq S
BY Zenon DEF Chain, Follows, End

LEMMA ChainCovers ==
  ASSUME NEW g, NEW at \in Nat, Pending(g, at), NEW d \in Chain(g, at), NEW p \in at..End(g, d) - 1
  PROVE  \E b \in Chain(g, at) : p \in b..End(g, b) - 1
<1>1. PICK T : T = {a \in Chain(g, at) : \A x \in at..a - 1 : \E b \in Chain(g, at) : x \in b..End(g, b) - 1}
  BY Zenon
<1>2. T \in SUBSET DOMAIN g
  BY Zenon, <1>1, ChainLeast
<1>3. Follows(T, g, at)
  <2>1. at \in DOMAIN g => at \in T
    <3>1. at..at - 1 = {}
      OBVIOUS
    <3>2. at \in DOMAIN g => at \in Chain(g, at)
      BY ChainLeast, Zenon DEF Follows
    <3> QED BY <1>1, <3>1, <3>2, Zenon
  <2>2. ASSUME NEW b \in T, End(g, b) \in DOMAIN g
        PROVE  End(g, b) \in T
    <3>1. b \in Chain(g, at) /\ b \in DOMAIN g
      BY <1>1, <1>2, Zenon
    <3>2. End(g, b) \in Chain(g, at)
      BY <2>2, <3>1, ChainLeast, Zenon DEF Follows
    <3>3. ASSUME NEW x \in at..End(g, b) - 1
          PROVE  \E c \in Chain(g, at) : x \in c..End(g, c) - 1
      <4>1. b \in Nat /\ End(g, b) \in Nat
        BY Zenon, <3>1, PacketEnds
      <4>2. x \in at..b - 1 \/ x \in b..End(g, b) - 1
        BY <4>1
      <4> QED BY <1>1, <3>1, <4>2, Zenon
    <3> QED BY <1>1, <3>2, <3>3, Zenon
  <2> QED BY <2>1, <2>2, Zenon DEF Follows
<1>4. d \in T
  BY <1>2, <1>3, ChainLeast, Zenon
<1>5. d \in Nat /\ End(g, d) \in Nat
  BY <1>2, <1>4, PacketEnds, Zenon
<1>6. p \in at..d - 1 \/ p \in d..End(g, d) - 1
  BY <1>5
<1> QED BY <1>1, <1>4, <1>6, Zenon

\* Where the packets of the chain end and none begins, ...
Stops(e, g, at) == e \in {at} \cup {End(g, a) : a \in Chain(g, at)} /\ e \notin DOMAIN g

\* ... all of them have ended, all up to there is in one of them, and the others begin later.
LEMMA StopFacts ==
  ASSUME NEW g, NEW at \in Nat, Pending(g, at), NEW e, Stops(e, g, at)
  PROVE  /\ e \in Nat /\ at <= e /\ (e = at \/ \E a \in DOMAIN g : e = End(g, a))
         /\ \A a \in Chain(g, at) : End(g, a) <= e
         /\ \A p \in at..e - 1 : \E b \in Chain(g, at) : p \in b..End(g, b) - 1
         /\ \A a \in DOMAIN g \ Chain(g, at) : a > e
<1>1. Chain(g, at) \subseteq DOMAIN g /\ Follows(Chain(g, at), g, at)
  BY Zenon, ChainLeast
<1>2. e = at \/ \E d \in Chain(g, at) : e = End(g, d)
  BY Zenon DEF Stops
<1>3. e \in Nat /\ at <= e /\ (e = at \/ \E a \in DOMAIN g : e = End(g, a))
  BY <1>1, <1>2, PacketEnds
<1>4. ASSUME NEW c \in Chain(g, at), c < e
      PROVE  End(g, c) <= e
  <2>1. c \in DOMAIN g /\ c >= at /\ c \in Nat
    BY Zenon, <1>1, PacketEnds
  <2>2. PICK d \in Chain(g, at) : e = End(g, d)
    BY <1>2, <1>3, <1>4, <2>1
  <2>3. CASE d = c
    BY <1>3, <2>2, <2>3
  <2>4. CASE d # c
    <3>1. End(g, c) <= d \/ (d < c /\ End(g, d) <= c)
      BY Zenon, <1>1, <2>1, <2>4, PacketEnds
    <3>2. d \in Nat /\ End(g, c) \in Nat /\ d < e
      BY Zenon, <1>1, <2>1, <2>2, PacketEnds
    <3> QED BY <1>3, <1>4, <2>1, <2>2, <3>1, <3>2
  <2> QED BY Zenon, <2>3, <2>4
<1>5. \A a \in Chain(g, at) : End(g, a) <= e
  <2>1. PICK S : S = {a \in Chain(g, at) : End(g, a) <= e}
    BY Zenon
  <2>2. S \in SUBSET DOMAIN g
    BY Zenon, <1>1, <2>1
  <2>3. at \in DOMAIN g => at \in S
    <3> SUFFICES ASSUME at \in DOMAIN g
                 PROVE  at \in S
      BY Zenon
    <3>1. at \in Chain(g, at) /\ e # at
      BY Zenon, <1>1 DEF Follows, Stops
    <3>2. at < e
      BY <1>3, <3>1
    <3> QED BY Zenon, <1>4, <2>1, <3>1, <3>2
  <2>4. ASSUME NEW b \in S, End(g, b) \in DOMAIN g
        PROVE  End(g, b) \in S
    <3>1. End(g, b) \in Chain(g, at) /\ End(g, b) <= e /\ End(g, b) # e
      BY Zenon, <1>1, <2>1, <2>4 DEF Follows, Stops
    <3>2. End(g, b) \in Nat
      BY Zenon, <2>4, PacketEnds
    <3>3. End(g, b) < e
      BY <1>3, <3>1, <3>2
    <3> QED BY Zenon, <1>4, <2>1, <3>1, <3>3
  <2>5. Follows(S, g, at)
    BY <2>3, <2>4, Zenon DEF Follows
  <2>6. Chain(g, at) \subseteq S
    BY <2>2, <2>5, ChainLeast, Zenon
  <2> QED BY Zenon, <2>1, <2>6
<1>6. \A p \in at..e - 1 : \E b \in Chain(g, at) : p \in b..End(g, b) - 1
  <2>1. CASE e = at
    BY <2>1
  <2>2. ASSUME NEW d \in Chain(g, at), e = End(g, d)
        PROVE  \A p \in at..e - 1 : \E b \in Chain(g, at) : p \in b..End(g, b) - 1
    BY <2>2, ChainCovers, Zenon
  <2> QED BY Zenon, <1>2, <2>1, <2>2
<1>7. ASSUME NEW a \in DOMAIN g \ Chain(g, at)
      PROVE  a > e
  <2>1. a \in Nat /\ at <= a /\ a # e
    BY Zenon, PacketEnds DEF Stops
  <2> SUFFICES ASSUME a < e
               PROVE  FALSE
    BY <1>3, <2>1
  <2>2. PICK b \in Chain(g, at) : a \in b..End(g, b) - 1
    <3>1. a \in at..e - 1
      BY <1>3, <2>1
    <3> QED BY <1>6, <3>1, Zenon
  <2>3. b \in DOMAIN g /\ b # a
    BY Zenon, <1>1
  <2>4. End(g, a) <= b \/ (b < a /\ End(g, b) <= a)
    BY Zenon, <2>3, PacketEnds
  <2>5. b \in Nat /\ End(g, b) \in Nat /\ End(g, a) \in Nat /\ a < End(g, a)
    BY Zenon, <2>3, PacketEnds
  <2> QED BY <2>1, <2>2, <2>4, <2>5
<1> QED BY Zenon, <1>3, <1>5, <1>6, <1>7

LEMMA StopExists ==
  ASSUME Counting, NEW g, NEW at \in Nat, Pending(g, at)
  PROVE  \E e : Stops(e, g, at)
<1> SUFFICES ASSUME \A e : ~Stops(e, g, at)
             PROVE  FALSE
  BY Zenon
<1>1. Chain(g, at) \subseteq DOMAIN g /\ Follows(Chain(g, at), g, at)
  BY Zenon, ChainLeast
<1>2. at \in Chain(g, at) /\ \A a \in Chain(g, at) : End(g, a) \in Chain(g, at)
  BY <1>1, Zenon DEF Stops, Follows
<1>3. \A a \in Chain(g, at) : a \in Nat /\ End(g, a) \in Nat /\ a < End(g, a) /\ a <= FileSize
  BY <1>1, PacketEnds, FileAssumptions
<1>4. PICK S : S = {FileSize - a : a \in Chain(g, at)}
  BY Zenon
<1>5. S \in SUBSET Nat /\ S # {}
  <2>1. \A a \in Chain(g, at) : FileSize - a \in Nat
    BY <1>3, FileAssumptions
  <2> QED BY <1>2, <1>4, <2>1, Zenon
<1>6. PICK x \in S : \A y \in S : x <= y
  BY <1>5, Zenon DEF Counting
<1>7. PICK a \in Chain(g, at) : x = FileSize - a
  BY <1>4, <1>6, Zenon
<1>8. x <= FileSize - End(g, a)
  BY <1>2, <1>4, <1>6, Zenon
<1> QED BY <1>3, <1>7, <1>8, FileAssumptions

\* Bytes of the file, from offset s on.
InOrder(out, s) == out \in Seq(Nat) /\ \A i \in 1..Len(out) : out[i] = Stored(s + i - 1)

LEMMA InOrderMore ==
  ASSUME NEW s \in Nat, NEW out, InOrder(out, s), NEW at \in Nat, at = s + Len(out),
         NEW more, InOrder(more, at)
  PROVE  InOrder(out \o more, s) /\ s + Len(out \o more) = at + Len(more)
<1>1. PICK m \in Nat, n \in Nat : m = Len(out) /\ n = Len(more)
  BY DEF InOrder
<1>2. more \in Seq(Nat) /\ \A i \in 1..n : more[i] = Stored(at + i - 1)
  BY Zenon, <1>1 DEF InOrder
<1>3. out \in Seq(Nat) /\ \A i \in 1..m : out[i] = Stored(s + i - 1)
  BY Zenon, <1>1 DEF InOrder
<1>4. PICK b : b = out \o more
  BY Zenon
<1>5. b \in Seq(Nat) /\ Len(b) = m + n
  BY <1>1, <1>2, <1>3, <1>4
<1>6. ASSUME NEW i \in 1..m + n
      PROVE  b[i] = Stored(s + i - 1)
  <2>1. CASE i <= m
    BY <1>1, <1>2, <1>3, <1>4, <2>1
  <2>2. CASE i > m
    <3>1. i - m \in 1..n /\ at + (i - m) - 1 = s + i - 1
      BY <1>1, <2>2
    <3>2. b[i] = more[i - m]
      BY <1>1, <1>2, <1>3, <1>4, <2>2
    <3>3. more[i - m] = Stored(at + (i - m) - 1)
      BY Zenon, <1>2, <3>1
    <3> QED BY Zenon, <3>1, <3>2, <3>3
  <2> QED BY <2>1, <2>2
<1> QED BY <1>1, <1>4, <1>5, <1>6 DEF InOrder

WrittenTo(o) == o.start + Len(o.out)

\* writeTo sends the packets it keeps on as soon as they are next.
LEMMA FlushFacts ==
  ASSUME Counting, NEW w, DOMAIN w = OpFields, w.start \in Nat, InOrder(w.out, w.start),
         WrittenTo(w) \in Nat, Pending(w.got, WrittenTo(w))
  PROVE  \E e \in Nat :
           /\ WrittenTo(w) <= e /\ (e = WrittenTo(w) \/ \E a \in DOMAIN w.got : e = End(w.got, a))
           /\ InOrder(Flush(w).out, w.start) /\ w.start + Len(Flush(w).out) = e
           /\ DOMAIN Flush(w).got \subseteq DOMAIN w.got
           /\ \A a \in DOMAIN Flush(w).got : a > e /\ Flush(w).got[a] = w.got[a]
           /\ \A a \in DOMAIN w.got : a \in DOMAIN Flush(w).got \/ End(w.got, a) <= e
           /\ \A p \in WrittenTo(w)..e - 1 : \E a \in DOMAIN w.got : p \in a..End(w.got, a) - 1
<1> DEFINE at == WrittenTo(w)
           g == w.got
           chain == Chain(g, at)
<1>2. PICK e : e = CHOOSE x \in {at} \cup {a + Len(g[a]) : a \in chain} : x \notin DOMAIN g
  BY Zenon
<1>6. PICK more :
        more = [i \in 1..e - at |->
                  g[CHOOSE a \in chain : at + i - 1 \in a..a + Len(g[a]) - 1]
                   [at + i - (CHOOSE a \in chain : at + i - 1 \in a..a + Len(g[a]) - 1)]]
  BY Zenon
<1>7. Flush(w) = [w EXCEPT !.out = w.out \o more, !.got = Restrict(w.got, DOMAIN w.got \ chain)]
  BY <1>2, <1>6, Zenon DEF Flush, WrittenTo
<1>a. at \in Nat /\ Pending(g, at)
  BY Zenon
<1>8. Flush(w).out = w.out \o more /\ Flush(w).got = Restrict(g, DOMAIN g \ chain)
  BY Zenon, <1>7 DEF OpFields
<1>b. at = w.start + Len(w.out)
  BY Zenon DEF WrittenTo
<1>5. chain \in SUBSET DOMAIN g
  BY Zenon, ChainLeast
<1>3. Stops(e, g, at)
  <2>1. \E x : Stops(x, g, at)
    BY Zenon, StopExists
  <2> QED BY <1>2, <2>1, Zenon DEF Stops, End
<1>4. /\ e \in Nat /\ at <= e /\ (e = at \/ \E a \in DOMAIN g : e = End(g, a))
      /\ \A a \in chain : End(g, a) <= e
      /\ \A p \in at..e - 1 : \E b \in chain : p \in b..End(g, b) - 1
      /\ \A a \in DOMAIN g \ chain : a > e
  BY Zenon, <1>3, StopFacts
<1> HIDE DEF chain, g, at
<1>9. ASSUME NEW i \in 1..e - at
      PROVE  more[i] = Stored(at + i - 1)
  <2>1. PICK a : a = CHOOSE x \in chain : at + i - 1 \in x..x + Len(g[x]) - 1
    BY Zenon
  <2>2. more[i] = g[a][at + i - a]
    BY <1>6, <2>1, Zenon
  <2>3. at + i - 1 \in at..e - 1
    BY <1>a, <1>4
  <2>4. a \in chain /\ at + i - 1 \in a..a + Len(g[a]) - 1
    <3>1. PICK b \in chain : at + i - 1 \in b..End(g, b) - 1
      BY <1>4, <2>3, Zenon
    <3>2. at + i - 1 \in b..b + Len(g[b]) - 1
      <4>1. b \in Nat /\ Len(g[b]) \in Nat
        BY Zenon, <1>a, <1>5, PacketEnds
      <4> QED BY <1>a, <3>1, <4>1 DEF End
    <3> QED BY <2>1, <3>1, <3>2, Zenon
  <2>5. a \in Nat /\ Len(g[a]) \in Nat /\ \A j \in 1..Len(g[a]) : g[a][j] = Stored(a + j - 1)
    BY Zenon, <1>a, <1>5, <2>4, PacketEnds DEF Pending
  <2>6. at + i - a \in 1..Len(g[a]) /\ a + (at + i - a) - 1 = at + i - 1
    BY <1>a, <1>4, <2>4, <2>5
  <2>7. g[a][at + i - a] = Stored(a + (at + i - a) - 1)
    BY Zenon, <2>5, <2>6
  <2> QED BY Zenon, <2>2, <2>6, <2>7
<1>10. InOrder(more, at) /\ Len(more) = e - at
  <2>1. PICK n \in Nat : n = e - at
    BY <1>a, <1>4
  <2>2. DOMAIN more = 1..n /\ more = [i \in 1..n |-> more[i]]
    BY <1>6, <2>1
  <2>3. \A i \in 1..n : more[i] = Stored(at + i - 1) /\ more[i] \in Nat
    BY <1>a, <1>9, <2>1 DEF Stored
  <2>4. more \in Seq(Nat) /\ Len(more) = n
    BY SMTT(60), <2>2, <2>3
  <2> QED BY Zenon, <2>1, <2>3, <2>4 DEF InOrder
<1>11. InOrder(w.out \o more, w.start) /\ w.start + Len(w.out \o more) = e
  <2>1. InOrder(w.out \o more, w.start) /\ w.start + Len(w.out \o more) = at + Len(more)
    <3>1. PICK s, out : s = w.start /\ out = w.out
      BY Zenon
    <3>2. s \in Nat /\ InOrder(out, s) /\ at \in Nat /\ at = s + Len(out) /\ InOrder(more, at)
      BY <1>a, <1>b, <1>10, <3>1, Zenon
    <3>3. InOrder(out \o more, s) /\ s + Len(out \o more) = at + Len(more)
      BY ONLY <3>2, InOrderMore
    <3> QED BY <3>1, <3>3, Zenon
  <2>2. PICK m \in Nat, n \in Nat : m = at /\ n = e
    BY Zenon, <1>a, <1>4
  <2>3. m + (n - m) = n
    OBVIOUS
  <2> QED BY <1>10, <2>1, <2>2, <2>3, Zenon
<1>12. /\ DOMAIN Flush(w).got = DOMAIN g \ chain
       /\ \A a \in DOMAIN g \ chain : Flush(w).got[a] = g[a]
  BY Zenon, <1>8 DEF Restrict
<1>13. /\ \A a \in DOMAIN g : a \in DOMAIN Flush(w).got \/ End(g, a) <= e
       /\ \A p \in at..e - 1 : \E a \in DOMAIN g : p \in a..End(g, a) - 1
  BY <1>4, <1>5, <1>12, Zenon
<1> QED BY <1>4, <1>8, <1>11, <1>12, <1>13, ZenonT(60) DEF g, at

\* What is written and what is kept, when a packet has been taken.
LEMMA WrittenOut ==
  ASSUME Counting, Basics, WriteToOK, Receive, res.typ = "data", xfer.kind = "WriteTo", NEW o,
         \/ req.off # At /\ o.got = Put(xfer.got, req.off, res.data) /\ o.out = xfer.out
         \/ /\ req.off = At
            /\ \E w : /\ DOMAIN w = OpFields /\ w.start = xfer.start /\ w.got = xfer.got
                      /\ w.out = xfer.out \o res.data
                      /\ o.got = Flush(w).got /\ o.out = Flush(w).out
  PROVE  \E e \in Nat :
           /\ InOrder(o.out, xfer.start) /\ xfer.start + Len(o.out) = e
           /\ At <= e /\ e <= xfer.next /\ (o.out # <<>> => e <= FileSize)
           /\ Pending(o.got, e) /\ \A b \in DOMAIN o.got : b > e /\ b + MaxPacket <= xfer.next
           /\ \A id \in DOMAIN xfer.reqs \ {res.id} :
                xfer.reqs[id].off >= e /\ \A b \in DOMAIN o.got : Apart(xfer.reqs[id].off, b)
           /\ \A p \in Nat : p < At \/ InChunk(p) \/ p \in req.off..req.off + req.len - 1 =>
                p >= FileSize \/ p < e \/ \E b \in DOMAIN o.got : p \in b..End(o.got, b) - 1
<1>a. /\ OutOK /\ ChunksOK /\ AskedApart /\ OpTypes /\ RangesOK /\ xfer.kind \in Reads
      /\ res.id \in DOMAIN xfer.reqs /\ req = xfer.reqs[res.id]
      /\ req \in [off : Nat, len : Nat] /\ InRange(req)
  BY Zenon, HeadFacts DEF WriteToOK, Basics, ReqsOK, req, Reads
<1>b. /\ xfer.start \in Nat /\ xfer.next \in Nat /\ FileSize \in Nat /\ MaxPacket \in Nat /\ MaxPacket > 0
  BY <1>a, FileAssumptions DEF OpTypes, Shape
<1>c. At \in Nat /\ InOrder(xfer.out, xfer.start) /\ At <= xfer.next /\ (xfer.out # <<>> => At <= FileSize)
  <2>1. xfer.out \in Seq(Nat) /\ InOrder(xfer.out, xfer.start)
    BY Zenon, <1>a DEF OutOK, InOrder
  <2>2. At \in Nat
    BY <1>b, <2>1 DEF At
  <2> QED BY Zenon, <1>a, <2>1, <2>2 DEF OutOK
<1>d. PICK at \in Nat, a \in Nat, n \in Nat : at = At /\ a = req.off /\ n = Len(res.data)
  BY Zenon, <1>a, <1>c, DataFacts
<1>e. /\ req.len = MaxPacket /\ n = min(MaxPacket, FileSize - a) /\ n > 0 /\ n <= MaxPacket
      /\ a + n <= FileSize /\ a < FileSize /\ InOrder(res.data, a)
  BY Zenon, <1>a, <1>b, <1>d, DataFacts DEF InRange, InOrder
<1>f. a + MaxPacket <= xfer.next /\ a >= at
  BY Zenon, <1>a, <1>d, <1>e DEF InRange, AskedApart
<1>g. /\ Pending(xfer.got, at)
      /\ \A b \in DOMAIN xfer.got : b \in Nat /\ b > at /\ b + MaxPacket <= xfer.next /\ Apart(a, b)
  <2>1. \A b \in DOMAIN xfer.got : Apart(a, b)
    BY <1>a, <1>d, Zenon DEF AskedApart
  <2>2. \A b \in DOMAIN xfer.got : b \in Nat /\ b > at /\ b + MaxPacket <= xfer.next
    BY <1>a, <1>d, Zenon DEF ChunksOK
  <2>3. \A b \in DOMAIN xfer.got : b >= at
    BY <2>2
  <2> QED BY <1>a, <2>1, <2>2, <2>3, Zenon DEF ChunksOK, Pending
<1>h. \A id \in DOMAIN xfer.reqs \ {res.id} :
        /\ xfer.reqs[id].off \in Nat /\ xfer.reqs[id].off >= at /\ Apart(a, xfer.reqs[id].off)
        /\ \A b \in DOMAIN xfer.got : Apart(xfer.reqs[id].off, b)
  <2> SUFFICES ASSUME NEW id \in DOMAIN xfer.reqs \ {res.id}
               PROVE  /\ xfer.reqs[id].off \in Nat /\ xfer.reqs[id].off >= at /\ Apart(a, xfer.reqs[id].off)
                      /\ \A b \in DOMAIN xfer.got : Apart(xfer.reqs[id].off, b)
    BY Zenon
  <2>1. id # res.id /\ id \in DOMAIN xfer.reqs
    BY Zenon
  <2>2. xfer.reqs[id].off \in Nat
    BY Zenon, <1>a, <2>1 DEF OpTypes, Remembered
  <2> QED BY <1>a, <1>d, <2>1, <2>2, Zenon DEF AskedApart
<1>1. CASE /\ req.off # At /\ o.got = Put(xfer.got, req.off, res.data) /\ o.out = xfer.out
  <2>1. a > at
    BY <1>d, <1>f, <1>1
  <2>2. a \notin DOMAIN xfer.got
    BY <1>b, <1>g DEF Apart
  <2>3. /\ DOMAIN o.got = DOMAIN xfer.got \cup {a} /\ o.got[a] = res.data
        /\ \A b \in DOMAIN xfer.got : o.got[b] = xfer.got[b]
    BY <1>d, <1>1, <2>2, Zenon DEF Put
  <2>4. /\ a >= at /\ o.got[a] \in Seq(Nat) /\ Len(o.got[a]) = min(MaxPacket, FileSize - a)
        /\ \A i \in 1..Len(o.got[a]) : o.got[a][i] = Stored(a + i - 1)
    BY Zenon, <1>d, <1>e, <1>f, <2>3 DEF InOrder
  <2>5. Pending(o.got, at)
    <3>1. ASSUME NEW b \in DOMAIN o.got
          PROVE  /\ b \in Nat /\ b >= at /\ b < FileSize
                 /\ o.got[b] \in Seq(Nat) /\ Len(o.got[b]) = min(MaxPacket, FileSize - b)
                 /\ \A i \in 1..Len(o.got[b]) : o.got[b][i] = Stored(b + i - 1)
      <4>1. CASE b = a
        BY <1>e, <2>4, <4>1, Zenon
      <4>2. CASE b # a
        <5>1. b \in DOMAIN xfer.got /\ o.got[b] = xfer.got[b]
          BY <2>3, <4>2, Zenon
        <5> QED BY <1>g, <5>1, Zenon DEF Pending
      <4> QED BY Zenon, <4>1, <4>2
    <3>2. ASSUME NEW b \in DOMAIN o.got, NEW c \in DOMAIN o.got
          PROVE  b = c \/ Apart(b, c)
      <4>1. \A x, y : Apart(x, y) <=> Apart(y, x)
        BY Zenon DEF Apart
      <4>2. (b = a \/ b \in DOMAIN xfer.got) /\ (c = a \/ c \in DOMAIN xfer.got)
        BY <2>3, Zenon
      <4> QED BY <1>g, <4>1, <4>2, Zenon DEF Pending
    <3> QED BY <3>1, <3>2, Zenon DEF Pending
  <2>6. \A b \in DOMAIN o.got : b > at /\ b + MaxPacket <= xfer.next
    BY Zenon, <1>f, <1>g, <2>1, <2>3
  <2>7. ASSUME NEW id \in DOMAIN xfer.reqs \ {res.id}
        PROVE  xfer.reqs[id].off >= at /\ \A b \in DOMAIN o.got : Apart(xfer.reqs[id].off, b)
    <3>1. \A x, y : Apart(x, y) <=> Apart(y, x)
      BY Zenon DEF Apart
    <3> QED BY <1>h, <2>3, <3>1, Zenon
  <2>8. ASSUME NEW p \in Nat, p < at \/ InChunk(p) \/ p \in a..a + MaxPacket - 1
        PROVE  p >= FileSize \/ p < at \/ \E b \in DOMAIN o.got : p \in b..End(o.got, b) - 1
    <3>1. CASE InChunk(p)
      <4>1. PICK b \in DOMAIN xfer.got : p \in b..b + Len(xfer.got[b]) - 1
        BY Zenon, <3>1 DEF InChunk
      <4>2. b \in DOMAIN o.got /\ o.got[b] = xfer.got[b]
        BY <2>3, Zenon
      <4>3. b \in Nat /\ Len(o.got[b]) \in Nat
        BY Zenon, <2>5, <4>2, PacketEnds
      <4>4. p \in b..End(o.got, b) - 1
        BY <4>1, <4>2, <4>3 DEF End
      <4> QED BY Zenon, <4>2, <4>4
    <3>2. CASE p \in a..a + MaxPacket - 1 /\ p < FileSize
      <4>1. End(o.got, a) = a + n
        BY Zenon, <1>d, <2>3 DEF End
      <4>2. p \in a..a + n - 1
        BY <1>b, <1>e, <3>2 DEF min
      <4>3. p \in a..End(o.got, a) - 1
        BY <4>1, <4>2
      <4> QED BY Zenon, <2>3, <4>3
    <3> QED BY <1>b, <2>8, <3>1, <3>2
  <2>9. /\ InOrder(o.out, xfer.start) /\ xfer.start + Len(o.out) = at
        /\ At <= at /\ at <= xfer.next /\ (o.out # <<>> => at <= FileSize)
    BY <1>c, <1>d, <1>1 DEF At
  <2> QED BY <1>d, <1>e, <2>5, <2>6, <2>7, <2>8, <2>9, Zenon
<1>2. ASSUME req.off = At, NEW w, DOMAIN w = OpFields, w.start = xfer.start, w.got = xfer.got,
             w.out = xfer.out \o res.data, o.got = Flush(w).got, o.out = Flush(w).out
      PROVE  \E e \in Nat :
               /\ InOrder(o.out, xfer.start) /\ xfer.start + Len(o.out) = e
               /\ At <= e /\ e <= xfer.next /\ (o.out # <<>> => e <= FileSize)
               /\ Pending(o.got, e) /\ \A b \in DOMAIN o.got : b > e /\ b + MaxPacket <= xfer.next
               /\ \A id \in DOMAIN xfer.reqs \ {res.id} :
                    xfer.reqs[id].off >= e /\ \A b \in DOMAIN o.got : Apart(xfer.reqs[id].off, b)
               /\ \A p \in Nat : p < At \/ InChunk(p) \/ p \in req.off..req.off + req.len - 1 =>
                    p >= FileSize \/ p < e \/ \E b \in DOMAIN o.got : p \in b..End(o.got, b) - 1
  <2>1. a = at
    BY Zenon, <1>d, <1>2
  <2>2. InOrder(w.out, w.start) /\ WrittenTo(w) = at + n
    <3>1. PICK s, out, data : s = xfer.start /\ out = xfer.out /\ data = res.data
      BY Zenon
    <3>2. s \in Nat /\ InOrder(out, s) /\ at \in Nat /\ at = s + Len(out) /\ InOrder(data, at)
      BY <1>b, <1>c, <1>d, <1>e, <2>1, <3>1, Zenon DEF At
    <3>3. InOrder(out \o data, s) /\ s + Len(out \o data) = at + Len(data)
      BY ONLY <3>2, InOrderMore
    <3>4. w.out = out \o data /\ w.start = s /\ n = Len(data)
      BY <1>d, <1>2, <3>1, Zenon
    <3>5. InOrder(w.out, w.start) /\ w.start + Len(w.out) = at + n
      BY Zenon, <3>3, <3>4
    <3> QED BY Zenon, <3>5 DEF WrittenTo
  <2>3. PICK t \in Nat : t = at + n
    OBVIOUS
  <2>4. \A b \in DOMAIN xfer.got : b >= t
    BY SMTT(60), <1>b, <1>e, <1>g, <2>1, <2>3 DEF Apart
  <2>5. Pending(xfer.got, t)
    BY <1>g, <2>4, Zenon DEF Pending
  <2>6. PICK e \in Nat :
          /\ t <= e /\ (e = t \/ \E b \in DOMAIN xfer.got : e = End(xfer.got, b))
          /\ InOrder(o.out, xfer.start) /\ xfer.start + Len(o.out) = e
          /\ DOMAIN o.got \subseteq DOMAIN xfer.got
          /\ \A b \in DOMAIN o.got : b > e /\ o.got[b] = xfer.got[b]
          /\ \A b \in DOMAIN xfer.got : b \in DOMAIN o.got \/ End(xfer.got, b) <= e
          /\ \A p \in t..e - 1 : \E b \in DOMAIN xfer.got : p \in b..End(xfer.got, b) - 1
    <3>1. WrittenTo(w) \in Nat /\ w.start \in Nat /\ Pending(w.got, WrittenTo(w)) /\ WrittenTo(w) = t
      BY Zenon, <1>b, <1>2, <2>2, <2>3, <2>5
    <3>2. \E e \in Nat :
           /\ WrittenTo(w) <= e /\ (e = WrittenTo(w) \/ \E b \in DOMAIN w.got : e = End(w.got, b))
           /\ InOrder(Flush(w).out, w.start) /\ w.start + Len(Flush(w).out) = e
           /\ DOMAIN Flush(w).got \subseteq DOMAIN w.got
           /\ \A b \in DOMAIN Flush(w).got : b > e /\ Flush(w).got[b] = w.got[b]
           /\ \A b \in DOMAIN w.got : b \in DOMAIN Flush(w).got \/ End(w.got, b) <= e
           /\ \A p \in WrittenTo(w)..e - 1 : \E b \in DOMAIN w.got : p \in b..End(w.got, b) - 1
      BY <1>2, <2>2, <3>1, FlushFacts, Zenon
    <3> QED BY <1>2, <3>1, <3>2, ZenonT(60)
  <2>7. e <= FileSize /\ e <= xfer.next
    <3>1. t <= FileSize /\ t <= xfer.next
      BY SMTT(60), <1>b, <1>e, <1>f, <2>1, <2>3
    <3>2. \A b \in DOMAIN xfer.got :
            /\ b \in Nat /\ End(xfer.got, b) \in Nat /\ End(xfer.got, b) <= FileSize
            /\ End(xfer.got, b) <= b + MaxPacket /\ b + MaxPacket <= xfer.next
      BY Zenon, <1>g, PacketEnds
    <3> QED BY SMTT(60), <1>b, <2>6, <3>1, <3>2
  <2>8. Pending(o.got, e)
    <3>1. ASSUME NEW b \in DOMAIN o.got
          PROVE  /\ b \in Nat /\ b >= e /\ b < FileSize
                 /\ o.got[b] \in Seq(Nat) /\ Len(o.got[b]) = min(MaxPacket, FileSize - b)
                 /\ \A i \in 1..Len(o.got[b]) : o.got[b][i] = Stored(b + i - 1)
      <4>1. b \in DOMAIN xfer.got /\ o.got[b] = xfer.got[b] /\ b > e
        BY <2>6, Zenon
      <4>2. b \in Nat
        BY <1>g, <4>1, Zenon
      <4>3. b >= e
        BY <4>1, <4>2
      <4> QED BY <1>g, <4>1, <4>3, Zenon DEF Pending
    <3>2. \A b, c \in DOMAIN o.got : b = c \/ Apart(b, c)
      BY <1>g, <2>6, Zenon DEF Pending
    <3> QED BY <3>1, <3>2, Zenon DEF Pending
  <2>9. \A b \in DOMAIN o.got : b > e /\ b + MaxPacket <= xfer.next
    BY <1>g, <2>6, Zenon
  <2>10. ASSUME NEW id \in DOMAIN xfer.reqs \ {res.id}
         PROVE  xfer.reqs[id].off >= e /\ \A b \in DOMAIN o.got : Apart(xfer.reqs[id].off, b)
    <3>1. PICK x \in Nat : x = xfer.reqs[id].off
      BY <1>h, Zenon
    <3>2. x >= at /\ Apart(a, x) /\ \A b \in DOMAIN xfer.got : Apart(x, b)
      BY <1>h, <3>1, Zenon
    <3>3. x >= t
      BY SMTT(60), <1>b, <1>e, <2>1, <2>3, <3>2 DEF Apart
    <3>4. x >= e
      <4> SUFFICES ASSUME x < e
                   PROVE  FALSE
        BY <2>6
      <4>1. x \in t..e - 1
        BY <3>3
      <4>2. PICK b \in DOMAIN xfer.got : x \in b..End(xfer.got, b) - 1
        BY <2>6, <4>1, Zenon
      <4>3. b \in Nat /\ End(xfer.got, b) \in Nat /\ End(xfer.got, b) <= b + MaxPacket
        BY Zenon, <1>g, PacketEnds
      <4> QED BY <1>b, <3>2, <4>2, <4>3 DEF Apart
    <3> QED BY <2>6, <3>1, <3>2, <3>4, Zenon
  <2>11. ASSUME NEW p \in Nat, p < at \/ InChunk(p) \/ p \in a..a + MaxPacket - 1
         PROVE  p >= FileSize \/ p < e \/ \E b \in DOMAIN o.got : p \in b..End(o.got, b) - 1
    <3>1. CASE InChunk(p)
      <4>1. PICK b \in DOMAIN xfer.got : p \in b..b + Len(xfer.got[b]) - 1
        BY Zenon, <3>1 DEF InChunk
      <4>2. b \in Nat /\ Len(xfer.got[b]) \in Nat
        BY Zenon, <1>g, PacketEnds
      <4>3. CASE b \in DOMAIN o.got
        <5>1. p \in b..End(o.got, b) - 1
          BY SMTT(60), <2>6, <4>1, <4>2, <4>3 DEF End
        <5> QED BY Zenon, <4>3, <5>1
      <4>4. CASE End(xfer.got, b) <= e
        BY <4>1, <4>2, <4>4 DEF End
      <4> QED BY Zenon, <2>6, <4>3, <4>4
    <3>2. CASE p \in a..a + MaxPacket - 1 /\ p < FileSize
      <4>1. p < t
        BY <1>b, <1>e, <2>1, <2>3, <3>2 DEF min
      <4> QED BY <2>6, <4>1
    <3>3. CASE p < at
      BY <2>3, <2>6, <3>3
    <3> QED BY <1>b, <2>11, <3>1, <3>2, <3>3
  <2>12. At <= e
    BY <1>d, <2>3, <2>6
  <2> QED BY <1>d, <1>e, <2>6, <2>7, <2>8, <2>9, <2>10, <2>11, <2>12, Zenon
<1> QED BY Zenon, <1>1, <1>2

LEMMA WriteToTakesData ==
  ASSUME Counting, Basics, Data, WriteToTakes
  PROVE  Data'
<1>a. /\ OpTypes /\ ConnTypes /\ Receive /\ res.typ = "data" /\ UNCHANGED <<ended, file, dropped>>
      /\ ~xfer.done /\ xfer.kind = "WriteTo" /\ xfer.kind \in Reads
      /\ WriteToOK /\ OutOK /\ ChunksOK /\ AskedApart /\ Covered
  BY Zenon DEF Basics, Data, ConnOK, WriteToTakes, Receive, sendRest, Running, Reads, WriteToOK
<1>b. res.id \in DOMAIN xfer.reqs /\ xfer.start \in Nat /\ xfer.next \in Nat /\ FileSize \in Nat
  BY Zenon, <1>a, HeadFacts, FileAssumptions DEF OpTypes, Shape
<1>c. PICK o :
        /\ o = WriteOut(taken) /\ o.n = xfer.n - 1 /\ o.reqs = Rest
        /\ DOMAIN o = OpFields /\ o.kind = xfer.kind /\ o.start = xfer.start
        /\ o.next = xfer.next /\ o.err = xfer.err /\ o.done = xfer.done
        /\ \/ req.off # At /\ o.got = Put(xfer.got, req.off, res.data) /\ o.out = xfer.out
           \/ /\ req.off = At
              /\ \E w : /\ DOMAIN w = OpFields /\ w.start = xfer.start /\ w.got = xfer.got
                        /\ w.out = xfer.out \o res.data
                        /\ o.got = Flush(w).got /\ o.out = Flush(w).out
  BY <1>a, WriteOutFields, ZenonT(60) DEF At
<1>d. PICK e \in Nat :
        /\ InOrder(o.out, xfer.start) /\ xfer.start + Len(o.out) = e
        /\ At <= e /\ e <= xfer.next /\ (o.out # <<>> => e <= FileSize)
        /\ Pending(o.got, e) /\ \A b \in DOMAIN o.got : b > e /\ b + MaxPacket <= xfer.next
        /\ \A id \in DOMAIN xfer.reqs \ {res.id} :
             xfer.reqs[id].off >= e /\ \A b \in DOMAIN o.got : Apart(xfer.reqs[id].off, b)
        /\ \A p \in Nat : p < At \/ InChunk(p) \/ p \in req.off..req.off + req.len - 1 =>
             p >= FileSize \/ p < e \/ \E b \in DOMAIN o.got : p \in b..End(o.got, b) - 1
  BY <1>a, <1>c, WrittenOut, Zenon
<1>e. xfer' = o \/ \E k \in Len(xfer.out)..Len(o.out) - 1 :
        xfer' = [o EXCEPT !.out = SubSeq(@, 1, k), !.err = <<xfer.start + k, "write">>]
  BY <1>c, Zenon DEF WriteToTakes
<1>f. PICK m \in Nat : m = Len(o.out) /\ xfer.start + m = e
  BY <1>d DEF InOrder
\* A part of what there is to write has been written.
<1>1. ASSUME NEW at \in Nat, at <= e, xfer'.out # <<>> => e <= FileSize,
             InOrder(xfer'.out, xfer.start), At' = at,
             xfer'.kind = xfer.kind, xfer'.start = xfer.start, xfer'.next = xfer.next,
             xfer'.n = xfer.n - 1, xfer'.reqs = Rest, xfer'.done = xfer.done, xfer'.got = o.got,
             (xfer'.err = xfer.err /\ at = e) \/ ~AllWell'
      PROVE  WriteToOK' /\ WriteOK' /\ DoneOK' /\ ReadAtOK'
  <2>1. OutOK'
    <3>1. xfer'.out # <<>> => at <= FileSize
      BY <1>b, <1>1
    <3>2. at <= xfer.next
      BY <1>b, <1>d, <1>1
    <3> QED BY <1>1, <3>1, <3>2, Zenon DEF OutOK, InOrder
  <2>2. ChunksOK'
    <3>1. \A a \in DOMAIN o.got : a \in Nat /\ a > e /\ a < FileSize
      BY <1>d, Zenon DEF Pending
    <3>2. \A a \in DOMAIN o.got : a > at
      BY <1>1, <3>1
    <3> QED BY <1>d, <1>1, <3>1, <3>2, ZenonT(60) DEF ChunksOK, Pending
  <2>3. /\ DOMAIN xfer'.reqs = DOMAIN xfer.reqs \ {res.id}
        /\ \A id \in DOMAIN xfer'.reqs : xfer'.reqs[id] = xfer.reqs[id]
        /\ \A p : InRequest(p) => InRequest(p)' \/ p \in req.off..req.off + req.len - 1
    BY Zenon, <1>a, <1>1, LessAsked
  <2>4. AskedApart'
    <3> SUFFICES ASSUME NEW id \in DOMAIN xfer'.reqs
                 PROVE  /\ xfer'.reqs[id].off >= at
                        /\ \A a \in DOMAIN xfer'.got : Apart(xfer'.reqs[id].off, a)
                        /\ \A k \in DOMAIN xfer'.reqs : id = k \/ Apart(xfer'.reqs[id].off, xfer'.reqs[k].off)
      BY <1>1, Zenon DEF AskedApart, Apart
    <3>1. id \in DOMAIN xfer.reqs \ {res.id} /\ xfer'.reqs[id] = xfer.reqs[id]
      BY <2>3, Zenon
    <3>2. xfer.reqs[id].off >= e /\ \A b \in DOMAIN o.got : Apart(xfer.reqs[id].off, b)
      BY <1>d, <3>1, Zenon
    <3>3. xfer.reqs[id].off \in Nat
      BY Zenon, <1>a, <3>1 DEF OpTypes, Remembered
    <3>4. xfer.reqs[id].off >= at
      BY <1>1, <3>2, <3>3
    <3>5. \A k \in DOMAIN xfer'.reqs : id = k \/ Apart(xfer'.reqs[id].off, xfer'.reqs[k].off)
      BY <1>a, <2>3, Zenon DEF AskedApart
    <3> QED BY <1>1, <3>1, <3>2, <3>4, <3>5, Zenon
  <2>5. Covered'
    <3> SUFFICES ASSUME AllWell', ended # "EOF", NEW p \in xfer.start..min(xfer.next, FileSize) - 1
                 PROVE  p < at \/ InChunk(p)' \/ InRequest(p)'
      BY <1>a, <1>1, Zenon DEF Covered
    <3>1. AllWell /\ at = e
      BY <1>1, Zenon DEF AllWell
    <3>2. p < At \/ InChunk(p) \/ InRequest(p)
      BY <1>a, <3>1, Zenon DEF Covered
    <3>3. p \in Nat /\ p < FileSize
      BY <1>b DEF min
    <3>4. ASSUME NEW b \in DOMAIN o.got, p \in b..End(o.got, b) - 1
          PROVE  InChunk(p)'
      <4>1. b \in Nat /\ Len(o.got[b]) \in Nat
        BY Zenon, <1>d, <3>4, PacketEnds
      <4>2. p \in b..b + Len(o.got[b]) - 1
        BY <3>4, <4>1 DEF End
      <4> QED BY <1>1, <4>2, Zenon DEF InChunk
    <3>5. CASE InRequest(p)'
      BY Zenon, <3>5
    <3>6. CASE p < At \/ InChunk(p) \/ p \in req.off..req.off + req.len - 1
      <4>1. p >= FileSize \/ p < e \/ \E b \in DOMAIN o.got : p \in b..End(o.got, b) - 1
        BY <1>d, <3>3, <3>6, Zenon
      <4>2. ~(p >= FileSize)
        BY <1>b, <3>3
      <4> QED BY <3>1, <3>4, <4>1, <4>2, Zenon
    <3> QED BY <2>3, <3>2, <3>5, <3>6, Zenon
  <2>6. WriteToOK'
    BY <2>1, <2>2, <2>4, <2>5, Zenon DEF WriteToOK
  <2> QED BY Zenon, <1>a, <1>1, <2>6 DEF WriteOK, DoneOK, ReadAtOK
<1>2. CASE xfer' = o
  <2>1. ReadErr'
    <3>1. Cardinality(DOMAIN xfer'.reqs) = Cardinality(DOMAIN xfer.reqs) - 1
      BY Zenon, <1>a, <1>b, <1>c, <1>2, LessAsked
    <3>2. AllWell' <=> AllWell
      BY Zenon, <1>c, <1>2 DEF AllWell
    <3>3. /\ xfer'.kind = xfer.kind /\ xfer'.err = xfer.err /\ xfer'.next = xfer.next
          /\ xfer'.n = xfer.n - 1
      BY Zenon, <1>c, <1>2
    <3> QED BY <1>a, <3>1, <3>2, <3>3, Zenon DEF Data, ReadErr
  <2>2. At' = e /\ e <= e
    BY <1>c, <1>d, <1>2 DEF At
  <2> QED BY Zenon, <1>c, <1>d, <1>1, <1>2, <2>1, <2>2 DEF Data
<1>3. ASSUME NEW k \in Len(xfer.out)..Len(o.out) - 1,
             xfer' = [o EXCEPT !.out = SubSeq(@, 1, k), !.err = <<xfer.start + k, "write">>]
      PROVE  Data'
  <2>1. k \in Nat /\ k < m /\ xfer.start + k \in Nat /\ xfer.start + k <= e /\ m > 0
    <3>1. Len(xfer.out) \in Nat
      BY <1>a DEF OutOK
    <3> QED BY SMTT(60), <1>b, <1>f, <1>3, <3>1
  <2>2. /\ xfer'.kind = xfer.kind /\ xfer'.start = xfer.start /\ xfer'.next = xfer.next
        /\ xfer'.n = xfer.n - 1 /\ xfer'.reqs = Rest /\ xfer'.done = xfer.done /\ xfer'.got = o.got
        /\ xfer'.out = SubSeq(o.out, 1, k) /\ xfer'.err = <<xfer.start + k, "write">>
    BY Zenon, <1>c, <1>3 DEF OpFields
  <2>3. o.out \in Seq(Nat) /\ \A i \in 1..m : o.out[i] = Stored(xfer.start + i - 1)
    BY Zenon, <1>d, <1>f DEF InOrder
  <2>4. /\ xfer'.out \in Seq(Nat) /\ Len(xfer'.out) = k
        /\ \A i \in 1..k : xfer'.out[i] = o.out[i]
    <3>1. PICK out : out = o.out
      BY Zenon
    <3>2. PICK part : part = SubSeq(out, 1, k)
      BY Zenon
    <3>3. out \in Seq(Nat) /\ Len(out) = m
      BY Zenon, <1>f, <2>3, <3>1
    <3>4. part \in Seq(Nat) /\ Len(part) = k /\ \A i \in 1..k : part[i] = out[i]
      BY SMTT(60), <2>1, <3>2, <3>3
    <3> QED BY <2>2, <3>1, <3>2, <3>4, Zenon
  <2>5. InOrder(xfer'.out, xfer.start)
    <3>1. \A i \in 1..k : i \in 1..m
      BY <1>f, <2>1
    <3> QED BY Zenon, <2>3, <2>4, <3>1 DEF InOrder
  <2>6. e <= FileSize
    <3>1. PICK out : out = o.out
      BY Zenon
    <3>2. out \in Seq(Nat) /\ Len(out) = m /\ 0 < m
      BY <1>f, <2>1, <2>3, <3>1
    <3>3. out # <<>>
      BY ONLY <3>2
    <3> QED BY Zenon, <1>d, <3>1, <3>3
  <2>7. xfer'.err # <<>> /\ xfer'.err[1] = xfer.start + k /\ xfer'.err[2] = "write"
    BY <2>2
  <2>8. ~AllWell'
    BY Zenon, <2>7 DEF AllWell
  <2>9. ReadErr'
    <3>1. xfer'.err[1] <= FileSize
      BY <1>b, <2>1, <2>6, <2>7
    <3> QED BY <2>7, <2>8, <3>1, Zenon DEF ReadErr
  <2>10. PICK at \in Nat : at = xfer.start + k /\ at <= e
    BY Zenon, <2>1
  <2>11. At' = at
    BY Zenon, <2>2, <2>4, <2>10 DEF At
  <2>12. WriteToOK' /\ WriteOK' /\ DoneOK' /\ ReadAtOK'
    BY Zenon, <1>1, <2>2, <2>5, <2>6, <2>8, <2>10, <2>11
  <2> QED BY Zenon, <2>9, <2>12 DEF Data
<1> QED BY Zenon, <1>2, <1>3, <1>e
=============================================================================
