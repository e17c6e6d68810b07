------------------------------- MODULE Packets ------------------------------
(***************************************************************************)
(* The encoding of packets (pkgsftp/packet.go, packet-typing.go) and of    *)
(* file attributes (attrs.go): what one side marshals, and what the other  *)
(* side unmarshals from it.                                                *)
(*                                                                         *)
(* Bytes are 0..255, a string is a sequence of bytes, and a uint64 is the  *)
(* pair of its two halves.  A packet is the tuple of its fields in the     *)
(* order of its struct.  What has been unmarshalled is [vals, b, err]: the *)
(* fields, the bytes that are left, and "" or what happened where they ran *)
(* out: "short", the errShortPacket of the Safe functions, or "panic", of  *)
(* an index beyond the bytes in the others.                                *)
(***************************************************************************)
EXTENDS Integers, Sequences, SequencesExt

CONSTANT MaxMsgLength   \* maxMsgLength

marshalUint32(v) ==
  <<(v \div 2^24) % 256, (v \div 2^16) % 256, (v \div 2^8) % 256, v % 256>>
marshalUint64(v) == marshalUint32(v[1]) \o marshalUint32(v[2])
marshalString(s) == marshalUint32(Len(s)) \o s

After(b, n) == SubSeq(b, n + 1, Len(b))
Got(v, b) == [v |-> v, b |-> b, err |-> ""]
errShortPacket == [v |-> 0, b |-> <<>>, err |-> "short"]
Panic == [v |-> 0, b |-> <<>>, err |-> "panic"]

Uint32(b) == b[4] + b[3] * 2^8 + b[2] * 2^16 + b[1] * 2^24
unmarshalUint32(b) == IF Len(b) < 4 THEN Panic ELSE Got(Uint32(b), After(b, 4))
unmarshalUint32Safe(b) == IF Len(b) < 4 THEN errShortPacket ELSE unmarshalUint32(b)
unmarshalUint64Safe(b) ==
  IF Len(b) < 8 THEN errShortPacket ELSE Got(<<Uint32(b), Uint32(After(b, 4))>>, After(b, 8))
unmarshalString(b) ==
  LET n == unmarshalUint32(b)
  IN IF n.err # "" \/ n.v > Len(n.b) THEN Panic ELSE Got(SubSeq(n.b, 1, n.v), After(n.b, n.v))
unmarshalStringSafe(b) ==
  LET n == unmarshalUint32Safe(b)
  IN IF n.err # "" \/ n.v > Len(n.b) THEN errShortPacket ELSE unmarshalString(b)

Safe(kind, b) ==
  CASE kind = "uint32" -> unmarshalUint32Safe(b)
    [] kind = "uint64" -> unmarshalUint64Safe(b)
    [] kind = "string" -> unmarshalStringSafe(b)
Unsafe(kind, b) == IF kind = "string" THEN unmarshalString(b) ELSE unmarshalUint32(b)

\* Field after field until one fails.
InTurn(b, kinds, Field(_, _)) ==
  FoldLeft(LAMBDA acc, kind :
             LET f == Field(kind, acc.b)
             IN IF acc.err # "" THEN acc
                ELSE IF f.err # "" THEN [acc EXCEPT !.err = f.err]
                ELSE [vals |-> Append(acc.vals, f.v), b |-> f.b, err |-> ""],
           [vals |-> <<>>, b |-> b, err |-> ""], kinds)

\* The chains of "else if p.F, b, err = ...; err != nil", by which the server reads requests.
unmarshal(b, kinds) == InTurn(b, kinds, Safe)

\* The Safe functions with their errors ignored: what is missing is zero.
Zero == [uint32 |-> 0, uint64 |-> <<0, 0>>, string |-> <<>>]
Ignoring(b, kinds) ==
  FoldLeft(LAMBDA acc, kind :
             LET f == Safe(kind, acc.b)
             IN [vals |-> Append(acc.vals, IF f.err = "" THEN f.v ELSE Zero[kind]), b |-> f.b, err |-> ""],
           [vals |-> <<>>, b |-> b, err |-> ""], kinds)

\* A last field: all the bytes that are left, or as many as the field before says.
Rest(u) == [u EXCEPT !.vals = Append(@, u.b), !.b = <<>>]
Counted(u, err) ==
  LET n == Last(u.vals)
  IN IF u.err # "" THEN u
     ELSE IF Len(u.b) < n THEN [u EXCEPT !.err = err]
     ELSE [u EXCEPT !.vals = Append(@, SubSeq(u.b, 1, n)), !.b = <<>>]

-----------------------------------------------------------------------------
(* Framing.                                                                *)

sendPacket(p) == marshalUint32(Len(p)) \o p

\* io.ReadFull of n bytes.
ReadFull(b, n) == IF Len(b) >= n THEN "" ELSE IF b = <<>> THEN "EOF" ELSE "ErrUnexpectedEOF"

\* From the bytes of a stream that ends.  A frame without even a type has no b[0].
recvPacket(stream) ==
  LET length == Uint32(stream)
      body == After(stream, 4)
  IN CASE ReadFull(stream, 4) # "" -> [err |-> ReadFull(stream, 4)]
       [] Len(stream) >= 4 /\ length > MaxMsgLength -> [err |-> "errLongPacket"]
       [] Len(stream) >= 4 /\ length <= MaxMsgLength /\ ReadFull(body, length) # "" ->
            [err |-> ReadFull(body, length)]
       [] Len(stream) >= 4 /\ length = 0 -> [err |-> "panic"]
       [] OTHER -> [err |-> "", typ |-> body[1], data |-> SubSeq(body, 2, length)]

-----------------------------------------------------------------------------
(* Requests.                                                               *)

marshalIDString(typ, p) == <<typ>> \o marshalUint32(p[1]) \o marshalString(p[2])
unmarshalIDString(b) == unmarshal(b, <<"uint32", "string">>)

\* Close, Lstat, Fstat, Opendir, Readdir, Remove, Rmdir, Stat: an id and a handle or path.
IDStringPackets == {4, 7, 8, 11, 12, 13, 15, 17}
\* Readlink, Realpath.
LinkPackets == {16, 19}

\* The extensions come in pairs of strings until the bytes end.
sshFxInitPacket(p) ==
  <<1>> \o marshalUint32(p[1])
        \o FlattenSeq([i \in DOMAIN p[2] |-> marshalString(p[2][i][1]) \o marshalString(p[2][i][2])])
RECURSIVE Pairs(_, _)
Pairs(u, pairs) ==
  LET pair == unmarshal(u.b, <<"string", "string">>)
  IN IF u.err # "" THEN u
     ELSE IF u.b = <<>> THEN [u EXCEPT !.vals = Append(@, pairs)]
     ELSE Pairs([u EXCEPT !.b = pair.b, !.err = pair.err], Append(pairs, pair.vals))
InitUnmarshal(b) == Pairs(unmarshal(b, <<"uint32">>), <<>>)

sshFxpSymlinkPacket(p) ==
  <<20>> \o marshalUint32(p[1]) \o marshalString(p[2]) \o marshalString(p[3])
SymlinkUnmarshal(b) == unmarshal(b, <<"uint32", "string", "string">>)

sshFxpOpenPacket(p) ==
  <<3>> \o marshalUint32(p[1]) \o marshalString(p[2]) \o marshalUint32(p[3]) \o marshalUint32(p[4])
OpenUnmarshal(b) == unmarshal(b, <<"uint32", "string", "uint32", "uint32">>)

sshFxpReadPacket(p) ==
  <<5>> \o marshalUint32(p[1]) \o marshalString(p[2]) \o marshalUint64(p[3]) \o marshalUint32(p[4])
ReadUnmarshal(b) == unmarshal(b, <<"uint32", "string", "uint64", "uint32">>)

sshFxpRenamePacket(p) ==
  <<18>> \o marshalUint32(p[1]) \o marshalString(p[2]) \o marshalString(p[3])
RenameUnmarshal(b) == unmarshal(b, <<"uint32", "string", "string">>)

sshFxpWritePacket(p) ==
  <<6>> \o marshalUint32(p[1]) \o marshalString(p[2]) \o marshalUint64(p[3]) \o marshalUint32(p[4])
        \o p[5]


WriteUnmarshal(b) == Counted(unmarshal(b, <<"uint32", "string", "uint64", "uint32">>), "short")

sshFxpMkdirPacket(p) ==
  <<14>> \o marshalUint32(p[1]) \o marshalString(p[2]) \o marshalUint32(p[3])
MkdirUnmarshal(b) == unmarshal(b, <<"uint32", "string", "uint32">>)

\* Setstat and Fsetstat; the attributes are unmarshalled when the request is handled.
sshFxpSetstatPacket(typ, p) ==
  <<typ>> \o marshalUint32(p[1]) \o marshalString(p[2]) \o marshalUint32(p[3]) \o p[4]
SetstatUnmarshal(b) == Rest(unmarshal(b, <<"uint32", "string", "uint32">>))

\* The names of the extensions, here shorter.
statvfs == <<1>>
posixRename == <<2>>
hardlink == <<3>>

sshFxpStatvfsPacket(p) ==
  <<200>> \o marshalUint32(p[1]) \o marshalString(statvfs) \o marshalString(p[3])
sshFxpPosixRenamePacket(p) ==
  <<200>> \o marshalUint32(p[1]) \o marshalString(posixRename) \o marshalString(p[3])
          \o marshalString(p[4])
sshFxpHardlinkPacket(p) ==
  <<200>> \o marshalUint32(p[1]) \o marshalString(hardlink) \o marshalString(p[3])
          \o marshalString(p[4])

\* An unknown extension is an error of its own, which Serve answers.
ExtendedUnmarshal(b) ==
  LET u == unmarshal(b, <<"uint32", "string">>)
  IN CASE u.err # "" -> u
       [] u.err = "" /\ u.vals[2] = statvfs -> unmarshal(b, <<"uint32", "string", "string">>)
       [] u.err = "" /\ u.vals[2] \in {posixRename, hardlink} ->
            unmarshal(b, <<"uint32", "string", "string", "string">>)
       [] OTHER -> [u EXCEPT !.err = "errUnknownExtendedPacket"]

makePacket(typ, b) ==
  CASE typ \in IDStringPackets \cup LinkPackets -> unmarshalIDString(b)
    [] typ = 1 -> InitUnmarshal(b)
    [] typ = 3 -> OpenUnmarshal(b)
    [] typ = 5 -> ReadUnmarshal(b)
    [] typ = 6 -> WriteUnmarshal(b)
    [] typ \in {9, 10} -> SetstatUnmarshal(b)
    [] typ = 14 -> MkdirUnmarshal(b)
    [] typ = 18 -> RenameUnmarshal(b)
    [] typ = 20 -> SymlinkUnmarshal(b)
    [] typ = 200 -> ExtendedUnmarshal(b)
    [] OTHER -> [vals |-> <<>>, b |-> b, err |-> "unhandled packet type"]

-----------------------------------------------------------------------------
(* File attributes.  An os.FileMode is a set of the bits that are not      *)
(* permissions, and the permissions; a file has one type.                  *)

toFileMode(mode) ==
  LET fmt == (mode \div 2^12) % 16
      type == CASE fmt = 6 -> {"device"} [] fmt = 2 -> {"device", "char"} [] fmt = 4 -> {"dir"}
                [] fmt = 1 -> {"pipe"} [] fmt = 10 -> {"symlink"} [] fmt = 12 -> {"socket"}
                [] OTHER -> {}
  IN [bits |-> type \cup (IF (mode \div 2^10) % 2 = 1 THEN {"setgid"} ELSE {})
                    \cup (IF (mode \div 2^11) % 2 = 1 THEN {"setuid"} ELSE {})
                    \cup (IF (mode \div 2^9) % 2 = 1 THEN {"sticky"} ELSE {}),
      perm |-> mode % 2^9]

fromFileMode(m) ==
  LET fmt == CASE {"device", "char"} \subseteq m.bits -> 2
               [] {"device", "char"} \cap m.bits = {"device"} -> 6
               [] "dir" \in m.bits -> 4 [] "symlink" \in m.bits -> 10
               [] "pipe" \in m.bits -> 1 [] "socket" \in m.bits -> 12
               [] OTHER -> 8
  IN fmt * 2^12 + (IF "setgid" \in m.bits THEN 2^10 ELSE 0)
       + (IF "setuid" \in m.bits THEN 2^11 ELSE 0) + (IF "sticky" \in m.bits THEN 2^9 ELSE 0)
       + m.perm

HasAttr(flags, attr) == (flags \div attr) % 2 = 1
Size == 1
UIDGID == 2
Permissions == 4
ACmodTime == 8
Extended == 16   \* 0x80000000

\* An os.FileInfo is [size, mode, mtime, uid, gid]; uid = -1: it has no syscall.Stat_t.
fileStatFromInfoOs(fi) == IF fi.uid >= 0 THEN UIDGID ELSE 0
fileStatFromInfo(fi) == Size + Permissions + ACmodTime + fileStatFromInfoOs(fi)

marshalFileInfo(fi) ==
  LET flags == fileStatFromInfo(fi)
  IN marshalUint32(flags) \o marshalUint64(fi.size)
       \o (IF HasAttr(flags, UIDGID) THEN marshalUint32(fi.uid) \o marshalUint32(fi.gid) ELSE <<>>)
       \o marshalUint32(fromFileMode(fi.mode)) \o marshalUint32(fi.mtime) \o marshalUint32(fi.mtime)

\* The attributes that flags announce, in this order.
AttrKinds(flags) ==
  (IF HasAttr(flags, Size) THEN <<"uint64">> ELSE <<>>)
    \o (IF HasAttr(flags, UIDGID) THEN <<"uint32", "uint32">> ELSE <<>>)
    \o (IF HasAttr(flags, Permissions) THEN <<"uint32">> ELSE <<>>)
    \o (IF HasAttr(flags, ACmodTime) THEN <<"uint32", "uint32">> ELSE <<>>)
getFileStat(flags, b) ==
  LET u == Ignoring(b, AttrKinds(flags))
      n == Ignoring(u.b, <<"uint32">>)
      pairs == Ignoring(n.b, [i \in 1..2 * n.vals[1] |-> "string"])
  IN IF HasAttr(flags, Extended) THEN [pairs EXCEPT !.vals = Append(u.vals, @)] ELSE u

\* unmarshalAttrs and fileInfoFromStat, of attributes with size, permissions and times.
unmarshalAttrs(b) ==
  LET flags == unmarshalUint32(b)
  IN IF flags.err = "" THEN getFileStat(flags.v, flags.b) ELSE [vals |-> <<>>, b |-> b, err |-> flags.err]
fileInfoFromStat(flags, vals) ==
  LET at == IF HasAttr(flags, UIDGID) THEN 4 ELSE 2
  IN [size |-> vals[1], mode |-> toFileMode(vals[at]), mtime |-> vals[at + 2]]

-----------------------------------------------------------------------------
(* Responses, with what the client makes of them.                          *)

sshFxVersionPacket(p) ==
  <<2>> \o marshalUint32(p[1])
        \o FlattenSeq([i \in DOMAIN p[2] |-> marshalString(p[2][i][1]) \o marshalString(p[2][i][2])])
recvVersion(b) == InTurn(b, <<"uint32">>, Unsafe)

sshFxpHandlePacket(p) == <<102>> \o marshalUint32(p[1]) \o marshalString(p[2])
HandleRead(b) == InTurn(b, <<"uint32", "string">>, Unsafe)

marshalStatus(st) == marshalUint32(st[1]) \o marshalString(st[2]) \o marshalString(st[3])
sshFxpStatusPacket(id, st) == <<101>> \o marshalUint32(id) \o marshalStatus(st)
unmarshalStatus(b) ==
  LET u == InTurn(b, <<"uint32", "uint32">>, Unsafe)
  IN IF u.err # "" THEN u ELSE [u EXCEPT !.vals = @ \o Ignoring(u.b, <<"string", "string">>).vals]

\* The data is moved up by nine bytes, to make room for the header; what is beyond Length is not.
sshFxpDataPacket(p) ==
  LET grown == p[3] \o [i \in 1..9 |-> 0]
  IN <<103>> \o marshalUint32(p[1]) \o marshalUint32(p[2]) \o SubSeq(p[3], 1, p[2])
             \o After(grown, p[2] + 9)
DataRead(b) == Counted(InTurn(b, <<"uint32", "uint32">>, Unsafe), "panic")

\* binary.Write and binary.Read of an id and eleven uint64.
StatVFS(p) == <<201>> \o marshalUint32(p[1])
                      \o FlattenSeq([i \in 1..11 |-> marshalUint64(p[i + 1])])
StatVFSRead(b) == unmarshal(b, <<"uint32">> \o [i \in 1..11 |-> "uint64"])

sshFxpNameAttr(na) == marshalString(na.name) \o marshalString(na.long) \o marshalFileInfo(na.info)
sshFxpNamePacket(id, nas) ==
  <<104>> \o marshalUint32(id) \o marshalUint32(Len(nas))
          \o FlattenSeq([i \in DOMAIN nas |-> sshFxpNameAttr(nas[i])])

\* The loop of ReadDir over the names of one response.
RECURSIVE ReadNames(_, _, _)
ReadNames(n, b, read) ==
  LET u == InTurn(b, <<"string", "string">>, Unsafe)
      stat == unmarshalAttrs(u.b)
      entry == [name |-> u.vals[1], info |-> fileInfoFromStat(Uint32(u.b), stat.vals)]
  IN CASE n = 0 -> [vals |-> read, err |-> ""]
       [] n > 0 /\ u.err # "" -> [vals |-> read, err |-> u.err]
       [] n > 0 /\ u.err = "" /\ stat.err # "" -> [vals |-> read, err |-> stat.err]
       [] OTHER -> ReadNames(n - 1, stat.b, Append(read, entry))
NamesRead(b) ==
  LET u == InTurn(b, <<"uint32", "uint32">>, Unsafe)
  IN IF u.err # "" THEN u ELSE ReadNames(u.vals[2], u.b, <<>>)

-----------------------------------------------------------------------------
\* A request packet of type m[1] arrives as it was sent, whatever follows it; cut off anywhere
\* it is refused, except within a part that runs to the end of the packet: the attributes of
\* Setstat, or between two extensions of Init (packet.go:193-805, packet-typing.go:84-136).
RequestExact(m, p) ==
  LET u == makePacket(Head(m), Tail(m))
      Open(k) == \/ Head(m) \in {9, 10} /\ k >= Len(Tail(m)) - Len(p[4])
                 \/ Head(m) = 1
      Cut(k) == makePacket(Head(m), SubSeq(Tail(m), 1, k))
      more == makePacket(Head(m), Tail(m) \o <<7>>)
  IN /\ u.err = "" /\ u.vals = p
     /\ Head(m) \notin {1, 9, 10} => more.err = "" /\ more.vals = p
     /\ \A k \in 0..Len(m) - 2 : Open(k) \/ Cut(k).err = "short"
     /\ Head(m) = 1 => \A k \in 0..Len(m) - 2 : Cut(k).err = "short" \/ IsPrefix(Cut(k).vals[2], p[2])

\* Frames follow one another on the stream.  A cut or overlong one is an error, io.EOF only
\* where the stream ends before a frame or right after its length (packet.go:120-170).
FrameExact(m) ==
  LET f == sendPacket(m)
      long == Len(m) > MaxMsgLength
  IN /\ IF long THEN recvPacket(f).err = "errLongPacket"
        ELSE recvPacket(f \o f) = [err |-> "", typ |-> Head(m), data |-> Tail(m)]
     /\ \A k \in 0..Len(f) - 1 :
          recvPacket(SubSeq(f, 1, k)).err = IF k >= 4 /\ long THEN "errLongPacket"
                                            ELSE IF k \in {0, 4} THEN "EOF" ELSE "ErrUnexpectedEOF"

\* The client reads what the server knows of its files: names, size, mode and time.  Of a
\* response that is cut off it reads no other names: the client panics, or has zeros among the
\* attributes of the last one (packet.go:483-517, attrs.go:80-246, client.go:262-276).
NamesExact(nas) ==
  LET b == Tail(sshFxpNamePacket(1, nas))
      sent == [i \in DOMAIN nas |->
                 [name |-> nas[i].name, info |-> [size |-> nas[i].info.size, mode |-> nas[i].info.mode,
                                                  mtime |-> nas[i].info.mtime]]]
  IN /\ NamesRead(b) = [vals |-> sent, err |-> ""]
     /\ \A k \in 0..Len(b) - 1 :
          LET r == NamesRead(SubSeq(b, 1, k))
          IN \/ r.err = "panic"
             \/ /\ r.err = "" /\ Len(r.vals) = Len(sent) /\ Front(r.vals) = Front(sent)
                /\ Last(r.vals).name = Last(sent).name

\* Attributes are read as they are announced: v is a uint64, w a uint32, pairs the extended ones
\* (attrs.go:105-137).
AttrsExact(flags, v, w, pairs) ==
  LET vals == [i \in DOMAIN AttrKinds(flags) |-> IF AttrKinds(flags)[i] = "uint64" THEN v ELSE w]
      bytes == FlattenSeq([i \in DOMAIN vals |-> IF AttrKinds(flags)[i] = "uint64" THEN marshalUint64(v)
                                                 ELSE marshalUint32(w)])
      ext == marshalUint32(Len(pairs) \div 2) \o FlattenSeq([i \in DOMAIN pairs |-> marshalString(pairs[i])])
  IN IF HasAttr(flags, Extended) THEN getFileStat(flags, bytes \o ext).vals = Append(vals, pairs)
     ELSE getFileStat(flags, bytes).vals = vals

\* The other responses.  Cut off, none of them is read as another one: the client panics, except
\* that StatVFS returns an error, and that a status keeps its code without its texts
\* (packet.go:103-106, client.go:217-232, :303-307, :609, :944-945, :1334-1347).
ResponseExact(id, st, s) ==
  LET vfs == <<id>> \o [i \in 1..11 |-> <<i, id>>]
      Sent(m, Read(_), vals, cut) ==
        /\ Read(Tail(m)).err = "" /\ Read(Tail(m)).vals = vals
        /\ \A k \in 0..Len(m) - 2 : Read(SubSeq(Tail(m), 1, k)).err = cut
      status == Tail(sshFxpStatusPacket(id, st))
  IN /\ Sent(sshFxpHandlePacket(<<id, s>>), HandleRead, <<id, s>>, "panic")
     /\ Sent(sshFxpDataPacket(<<id, Len(s), s>>), DataRead, <<id, Len(s), s>>, "panic")
     /\ Sent(StatVFS(vfs), StatVFSRead, vfs, "short")
     /\ Sent(sshFxVersionPacket(<<3, <<>>>>), recvVersion, <<3>>, "panic")
     /\ recvVersion(Tail(sshFxVersionPacket(<<3, <<<<s, s>>>> >>))).vals = <<3>>
     /\ unmarshalStatus(status).vals = <<id>> \o st
     /\ \A k \in 0..Len(status) - 1 :
          LET u == unmarshalStatus(SubSeq(status, 1, k))
          IN IF k < 8 THEN u.err = "panic" ELSE u.err = "" /\ SubSeq(u.vals, 1, 2) = <<id, st[1]>>
=============================================================================
