------------------------------ MODULE MCClient ------------------------------
(* Instances of ClientFile, and of the functions of ClientCalls and        *)
(* Packets.  A state with an input is that of an idle client: nothing      *)
(* happens in it but that the functions are applied to the input, calls    *)
(* when it is taken.                                                       *)
EXTENDS ClientFile

VARIABLE input

MCCallers == {F, C}
MCCapacity == [c \in MCCallers |-> IF c = F THEN MaxConcurrent + 1 ELSE 2]
MCTransfers == {<<"ReadAt", 2, 4>>, <<"ReadAt", 1, 3>>, <<"WriteTo", 0, 0>>, <<"Write", 0, 5>>,
                <<"ReadFrom", 0, 3>>}

Calls == INSTANCE ClientCalls WITH ReaddirBatch <- 1

A == <<"a">>
B == <<"b", "c">>
J == <<"j">>
U == <<"u">>

\* A user of the staging directory /j with /j/u for a jail, one of the clean directory /j who
\* sees all of it, and a server without a jail path.
Users ==
  {[jailPath |-> <<J>>, JailDirectory |-> <<U>>, IsCleanDirUser |-> FALSE],
   [jailPath |-> <<J>>, JailDirectory |-> Calls!Everywhere, IsCleanDirUser |-> TRUE],
   [jailPath |-> <<>>, JailDirectory |-> <<>>, IsCleanDirUser |-> FALSE]}
Root(u) == IF u.jailPath = <<>> THEN <<>> ELSE IF u.IsCleanDirUser THEN <<J>> ELSE <<J, U>>

\* File systems with two names, two levels deep, below what the user sees; bc may be a link to a.
Absent == [kind |-> "absent"]
Nodes(root, p) ==
  CASE p = <<A>> -> {Absent, Calls!Dir, Calls!File(1)}
    [] p = <<B>> -> {Absent, Calls!Dir, Calls!File(2), Calls!Link(root \o <<A>>)}
    [] OTHER -> {Absent, Calls!Dir, Calls!File(3)}
Places == {<<A>>, <<B>>, <<A, A>>, <<A, B>>}
Trees(root) ==
  {t \in [Places -> UNION {Nodes(root, p) : p \in Places}] :
     \A p \in Places : t[p] \in Nodes(root, p) /\ (Len(p) = 2 /\ t[p] # Absent => t[<<A>>] = Calls!Dir)}
Tree(root, t) ==
  LET below == {root \o q : q \in {q \in Places : t[q] # Absent}}
  IN [p \in Calls!Way(root) \cup below |->
        IF p \in below THEN t[SubSeq(p, Len(root) + 1, Len(p))] ELSE Calls!Dir]
Servers ==
  UNION {{[fs |-> Tree(Root(u), t), open |-> <<>>, count |-> 0, user |-> u,
           conn |-> [left |-> Calls!Forever, runs |-> TRUE, end |-> "EOF"]] : t \in Trees(Root(u))} :
           u \in Users}

\* The paths asked for, none of them below a link, and one that only begins like the root.
Asked(s) ==
  {p \in {Root(s.user) \o q : q \in {<<A>>, <<B>>, <<A, A>>, <<A, B>>, <<B, A>>, <<A, A, B>>}} :
     \A i \in 1..Len(p) - 1 :
       SubSeq(p, 1, i) \in DOMAIN s.fs => s.fs[SubSeq(p, 1, i)].kind # "link"}
Given == {<<A>>, <<B>>, <<B, A>>, <<J, <<"u", "b">>>>, <<J, U, A>>}
Opens == {{m} \cup o : m \in {"O_RDONLY", "O_WRONLY", "O_RDWR"},
                       o \in SUBSET {"O_CREATE", "O_TRUNC", "O_EXCL", "O_APPEND"}}

\* "*" and "b?", and "b[", which path.Match finds malformed once a name begins with a b.
Elements ==
  {Calls!Literal(A), Calls!Literal(B),
   [text |-> <<"*">>, meta |-> TRUE, fits |-> {A, B}, bad |-> {}],
   [text |-> <<"b", "?">>, meta |-> TRUE, fits |-> {B}, bad |-> {}],
   [text |-> <<"b", "[">>, meta |-> TRUE, fits |-> {}, bad |-> {B}]}
Patterns(s) ==
  LET root == [i \in DOMAIN Root(s.user) |-> Calls!Literal(Root(s.user)[i])]
  IN {root \o <<x>> : x \in Elements}
     \cup {p \in {root \o <<x, y>> : x, y \in Elements} : Calls!hasMeta(p)}

Codec == INSTANCE Packets WITH MaxMsgLength <- 40

Ids == {1, 2^16 + 2}
Strings == {<<>>, <<7>>, <<0, 255, 47>>}
Words == {0, 2^30 + 255}
Longs == {<<0, 5>>, <<1, 2^30>>}
Z == <<0, 255, 47>>
Pairs == {<<>>, <<<<Z, Z>>>>, <<<<Z, <<>>>>, <<<<>>, Z>>>>}

\* The requests a client can send: the bytes, and the packet they stand for.
Requests ==
  UNION {
    {<<Codec!marshalIDString(typ, p), p>> :
       typ \in Codec!IDStringPackets \cup Codec!LinkPackets, p \in Ids \X Strings},
    {<<Codec!sshFxInitPacket(p), p>> : p \in Words \X Pairs},
    {<<Codec!sshFxpSymlinkPacket(p), p>> : p \in Ids \X Strings \X Strings},
    {<<Codec!sshFxpRenamePacket(p), p>> : p \in Ids \X Strings \X Strings},
    {<<Codec!sshFxpOpenPacket(p), p>> : p \in Ids \X Strings \X Words \X Words},
    {<<Codec!sshFxpReadPacket(p), p>> : p \in Ids \X Strings \X Longs \X Words},
    {<<Codec!sshFxpWritePacket(p), p>> :
       p \in {<<id, h, o, Len(d), d>> : id \in Ids, h \in Strings, o \in Longs, d \in Strings}},
    {<<Codec!sshFxpMkdirPacket(p), p>> : p \in Ids \X Strings \X Words},
    {<<Codec!sshFxpSetstatPacket(typ, p), p>> :
       typ \in {9, 10}, p \in Ids \X Strings \X Words \X Strings},
    {<<Codec!sshFxpStatvfsPacket(p), p>> : p \in Ids \X {Codec!statvfs} \X Strings},
    {<<Codec!sshFxpPosixRenamePacket(p), p>> :
       p \in Ids \X {Codec!posixRename} \X Strings \X Strings},
    {<<Codec!sshFxpHardlinkPacket(p), p>> :
       p \in Ids \X {Codec!hardlink} \X Strings \X Strings}}

Types == {{}, {"dir"}, {"symlink"}, {"device"}, {"device", "char"}, {"pipe"}, {"socket"}}
Modes == [bits : {t \cup b : t \in Types, b \in SUBSET {"setuid", "setgid", "sticky"}},
          perm : {0, 5 * 8^2 + 7, 511}]
Infos == {[size |-> <<1, 2>>, mode |-> m, mtime |-> 2^30, uid |-> u, gid |-> 9] :
            m \in Modes, u \in {-1, 300}}
Listings == {<<>>} \cup {<<[name |-> s, long |-> Z, info |-> i], [name |-> Z, long |-> s, info |-> i]>> :
                           s \in Strings, i \in Infos}

None == <<"none">>
Inputs ==
  UNION {{<<"server", x>> : x \in Servers}, {<<"request", x>> : x \in Requests}, {<<"names", x>> : x \in Listings},
         {<<"attrs", x>> : x \in (0..31) \X Longs \X Words \X {<<>>, <<Z, <<>>>>}},
         {<<"response", x>> : x \in Ids \X Words \X Strings \X Strings}}

Idle ==
  /\ ConnInit /\ faults = 0 /\ file = <<>> /\ dropped = FALSE
  /\ xfer = [NewOp(<<"Write", 0, 0>>, 0) EXCEPT !.done = TRUE] /\ call = "done"

Runs(Action) == input = None /\ Action /\ UNCHANGED input
Take == input[1] = "server" /\ input' = <<"taken">> /\ UNCHANGED vars

MCInit == (Init /\ input = None) \/ (Idle /\ input \in Inputs)
MCNext ==
  \/ Runs(Serve) \/ Runs(ConnStep) \/ Runs(CallSend) \/ Runs(CallReturns)
  \/ Runs(ReadAtSends) \/ Runs(ReadAtTakes) \/ Runs(WriteToSends) \/ Runs(WriteToTakes)
  \/ Runs(WriteSends) \/ Runs(ReadFromSends) \/ Runs(TakeError) \/ Runs(TakeReadStatus)
  \/ Runs(TakeWriteStatus) \/ Runs(Finish(xfer.kind)) \/ Take
MCSpec == MCInit /\ [][MCNext]_<<vars, input>> /\ WF_<<vars, input>>(MCNext)

\* The methods of Client change the server's files as their documentation says and return an
\* error exactly when they should, on every small file system, for the paths RealPath gives to
\* users with and without a jail directory: Remove and RemoveDirectory, MkdirAll, ReadDir over
\* several batches, OpenFile with any flags, Rename and the links, Chmod, Chown and Truncate, and
\* Glob; and those of several requests do not take a lost connection for success.  Chtimes is the
\* exception, and stated as such: it succeeds and changes no time, against client.go:474
\* (client.go:241-820, match.go:184-281, server.go:44-72, :205-661).
CallsExact ==
  [][input[1] = "server" =>
       LET s == input[2]
       IN /\ \A p \in Asked(s) : /\ Calls!RemoveExact(s, p) /\ Calls!MkdirExact(s, p)
                                 /\ Calls!SettingsExact(s, p) /\ Calls!LostExact(s, p)
                                 /\ \A f \in Opens : Calls!OpenExact(s, p, f)
                                 /\ \A q \in Asked(s) \ {p} : Calls!MovesExact(s, p, q)
          /\ \A p \in Asked(s) \cup {Root(s.user)} : Calls!ReadDirExact(s, p)
          /\ \A p \in Given : Calls!SeenAlike(s, p)
          /\ \A pattern \in Patterns(s) : Calls!GlobExact(s, pattern)
    ]_input

=============================================================================
