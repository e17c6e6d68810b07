--------------------------- MODULE SessionProofs ----------------------------
(***************************************************************************)
(* A session of an SFTP server, for any number of workers and fewer than   *)
(* 2^32 packets: first the invariant of the flow of packets and what every *)
(* step does to it, then that a session is an in-order server, then what   *)
(* it guarantees besides the order of its responses: the open handles of a *)
(* client are found, what it left open is closed, and no page has two      *)
(* users.                                                                  *)
(***************************************************************************)
EXTENDS PacketManager, TLAPS

(***************************************************************************)
(* The page allocator, for any set of ids: a page is in one place at a     *)
(* time.                                                                   *)
(***************************************************************************)

AllocType(a, Ids) ==
  a \in [available : Seq(Nat), used : [Ids -> Seq(Nat)], made : Nat]

\* The pages available and the pages of each id are in one place each, and no page is in
\* a place before it is made.
Exclusive(available, used, made, Ids) ==
  /\ \A i, j \in 1..Len(available) : available[i] = available[j] => i = j
  /\ \A x, y \in Ids : \A i \in 1..Len(used[x]), j \in 1..Len(used[y]) :
       used[x][i] = used[y][j] => x = y /\ i = j
  /\ \A x \in Ids : \A i \in 1..Len(used[x]), j \in 1..Len(available) :
       used[x][i] # available[j]
  /\ \A i \in 1..Len(available) : available[i] <= made
  /\ \A x \in Ids : \A i \in 1..Len(used[x]) : used[x][i] <= made

OneUser(a, Ids) == Exclusive(a.available, a.used, a.made, Ids)

LEMMA GetPageFields ==
  ASSUME NEW Ids, NEW a, AllocType(a, Ids), NEW id \in Ids
  PROVE  /\ AllocType(GetPage(a, id), Ids)
         /\ GetPage(a, id).available = IF a.available = <<>> THEN <<>>
                                       ELSE SubSeq(a.available, 1, Len(a.available) - 1)
         /\ \A x \in Ids : GetPage(a, id).used[x] = IF x = id THEN Append(a.used[x], NextPage(a))
                                                    ELSE a.used[x]
         /\ GetPage(a, id).made = IF a.available = <<>> THEN a.made + 1 ELSE a.made
         /\ NextPage(a) \in Nat
<1>1. a \in [available : Seq(Nat), used : [Ids -> Seq(Nat)], made : Nat] BY DEF AllocType
<1>2. NextPage(a) \in Nat
  <2>1. a.available \in Seq(Nat) /\ a.made \in Nat BY <1>1
  <2> QED BY SMTT(60), <2>1 DEF NextPage
<1>3. a.available # <<>> => SubSeq(a.available, 1, Len(a.available) - 1) \in Seq(Nat)
  <2>1. a.available \in Seq(Nat) BY <1>1
  <2> QED BY SMTT(60), <2>1
<1>4. Append(a.used[id], NextPage(a)) \in Seq(Nat) BY <1>1, <1>2
<1>0. PICK b : b = GetPage(a, id)
  BY Zenon
<1>5. b.available = IF a.available = <<>> THEN <<>>
                    ELSE SubSeq(a.available, 1, Len(a.available) - 1)
  BY Zenon, <1>0, <1>1 DEF GetPage
<1>6. b.used = [a.used EXCEPT ![id] = Append(a.used[id], NextPage(a))]
  BY Zenon, <1>0, <1>1 DEF GetPage
<1>7. b.made = IF a.available = <<>> THEN a.made + 1 ELSE a.made
  BY Zenon, <1>0, <1>1 DEF GetPage
<1>8. b = [available |-> b.available, used |-> b.used, made |-> b.made]
  BY Zenon, <1>0, <1>1 DEF GetPage
<1>9. b.available \in Seq(Nat) /\ b.used \in [Ids -> Seq(Nat)] /\ b.made \in Nat
  <2>1. b.available \in Seq(Nat) BY <1>3, <1>5
  <2>2. b.used \in [Ids -> Seq(Nat)] BY <1>1, <1>4, <1>6
  <2>3. b.made \in Nat BY <1>1, <1>7
  <2> QED BY Zenon, <2>1, <2>2, <2>3
<1>10. AllocType(b, Ids) BY Zenon, <1>8, <1>9 DEF AllocType
<1>11. \A x \in Ids : b.used[x] = IF x = id THEN Append(a.used[x], NextPage(a)) ELSE a.used[x]
  BY Zenon, <1>1, <1>6
<1> QED BY Zenon, <1>0, <1>2, <1>5, <1>7, <1>10, <1>11

LEMMA ReleaseFields ==
  ASSUME NEW Ids, NEW a, AllocType(a, Ids), NEW id \in Ids
  PROVE  /\ AllocType(ReleasePages(a, id), Ids)
         /\ ReleasePages(a, id).available = a.available \o a.used[id]
         /\ \A x \in Ids : ReleasePages(a, id).used[x] = IF x = id THEN <<>> ELSE a.used[x]
         /\ ReleasePages(a, id).made = a.made
<1>1. a \in [available : Seq(Nat), used : [Ids -> Seq(Nat)], made : Nat] BY DEF AllocType
<1>0. PICK b : b = ReleasePages(a, id)
  BY Zenon
<1>2. b.available = a.available \o a.used[id] BY Zenon, <1>0, <1>1 DEF ReleasePages
<1>3. b.used = [a.used EXCEPT ![id] = <<>>] BY <1>0, <1>1 DEF ReleasePages
<1>4. b.made = a.made BY <1>0, <1>1 DEF ReleasePages
<1>5. b = [available |-> b.available, used |-> b.used, made |-> b.made]
  BY Zenon, <1>0, <1>1 DEF ReleasePages
<1>6. b.available \in Seq(Nat) /\ b.used \in [Ids -> Seq(Nat)] /\ b.made \in Nat
  BY <1>1, <1>2, <1>3, <1>4
<1>7. AllocType(b, Ids) BY Zenon, <1>5, <1>6 DEF AllocType
<1> QED BY Zenon, <1>0, <1>1, <1>2, <1>3, <1>4, <1>7

LEMMA FreeFields ==
  ASSUME NEW Ids, NEW a, AllocType(a, Ids)
  PROVE  AllocType(Free(a), Ids) /\ OneUser(Free(a), Ids)
<1>1. a \in [available : Seq(Nat), used : [Ids -> Seq(Nat)], made : Nat] BY DEF AllocType
<1>0. PICK b : b = Free(a)
  BY Zenon
<1>2. b.available = <<>> BY <1>0, <1>1 DEF Free
<1>3. b.used = [x \in Ids |-> <<>>] BY <1>0, <1>1 DEF Free
<1>4. b.made = a.made BY <1>0, <1>1 DEF Free
<1>5. b = [available |-> b.available, used |-> b.used, made |-> b.made]
  BY Zenon, <1>0, <1>1 DEF Free
<1>6. b.available \in Seq(Nat) /\ b.used \in [Ids -> Seq(Nat)] /\ b.made \in Nat
  BY <1>1, <1>2, <1>3, <1>4
<1>7. AllocType(b, Ids) BY Zenon, <1>5, <1>6 DEF AllocType
<1>8. \A x \in Ids : b.used[x] = <<>> BY <1>3
<1> QED BY <1>0, <1>2, <1>7, <1>8 DEF OneUser, Exclusive

\* The page p, which nothing else refers to, moves to the end of the pages of id.
Moved(av, us, md, bv, bs, bd, p, id, Ids) ==
  /\ md \in Nat /\ bd \in Nat /\ p \in Nat /\ md <= bd /\ p <= bd
  /\ \A x \in Ids : us[x] \in Seq(Nat)
  /\ \A x \in Ids : bs[x] = IF x = id THEN Append(us[x], p) ELSE us[x]
  /\ \A i \in 1..Len(bv) : i \in 1..Len(av) /\ bv[i] = av[i] /\ bv[i] \in Nat /\ bv[i] # p
  /\ \A x \in Ids : \A i \in 1..Len(us[x]) : us[x][i] # p

LEMMA PageAdded ==
  ASSUME NEW Ids, NEW av, NEW us, NEW md, NEW bv, NEW bs, NEW bd, NEW p, NEW id \in Ids,
         Exclusive(av, us, md, Ids), Moved(av, us, md, bv, bs, bd, p, id, Ids)
  PROVE  Exclusive(bv, bs, bd, Ids)
<1>0. /\ md \in Nat /\ bd \in Nat /\ p \in Nat /\ md <= bd /\ p <= bd
      /\ \A x \in Ids : us[x] \in Seq(Nat)
      /\ \A x \in Ids : bs[x] = IF x = id THEN Append(us[x], p) ELSE us[x]
      /\ \A i \in 1..Len(bv) : i \in 1..Len(av) /\ bv[i] = av[i] /\ bv[i] \in Nat /\ bv[i] # p
      /\ \A x \in Ids : \A i \in 1..Len(us[x]) : us[x][i] # p
  BY ZenonT(60) DEF Moved
<1> USE <1>0
<1>1. /\ \A i, j \in 1..Len(av) : av[i] = av[j] => i = j
      /\ \A i \in 1..Len(av) : av[i] <= md
  BY Zenon DEF Exclusive
<1>2. \A x, y \in Ids : \A i \in 1..Len(us[x]), j \in 1..Len(us[y]) :
        us[x][i] = us[y][j] => x = y /\ i = j
  BY Zenon DEF Exclusive
<1>3. \A x \in Ids : \A i \in 1..Len(us[x]), j \in 1..Len(av) : us[x][i] # av[j]
  BY Zenon DEF Exclusive
<1>4. \A x \in Ids : \A i \in 1..Len(us[x]) : us[x][i] <= md /\ us[x][i] \in Nat
  BY SMTT(60) DEF Exclusive
<1>5. ASSUME NEW x \in Ids, NEW i \in 1..Len(bs[x])
      PROVE  \/ x = id /\ i = Len(us[id]) + 1 /\ bs[x][i] = p
             \/ i \in 1..Len(us[x]) /\ bs[x][i] = us[x][i] /\ bs[x][i] # p
  <2>1. us[x] \in Seq(Nat) /\ Len(us[x]) \in Nat BY SMTT(60)
  <2>2. CASE x = id
    <3>1. bs[x] = Append(us[x], p) BY ZenonT(60), <2>2
    <3>2. Len(bs[x]) = Len(us[x]) + 1 BY <2>1, <3>1
    <3>3. CASE i = Len(us[x]) + 1 BY <2>1, <2>2, <3>1, <3>3
    <3>4. CASE i \in 1..Len(us[x])
      <4>1. bs[x][i] = us[x][i] BY <2>1, <3>1, <3>4
      <4> QED BY Zenon, <3>4, <4>1
    <3> QED BY SMTT(60), <2>1, <3>2, <3>3, <3>4
  <2>3. CASE x # id
    <3>1. bs[x] = us[x] BY <2>3
    <3> QED BY Zenon, <3>1
  <2> QED BY Zenon, <2>2, <2>3
<1>6. \A i, j \in 1..Len(bv) : bv[i] = bv[j] => i = j
  BY Zenon, <1>1
<1>7. ASSUME NEW x \in Ids, NEW y \in Ids, NEW i \in 1..Len(bs[x]), NEW j \in 1..Len(bs[y]),
             bs[x][i] = bs[y][j]
      PROVE  x = y /\ i = j
  <2>1. CASE bs[x][i] = p
    <3>1. x = id /\ i = Len(us[id]) + 1 BY <1>5, <2>1
    <3>2. y = id /\ j = Len(us[id]) + 1 BY ZenonT(60), <1>5, <1>7, <2>1
    <3> QED BY Zenon, <3>1, <3>2
  <2>2. CASE bs[x][i] # p
    <3>1. i \in 1..Len(us[x]) /\ bs[x][i] = us[x][i] BY Zenon, <1>5, <2>2
    <3>2. j \in 1..Len(us[y]) /\ bs[y][j] = us[y][j] BY <1>5, <1>7, <2>2
    <3>3. us[x][i] = us[y][j] BY ZenonT(60), <1>7, <3>1, <3>2
    <3> QED BY SMTT(60), <1>2, <3>1, <3>2, <3>3
  <2> QED BY Zenon, <2>1, <2>2
<1>8. ASSUME NEW x \in Ids, NEW i \in 1..Len(bs[x]), NEW j \in 1..Len(bv)
      PROVE  bs[x][i] # bv[j]
  BY SMTT(60), <1>3, <1>5
<1>9. ASSUME NEW i \in 1..Len(bv) PROVE bv[i] <= bd
  <2>1. bv[i] <= md /\ bv[i] \in Nat BY <1>1
  <2> QED BY <2>1
<1>10. ASSUME NEW x \in Ids, NEW i \in 1..Len(bs[x]) PROVE bs[x][i] <= bd
  <2>1. bs[x][i] = p \/ (bs[x][i] <= md /\ bs[x][i] \in Nat) BY ZenonT(60), <1>4, <1>5
  <2> QED BY <2>1
<1> QED BY Zenon, <1>6, <1>7, <1>8, <1>9, <1>10 DEF Exclusive

\* GetPage hands out a page that nothing else refers to.
LEMMA GetPageOneUser ==
  ASSUME NEW Ids, NEW a, AllocType(a, Ids), OneUser(a, Ids), NEW id \in Ids
  PROVE  OneUser(GetPage(a, id), Ids)
<1>0. PICK b : b = GetPage(a, id)
  BY Zenon
<1>1. PICK p : p = NextPage(a)
  BY Zenon
<1>2. PICK av, us, md : av = a.available /\ us = a.used /\ md = a.made
  BY Zenon
<1>3. PICK bv, bs, bd : bv = b.available /\ bs = b.used /\ bd = b.made
  BY Zenon
<1>4. bv = IF av = <<>> THEN <<>> ELSE SubSeq(av, 1, Len(av) - 1)
  BY <1>0, <1>2, <1>3, GetPageFields
<1>5. /\ \A x \in Ids : bs[x] = IF x = id THEN Append(us[x], p) ELSE us[x]
      /\ bd = IF av = <<>> THEN md + 1 ELSE md
      /\ p \in Nat
  BY SMTT(60), <1>0, <1>1, <1>2, <1>3, GetPageFields
<1>6. av \in Seq(Nat) /\ md \in Nat /\ \A x \in Ids : us[x] \in Seq(Nat)
  BY Zenon, <1>2 DEF AllocType
<1>7. Exclusive(av, us, md, Ids) BY <1>2 DEF OneUser
<1>8. p = IF av # <<>> THEN av[Len(av)] ELSE md + 1
  BY Zenon, <1>1, <1>2 DEF NextPage
<1>9. bd \in Nat /\ md <= bd /\ p <= bd
  <2>1. CASE av = <<>> BY <1>5, <1>6, <1>8, <2>1
  <2>2. CASE av # <<>>
    <3>1. Len(av) \in 1..Len(av) BY <1>6, <2>2
    <3>2. av[Len(av)] <= md BY <1>7, <3>1 DEF Exclusive
    <3> QED BY <1>5, <1>6, <1>8, <2>2, <3>2
  <2> QED BY Zenon, <2>1, <2>2
<1>10. ASSUME NEW i \in 1..Len(bv)
       PROVE  i \in 1..Len(av) /\ bv[i] = av[i] /\ bv[i] \in Nat /\ bv[i] # p
  <2>1. av # <<>> /\ Len(av) \in Nat /\ Len(av) # 0 BY <1>4, <1>6
  <2>2. bv = SubSeq(av, 1, Len(av) - 1) BY <1>4, <2>1
  <2>3. Len(bv) = Len(av) - 1 BY <1>6, <2>1, <2>2
  <2>4. i \in 1..Len(av) /\ i # Len(av) /\ Len(av) \in 1..Len(av) BY <2>1, <2>3
  <2>5. bv[i] = av[i] BY <1>6, <2>1, <2>2, <2>3
  <2>6. av[i] # av[Len(av)] BY <1>7, <2>4 DEF Exclusive
  <2> QED BY <1>6, <1>8, <2>1, <2>4, <2>5, <2>6
<1>11. ASSUME NEW x \in Ids, NEW i \in 1..Len(us[x])
       PROVE  us[x][i] # p
  <2>1. us[x][i] <= md /\ us[x][i] \in Nat BY SMTT(60), <1>6, <1>7 DEF Exclusive
  <2>2. CASE av = <<>> BY <1>6, <1>8, <2>1, <2>2
  <2>3. CASE av # <<>>
    <3>1. Len(av) \in 1..Len(av) BY <1>6, <2>3
    <3> QED BY Zenon, <1>7, <1>8, <2>3, <3>1 DEF Exclusive
  <2> QED BY Zenon, <2>2, <2>3
<1>12. Exclusive(bv, bs, bd, Ids)
  <2>1. \A i \in 1..Len(bv) : i \in 1..Len(av) /\ bv[i] = av[i] /\ bv[i] \in Nat /\ bv[i] # p
    BY Zenon, <1>10
  <2>2. \A x \in Ids : \A i \in 1..Len(us[x]) : us[x][i] # p BY <1>11
  <2>3. Moved(av, us, md, bv, bs, bd, p, id, Ids)
    BY Zenon, <1>5, <1>6, <1>9, <2>1, <2>2 DEF Moved
  <2> QED BY Zenon, <1>7, <2>3, PageAdded
<1> QED BY Zenon, <1>0, <1>3, <1>12 DEF OneUser

\* ReleasePages moves the pages of id, and nothing else, to the available ones.
LEMMA ReleaseOneUser ==
  ASSUME NEW Ids, NEW a, AllocType(a, Ids), OneUser(a, Ids), NEW id \in Ids
  PROVE  OneUser(ReleasePages(a, id), Ids)
<1>0. PICK b : b = ReleasePages(a, id)
  BY Zenon
<1>1. PICK av, us, md : av = a.available /\ us = a.used /\ md = a.made
  BY Zenon
<1>2. PICK bv, bs, u : bv = b.available /\ bs = b.used /\ u = us[id]
  BY Zenon
<1>a. /\ b.available = a.available \o a.used[id] /\ b.made = a.made
      /\ \A x \in Ids : b.used[x] = IF x = id THEN <<>> ELSE a.used[x]
  <2>1. a \in [available : Seq(Nat), used : [Ids -> Seq(Nat)], made : Nat] BY DEF AllocType
  <2>2. b.available = a.available \o a.used[id] BY Zenon, <1>0, <2>1 DEF ReleasePages
  <2>3. b.used = [a.used EXCEPT ![id] = <<>>] BY <1>0, <2>1 DEF ReleasePages
  <2>4. b.made = a.made BY <1>0, <2>1 DEF ReleasePages
  <2> QED BY Zenon, <2>1, <2>2, <2>3, <2>4
<1>3. bv = av \o u /\ b.made = md
  BY Zenon, <1>1, <1>2, <1>a
<1>4. \A x \in Ids : bs[x] = IF x = id THEN <<>> ELSE us[x]
  BY Zenon, <1>1, <1>2, <1>a
<1>5. av \in Seq(Nat) /\ md \in Nat /\ u \in Seq(Nat)
  BY Zenon, <1>1, <1>2 DEF AllocType
<1>6. Exclusive(av, us, md, Ids) BY <1>1 DEF OneUser
<1>7. /\ \A i, j \in 1..Len(av) : av[i] = av[j] => i = j
      /\ \A i \in 1..Len(av) : av[i] <= md
      /\ \A i, j \in 1..Len(u) : u[i] = u[j] => i = j
      /\ \A i \in 1..Len(u) : u[i] <= md
      /\ \A i \in 1..Len(u), j \in 1..Len(av) : u[i] # av[j]
  BY <1>2, <1>6 DEF Exclusive
<1>8. ASSUME NEW i \in 1..Len(bv)
      PROVE  \/ i \in 1..Len(av) /\ bv[i] = av[i]
             \/ i - Len(av) \in 1..Len(u) /\ bv[i] = u[i - Len(av)]
  <2>1. Len(bv) = Len(av) + Len(u) /\ Len(av) \in Nat /\ Len(u) \in Nat BY <1>3, <1>5
  <2>2. CASE i <= Len(av) BY <1>3, <1>5, <2>1, <2>2
  <2>3. CASE i > Len(av)
    <3>1. bv[i] = u[i - Len(av)] BY <1>3, <1>5, <2>1, <2>3
    <3> QED BY <2>1, <2>3, <3>1
  <2> QED BY <2>1, <2>2, <2>3
<1>9. ASSUME NEW x \in Ids, NEW i \in 1..Len(bs[x])
      PROVE  x # id /\ bs[x] = us[x] /\ i \in 1..Len(us[x])
  <2>1. x # id BY <1>4
  <2> QED BY Zenon, <1>4, <2>1
<1>10. ASSUME NEW i \in 1..Len(bv), NEW j \in 1..Len(bv), bv[i] = bv[j]
       PROVE  i = j
  <2>1. CASE i \in 1..Len(av) /\ bv[i] = av[i]
    <3>1. CASE j \in 1..Len(av) /\ bv[j] = av[j]
      <4>1. av[i] = av[j] BY ZenonT(60), <1>10, <2>1, <3>1
      <4> QED BY Zenon, <1>7, <2>1, <3>1, <4>1
    <3>2. CASE j - Len(av) \in 1..Len(u) /\ bv[j] = u[j - Len(av)]
      <4>1. av[i] = u[j - Len(av)] BY ZenonT(60), <1>10, <2>1, <3>2
      <4> QED BY Zenon, <1>7, <2>1, <3>2, <4>1
    <3> QED BY Zenon, <1>8, <3>1, <3>2
  <2>2. CASE i - Len(av) \in 1..Len(u) /\ bv[i] = u[i - Len(av)]
    <3>1. CASE j - Len(av) \in 1..Len(u) /\ bv[j] = u[j - Len(av)]
      <4>1. u[i - Len(av)] = u[j - Len(av)] BY ZenonT(60), <1>10, <2>2, <3>1
      <4>2. i - Len(av) = j - Len(av) BY Zenon, <1>7, <2>2, <3>1, <4>1
      <4>3. Len(av) \in Nat BY <1>5
      <4> QED BY <4>2, <4>3
    <3>2. CASE j \in 1..Len(av) /\ bv[j] = av[j]
      <4>1. u[i - Len(av)] = av[j] BY ZenonT(60), <1>10, <2>2, <3>2
      <4> QED BY Zenon, <1>7, <2>2, <3>2, <4>1
    <3> QED BY Zenon, <1>8, <3>1, <3>2
  <2> QED BY Zenon, <1>8, <2>1, <2>2
<1>11. ASSUME NEW x \in Ids, NEW y \in Ids, NEW i \in 1..Len(bs[x]), NEW j \in 1..Len(bs[y]),
              bs[x][i] = bs[y][j]
       PROVE  x = y /\ i = j
  <2>1. /\ i \in 1..Len(us[x]) /\ j \in 1..Len(us[y]) /\ us[x][i] = us[y][j]
    BY Zenon, <1>9, <1>11
  <2> QED BY <1>6, <2>1 DEF Exclusive
<1>12. ASSUME NEW x \in Ids, NEW i \in 1..Len(bs[x]), NEW j \in 1..Len(bv)
       PROVE  bs[x][i] # bv[j]
  <2>1. x # id /\ i \in 1..Len(us[x]) /\ bs[x][i] = us[x][i] BY <1>9
  <2>2. \A k \in 1..Len(av) : us[x][i] # av[k] BY <1>6, <2>1 DEF Exclusive
  <2>3. \A k \in 1..Len(u) : us[x][i] # u[k] BY <1>2, <1>6, <2>1 DEF Exclusive
  <2> QED BY Zenon, <1>8, <2>1, <2>2, <2>3
<1>13. \A i \in 1..Len(bv) : bv[i] <= md
  BY Zenon, <1>7, <1>8
<1>14. ASSUME NEW x \in Ids, NEW i \in 1..Len(bs[x])
       PROVE  bs[x][i] <= md
  BY Zenon, <1>6, <1>9 DEF Exclusive
<1>15. Exclusive(bv, bs, md, Ids) BY <1>10, <1>11, <1>12, <1>13, <1>14 DEF Exclusive
<1> QED BY Zenon, <1>0, <1>2, <1>3, <1>15 DEF OneUser

-----------------------------------------------------------------------------
(* The flow of packets.                                                    *)

\* The dispatcher has taken packets 1..Taken from pktChan, counted the packets
\* 1..Counted in working, registered 1..Registered and handed on 1..Handed.
Taken == Len(received) - Len(pktChan) - (IF serve = "queue" THEN 1 ELSE 0)
Counted == IF disp = "wait" THEN Taken - 1 ELSE Taken
Registered == IF disp \in {"wait", "register"} THEN Taken - 1 ELSE Taken
Handed == IF disp \in {"wait", "register", "hand"} THEN Taken - 1 ELSE Taken

\* Packets pass the dispatcher and the controller in order and without gaps.
InSequence ==
  /\ Taken \in Nat
  /\ dpkt = IF disp \in {"wait", "register", "hand"} THEN Taken ELSE 0
  /\ disp \in {"wait", "register", "hand"} => Taken > 0
  /\ \A k \in 1..Len(pktChan) : pktChan[k] = Taken + k
  /\ \A k \in 1..Len(requests) : requests[k] = Registered - Len(requests) + k
  /\ Len(sent) + Len(requests) <= Registered
  /\ incoming = (Len(sent) + 1)..(Registered - Len(requests))
  /\ \A k \in 1..Len(sent) : sent[k] = k
  /\ ctl = "sending" => HeadsMatch(incoming, outgoing)

InRW == {rwChan[k] : k \in 1..Len(rwChan)}
AtWorkers == {wpkt[w] : w \in {v \in Workers : wpkt[v] # 0}}
AtDispatcher == IF disp \in {"register", "hand"} THEN {dpkt} ELSE {}
Busy == InRW \cup AtWorkers \cup AtDispatcher

\* What a worker holds is executed between "handle" and "ready".
WorkerPlace(w) ==
  /\ wpkt[w] <= Handed
  /\ wpc[w] = "idle" => wpkt[w] = 0
  /\ wpc[w] \in {"handle", "ready", "done"} => wpkt[w] # 0
  /\ wpc[w] = "handle" => wpkt[w] \notin executed
  /\ wpc[w] \in {"ready", "done"} => wpkt[w] \in executed
  /\ wpkt[w] # 0 => wpkt[w] \notin InRW
  /\ wpkt[w] # 0 => (received[wpkt[w]] \in ReadWrite <=> w # CmdWorker)

\* A packet that has been handed on is in one place only and not executed twice.
OnePlace ==
  /\ \A j, k \in 1..Len(rwChan) : rwChan[j] = rwChan[k] => j = k
  /\ \A k \in 1..Len(rwChan) : /\ rwChan[k] \in 1..Handed
                               /\ rwChan[k] \notin executed
                               /\ received[rwChan[k]] \in ReadWrite
  /\ \A w \in Workers : WorkerPlace(w)
  /\ \A v, w \in Workers : wpkt[v] = wpkt[w] /\ wpkt[v] # 0 => v = w
  /\ executed \subseteq 1..Handed
  /\ outgoing \subseteq executed
  /\ \A k \in 1..Len(responses) : responses[k] \in executed

\* Commands are executed one by one, and a close after everything before it.
Ordered ==
  /\ \A i \in 1..Handed : i \in executed \/ i \in InRW \/ i \in AtWorkers
  /\ disp \in {"register", "hand"} /\ received[dpkt] = "close" => 1..(dpkt - 1) \subseteq executed
  /\ LET i == wpkt[CmdWorker]
     IN i # 0 /\ received[i] = "close" => 1..(i - 1) \subseteq executed

FlowInv == FlowTypeOK /\ InSequence /\ OnePlace /\ Ordered

\* What the dispatcher learns from waiting for the wait group.
Drained == working = 0 => Busy = {}

\* The wait group and the set of packets being worked on change together.
BusyStep ==
  \/ Busy' = Busy /\ working' = working
  \/ \E i \in Packets : i \notin Busy /\ Busy' = Busy \cup {i} /\ working' = working + 1
  \/ \E i \in Busy : Busy' = Busy \ {i} /\ working' = working - 1

LEMMA OrderIdIsIndex == \A i \in 0..MaxPackets : orderID(i) = i
  BY PacketManagerAssumptions DEF orderID

LEMMA InitFlow == Init => FlowInv /\ Busy = {}
<1> SUFFICES ASSUME Init PROVE FlowInv /\ Busy = {}
  BY Zenon
<1> USE PacketManagerAssumptions DEF Init
<1>1. FlowTypeOK BY DEF FlowTypeOK, Packets
<1>2. Taken = 0 /\ Handed = 0 /\ Registered = 0 /\ Counted = 0
  BY DEF Taken, Handed, Registered, Counted
<1>3. InSequence BY <1>2 DEF InSequence
<1>4. InRW = {} /\ AtWorkers = {} /\ AtDispatcher = {}
  BY DEF InRW, AtWorkers, AtDispatcher
<1>5. OnePlace BY <1>2, <1>4 DEF OnePlace, WorkerPlace
<1>6. Ordered BY <1>2, <1>4 DEF Ordered, Workers
<1>7. Busy = {} BY <1>4 DEF Busy
<1> QED BY Zenon, <1>1, <1>3, <1>5, <1>6, <1>7 DEF FlowInv

LEMMA DispatcherBounds ==
  ASSUME FlowTypeOK, InSequence
  PROVE  /\ Taken \in Nat /\ Handed \in Nat /\ Registered \in Nat /\ Counted \in Nat
         /\ Handed <= Registered /\ Registered <= Counted /\ Counted <= Taken
         /\ Taken <= Len(received) /\ Len(received) \in Nat
         /\ disp \in {"wait", "register", "hand"} => dpkt = Taken /\ dpkt \in 1..Len(received)
<1>1. Taken \in Nat /\ Taken <= Len(received) /\ Len(received) \in Nat
  BY SMTT(60) DEF InSequence, FlowTypeOK, Taken
<1>2. disp \in {"wait", "register", "hand"} => dpkt = Taken /\ Taken > 0
  BY Zenon DEF InSequence
<1> QED BY <1>1, <1>2 DEF Handed, Registered, Counted

-----------------------------------------------------------------------------
(* Serve and its client only add packets at the end of pktChan.             *)

restVars == <<disp, dpkt, working, rwChan, requests, responses, incoming, outgoing, ctl,
              sent, wpc, wpkt, executed>>

IntakeEffect ==
  /\ FlowTypeOK' /\ Taken' = Taken /\ restVars' = restVars
  /\ Len(received) <= Len(received')
  /\ \A i \in 1..Len(received) : received'[i] = received[i]
  /\ \A k \in 1..Len(pktChan') : pktChan'[k] = Taken + k

LEMMA IntakeStep == FlowTypeOK /\ InSequence /\ (ClientStep \/ Serve) => IntakeEffect
<1> SUFFICES ASSUME FlowTypeOK, InSequence, ClientStep \/ Serve PROVE IntakeEffect
  BY Zenon
<1>0. /\ Taken \in Nat
      /\ \A k \in 1..Len(pktChan) : pktChan[k] = Taken + k
      /\ Len(pktChan) \in Nat /\ Len(received) \in Nat /\ MaxPackets \in Nat
  BY PacketManagerAssumptions DEF InSequence, FlowTypeOK
<1>1. ASSUME NEW op \in Ops, NEW h \in 0..MaxPackets, RecvPacket(op, h)
      PROVE  IntakeEffect
  BY SMTT(60), <1>0, <1>1 DEF RecvPacket, NewPacket, IntakeEffect, FlowTypeOK, restVars, dispVars,
       ctlVars, workerVars, handleVars, Taken
<1>2. ASSUME NEW op \in Ops, RecvUndecodable(op)
      PROVE  IntakeEffect
  <2>1. CASE kind = "RequestServer"
    BY <1>0, <1>2, <2>1 DEF RecvUndecodable, IntakeEffect, FlowTypeOK, restVars, dispVars,
         ctlVars, workerVars, handleVars, Taken
  <2>2. CASE kind # "RequestServer"
    <3>1. /\ serve = "recv" /\ serve' = "queue" /\ Len(received) < MaxPackets
          /\ received' = Append(received, op) /\ pktChan' = pktChan /\ restVars' = restVars
      BY Zenon, <1>2, <2>2 DEF RecvUndecodable, NewPacket, restVars, dispVars, ctlVars, workerVars,
           handleVars
    <3> QED BY SMTT(60), <1>0, <3>1 DEF IntakeEffect, FlowTypeOK, restVars, Taken
  <2> QED BY Zenon, <2>1, <2>2
<1>3. ASSUME NEW how \in {"eof", "closed"}, ConnEnds(how)
      PROVE  IntakeEffect
  BY SMTT(60), <1>0, <1>3 DEF ConnEnds, IntakeEffect, FlowTypeOK, restVars, dispVars, ctlVars,
       workerVars, handleVars, Taken
<1>4. CASE RecvError
  BY SMTT(60), <1>0, <1>4 DEF RecvError, IntakeEffect, FlowTypeOK, restVars, dispVars, ctlVars,
       workerVars, handleVars, Taken
<1>5. CASE QueuePacket
  <2>1. Len(received) = Taken + Len(pktChan) + 1 /\ Len(received) \in Packets
    BY <1>0, <1>5 DEF QueuePacket, FlowTypeOK, Taken, Packets
  <2>2. /\ pktChan' = Append(pktChan, Len(received)) /\ pktChan \in Seq(Packets)
        /\ received' = received
    BY Zenon, <1>5 DEF QueuePacket, FlowTypeOK
  <2>3. FlowTypeOK' /\ restVars' = restVars
    BY SMTT(60), <2>1, <1>5 DEF QueuePacket, FlowTypeOK, restVars, dispVars, ctlVars, workerVars,
         handleVars
  <2>4. Taken' = Taken
    BY <1>0, <2>2, <1>5 DEF QueuePacket, Taken
  <2>5. ASSUME NEW k \in 1..Len(pktChan') PROVE pktChan'[k] = Taken + k
    <3>1. Len(pktChan') = Len(pktChan) + 1 BY <2>2
    <3>2. CASE k = Len(pktChan) + 1 BY <3>2, <2>1, <2>2, <1>0
    <3>3. CASE k \in 1..Len(pktChan) BY <3>3, <2>2, <1>0
    <3> QED BY <3>1, <3>2, <3>3, <1>0
  <2> QED BY <1>0, <2>2, <2>3, <2>4, <2>5 DEF IntakeEffect
<1>6. CASE ServeReturns
  BY <1>0, <1>6 DEF ServeReturns, IntakeEffect, FlowTypeOK, restVars, dispVars, ctlVars,
       workerVars, Taken
<1> QED BY Zenon, <1>1, <1>2, <1>3, <1>4, <1>5, <1>6 DEF ClientStep, Serve

LEMMA IntakeInv == FlowInv /\ (ClientStep \/ Serve) => FlowInv' /\ BusyStep
<1> SUFFICES ASSUME FlowInv, ClientStep \/ Serve PROVE FlowInv' /\ BusyStep
  BY Zenon
<1>1. IntakeEffect BY IntakeStep DEF FlowInv
<1>2. FlowTypeOK /\ InSequence /\ OnePlace /\ Ordered BY DEF FlowInv
<1>3. /\ Taken' = Taken /\ Handed' = Handed /\ Registered' = Registered /\ Counted' = Counted
      /\ Taken \in Nat /\ Handed \in Nat /\ Handed <= Taken /\ Taken <= Len(received)
  <2>1. Taken' = Taken /\ disp' = disp BY <1>1 DEF IntakeEffect, restVars
  <2> QED BY Zenon, <1>2, <2>1, DispatcherBounds DEF Handed, Registered, Counted
<1>4. InRW' = InRW /\ AtWorkers' = AtWorkers /\ AtDispatcher' = AtDispatcher /\ Busy' = Busy
  BY ZenonT(60), <1>1 DEF IntakeEffect, restVars, InRW, AtWorkers, AtDispatcher, Busy
<1>5. InSequence'
  BY Zenon, <1>1, <1>2, <1>3 DEF IntakeEffect, restVars, InSequence, HeadsMatch, IsHead
<1>6. OnePlace'
  <2>0. \A i \in 1..Handed : received'[i] = received[i]
    <3>1. \A i \in 1..Len(received) : received'[i] = received[i] BY <1>1 DEF IntakeEffect
    <3>2. Len(received) \in Nat BY <1>2 DEF FlowTypeOK
    <3> QED BY <1>3, <3>1, <3>2
  <2>1. ASSUME NEW k \in 1..Len(rwChan) PROVE received'[rwChan[k]] = received[rwChan[k]]
    <3>1. rwChan[k] \in 1..Handed BY <1>2 DEF OnePlace
    <3> QED BY Zenon, <2>0, <3>1
  <2>2. ASSUME NEW w \in Workers, wpkt[w] # 0 PROVE received'[wpkt[w]] = received[wpkt[w]]
    <3>1. wpkt[w] \in 1..Handed BY SMTT(60), <1>2, <1>3, <2>2 DEF OnePlace, WorkerPlace, FlowTypeOK
    <3> QED BY Zenon, <2>0, <3>1
  <2>3. ASSUME NEW w \in Workers PROVE WorkerPlace(w)'
    <3>1. WorkerPlace(w) BY <1>2 DEF OnePlace
    <3>2. wpkt' = wpkt /\ wpc' = wpc /\ executed' = executed BY <1>1 DEF IntakeEffect, restVars
    <3> QED BY Zenon, <1>3, <1>4, <2>2, <3>1, <3>2 DEF WorkerPlace
  <2>4. /\ rwChan' = rwChan /\ wpkt' = wpkt /\ executed' = executed
        /\ outgoing' = outgoing /\ responses' = responses
    BY Zenon, <1>1 DEF IntakeEffect, restVars
  <2> QED BY ZenonT(60), <1>2, <1>3, <2>1, <2>3, <2>4 DEF OnePlace
<1>7. Ordered'
  <2>1. disp \in {"register", "hand"} => received'[dpkt] = received[dpkt]
    BY <1>1, <1>2, <1>3 DEF IntakeEffect, InSequence
  <2>2. wpkt[CmdWorker] # 0 => received'[wpkt[CmdWorker]] = received[wpkt[CmdWorker]]
    <3>1. ASSUME wpkt[CmdWorker] # 0 PROVE wpkt[CmdWorker] \in 1..Len(received)
      BY SMTT(60), <1>2, <1>3, <3>1 DEF OnePlace, WorkerPlace, FlowTypeOK, Workers
    <3> QED BY Zenon, <1>1, <3>1 DEF IntakeEffect
  <2> QED BY Zenon, <1>1, <1>2, <1>3, <1>4, <2>1, <2>2 DEF IntakeEffect, restVars, Ordered
<1>8. BusyStep BY <1>1, <1>4 DEF IntakeEffect, restVars, BusyStep
<1> QED BY Zenon, <1>1, <1>5, <1>6, <1>7, <1>8 DEF IntakeEffect, FlowInv

-----------------------------------------------------------------------------
(* The controller only touches its own lists.                               *)

LEMMA HeadOfInterval ==
  ASSUME NEW a \in Nat, NEW b \in 0..MaxPackets, NEW i, IsHead(i, (a + 1)..b)
  PROVE  i = a + 1
<1>1. i \in (a + 1)..b BY DEF IsHead
<1>2. a + 1 \in (a + 1)..b /\ i \in 0..MaxPackets /\ a + 1 \in 0..MaxPackets
  BY <1>1, PacketManagerAssumptions
<1>3. orderID(i) <= orderID(a + 1) BY <1>2 DEF IsHead
<1> QED BY <1>1, <1>2, <1>3, OrderIdIsIndex

\* The controller sends the response of the packet after the last one it answered.
LEMMA SendsNext ==
  ASSUME FlowTypeOK, InSequence, ctl = "sending",
         NEW i \in incoming, NEW o \in outgoing, IsHead(i, incoming), IsHead(o, outgoing)
  PROVE  i = Len(sent) + 1 /\ o = Len(sent) + 1
<1> DEFINE a == Len(sent)
           b == Registered - Len(requests)
<1>1. a \in Nat /\ b \in 0..MaxPackets /\ incoming = (a + 1)..b
  <2>1. /\ Registered \in Nat /\ Registered <= Len(received) /\ Len(received) <= MaxPackets
        /\ Len(received) \in Nat
    BY SMTT(60), DispatcherBounds DEF FlowTypeOK
  <2>2. Len(sent) \in Nat /\ Len(requests) \in Nat BY DEF FlowTypeOK
  <2> QED BY SMTT(60), <2>1, <2>2, PacketManagerAssumptions DEF InSequence
<1>2. PICK j \in incoming, q \in outgoing :
         IsHead(j, incoming) /\ IsHead(q, outgoing) /\ orderID(j) = orderID(q)
  BY Zenon DEF InSequence, HeadsMatch
<1>3. i = a + 1 /\ j = a + 1 BY <1>1, <1>2, HeadOfInterval
<1>4. o \in 0..MaxPackets /\ q \in 0..MaxPackets /\ j \in 0..MaxPackets
  BY PacketManagerAssumptions DEF FlowTypeOK, Packets
<1>5. orderID(o) = o /\ orderID(q) = q /\ orderID(j) = j BY <1>4, OrderIdIsIndex
<1>6. o <= q /\ q <= o BY <1>2, <1>5 DEF IsHead
<1> QED BY <1>2, <1>3, <1>4, <1>5, <1>6

LEMMA ControllerInv == FlowInv /\ Controller => FlowInv' /\ BusyStep
<1> SUFFICES ASSUME FlowInv, Controller PROVE FlowInv' /\ BusyStep
  BY Zenon
<1>1. FlowTypeOK /\ InSequence /\ OnePlace /\ Ordered BY DEF FlowInv
<1>2. /\ serve' = serve /\ received' = received /\ pktChan' = pktChan /\ disp' = disp
      /\ dpkt' = dpkt /\ working' = working /\ rwChan' = rwChan /\ wpc' = wpc
      /\ wpkt' = wpkt /\ executed' = executed
  BY Zenon DEF Controller, SelectRequest, SelectResponse, SendHead, SelectFini, serveVars, dispVars,
       workerVars, handleVars
<1>3. Taken' = Taken /\ Handed' = Handed /\ Registered' = Registered
  BY Zenon, <1>2 DEF Taken, Handed, Registered
<1>4. InRW' = InRW /\ AtWorkers' = AtWorkers /\ AtDispatcher' = AtDispatcher /\ Busy' = Busy
  BY Zenon, <1>2 DEF InRW, AtWorkers, AtDispatcher, Busy
<1>5. Registered \in Nat /\ Len(sent) \in Nat /\ Len(requests) \in Nat
  BY SMTT(60), <1>1, DispatcherBounds DEF FlowTypeOK
<1>6. FlowTypeOK' /\ InSequence' /\ outgoing' \subseteq executed
      /\ \A k \in 1..Len(responses') : responses'[k] \in executed
  <2>1. CASE SelectRequest
    <3>1. /\ requests # <<>> /\ requests' = Tail(requests)
          /\ incoming' = incoming \cup {Head(requests)} /\ outgoing' = outgoing
          /\ sent' = sent /\ responses' = responses
          /\ ctl' \in {"panicked", "select", "sending"}
          /\ ctl' = "sending" => HeadsMatch(incoming', outgoing')
      BY Zenon, <2>1 DEF SelectRequest, Continue
    <3>2. /\ requests \in Seq(Packets) /\ Len(requests) > 0 /\ Head(requests) = requests[1]
          /\ requests[1] \in Packets /\ requests' \in Seq(Packets)
          /\ Len(requests') = Len(requests) - 1
          /\ \A k \in 1..Len(requests') : requests'[k] = requests[k + 1]
      BY <3>1, <1>1 DEF FlowTypeOK
    <3>3. FlowTypeOK' BY Zenon, <1>1, <1>2, <3>1, <3>2 DEF FlowTypeOK
    <3>4. requests[1] = Registered - Len(requests) + 1
      BY <1>1, <1>5, <3>2 DEF InSequence
    <3>5. incoming' = (Len(sent) + 1)..(Registered - Len(requests'))
      BY <1>1, <1>5, <3>1, <3>2, <3>4 DEF InSequence
    <3>6. \A k \in 1..Len(requests') : requests'[k] = Registered - Len(requests') + k
      BY SMTT(60), <1>1, <1>5, <3>2 DEF InSequence
    <3>7. InSequence'
      BY <1>1, <1>2, <1>3, <1>5, <3>1, <3>2, <3>5, <3>6 DEF InSequence
    <3> QED BY Zenon, <1>1, <3>1, <3>3, <3>7 DEF OnePlace, WorkerPlace
  <2>2. CASE SelectResponse
    <3>1. /\ responses # <<>> /\ responses' = Tail(responses)
          /\ outgoing' = outgoing \cup {Head(responses)} /\ incoming' = incoming
          /\ sent' = sent /\ requests' = requests
          /\ ctl' \in {"select", "sending"}
          /\ ctl' = "sending" => HeadsMatch(incoming', outgoing')
      BY Zenon, <2>2 DEF SelectResponse, Continue
    <3>2. /\ responses \in Seq(Packets) /\ Len(responses) > 0
          /\ Head(responses) = responses[1]
          /\ responses[1] \in Packets /\ responses' \in Seq(Packets)
          /\ Len(responses') = Len(responses) - 1 /\ Len(responses) \in Nat
          /\ \A k \in 1..Len(responses') : responses'[k] = responses[k + 1]
      BY <3>1, <1>1 DEF FlowTypeOK
    <3>3. FlowTypeOK' BY <1>1, <1>2, <3>1, <3>2 DEF FlowTypeOK
    <3>4. InSequence' BY <1>1, <1>2, <1>3, <3>1 DEF InSequence
    <3>5. \A k \in 1..Len(responses) : responses[k] \in executed BY <1>1 DEF OnePlace, WorkerPlace
    <3>6. outgoing' \subseteq executed
      <4>1. responses[1] \in executed BY <3>2, <3>5
      <4> QED BY ZenonT(60), <1>1, <3>1, <3>2, <4>1 DEF OnePlace, WorkerPlace
    <3>7. \A k \in 1..Len(responses') : responses'[k] \in executed
      BY <3>2, <3>5
    <3> QED BY Zenon, <3>3, <3>4, <3>6, <3>7
  <2>3. CASE SendHead
    <3>1. PICK i \in incoming, o \in outgoing :
            /\ IsHead(i, incoming) /\ IsHead(o, outgoing)
            /\ sent' = Append(sent, o)
            /\ incoming' = incoming \ {i} /\ outgoing' = outgoing \ {o}
      BY Zenon, <2>3 DEF SendHead
    <3>2. i = Len(sent) + 1 /\ o = Len(sent) + 1
      BY Zenon, <1>1, <2>3, <3>1, SendsNext DEF SendHead
    <3>3. /\ requests' = requests /\ responses' = responses
          /\ ctl' \in {"select", "sending"}
          /\ ctl' = "sending" => HeadsMatch(incoming', outgoing')
      BY Zenon, <2>3 DEF SendHead, Continue
    <3>4. /\ sent \in Seq(Packets) /\ o \in Packets /\ sent' \in Seq(Packets)
          /\ Len(sent') = Len(sent) + 1
      BY <1>1, <3>1 DEF FlowTypeOK
    <3>5. FlowTypeOK' BY Zenon, <1>1, <1>2, <3>1, <3>3, <3>4 DEF FlowTypeOK
    <3>6. \A k \in 1..Len(sent') : sent'[k] = k
      BY <1>1, <1>5, <3>1, <3>2, <3>4 DEF InSequence
    <3>7. incoming = (Len(sent) + 1)..(Registered - Len(requests)) BY <1>1 DEF InSequence
    <3>8. /\ incoming' = (Len(sent') + 1)..(Registered - Len(requests))
          /\ Len(sent') + Len(requests) <= Registered
      BY <1>5, <3>1, <3>2, <3>4, <3>7
    <3>9. InSequence'
      BY Zenon, <1>1, <1>2, <1>3, <3>3, <3>6, <3>8 DEF InSequence
    <3> QED BY Zenon, <1>1, <3>1, <3>3, <3>5, <3>9 DEF OnePlace, WorkerPlace
  <2>4. CASE SelectFini
    <3>1. /\ requests' = requests /\ responses' = responses /\ incoming' = incoming
          /\ outgoing' = outgoing /\ sent' = sent /\ ctl' = "returned"
      BY Zenon, <2>4 DEF SelectFini
    <3> QED BY Zenon, <1>1, <1>2, <1>3, <3>1 DEF FlowTypeOK, InSequence, OnePlace, WorkerPlace
  <2> QED BY Zenon, <2>1, <2>2, <2>3, <2>4 DEF Controller
<1>7. OnePlace'
  <2>1. ASSUME NEW w \in Workers PROVE WorkerPlace(w)'
    <3>1. WorkerPlace(w) BY <1>1 DEF OnePlace
    <3> QED BY Zenon, <1>2, <1>3, <1>4, <3>1 DEF WorkerPlace
  <2> QED BY ZenonT(60), <1>1, <1>2, <1>3, <1>6, <2>1 DEF OnePlace
<1>8. Ordered' BY <1>1, <1>2, <1>3, <1>4 DEF Ordered
<1>9. BusyStep BY <1>2, <1>4 DEF BusyStep
<1> QED BY Zenon, <1>6, <1>7, <1>8, <1>9 DEF FlowInv

-----------------------------------------------------------------------------
(* The dispatcher.                                                          *)

\* The packets being worked on are among those received, and are in one place.
LEMMA BusyFacts ==
  ASSUME FlowInv
  PROVE  /\ InRW \subseteq 1..Handed /\ AtWorkers \subseteq 1..Handed
         /\ InRW \cap AtWorkers = {}
         /\ Busy \subseteq 1..Len(received)
<1>1. FlowTypeOK /\ InSequence /\ OnePlace BY DEF FlowInv
<1>2. /\ Handed \in Nat /\ Handed <= Len(received) /\ Len(received) \in Nat
      /\ disp \in {"register", "hand"} => dpkt \in 1..Len(received)
  BY <1>1, DispatcherBounds
<1>3. InRW \subseteq 1..Handed
  <2>1. \A k \in 1..Len(rwChan) : rwChan[k] \in 1..Handed BY <1>1 DEF OnePlace
  <2> QED BY Zenon, <2>1 DEF InRW
<1>4. AtWorkers \subseteq 1..Handed
  <2>1. ASSUME NEW w \in Workers, wpkt[w] # 0 PROVE wpkt[w] \in 1..Handed
    BY SMTT(60), <1>1, <1>2, <2>1 DEF OnePlace, WorkerPlace, FlowTypeOK
  <2> QED BY Zenon, <2>1 DEF AtWorkers
<1>5. InRW \cap AtWorkers = {} BY <1>1 DEF OnePlace, WorkerPlace, AtWorkers
<1>6. Busy \subseteq 1..Len(received)
  <2>1. AtDispatcher \subseteq 1..Len(received) BY <1>2 DEF AtDispatcher
  <2>2. 1..Handed \subseteq 1..Len(received) BY <1>2
  <2> QED BY Zenon, <1>3, <1>4, <2>1, <2>2 DEF Busy
<1> QED BY ZenonT(60), <1>3, <1>4, <1>5, <1>6

LEMMA TakePacketInv == FlowInv /\ TakePacket => FlowInv' /\ BusyStep
<1> SUFFICES ASSUME FlowInv, TakePacket PROVE FlowInv' /\ BusyStep
  BY Zenon
<1>1. FlowTypeOK /\ InSequence /\ OnePlace /\ Ordered BY DEF FlowInv
<1>2. /\ serve' = serve /\ received' = received /\ disp = "idle"
      /\ rwChan' = rwChan /\ wpc' = wpc /\ wpkt' = wpkt /\ executed' = executed
      /\ requests' = requests /\ responses' = responses /\ incoming' = incoming
      /\ outgoing' = outgoing /\ sent' = sent /\ ctl' = ctl
      /\ pktChan # <<>> /\ pktChan' = Tail(pktChan) /\ dpkt' = Head(pktChan)
      /\ disp' \in {"wait", "register"}
  BY Zenon DEF TakePacket, serveVars, ctlVars, workerVars, handleVars
<1>3. /\ pktChan \in Seq(Packets) /\ Len(pktChan) \in Nat /\ Len(pktChan) > 0
      /\ Head(pktChan) = pktChan[1] /\ pktChan[1] \in Packets
      /\ pktChan' \in Seq(Packets) /\ Len(pktChan') = Len(pktChan) - 1
      /\ \A k \in 1..Len(pktChan') : pktChan'[k] = pktChan[k + 1]
  BY <1>1, <1>2 DEF FlowTypeOK
<1>4. /\ Taken \in Nat /\ Len(received) \in Nat /\ Taken' = Taken + 1
      /\ Handed = Taken /\ Registered = Taken
  BY <1>1, <1>2, <1>3, DispatcherBounds DEF Taken, Handed, Registered
<1>5. Handed' = Handed /\ Registered' = Registered
  BY <1>2, <1>4 DEF Handed, Registered
<1>6. dpkt' = Taken + 1 BY <1>1, <1>2, <1>3 DEF InSequence
<1>7. FlowTypeOK' BY SMTT(60), <1>1, <1>2, <1>3, PacketManagerAssumptions DEF FlowTypeOK, Packets
<1>8. InSequence'
  <2>1. \A k \in 1..Len(pktChan') : pktChan'[k] = Taken' + k
    BY SMTT(60), <1>1, <1>3, <1>4 DEF InSequence
  <2> QED BY <1>1, <1>2, <1>4, <1>5, <1>6, <2>1 DEF InSequence
<1>9. InRW' = InRW /\ AtWorkers' = AtWorkers /\ AtDispatcher = {}
  BY Zenon, <1>2 DEF InRW, AtWorkers, AtDispatcher
<1>10. OnePlace' BY <1>1, <1>2, <1>5, <1>9 DEF OnePlace, WorkerPlace
<1>11. Ordered' /\ BusyStep
  <2>1. CASE received[Head(pktChan)] = "close"
    <3>1. disp' = "wait" /\ working' = working BY <2>1 DEF TakePacket
    <3>2. AtDispatcher' = {} BY <3>1 DEF AtDispatcher
    <3> QED BY ZenonT(60), <1>1, <1>2, <1>5, <1>9, <3>1, <3>2 DEF Ordered, BusyStep, Busy
  <2>2. CASE received[Head(pktChan)] # "close"
    <3>1. disp' = "register" /\ working' = working + 1 BY <2>2 DEF TakePacket
    <3>2. Busy' = Busy \cup {dpkt'} BY <1>9, <3>1 DEF AtDispatcher, Busy
    <3>3. dpkt' \notin Busy
      BY <1>4, <1>6, <1>9, BusyFacts DEF Busy
    <3>4. BusyStep BY <1>2, <1>3, <3>1, <3>2, <3>3 DEF BusyStep
    <3> QED BY Zenon, <1>1, <1>2, <1>5, <1>9, <2>2, <3>1, <3>4 DEF Ordered
  <2> QED BY Zenon, <2>1, <2>2
<1> QED BY Zenon, <1>7, <1>8, <1>10, <1>11 DEF FlowInv

LEMMA WaitBeforeCloseInv == FlowInv /\ Drained /\ WaitBeforeClose => FlowInv' /\ BusyStep
<1> SUFFICES ASSUME FlowInv, Drained, WaitBeforeClose PROVE FlowInv' /\ BusyStep
  BY Zenon
<1>1. FlowTypeOK /\ InSequence /\ OnePlace /\ Ordered BY DEF FlowInv
<1>2. /\ serve' = serve /\ received' = received /\ disp = "wait" /\ disp' = "register"
      /\ rwChan' = rwChan /\ wpc' = wpc /\ wpkt' = wpkt /\ executed' = executed
      /\ requests' = requests /\ responses' = responses /\ incoming' = incoming
      /\ outgoing' = outgoing /\ sent' = sent /\ ctl' = ctl /\ dpkt' = dpkt
      /\ pktChan' = pktChan /\ working = 0 /\ working' = 1
  BY Zenon DEF WaitBeforeClose, serveVars, ctlVars, workerVars, handleVars
<1>3. /\ Taken' = Taken /\ Handed' = Handed /\ Registered' = Registered
      /\ Taken \in Nat /\ dpkt = Taken /\ Handed = Taken - 1
  BY Zenon, <1>1, <1>2, DispatcherBounds DEF Taken, Handed, Registered
<1>4. FlowTypeOK' /\ InSequence' BY Zenon, <1>1, <1>2, <1>3 DEF FlowTypeOK, InSequence
<1>5. InRW' = InRW /\ AtWorkers' = AtWorkers /\ AtDispatcher' = {dpkt}
  BY Zenon, <1>2 DEF InRW, AtWorkers, AtDispatcher
<1>6. OnePlace' BY ZenonT(60), <1>1, <1>2, <1>3, <1>5 DEF OnePlace, WorkerPlace
<1>7. Busy = {} BY <1>2 DEF Drained
<1>8. 1..(dpkt - 1) \subseteq executed BY <1>1, <1>3, <1>7 DEF Ordered, Busy
<1>9. Ordered' BY Zenon, <1>1, <1>2, <1>3, <1>5, <1>8 DEF Ordered
<1>10. BusyStep
  <2>1. Busy' = Busy \cup {dpkt} /\ dpkt \notin Busy BY <1>5, <1>7 DEF Busy
  <2>2. dpkt \in Packets
    <3>1. dpkt \in 1..Len(received) /\ Len(received) <= MaxPackets /\ Len(received) \in Nat
      BY Zenon, <1>1, <1>2, DispatcherBounds DEF FlowTypeOK
    <3> QED BY <3>1, PacketManagerAssumptions DEF Packets
  <2>3. working' = working + 1 BY <1>2
  <2> QED BY Zenon, <2>1, <2>2, <2>3 DEF BusyStep
<1> QED BY Zenon, <1>4, <1>6, <1>9, <1>10 DEF FlowInv

LEMMA RegisterPacketInv == FlowInv /\ RegisterPacket => FlowInv' /\ BusyStep
<1> SUFFICES ASSUME FlowInv, RegisterPacket PROVE FlowInv' /\ BusyStep
  BY Zenon
<1>1. FlowTypeOK /\ InSequence /\ OnePlace /\ Ordered BY DEF FlowInv
<1>2. /\ serve' = serve /\ received' = received /\ disp = "register" /\ disp' = "hand"
      /\ rwChan' = rwChan /\ wpc' = wpc /\ wpkt' = wpkt /\ executed' = executed
      /\ requests' = Append(requests, dpkt) /\ responses' = responses
      /\ incoming' = incoming /\ outgoing' = outgoing /\ sent' = sent /\ ctl' = ctl
      /\ dpkt' = dpkt /\ pktChan' = pktChan /\ working' = working
  BY Zenon DEF RegisterPacket, serveVars, ctlVars, workerVars, handleVars
<1>3. /\ Taken' = Taken /\ Handed' = Handed /\ Registered' = Registered + 1
      /\ Taken \in Nat /\ Registered \in Nat /\ dpkt = Registered + 1 /\ dpkt \in Packets
  <2>1. dpkt = Taken /\ dpkt \in 1..Len(received) /\ Len(received) <= MaxPackets
    BY Zenon, <1>1, <1>2, DispatcherBounds DEF FlowTypeOK
  <2>2. Len(received) \in Nat /\ Taken \in Nat BY <1>1, DispatcherBounds
  <2> QED BY SMTT(60), <1>2, <2>1, <2>2, PacketManagerAssumptions
        DEF Taken, Handed, Registered, Packets
<1>4. /\ requests \in Seq(Packets) /\ requests' \in Seq(Packets) /\ Len(requests) \in Nat
      /\ Len(requests') = Len(requests) + 1 /\ requests'[Len(requests) + 1] = dpkt
      /\ \A k \in 1..Len(requests) : requests'[k] = requests[k]
  BY <1>1, <1>2, <1>3 DEF FlowTypeOK
<1>5. FlowTypeOK' BY Zenon, <1>1, <1>2, <1>4 DEF FlowTypeOK
<1>6. \A k \in 1..Len(requests') : requests'[k] = Registered' - Len(requests') + k
  <2>1. \A k \in 1..Len(requests) : requests'[k] = Registered - Len(requests) + k
    BY Zenon, <1>1, <1>4 DEF InSequence
  <2>2. \A k \in 1..Len(requests') : k \in 1..Len(requests) \/ k = Len(requests) + 1
    BY <1>4
  <2>3. requests'[Len(requests) + 1] = Registered - Len(requests) + (Len(requests) + 1)
    BY <1>3, <1>4
  <2>4. Registered' - Len(requests') = Registered - Len(requests) BY <1>3, <1>4
  <2> QED BY Zenon, <2>1, <2>2, <2>3, <2>4
<1>7. Registered' - Len(requests') = Registered - Len(requests) BY <1>3, <1>4
<1>8. Len(sent') + Len(requests') <= Registered'
  BY <1>1, <1>2, <1>3, <1>4 DEF InSequence, FlowTypeOK
<1>9. InSequence'
  BY Zenon, <1>1, <1>2, <1>3, <1>6, <1>7, <1>8 DEF InSequence
<1>10. InRW' = InRW /\ AtWorkers' = AtWorkers /\ AtDispatcher' = AtDispatcher /\ Busy' = Busy
  BY Zenon, <1>2 DEF InRW, AtWorkers, AtDispatcher, Busy
<1>11. OnePlace' BY <1>1, <1>2, <1>3, <1>10 DEF OnePlace, WorkerPlace
<1>12. Ordered' BY Zenon, <1>1, <1>2, <1>3, <1>10 DEF Ordered
<1>13. BusyStep BY <1>2, <1>10 DEF BusyStep
<1> QED BY Zenon, <1>5, <1>9, <1>11, <1>12, <1>13 DEF FlowInv

LEMMA HandToRWInv == FlowInv /\ HandToRW => FlowInv' /\ BusyStep
<1> SUFFICES ASSUME FlowInv, HandToRW PROVE FlowInv' /\ BusyStep
  BY Zenon
<1>1. FlowTypeOK /\ InSequence /\ OnePlace /\ Ordered BY DEF FlowInv
<1>2. /\ serve' = serve /\ received' = received /\ disp = "hand" /\ disp' = "idle"
      /\ rwChan' = Append(rwChan, dpkt) /\ received[dpkt] \in ReadWrite
      /\ wpc' = wpc /\ wpkt' = wpkt /\ executed' = executed
      /\ requests' = requests /\ responses' = responses
      /\ incoming' = incoming /\ outgoing' = outgoing /\ sent' = sent /\ ctl' = ctl
      /\ dpkt' = 0 /\ pktChan' = pktChan /\ working' = working
  BY Zenon DEF HandToRW, serveVars, ctlVars, workerVars, handleVars
<1>3. /\ Taken' = Taken /\ Registered' = Registered /\ Handed' = Handed + 1
      /\ Taken \in Nat /\ Handed \in Nat /\ dpkt = Handed + 1 /\ dpkt \in Packets
  <2>1. dpkt = Taken /\ dpkt \in 1..Len(received) /\ Len(received) <= MaxPackets
    BY Zenon, <1>1, <1>2, DispatcherBounds DEF FlowTypeOK
  <2>2. Len(received) \in Nat /\ Taken \in Nat BY <1>1, DispatcherBounds
  <2> QED BY SMTT(60), <1>2, <2>1, <2>2, PacketManagerAssumptions
        DEF Taken, Handed, Registered, Packets
<1>4. /\ rwChan \in Seq(Packets) /\ rwChan' \in Seq(Packets) /\ Len(rwChan) \in Nat
      /\ Len(rwChan') = Len(rwChan) + 1 /\ rwChan'[Len(rwChan) + 1] = dpkt
      /\ \A k \in 1..Len(rwChan) : rwChan'[k] = rwChan[k]
  BY SMTT(60), <1>1, <1>2, <1>3 DEF FlowTypeOK
<1>5. FlowTypeOK' BY SMTT(60), <1>1, <1>2, <1>4, PacketManagerAssumptions DEF FlowTypeOK
<1>6. InSequence' BY Zenon, <1>1, <1>2, <1>3 DEF InSequence
<1>7. InRW' = InRW \cup {dpkt} BY <1>4 DEF InRW
<1>8. /\ AtWorkers' = AtWorkers /\ AtDispatcher = {dpkt} /\ AtDispatcher' = {}
      /\ Busy' = Busy
  BY Zenon, <1>2, <1>7 DEF AtWorkers, AtDispatcher, Busy
<1>9. dpkt \notin executed /\ dpkt \notin InRW /\ dpkt \notin AtWorkers
  BY <1>1, <1>3, BusyFacts DEF OnePlace, WorkerPlace
<1>10. OnePlace'
  <2>1. \A j, k \in 1..Len(rwChan') : rwChan'[j] = rwChan'[k] => j = k
    <3>1. \A k \in 1..Len(rwChan) : rwChan'[k] # dpkt
      BY Zenon, <1>4, <1>9 DEF InRW
    <3>2. \A j, k \in 1..Len(rwChan) : rwChan'[j] = rwChan'[k] => j = k
      BY ZenonT(60), <1>1, <1>4 DEF OnePlace, WorkerPlace
    <3> QED BY <1>4, <3>1, <3>2
  <2>2. \A k \in 1..Len(rwChan') : /\ rwChan'[k] \in 1..Handed'
                                   /\ rwChan'[k] \notin executed'
                                   /\ received'[rwChan'[k]] \in ReadWrite
    <3>1. \A k \in 1..Len(rwChan) : /\ rwChan'[k] \in 1..Handed'
                                     /\ rwChan'[k] \notin executed'
                                     /\ received'[rwChan'[k]] \in ReadWrite
      <4>1. \A k \in 1..Len(rwChan) : /\ rwChan[k] \in 1..Handed
                                       /\ rwChan[k] \notin executed
                                       /\ received[rwChan[k]] \in ReadWrite
        BY Zenon, <1>1 DEF OnePlace
      <4> QED BY <1>2, <1>3, <1>4, <4>1
    <3>2. dpkt \in 1..Handed' BY <1>3
    <3> QED BY <1>2, <1>4, <1>9, <3>1, <3>2
  <2>3. ASSUME NEW w \in Workers
        PROVE  /\ wpkt'[w] <= Handed'
               /\ wpkt'[w] # 0 => wpkt'[w] \notin InRW'
    <3>0. WorkerPlace(w) BY <1>1 DEF OnePlace
    <3>1. wpkt[w] <= Handed /\ wpkt[w] \in Nat
      BY <1>1, <3>0, PacketManagerAssumptions DEF WorkerPlace, FlowTypeOK
    <3>2. wpkt[w] # 0 => wpkt[w] \notin InRW BY Zenon, <3>0 DEF WorkerPlace
    <3>3. wpkt[w] # dpkt BY <1>3, <3>1
    <3> QED BY <1>2, <1>3, <1>7, <3>1, <3>2, <3>3
  <2>4. executed' \subseteq 1..Handed'
    <3>1. executed \subseteq 1..Handed BY <1>1 DEF OnePlace
    <3> QED BY <1>2, <1>3, <3>1
  <2>5. ASSUME NEW w \in Workers PROVE WorkerPlace(w)'
    <3>1. WorkerPlace(w) BY <1>1 DEF OnePlace
    <3> QED BY Zenon, <1>2, <2>3, <3>1 DEF WorkerPlace
  <2> QED BY Zenon, <1>1, <1>2, <2>1, <2>2, <2>4, <2>5 DEF OnePlace
<1>11. Ordered'
  <2>1. \A i \in 1..Handed' : i \in executed' \/ i \in InRW' \/ i \in AtWorkers'
    BY <1>1, <1>2, <1>3, <1>7, <1>8 DEF Ordered
  <2> QED BY Zenon, <1>1, <1>2, <2>1 DEF Ordered
<1>12. BusyStep BY Zenon, <1>2, <1>8 DEF BusyStep
<1> QED BY Zenon, <1>5, <1>6, <1>10, <1>11, <1>12 DEF FlowInv

LEMMA HandToCmdInv == FlowInv /\ HandToCmd => FlowInv' /\ BusyStep
<1> SUFFICES ASSUME FlowInv, HandToCmd PROVE FlowInv' /\ BusyStep
  BY Zenon
<1>1. FlowTypeOK /\ InSequence /\ OnePlace /\ Ordered BY DEF FlowInv
<1>2. /\ serve' = serve /\ received' = received /\ disp = "hand" /\ disp' = "idle"
      /\ rwChan' = rwChan /\ received[dpkt] \notin ReadWrite /\ wpc[CmdWorker] = "idle"
      /\ wpc' = [wpc EXCEPT ![CmdWorker] = "handle"]
      /\ wpkt' = [wpkt EXCEPT ![CmdWorker] = dpkt] /\ executed' = executed
      /\ requests' = requests /\ responses' = responses
      /\ incoming' = incoming /\ outgoing' = outgoing /\ sent' = sent /\ ctl' = ctl
      /\ dpkt' = 0 /\ pktChan' = pktChan /\ working' = working
  BY Zenon DEF HandToCmd, serveVars, ctlVars, handleVars
<1>3. /\ Taken' = Taken /\ Registered' = Registered /\ Handed' = Handed + 1
      /\ Taken \in Nat /\ Handed \in Nat /\ dpkt = Handed + 1 /\ dpkt \in Packets
  <2>1. dpkt = Taken /\ dpkt \in 1..Len(received) /\ Len(received) <= MaxPackets
    BY Zenon, <1>1, <1>2, DispatcherBounds DEF FlowTypeOK
  <2>2. Len(received) \in Nat /\ Taken \in Nat BY <1>1, DispatcherBounds
  <2> QED BY <1>2, <2>1, <2>2, PacketManagerAssumptions
        DEF Taken, Handed, Registered, Packets
<1>4. /\ CmdWorker \in Workers /\ wpkt[CmdWorker] = 0 /\ wpkt'[CmdWorker] = dpkt
      /\ wpc'[CmdWorker] = "handle"
      /\ \A w \in Workers \ {CmdWorker} : wpkt'[w] = wpkt[w] /\ wpc'[w] = wpc[w]
  BY Zenon, <1>1, <1>2 DEF FlowTypeOK, OnePlace, WorkerPlace, Workers
<1>5. FlowTypeOK' BY Zenon, <1>1, <1>2, <1>3, <1>4, PacketManagerAssumptions DEF FlowTypeOK, Packets
<1>6. InSequence' BY Zenon, <1>1, <1>2, <1>3 DEF InSequence
<1>7. InRW' = InRW /\ AtDispatcher = {dpkt} /\ AtDispatcher' = {}
  BY Zenon, <1>2 DEF InRW, AtDispatcher
<1>8. AtWorkers' = AtWorkers \cup {dpkt} BY <1>3, <1>4 DEF AtWorkers
<1>9. Busy' = Busy BY <1>7, <1>8 DEF Busy
<1>10. dpkt \notin executed /\ dpkt \notin InRW /\ dpkt \notin AtWorkers
  BY <1>1, <1>3, BusyFacts DEF OnePlace, WorkerPlace
<1>11. OnePlace'
  <2>1. ASSUME NEW w \in Workers
        PROVE  /\ wpkt'[w] <= Handed'
               /\ wpc'[w] = "idle" => wpkt'[w] = 0
               /\ wpc'[w] \in {"handle", "ready", "done"} => wpkt'[w] # 0
               /\ wpc'[w] = "handle" => wpkt'[w] \notin executed'
               /\ wpc'[w] \in {"ready", "done"} => wpkt'[w] \in executed'
               /\ wpkt'[w] # 0 => wpkt'[w] \notin InRW'
               /\ wpkt'[w] # 0 => (received'[wpkt'[w]] \in ReadWrite <=> w # CmdWorker)
    <3>1. CASE w = CmdWorker BY <1>2, <1>3, <1>4, <1>7, <1>10, <3>1
    <3>2. CASE w # CmdWorker
      <4>0. WorkerPlace(w) /\ wpkt[w] \in Nat
        BY <1>1, PacketManagerAssumptions DEF OnePlace, FlowTypeOK
      <4>1. wpkt[w] <= Handed' /\ wpkt'[w] = wpkt[w] /\ wpc'[w] = wpc[w]
        BY <1>3, <1>4, <3>2, <4>0 DEF WorkerPlace
      <4> QED BY <1>2, <1>7, <3>2, <4>0, <4>1 DEF WorkerPlace
    <3> QED BY Zenon, <3>1, <3>2
  <2>2. ASSUME NEW v \in Workers, NEW w \in Workers, wpkt'[v] = wpkt'[w], wpkt'[v] # 0
        PROVE  v = w
    <3>1. \A u \in Workers : wpkt[u] # dpkt
      BY <1>3, <1>10 DEF AtWorkers
    <3>2. CASE v # CmdWorker /\ w # CmdWorker
      <4>1. wpkt[v] = wpkt[w] /\ wpkt[v] # 0 BY Zenon, <1>4, <2>2, <3>2
      <4> QED BY Zenon, <1>1, <4>1 DEF OnePlace
    <3>3. CASE v = CmdWorker /\ w # CmdWorker
      <4>1. wpkt'[v] = dpkt /\ wpkt'[w] = wpkt[w] BY <1>4, <3>3
      <4>2. wpkt[w] # dpkt BY <3>1
      <4> QED BY Zenon, <2>2, <4>1, <4>2
    <3>4. CASE v # CmdWorker /\ w = CmdWorker
      <4>1. wpkt'[w] = dpkt /\ wpkt'[v] = wpkt[v] BY <1>4, <3>4
      <4>2. wpkt[v] # dpkt BY <3>1
      <4> QED BY Zenon, <2>2, <4>1, <4>2
    <3> QED BY Zenon, <3>2, <3>3, <3>4
  <2>3. \A k \in 1..Len(rwChan') : rwChan'[k] \in 1..Handed'
    <3>1. \A k \in 1..Len(rwChan) : rwChan[k] \in 1..Handed BY <1>1 DEF OnePlace
    <3> QED BY <1>2, <1>3, <3>1
  <2>4. executed' \subseteq 1..Handed'
    <3>1. executed \subseteq 1..Handed BY <1>1 DEF OnePlace
    <3> QED BY <1>2, <1>3, <3>1
  <2>5. ASSUME NEW w \in Workers PROVE WorkerPlace(w)'
    BY Zenon, <2>1 DEF WorkerPlace
  <2> QED BY ZenonT(60), <1>1, <1>2, <2>2, <2>3, <2>4, <2>5 DEF OnePlace
<1>12. Ordered'
  <2>1. \A i \in 1..Handed' : i \in executed' \/ i \in InRW' \/ i \in AtWorkers'
    BY <1>1, <1>2, <1>3, <1>7, <1>8 DEF Ordered
  <2>2. received[dpkt] = "close" => 1..(dpkt - 1) \subseteq executed
    BY Zenon, <1>1, <1>2 DEF Ordered
  <2> QED BY Zenon, <1>2, <1>4, <2>1, <2>2 DEF Ordered
<1>13. BusyStep BY <1>2, <1>9 DEF BusyStep
<1> QED BY Zenon, <1>5, <1>6, <1>11, <1>12, <1>13 DEF FlowInv

LEMMA CloseInv == FlowInv /\ (CloseChannels \/ CloseFini) => FlowInv' /\ BusyStep
<1> SUFFICES ASSUME FlowInv, CloseChannels \/ CloseFini PROVE FlowInv' /\ BusyStep
  BY Zenon
<1>1. FlowTypeOK /\ InSequence /\ OnePlace /\ Ordered BY DEF FlowInv
<1>2. /\ serve' = serve /\ received' = received /\ disp \in {"idle", "closing"}
      /\ disp' \in {"closing", "done"}
      /\ rwChan' = rwChan /\ wpc' = wpc /\ wpkt' = wpkt /\ executed' = executed
      /\ requests' = requests /\ responses' = responses
      /\ incoming' = incoming /\ outgoing' = outgoing /\ sent' = sent /\ ctl' = ctl
      /\ dpkt' = dpkt /\ pktChan' = pktChan /\ working' = working
  BY Zenon DEF CloseChannels, CloseFini, serveVars, ctlVars, workerVars, handleVars
<1>3. Taken' = Taken /\ Registered' = Registered /\ Handed' = Handed
  BY Zenon, <1>2 DEF Taken, Registered, Handed
<1>4. FlowTypeOK' BY Zenon, <1>1, <1>2 DEF FlowTypeOK
<1>5. InSequence' BY Zenon, <1>1, <1>2, <1>3 DEF InSequence
<1>6. InRW' = InRW /\ AtWorkers' = AtWorkers /\ AtDispatcher' = AtDispatcher
  BY Zenon, <1>2 DEF InRW, AtWorkers, AtDispatcher
<1>7. OnePlace' BY <1>1, <1>2, <1>3, <1>6 DEF OnePlace, WorkerPlace
<1>8. Ordered' BY Zenon, <1>1, <1>2, <1>3, <1>6 DEF Ordered
<1>9. BusyStep BY Zenon, <1>2, <1>6 DEF BusyStep, Busy
<1> QED BY Zenon, <1>4, <1>5, <1>7, <1>8, <1>9 DEF FlowInv

-----------------------------------------------------------------------------
-----------------------------------------------------------------------------
(* The workers leave the dispatcher and the controller alone.               *)

frameVars == <<serve, received, pktChan, disp, dpkt, requests, incoming, outgoing, ctl, sent>>

LEMMA FrameKept ==
  ASSUME InSequence, frameVars' = frameVars
  PROVE  /\ InSequence' /\ AtDispatcher' = AtDispatcher
         /\ Taken' = Taken /\ Handed' = Handed /\ Registered' = Registered
<1>1. /\ serve' = serve /\ received' = received /\ pktChan' = pktChan /\ disp' = disp
      /\ dpkt' = dpkt /\ requests' = requests /\ incoming' = incoming
      /\ outgoing' = outgoing /\ ctl' = ctl /\ sent' = sent
  BY Zenon DEF frameVars
<1>2. /\ Taken' = Taken /\ Handed' = Handed /\ Registered' = Registered
      /\ AtDispatcher' = AtDispatcher
  BY Zenon, <1>1 DEF Taken, Handed, Registered, AtDispatcher
<1> QED BY Zenon, <1>1, <1>2 DEF InSequence

LEMMA TakeRWInv == ASSUME NEW w \in Workers PROVE FlowInv /\ TakeRW(w) => FlowInv' /\ BusyStep
<1> SUFFICES ASSUME FlowInv, TakeRW(w) PROVE FlowInv' /\ BusyStep
  BY Zenon
<1>1. FlowTypeOK /\ InSequence /\ OnePlace /\ Ordered BY DEF FlowInv
<1> DEFINE i == Head(rwChan)
<1>2. /\ frameVars' = frameVars /\ executed' = executed /\ responses' = responses
      /\ received' = received /\ outgoing' = outgoing /\ working' = working
      /\ disp' = disp /\ dpkt' = dpkt
      /\ w \in RWWorkers /\ wpc[w] = "idle" /\ rwChan # <<>> /\ rwChan' = Tail(rwChan)
      /\ wpc' = [wpc EXCEPT ![w] = "handle"] /\ wpkt' = [wpkt EXCEPT ![w] = i]
  BY Zenon DEF TakeRW, serveVars, dispVars, ctlVars, handleVars, frameVars
<1>3. InSequence' /\ Handed' = Handed /\ AtDispatcher' = AtDispatcher
  BY Zenon, <1>1, <1>2, FrameKept
<1>4. /\ i \in Packets /\ i = rwChan[1] /\ i # 0 /\ 1 \in 1..Len(rwChan)
      /\ Len(rwChan') = Len(rwChan) - 1 /\ rwChan' \in Seq(Packets) /\ Len(rwChan) \in Nat
      /\ \A k \in 1..Len(rwChan') : rwChan'[k] = rwChan[k + 1] /\ k + 1 \in 1..Len(rwChan)
  <2>1. rwChan \in Seq(Packets) BY <1>1 DEF FlowTypeOK
  <2>2. Len(rwChan) \in Nat /\ Len(rwChan) # 0 BY <1>2, <2>1
  <2>3. i = rwChan[1] /\ 1 \in 1..Len(rwChan) /\ i \in Packets BY <1>2, <2>1, <2>2
  <2>4. rwChan' \in Seq(Packets) /\ Len(rwChan') = Len(rwChan) - 1 BY <1>2, <2>1, <2>2
  <2>5. \A k \in 1..Len(rwChan') : rwChan'[k] = rwChan[k + 1] /\ k + 1 \in 1..Len(rwChan)
    BY <1>2, <2>1, <2>2, <2>4
  <2>6. i # 0 BY <2>3, PacketManagerAssumptions DEF Packets
  <2> QED BY Zenon, <2>2, <2>3, <2>4, <2>5, <2>6
<1>5. i \in 1..Handed /\ i \notin executed /\ received[i] \in ReadWrite
  BY <1>1, <1>4 DEF OnePlace, WorkerPlace
<1>6. /\ wpkt[w] = 0 /\ wpkt'[w] = i /\ wpc'[w] = "handle" /\ w # CmdWorker
      /\ \A v \in Workers \ {w} : wpkt'[v] = wpkt[v] /\ wpc'[v] = wpc[v]
  BY ZenonT(60), <1>1, <1>2, PacketManagerAssumptions DEF FlowTypeOK, OnePlace, WorkerPlace
<1> HIDE DEF i
<1>7. FlowTypeOK'
  BY SMTT(60), <1>1, <1>2, <1>4, PacketManagerAssumptions DEF FlowTypeOK, Packets, frameVars
<1>8. InRW' = InRW \ {i}
  <2>1. ASSUME NEW k \in 1..Len(rwChan') PROVE rwChan'[k] # i
    <3>1. \A j, l \in 1..Len(rwChan) : rwChan[j] = rwChan[l] => j = l BY <1>1 DEF OnePlace, WorkerPlace
    <3>2. rwChan'[k] = rwChan[k + 1] /\ k + 1 \in 1..Len(rwChan) /\ k + 1 # 1 BY <1>4
    <3> QED BY Zenon, <1>4, <3>1, <3>2
  <2>2. ASSUME NEW x \in InRW, x # i PROVE x \in InRW'
    <3>1. PICK k \in 1..Len(rwChan) : x = rwChan[k] BY DEF InRW
    <3>2. k - 1 \in 1..Len(rwChan') /\ rwChan'[k - 1] = rwChan[k] BY <1>4, <2>2, <3>1
    <3> QED BY Zenon, <3>1, <3>2 DEF InRW
  <2>3. ASSUME NEW x \in InRW' PROVE x \in InRW /\ x # i
    <3>1. PICK k \in 1..Len(rwChan') : x = rwChan'[k] BY DEF InRW
    <3>2. x = rwChan[k + 1] /\ k + 1 \in 1..Len(rwChan) BY <1>4, <3>1
    <3> QED BY Zenon, <2>1, <3>1, <3>2 DEF InRW
  <2> QED BY Zenon, <2>2, <2>3
<1>9. AtWorkers' = AtWorkers \cup {i}
  <2>1. ASSUME NEW x \in AtWorkers PROVE x \in AtWorkers'
    <3>1. PICK v \in Workers : wpkt[v] # 0 /\ x = wpkt[v] BY DEF AtWorkers
    <3>2. v # w BY <1>6, <3>1
    <3> QED BY Zenon, <1>6, <3>1, <3>2 DEF AtWorkers
  <2>2. ASSUME NEW x \in AtWorkers' PROVE x \in AtWorkers \cup {i}
    <3>1. PICK v \in Workers : wpkt'[v] # 0 /\ x = wpkt'[v] BY DEF AtWorkers
    <3>2. CASE v = w BY <1>6, <3>1, <3>2
    <3>3. CASE v # w BY <1>6, <3>1, <3>3 DEF AtWorkers
    <3> QED BY Zenon, <3>2, <3>3
  <2>3. i \in AtWorkers' BY <1>4, <1>6 DEF AtWorkers
  <2> QED BY Zenon, <2>1, <2>2, <2>3
<1>10. i \in InRW BY <1>4 DEF InRW
<1>11. Busy' = Busy BY <1>3, <1>8, <1>9, <1>10 DEF Busy
<1>12. \A v \in Workers : wpkt[v] # i BY <1>1, <1>4, <1>10 DEF OnePlace, WorkerPlace
<1>13. OnePlace'
  <2>1. ASSUME NEW v \in Workers PROVE WorkerPlace(v)'
    <3> WorkerPlace(v) BY <1>1 DEF OnePlace
    <3>1. CASE v = w
      <4>1. wpkt'[v] = i /\ wpc'[v] = "handle" /\ v # CmdWorker BY <1>6, <3>1
      <4>2. i <= Handed' /\ i \notin executed' /\ received'[i] \in ReadWrite BY <1>2, <1>3, <1>5
      <4>3. i \notin InRW' BY <1>8
      <4> QED BY Zenon, <1>4, <4>1, <4>2, <4>3 DEF WorkerPlace
    <3>2. CASE v # w
      <4>1. wpkt'[v] = wpkt[v] /\ wpc'[v] = wpc[v] BY <1>6, <3>2
      <4> QED BY <1>2, <1>3, <1>8, <4>1 DEF WorkerPlace
    <3> QED BY Zenon, <3>1, <3>2
  <2>2. ASSUME NEW u \in Workers, NEW v \in Workers, wpkt'[u] = wpkt'[v], wpkt'[u] # 0
        PROVE  u = v
    <3>1. CASE u # w /\ v # w
      <4>1. wpkt[u] = wpkt[v] /\ wpkt[u] # 0 BY <1>6, <2>2, <3>1
      <4> QED BY Zenon, <1>1, <4>1 DEF OnePlace
    <3>2. CASE u = w /\ v # w
      <4>1. wpkt[v] = i BY <1>6, <2>2, <3>2
      <4> QED BY Zenon, <1>4, <1>12, <4>1 DEF AtWorkers
    <3>3. CASE u # w /\ v = w
      <4>1. wpkt[u] = i BY <1>6, <2>2, <3>3
      <4> QED BY Zenon, <1>4, <1>12, <4>1 DEF AtWorkers
    <3> QED BY Zenon, <3>1, <3>2, <3>3
  <2>3. \A j, k \in 1..Len(rwChan') : rwChan'[j] = rwChan'[k] => j = k
    BY SMTT(60), <1>1, <1>4 DEF OnePlace, WorkerPlace
  <2>4. \A k \in 1..Len(rwChan') : /\ rwChan'[k] \in 1..Handed'
                                   /\ rwChan'[k] \notin executed'
                                   /\ received'[rwChan'[k]] \in ReadWrite
    BY <1>1, <1>2, <1>3, <1>4 DEF OnePlace, WorkerPlace
  <2>5. /\ executed' \subseteq 1..Handed' /\ outgoing' \subseteq executed'
        /\ \A k \in 1..Len(responses') : responses'[k] \in executed'
    BY Zenon, <1>1, <1>2, <1>3 DEF OnePlace
  <2> QED BY Zenon, <2>1, <2>2, <2>3, <2>4, <2>5 DEF OnePlace
<1>14. Ordered'
  <2>1. \A j \in 1..Handed' : j \in executed' \/ j \in InRW' \/ j \in AtWorkers'
    BY Zenon, <1>1, <1>2, <1>3, <1>8, <1>9 DEF Ordered
  <2>2. wpkt'[CmdWorker] = wpkt[CmdWorker] BY <1>6 DEF Workers
  <2> QED BY Zenon, <1>1, <1>2, <2>1, <2>2 DEF Ordered
<1>15. BusyStep BY <1>2, <1>11 DEF BusyStep
<1> QED BY Zenon, <1>3, <1>7, <1>13, <1>14, <1>15 DEF FlowInv

\* What handling a packet does to the flow of packets.
HandledEffect(w) ==
  /\ frameVars' = frameVars /\ rwChan' = rwChan /\ responses' = responses
  /\ working' = working /\ wpkt' = wpkt
  /\ wpc[w] = "handle" /\ wpc' = [wpc EXCEPT ![w] = "ready"]
  /\ executed' = executed \cup {wpkt[w]}

LEMMA HandlerEffect == ASSUME NEW w \in Workers, Handler(w) PROVE HandledEffect(w)
<1>1. ASSUME NEW s \in {"ok", "failed"}, HandleOpen(w, s) PROVE HandledEffect(w)
  BY Zenon, <1>1 DEF HandleOpen, Handling, Answer, HandledEffect, frameVars, serveVars, dispVars, ctlVars
<1>2. CASE HandleReadWrite(w)
  BY Zenon, <1>2 DEF HandleReadWrite, Handling, Answer, HandledEffect, frameVars, serveVars, dispVars,
     ctlVars
<1>3. CASE HandleClose(w)
  BY ZenonT(60), <1>3 DEF HandleClose, Handling, Answer, HandledEffect, frameVars, serveVars, dispVars, ctlVars
<1>4. CASE HandleCmd(w)
  BY ZenonT(60), <1>4 DEF HandleCmd, Handling, Answer, HandledEffect, frameVars, serveVars, dispVars, ctlVars
<1> QED BY Zenon, <1>1, <1>2, <1>3, <1>4 DEF Handler

LEMMA HandledInv == ASSUME NEW w \in Workers PROVE FlowInv /\ HandledEffect(w) => FlowInv' /\ BusyStep
<1> SUFFICES ASSUME FlowInv, HandledEffect(w) PROVE FlowInv' /\ BusyStep
  BY Zenon
<1>1. FlowTypeOK /\ InSequence /\ OnePlace /\ Ordered BY DEF FlowInv
<1>2. /\ frameVars' = frameVars /\ rwChan' = rwChan /\ responses' = responses
      /\ received' = received /\ outgoing' = outgoing /\ working' = working
      /\ disp' = disp /\ dpkt' = dpkt /\ wpkt' = wpkt
      /\ executed' = executed \cup {wpkt[w]}
  BY Zenon DEF HandledEffect, frameVars
<1>3. InSequence' /\ Handed' = Handed /\ AtDispatcher' = AtDispatcher
  BY Zenon, <1>1, <1>2, FrameKept
<1>4. /\ wpc[w] = "handle" /\ wpc'[w] = "ready" /\ wpkt[w] # 0
      /\ \A v \in Workers \ {w} : wpc'[v] = wpc[v]
      /\ wpc' \in [Workers -> {"idle", "handle", "ready", "done", "exited"}]
  BY Zenon, <1>1 DEF HandledEffect, FlowTypeOK, OnePlace, WorkerPlace
<1>5. wpkt[w] \in Packets /\ wpkt[w] \in 1..Handed /\ wpkt[w] \notin InRW
  <2>1. wpkt[w] \in 0..MaxPackets /\ wpkt[w] <= Handed /\ Handed \in Nat
    BY Zenon, <1>1, DispatcherBounds DEF OnePlace, WorkerPlace, FlowTypeOK
  <2>2. wpkt[w] # 0 => wpkt[w] \notin InRW BY Zenon, <1>1 DEF OnePlace, WorkerPlace
  <2>3. wpkt[w] \in Packets /\ wpkt[w] \in 1..Handed
    BY <1>4, <2>1, PacketManagerAssumptions DEF Packets
  <2> QED BY Zenon, <1>4, <2>2, <2>3
<1>6. FlowTypeOK' BY Zenon, <1>1, <1>2, <1>4, <1>5 DEF FlowTypeOK, frameVars
<1>7. InRW' = InRW /\ AtWorkers' = AtWorkers /\ Busy' = Busy
  BY Zenon, <1>2, <1>3 DEF InRW, AtWorkers, Busy
<1>8. OnePlace'
  <2>1. ASSUME NEW v \in Workers PROVE WorkerPlace(v)'
    <3> WorkerPlace(v) BY <1>1 DEF OnePlace
    <3>1. CASE v = w
      <4>1. wpkt'[v] = wpkt[v] /\ wpc'[v] = "ready" /\ wpkt'[v] \in executed' BY Zenon, <1>2, <1>4, <3>1
      <4> QED BY ZenonT(60), <1>2, <1>3, <1>4, <1>7, <3>1, <4>1 DEF WorkerPlace
    <3>2. CASE v # w
      <4>1. wpc'[v] = wpc[v] BY Zenon, <1>4, <3>2
      <4>2. wpkt[v] = wpkt[w] => v = w BY ZenonT(60), <1>1, <1>4 DEF OnePlace, WorkerPlace
      <4> QED BY ZenonT(60), <1>2, <1>3, <1>4, <1>7, <3>2, <4>1, <4>2 DEF WorkerPlace
    <3> QED BY Zenon, <3>1, <3>2
  <2>2. \A k \in 1..Len(rwChan') : rwChan'[k] \notin executed'
    BY ZenonT(60), <1>1, <1>2, <1>5 DEF OnePlace, WorkerPlace, InRW
  <2>3. executed' \subseteq 1..Handed' BY ZenonT(60), <1>1, <1>2, <1>3, <1>5 DEF OnePlace, WorkerPlace
  <2>4. /\ \A j, k \in 1..Len(rwChan') : rwChan'[j] = rwChan'[k] => j = k
        /\ \A k \in 1..Len(rwChan') : rwChan'[k] \in 1..Handed' /\ received'[rwChan'[k]] \in ReadWrite
    BY ZenonT(60), <1>1, <1>2, <1>3 DEF OnePlace, WorkerPlace
  <2>5. \A u, v \in Workers : wpkt'[u] = wpkt'[v] /\ wpkt'[u] # 0 => u = v
    BY ZenonT(60), <1>1, <1>2 DEF OnePlace, WorkerPlace
  <2>6. outgoing' \subseteq executed' /\ \A k \in 1..Len(responses') : responses'[k] \in executed'
    BY Zenon, <1>1, <1>2 DEF OnePlace, WorkerPlace
  <2> QED BY Zenon, <2>1, <2>2, <2>3, <2>4, <2>5, <2>6 DEF OnePlace
<1>9. Ordered' BY <1>1, <1>2, <1>3, <1>7 DEF Ordered
<1>10. BusyStep BY <1>2, <1>7 DEF BusyStep
<1> QED BY Zenon, <1>3, <1>6, <1>8, <1>9, <1>10 DEF FlowInv

\* A worker queues a response, or exits with or without a packet in hand.
QuietEffect(w) ==
  /\ frameVars' = frameVars /\ rwChan' = rwChan /\ executed' = executed
  /\ working' = working /\ wpkt' = wpkt
  /\ \/ /\ wpc[w] = "ready" /\ wpc' = [wpc EXCEPT ![w] = "done"]
        /\ responses' = Append(responses, wpkt[w])
     \/ wpc' = [wpc EXCEPT ![w] = "exited"] /\ responses' = responses

LEMMA QuietInv == ASSUME NEW w \in Workers PROVE FlowInv /\ QuietEffect(w) => FlowInv' /\ BusyStep
<1> SUFFICES ASSUME FlowInv, QuietEffect(w) PROVE FlowInv' /\ BusyStep
  BY Zenon
<1>1. FlowTypeOK /\ InSequence /\ OnePlace /\ Ordered BY DEF FlowInv
<1>2. /\ frameVars' = frameVars /\ rwChan' = rwChan /\ executed' = executed
      /\ received' = received /\ outgoing' = outgoing /\ working' = working
      /\ disp' = disp /\ dpkt' = dpkt /\ wpkt' = wpkt
  BY Zenon DEF QuietEffect, frameVars
<1>3. InSequence' /\ Handed' = Handed /\ AtDispatcher' = AtDispatcher
  BY Zenon, <1>1, <1>2, FrameKept
<1>4. InRW' = InRW /\ AtWorkers' = AtWorkers /\ Busy' = Busy
  BY Zenon, <1>2, <1>3 DEF InRW, AtWorkers, Busy
<1>5. /\ wpc' \in [Workers -> {"idle", "handle", "ready", "done", "exited"}]
      /\ \A v \in Workers : wpc'[v] = wpc[v] \/ (wpc[v] = "ready" /\ wpc'[v] = "done")
                            \/ wpc'[v] = "exited"
  BY ZenonT(60), <1>1 DEF QuietEffect, FlowTypeOK
<1>6. responses' \in Seq(Packets) /\ \A k \in 1..Len(responses') : responses'[k] \in executed
  <2>1. responses \in Seq(Packets) /\ \A k \in 1..Len(responses) : responses[k] \in executed
    BY Zenon, <1>1 DEF FlowTypeOK, OnePlace, WorkerPlace
  <2>2. CASE responses' = responses BY <2>1, <2>2
  <2>3. CASE wpc[w] = "ready" /\ responses' = Append(responses, wpkt[w])
    <3>1. wpkt[w] \in executed /\ wpkt[w] \in Packets BY Zenon, <1>1, <2>3 DEF OnePlace, WorkerPlace, FlowTypeOK
    <3> QED BY <2>1, <2>3, <3>1
  <2> QED BY Zenon, <2>2, <2>3 DEF QuietEffect
<1>7. FlowTypeOK' BY Zenon, <1>1, <1>2, <1>5, <1>6 DEF FlowTypeOK, frameVars
<1>8. OnePlace'
  <2>1. ASSUME NEW v \in Workers
        PROVE  /\ wpc'[v] = "idle" => wpkt'[v] = 0
               /\ wpc'[v] \in {"handle", "ready", "done"} => wpkt'[v] # 0
               /\ wpc'[v] = "handle" => wpkt'[v] \notin executed'
               /\ wpc'[v] \in {"ready", "done"} => wpkt'[v] \in executed'
    BY ZenonT(60), <1>1, <1>2, <1>5 DEF OnePlace, WorkerPlace
  <2> QED BY <1>1, <1>2, <1>3, <1>4, <1>6, <2>1 DEF OnePlace, WorkerPlace
<1>9. Ordered' BY <1>1, <1>2, <1>3, <1>4 DEF Ordered
<1>10. BusyStep BY <1>2, <1>4 DEF BusyStep
<1> QED BY Zenon, <1>3, <1>7, <1>8, <1>9, <1>10 DEF FlowInv

LEMMA WorkingDoneInv == ASSUME NEW w \in Workers PROVE FlowInv /\ WorkingDone(w) => FlowInv' /\ BusyStep
<1> SUFFICES ASSUME FlowInv, WorkingDone(w) PROVE FlowInv' /\ BusyStep
  BY Zenon
<1>1. FlowTypeOK /\ InSequence /\ OnePlace /\ Ordered BY DEF FlowInv
<1>2. /\ frameVars' = frameVars /\ rwChan' = rwChan /\ executed' = executed
      /\ received' = received /\ outgoing' = outgoing /\ working' = working - 1
      /\ disp' = disp /\ dpkt' = dpkt /\ responses' = responses /\ wpc[w] = "done"
      /\ wpc' = [wpc EXCEPT ![w] = "idle"] /\ wpkt' = [wpkt EXCEPT ![w] = 0]
  BY Zenon DEF WorkingDone, serveVars, dispVars, ctlVars, handleVars, frameVars
<1>3. InSequence' /\ Handed' = Handed /\ AtDispatcher' = AtDispatcher
  BY Zenon, <1>1, <1>2, FrameKept
<1>4. /\ wpkt[w] # 0 /\ wpkt[w] \in executed /\ wpkt'[w] = 0 /\ wpc'[w] = "idle"
      /\ \A v \in Workers \ {w} : wpkt'[v] = wpkt[v] /\ wpc'[v] = wpc[v]
  BY ZenonT(60), <1>1, <1>2 DEF FlowTypeOK, OnePlace, WorkerPlace
<1>5. FlowTypeOK'
  <2>1. 0 \in 0..MaxPackets BY PacketManagerAssumptions
  <2> QED BY Zenon, <1>1, <1>2, <2>1 DEF FlowTypeOK, frameVars
<1>6. InRW' = InRW BY <1>2 DEF InRW
<1>7. AtWorkers' = AtWorkers \ {wpkt[w]} /\ wpkt[w] \in AtWorkers
  <2>1. \A v \in Workers : wpkt[v] = wpkt[w] => v = w BY ZenonT(60), <1>1, <1>4 DEF OnePlace, WorkerPlace
  <2>2. ASSUME NEW x \in AtWorkers, x # wpkt[w] PROVE x \in AtWorkers'
    <3>1. PICK v \in Workers : wpkt[v] # 0 /\ x = wpkt[v] BY DEF AtWorkers
    <3>2. wpkt'[v] = wpkt[v] BY Zenon, <1>4, <2>2, <3>1
    <3> QED BY Zenon, <3>1, <3>2 DEF AtWorkers
  <2>3. ASSUME NEW x \in AtWorkers' PROVE x \in AtWorkers /\ x # wpkt[w]
    <3>1. PICK v \in Workers : wpkt'[v] # 0 /\ x = wpkt'[v] BY DEF AtWorkers
    <3>2. v # w /\ wpkt'[v] = wpkt[v] BY <1>4, <3>1
    <3> QED BY Zenon, <2>1, <3>1, <3>2 DEF AtWorkers
  <2>4. wpkt[w] \in AtWorkers BY Zenon, <1>4 DEF AtWorkers
  <2> QED BY Zenon, <2>2, <2>3, <2>4
<1>8. wpkt[w] \notin InRW /\ wpkt[w] \notin AtDispatcher
  <2>1. wpkt[w] <= Handed /\ wpkt[w] \notin InRW BY Zenon, <1>1, <1>4 DEF OnePlace, WorkerPlace
  <2>2. disp \in {"register", "hand"} => dpkt = Handed + 1 /\ Handed \in Nat
    BY <1>1, DispatcherBounds DEF Handed, Taken
  <2>3. wpkt[w] \in 0..MaxPackets BY Zenon, <1>1 DEF FlowTypeOK
  <2> QED BY <2>1, <2>2, <2>3, PacketManagerAssumptions DEF AtDispatcher
<1>9. Busy' = Busy \ {wpkt[w]} /\ wpkt[w] \in Busy BY <1>3, <1>6, <1>7, <1>8 DEF Busy
<1>10. OnePlace'
  <2>1. ASSUME NEW v \in Workers PROVE WorkerPlace(v)'
    <3> WorkerPlace(v) BY <1>1 DEF OnePlace
    <3>1. CASE v = w
      <4>1. Handed \in Nat BY <1>1, DispatcherBounds
      <4>2. wpkt'[v] = 0 /\ wpc'[v] = "idle" BY <1>4, <3>1
      <4>3. 0 <= Handed' BY <1>3, <4>1
      <4> QED BY Zenon, <4>2, <4>3 DEF WorkerPlace
    <3>2. CASE v # w
      <4>1. wpkt'[v] = wpkt[v] /\ wpc'[v] = wpc[v] BY <1>4, <3>2
      <4> QED BY <1>2, <1>3, <1>6, <4>1 DEF WorkerPlace
    <3> QED BY Zenon, <3>1, <3>2
  <2>2. ASSUME NEW u \in Workers, NEW v \in Workers, wpkt'[u] = wpkt'[v], wpkt'[u] # 0
        PROVE  u = v
    <3>1. u # w /\ v # w BY Zenon, <1>4, <2>2
    <3>2. wpkt[u] = wpkt[v] /\ wpkt[u] # 0 BY Zenon, <1>4, <2>2, <3>1
    <3> QED BY Zenon, <1>1, <3>2 DEF OnePlace, WorkerPlace
  <2>3. /\ \A j, k \in 1..Len(rwChan') : rwChan'[j] = rwChan'[k] => j = k
        /\ \A k \in 1..Len(rwChan') : /\ rwChan'[k] \in 1..Handed'
                                       /\ rwChan'[k] \notin executed'
                                       /\ received'[rwChan'[k]] \in ReadWrite
    BY <1>1, <1>2, <1>3 DEF OnePlace, WorkerPlace
  <2>4. /\ executed' \subseteq 1..Handed' /\ outgoing' \subseteq executed'
        /\ \A k \in 1..Len(responses') : responses'[k] \in executed'
    BY Zenon, <1>1, <1>2, <1>3 DEF OnePlace, WorkerPlace
  <2> QED BY Zenon, <2>1, <2>2, <2>3, <2>4 DEF OnePlace
<1>11. Ordered'
  <2>1. \A j \in 1..Handed' : j \in executed' \/ j \in InRW' \/ j \in AtWorkers'
    BY Zenon, <1>1, <1>2, <1>3, <1>4, <1>6, <1>7 DEF Ordered
  <2>2. wpkt'[CmdWorker] = wpkt[CmdWorker] \/ wpkt'[CmdWorker] = 0 BY <1>4 DEF Workers
  <2> QED BY Zenon, <1>1, <1>2, <2>1, <2>2 DEF Ordered
<1>12. BusyStep BY <1>2, <1>9 DEF BusyStep
<1> QED BY Zenon, <1>3, <1>5, <1>10, <1>11, <1>12 DEF FlowInv

LEMMA WorkerInv == ASSUME NEW w \in Workers PROVE FlowInv /\ Worker(w) => FlowInv' /\ BusyStep
<1> SUFFICES ASSUME FlowInv, Worker(w) PROVE FlowInv' /\ BusyStep
  BY Zenon
<1>1. CASE TakeRW(w) BY <1>1, TakeRWInv
<1>2. CASE Handler(w) BY <1>2, HandlerEffect, HandledInv
<1>3. CASE HandleUnexpected(w)
  <2>1. QuietEffect(w)
    BY Zenon, <1>3 DEF HandleUnexpected, QuietEffect, frameVars, dispVars, ctlVars, handleVars
  <2> QED BY Zenon, <2>1, QuietInv
<1>4. CASE ReadyPacket(w)
  <2>1. QuietEffect(w)
    BY Zenon, <1>4 DEF ReadyPacket, QuietEffect, frameVars, serveVars, dispVars, ctlVars, handleVars
  <2> QED BY Zenon, <2>1, QuietInv
<1>5. CASE WorkingDone(w) BY <1>5, WorkingDoneInv
<1>6. CASE WorkerExits(w)
  <2>1. QuietEffect(w)
    BY Zenon, <1>6 DEF WorkerExits, QuietEffect, frameVars, serveVars, dispVars, ctlVars, handleVars
  <2> QED BY Zenon, <2>1, QuietInv
<1> QED BY Zenon, <1>1, <1>2, <1>3, <1>4, <1>5, <1>6 DEF Worker

LEMMA NextFlow == FlowInv /\ Drained /\ [Next]_vars => FlowInv' /\ BusyStep
<1> SUFFICES ASSUME FlowInv, Drained, [Next]_vars PROVE FlowInv' /\ BusyStep
  BY Zenon
<1>1. CASE ClientStep \/ Serve BY <1>1, IntakeInv
<1>2. CASE Dispatcher
  BY Zenon, <1>2, TakePacketInv, WaitBeforeCloseInv, RegisterPacketInv, HandToRWInv, HandToCmdInv,
     CloseInv DEF Dispatcher
<1>3. CASE \E w \in Workers : Worker(w) BY <1>3, WorkerInv
<1>4. CASE Controller BY <1>4, ControllerInv
<1>5. CASE UNCHANGED vars
  <2>1. FlowTypeOK /\ InSequence /\ OnePlace /\ Ordered BY DEF FlowInv
  <2>2. /\ frameVars' = frameVars /\ rwChan' = rwChan /\ executed' = executed
        /\ received' = received /\ outgoing' = outgoing /\ working' = working
        /\ disp' = disp /\ dpkt' = dpkt /\ responses' = responses /\ wpkt' = wpkt /\ wpc' = wpc
    BY Zenon, <1>5 DEF vars, frameVars
  <2>3. InSequence' /\ Handed' = Handed /\ AtDispatcher' = AtDispatcher
    BY Zenon, <2>1, <2>2, FrameKept
  <2>4. InRW' = InRW /\ AtWorkers' = AtWorkers /\ Busy' = Busy
    BY Zenon, <2>2, <2>3 DEF InRW, AtWorkers, Busy
  <2>5. FlowTypeOK' BY Zenon, <2>1, <2>2 DEF FlowTypeOK, frameVars
  <2>6. OnePlace' BY ZenonT(60), <2>1, <2>2, <2>3, <2>4 DEF OnePlace, WorkerPlace
  <2>7. Ordered' BY Zenon, <2>1, <2>2, <2>3, <2>4 DEF Ordered
  <2>8. BusyStep BY <2>2, <2>4 DEF BusyStep
  <2> QED BY Zenon, <2>3, <2>5, <2>6, <2>7, <2>8 DEF FlowInv
<1> QED BY Zenon, <1>1, <1>2, <1>3, <1>4, <1>5 DEF Next, ServerStep

-----------------------------------------------------------------------------
(* A step of the session is a step of InOrderServer.                        *)

LEMMA ExecuteInOrder ==
  ASSUME FlowInv, NEW w \in Workers, HandledEffect(w)
  PROVE  Abstract!Execute(wpkt[w]) /\ wpkt[w] \in 1..Len(received)
<1> DEFINE i == wpkt[w]
<1>1. FlowTypeOK /\ InSequence /\ OnePlace /\ Ordered BY DEF FlowInv
<1>2. i # 0 /\ i \notin executed /\ i <= Handed BY Zenon, <1>1 DEF HandledEffect, OnePlace, WorkerPlace
<1>3. Handed \in Nat /\ Handed <= Len(received) /\ Len(received) \in Nat
  BY <1>1, DispatcherBounds
<1>4. i \in 1..Len(received)
  <2>1. i \in 0..MaxPackets BY <1>1 DEF FlowTypeOK
  <2> QED BY <1>2, <1>3, <2>1, PacketManagerAssumptions
<1>5. Abstract!Before(i) \subseteq executed
  <2>1. CASE received[i] \in ReadWrite
    BY Zenon, <2>1 DEF Abstract!Before, Abstract!RWOps, ReadWrite
  <2>2. CASE received[i] \notin ReadWrite
    <3>1. w = CmdWorker BY Zenon, <1>1, <1>2, <2>2 DEF OnePlace, WorkerPlace
    <3>2. CASE received[i] = "close"
      <4>1. 1..(i - 1) \subseteq executed BY Zenon, <1>1, <1>2, <3>1, <3>2 DEF Ordered
      <4> QED BY Zenon, <3>2, <4>1 DEF Abstract!Before
    <3>3. ASSUME NEW j \in 1..(i - 1), received[j] \notin ReadWrite PROVE j \in executed
      <4>1. j \in 1..Handed /\ j # i /\ j # 0 BY <1>2, <1>3, <1>4
      <4>2. j \notin InRW BY Zenon, <1>1, <3>3 DEF OnePlace, WorkerPlace, InRW
      <4>3. j \notin AtWorkers BY Zenon, <1>1, <3>1, <3>3, <4>1 DEF OnePlace, WorkerPlace, AtWorkers
      <4> QED BY Zenon, <1>1, <4>1, <4>2, <4>3 DEF Ordered
    <3> QED BY Zenon, <2>2, <3>2, <3>3 DEF Abstract!Before, Abstract!RWOps, ReadWrite
  <2> QED BY Zenon, <2>1, <2>2
<1> QED BY Zenon, <1>2, <1>4, <1>5 DEF HandledEffect, frameVars, Abstract!Execute

LEMMA StepRefines == FlowInv /\ [Next]_vars => [Abstract!ANext]_(Abstract!avars)
<1> SUFFICES ASSUME FlowInv, [Next]_vars PROVE Abstract!ANext \/ UNCHANGED Abstract!avars
  BY Zenon
<1>1. FlowTypeOK /\ InSequence /\ OnePlace BY DEF FlowInv
<1>2. CASE ClientStep \/ Serve
  <2>1. executed' = executed /\ sent' = sent
    BY Zenon, <1>1, <1>2, IntakeStep DEF IntakeEffect, restVars
  <2>2. received' = received \/ \E op \in Ops : received' = Append(received, op)
    BY ZenonT(60), <1>2 DEF ClientStep, Serve, RecvPacket, RecvUndecodable, NewPacket, ConnEnds, RecvError,
       QueuePacket, ServeReturns
  <2> QED BY Zenon, <2>1, <2>2 DEF Abstract!ANext, Abstract!Receive, Abstract!avars
<1>3. CASE Dispatcher
  BY ZenonT(60), <1>3 DEF Dispatcher, TakePacket, WaitBeforeClose, RegisterPacket, HandToRW, HandToCmd,
     CloseChannels, CloseFini, serveVars, ctlVars, handleVars, Abstract!avars
<1>4. ASSUME NEW w \in Workers, Worker(w) PROVE Abstract!ANext \/ UNCHANGED Abstract!avars
  <2>1. CASE Handler(w) BY <2>1, HandlerEffect, ExecuteInOrder DEF Abstract!ANext
  <2>2. CASE TakeRW(w) \/ HandleUnexpected(w) \/ ReadyPacket(w) \/ WorkingDone(w) \/ WorkerExits(w)
    BY ZenonT(60), <2>2 DEF TakeRW, HandleUnexpected, ReadyPacket, WorkingDone, WorkerExits, serveVars,
       ctlVars, handleVars, Abstract!avars
  <2> QED BY Zenon, <1>4, <2>1, <2>2 DEF Worker
<1>5. CASE Controller
  <2>1. CASE SendHead
    <3>1. PICK i \in incoming, o \in outgoing :
                 IsHead(i, incoming) /\ IsHead(o, outgoing) /\ sent' = Append(sent, o)
      BY Zenon, <2>1 DEF SendHead
    <3>2. o = Len(sent) + 1 BY Zenon, <1>1, <2>1, <3>1, SendsNext DEF SendHead
    <3>3. o \in executed BY Zenon, <1>1 DEF OnePlace, WorkerPlace
    <3>4. received' = received /\ executed' = executed
      BY Zenon, <2>1 DEF SendHead, serveVars, handleVars
    <3> QED BY Zenon, <3>1, <3>2, <3>3, <3>4 DEF Abstract!ANext, Abstract!Respond
  <2>2. CASE SelectRequest \/ SelectResponse \/ SelectFini
    BY Zenon, <2>2 DEF SelectRequest, SelectResponse, SelectFini, serveVars, handleVars, Abstract!avars
  <2> QED BY Zenon, <1>5, <2>1, <2>2 DEF Controller
<1>6. CASE UNCHANGED vars BY <1>6 DEF vars, Abstract!avars
<1> QED BY Zenon, <1>2, <1>3, <1>4, <1>5, <1>6 DEF Next, ServerStep

-----------------------------------------------------------------------------
(* The pages of a session.                                                  *)

\* A packet that is being received, or whose response has not been sent, has a page.
PageHeld ==
  serve # "done" =>
    /\ \A i \in 1..Len(received) : i > Len(sent) => alloc.used[i] # <<>>
    /\ serve = "recv" => alloc.used[Len(received) + 1] # <<>>

PageInv == AllocType(alloc, OrderIds) /\ OneUser(alloc, OrderIds) /\ PageHeld

LEMMA PageKeys == \A i \in 0..(MaxPackets + 1) : orderID(i) = i /\ i \in OrderIds
  BY PacketManagerAssumptions DEF orderID, OrderIds

\* GetPage gives id a page and leaves every other id its pages.
LEMMA GetPageHeld ==
  ASSUME NEW Ids, NEW a, AllocType(a, Ids), NEW id \in Ids
  PROVE  /\ GetPage(a, id).used[id] # <<>>
         /\ \A x \in Ids : a.used[x] # <<>> => GetPage(a, id).used[x] # <<>>
<1>1. a.used \in [Ids -> Seq(Nat)] BY DEF AllocType
<1>2. NextPage(a) \in Nat BY ZenonT(60), GetPageFields
<1>3. ASSUME NEW x \in Ids PROVE Append(a.used[x], NextPage(a)) # <<>>
  <2>1. a.used[x] \in Seq(Nat) BY <1>1
  <2>2. Len(Append(a.used[x], NextPage(a))) = Len(a.used[x]) + 1 /\ Len(a.used[x]) \in Nat
    BY <1>2, <2>1
  <2> QED BY SMTT(60), <2>2
<1>4. \A x \in Ids : GetPage(a, id).used[x] = IF x = id THEN Append(a.used[x], NextPage(a))
                                              ELSE a.used[x]
  BY GetPageFields
<1> QED BY ZenonT(60), <1>3, <1>4

LEMMA InitPages == Init => PageInv
<1> SUFFICES ASSUME Init PROVE PageInv
  BY Zenon
<1>1. PICK a : a = newAllocator(OrderIds)
  BY Zenon
<1>2. a.available = <<>> /\ a.used = [x \in OrderIds |-> <<>>] /\ a.made = 0
  BY Zenon, <1>1 DEF newAllocator
<1>3. a = [available |-> <<>>, used |-> [x \in OrderIds |-> <<>>], made |-> 0]
  BY Zenon, <1>1 DEF newAllocator
<1>4. AllocType(a, OrderIds)
  <2>1. <<>> \in Seq(Nat) /\ [x \in OrderIds |-> <<>>] \in [OrderIds -> Seq(Nat)] /\ 0 \in Nat
    OBVIOUS
  <2> QED BY Zenon, <1>3, <2>1 DEF AllocType
<1>5. OneUser(a, OrderIds)
  <2>1. \A x \in OrderIds : a.used[x] = <<>> BY <1>2
  <2> QED BY <1>2, <2>1 DEF OneUser, Exclusive
<1>6. orderID(1) = 1 /\ 1 \in OrderIds BY PageKeys, PacketManagerAssumptions
<1>7. alloc = GetPage(a, 1) BY Zenon, <1>1, <1>6 DEF Init
<1>8. AllocType(alloc, OrderIds) /\ OneUser(alloc, OrderIds) /\ alloc.used[1] # <<>>
  <2>1. AllocType(GetPage(a, 1), OrderIds) BY Zenon, <1>4, <1>6, GetPageFields
  <2>2. OneUser(GetPage(a, 1), OrderIds) BY <1>4, <1>5, <1>6, GetPageOneUser
  <2>3. GetPage(a, 1).used[1] # <<>> BY Zenon, <1>4, <1>6, GetPageHeld
  <2> QED BY Zenon, <1>7, <2>1, <2>2, <2>3
<1>9. PageHeld
  <2>1. Len(received) = 0 BY DEF Init
  <2> QED BY <1>8, <2>1 DEF PageHeld
<1> QED BY Zenon, <1>8, <1>9 DEF PageInv

\* A step that hands a page to id.
LEMMA TakesPage ==
  ASSUME FlowTypeOK, PageInv, NEW id \in 1..(MaxPackets + 1), alloc' = GetPage(alloc, orderID(id)),
         received' = received, sent' = sent,
         serve' = serve \/ (serve' = "recv" /\ serve # "done" /\ id = Len(received) + 1)
  PROVE  PageInv'
<1>1. id \in OrderIds /\ alloc' = GetPage(alloc, id) BY PageKeys
<1>2. AllocType(alloc, OrderIds) /\ OneUser(alloc, OrderIds) /\ PageHeld BY Zenon DEF PageInv
<1>3. AllocType(alloc', OrderIds)
  <2>1. AllocType(GetPage(alloc, id), OrderIds) BY Zenon, <1>1, <1>2, GetPageFields
  <2> QED BY Zenon, <1>1, <2>1
<1>4. OneUser(alloc', OrderIds)
  <2>1. OneUser(GetPage(alloc, id), OrderIds) BY Zenon, <1>1, <1>2, GetPageOneUser
  <2> QED BY Zenon, <1>1, <2>1
<1>5. /\ alloc'.used[id] # <<>>
      /\ \A x \in OrderIds : alloc.used[x] # <<>> => alloc'.used[x] # <<>>
  <2>1. /\ GetPage(alloc, id).used[id] # <<>>
        /\ \A x \in OrderIds : alloc.used[x] # <<>> => GetPage(alloc, id).used[x] # <<>>
    BY Zenon, <1>1, <1>2, GetPageHeld
  <2> QED BY Zenon, <1>1, <2>1
<1>6. PageHeld'
  <2>1. \A i \in 1..(Len(received) + 1) : i \in OrderIds
    BY PageKeys, PacketManagerAssumptions DEF FlowTypeOK
  <2>2. Len(received) \in Nat BY DEF FlowTypeOK
  <2>3. ASSUME serve' # "done", NEW i \in 1..Len(received), i > Len(sent)
        PROVE  alloc'.used[i] # <<>>
    <3>1. alloc.used[i] # <<>> BY Zenon, <1>2, <2>3 DEF PageHeld
    <3>2. i \in OrderIds BY <2>1, <2>2
    <3> QED BY ZenonT(60), <1>5, <3>1, <3>2
  <2>4. ASSUME serve' = "recv" PROVE alloc'.used[Len(received) + 1] # <<>>
    <3>1. CASE serve = "recv"
      <4>1. alloc.used[Len(received) + 1] # <<>> BY Zenon, <1>2, <3>1 DEF PageHeld
      <4>2. Len(received) + 1 \in OrderIds BY <2>1, <2>2
      <4> QED BY Zenon, <1>5, <4>1, <4>2
    <3>2. CASE serve # "recv" BY Zenon, <1>5, <2>4, <3>2
    <3> QED BY Zenon, <3>1, <3>2
  <2> QED BY Zenon, <2>3, <2>4 DEF PageHeld
<1> QED BY Zenon, <1>3, <1>4, <1>6 DEF PageInv

\* A response is sent: the pages of its request are released.
LEMMA SendHeadPages == FlowInv /\ PageInv /\ SendHead => PageInv'
<1> SUFFICES ASSUME FlowInv, PageInv, SendHead PROVE PageInv'
  BY Zenon
<1>1. FlowTypeOK /\ InSequence BY DEF FlowInv
<1>2. AllocType(alloc, OrderIds) /\ OneUser(alloc, OrderIds) /\ PageHeld BY DEF PageInv
<1>3. PICK i \in incoming, o \in outgoing :
        /\ IsHead(i, incoming) /\ IsHead(o, outgoing)
        /\ sent' = Append(sent, o) /\ alloc' = ReleasePages(alloc, orderID(i))
  BY Zenon DEF SendHead
<1>4. ctl = "sending" /\ serve' = serve /\ received' = received
  BY Zenon DEF SendHead, serveVars
<1>5. i = Len(sent) + 1 BY <1>1, <1>3, <1>4, SendsNext
<1>6. i \in Packets /\ Len(sent) \in Nat /\ Len(sent') = Len(sent) + 1
  BY <1>1, <1>3 DEF FlowTypeOK
<1>7. orderID(i) = i /\ i \in OrderIds
  BY <1>6, PageKeys, PacketManagerAssumptions DEF Packets
<1>8. alloc' = ReleasePages(alloc, i) BY <1>3, <1>7
<1>9. AllocType(alloc', OrderIds) /\ OneUser(alloc', OrderIds)
  <2>1. AllocType(ReleasePages(alloc, i), OrderIds) BY ZenonT(60), <1>2, <1>7, ReleaseFields
  <2>2. OneUser(ReleasePages(alloc, i), OrderIds) BY <1>2, <1>7, ReleaseOneUser
  <2> QED BY Zenon, <1>8, <2>1, <2>2
<1>10. \A x \in OrderIds \ {i} : alloc'.used[x] = alloc.used[x]
  <2>1. alloc \in [available : Seq(Nat), used : [OrderIds -> Seq(Nat)], made : Nat]
    BY Zenon, <1>2 DEF AllocType
  <2>2. alloc'.used = [alloc.used EXCEPT ![i] = <<>>] BY <1>8, <2>1 DEF ReleasePages
  <2> QED BY Zenon, <2>1, <2>2
<1>11. PageHeld'
  <2>1. Len(received) \in Nat /\ Len(received) <= MaxPackets BY <1>1 DEF FlowTypeOK
  <2>2. i <= Len(received)
    <3>1. Registered <= Len(received) /\ Registered \in Nat BY <1>1, DispatcherBounds
    <3>2. i \in (Len(sent) + 1)..(Registered - Len(requests)) BY <1>1 DEF InSequence
    <3>3. Len(requests) \in Nat BY <1>1 DEF FlowTypeOK
    <3> QED BY <1>6, <2>1, <3>1, <3>2, <3>3
  <2>3. ASSUME serve # "done", NEW j \in 1..Len(received), j > Len(sent')
        PROVE  alloc'.used[j] # <<>>
    <3>1. alloc.used[j] # <<>> BY <1>2, <1>6, <2>1, <2>3 DEF PageHeld
    <3>2. j \in OrderIds \ {i} BY <1>5, <1>6, <2>1, <2>3, PageKeys, PacketManagerAssumptions
    <3> QED BY Zenon, <1>10, <3>1, <3>2
  <2>4. ASSUME serve = "recv" PROVE alloc'.used[Len(received) + 1] # <<>>
    <3>1. alloc.used[Len(received) + 1] # <<>> BY Zenon, <1>2, <2>4 DEF PageHeld
    <3>2. Len(received) + 1 \in OrderIds \ {i}
      BY <1>6, <2>1, <2>2, PageKeys, PacketManagerAssumptions DEF Packets
    <3> QED BY Zenon, <1>10, <3>1, <3>2
  <2> QED BY Zenon, <1>4, <2>3, <2>4 DEF PageHeld
<1> QED BY Zenon, <1>9, <1>11 DEF PageInv

\* The rest of Serve.
LEMMA ServePages == FlowInv /\ PageInv /\ (ClientStep \/ Serve) => PageInv'
<1> SUFFICES ASSUME FlowInv, PageInv, ClientStep \/ Serve PROVE PageInv'
  BY Zenon
<1>1. FlowTypeOK BY DEF FlowInv
<1>2. AllocType(alloc, OrderIds) /\ OneUser(alloc, OrderIds) /\ PageHeld BY DEF PageInv
<1>3. Len(received) \in Nat /\ Len(received) <= MaxPackets BY <1>1 DEF FlowTypeOK
<1>4. ASSUME NEW op \in Ops, received' = Append(received, op), serve = "recv", sent' = sent,
             alloc' = alloc, serve' = "queue"
      PROVE  PageInv'
  <2>1. Len(received') = Len(received) + 1 BY <1>1, <1>4 DEF FlowTypeOK
  <2>2. \A i \in 1..Len(received') : i \in 1..Len(received) \/ i = Len(received) + 1
    BY <1>3, <2>1
  <2>3. PageHeld' BY Zenon, <1>2, <1>4, <2>2 DEF PageHeld
  <2> QED BY Zenon, <1>2, <1>4, <2>3 DEF PageInv
<1>5. ASSUME received' = received, sent' = sent, alloc' = alloc,
             serve' = serve \/ (serve' = "wait" /\ serve # "done")
      PROVE  PageInv'
  <2>1. PageHeld' BY Zenon, <1>2, <1>5 DEF PageHeld
  <2> QED BY Zenon, <1>2, <1>5, <2>1 DEF PageInv
<1>6. ASSUME NEW op \in Ops, NEW h \in 0..MaxPackets, RecvPacket(op, h) PROVE PageInv'
  BY Zenon, <1>4, <1>6 DEF RecvPacket, NewPacket, ctlVars
<1>7. ASSUME NEW op \in Ops, RecvUndecodable(op) PROVE PageInv'
  <2>1. CASE kind = "RequestServer" BY Zenon, <1>5, <1>7, <2>1 DEF RecvUndecodable, ctlVars
  <2>2. CASE kind # "RequestServer"
    BY Zenon, <1>4, <1>7, <2>2 DEF RecvUndecodable, NewPacket, ctlVars
  <2> QED BY Zenon, <2>1, <2>2
<1>8. ASSUME NEW how \in {"eof", "closed"}, ConnEnds(how) PROVE PageInv'
  BY Zenon, <1>5, <1>8 DEF ConnEnds, ctlVars
<1>9. CASE RecvError BY <1>5, <1>9 DEF RecvError, ctlVars
<1>10. CASE QueuePacket
  <2>1. /\ alloc' = GetPage(alloc, orderID(Len(received) + 1)) /\ received' = received
        /\ sent' = sent /\ serve' = "recv" /\ serve = "queue"
    BY Zenon, <1>10 DEF QueuePacket, getNextOrderID, ctlVars
  <2>2. Len(received) + 1 \in 1..(MaxPackets + 1) BY <1>3, PacketManagerAssumptions
  <2> QED BY Zenon, <1>1, <2>1, <2>2, TakesPage
<1>11. CASE ServeReturns
  <2>1. alloc' = Free(alloc) /\ serve' = "done" BY Zenon, <1>11 DEF ServeReturns
  <2>2. AllocType(Free(alloc), OrderIds) /\ OneUser(Free(alloc), OrderIds) BY <1>2, FreeFields
  <2>3. PageHeld' BY Zenon, <2>1 DEF PageHeld
  <2> QED BY Zenon, <2>1, <2>2, <2>3 DEF PageInv
<1> QED BY Zenon, <1>6, <1>7, <1>8, <1>9, <1>10, <1>11 DEF ClientStep, Serve

LEMMA NextPages == FlowInv /\ PageInv /\ [Next]_vars => PageInv'
<1> SUFFICES ASSUME FlowInv, PageInv, [Next]_vars PROVE PageInv'
  BY Zenon
<1>1. ASSUME received' = received, sent' = sent, alloc' = alloc, serve' = serve
      PROVE  PageInv'
  BY Zenon, <1>1 DEF PageInv, PageHeld
<1>2. CASE ClientStep \/ Serve BY <1>2, ServePages
<1>3. CASE Dispatcher
  <2>1. received' = received /\ sent' = sent /\ alloc' = alloc /\ serve' = serve
    BY ZenonT(60), <1>3 DEF Dispatcher, TakePacket, WaitBeforeClose, RegisterPacket, HandToRW, HandToCmd,
       CloseChannels, CloseFini, serveVars, ctlVars
  <2> QED BY Zenon, <1>1, <2>1
<1>4. ASSUME NEW w \in Workers, HandleReadWrite(w) PROVE PageInv'
  <2>1. received' = received /\ sent' = sent /\ serve' = serve
    BY ZenonT(60), <1>4 DEF HandleReadWrite, Answer, serveVars, ctlVars
  <2>2. alloc' = alloc \/ alloc' = GetPage(alloc, orderID(wpkt[w])) BY ZenonT(60), <1>4 DEF HandleReadWrite
  <2>3. wpkt[w] \in 1..(MaxPackets + 1)
    <3>1. wpkt[w] \in 0..MaxPackets BY Zenon DEF FlowInv, FlowTypeOK
    <3>2. wpkt[w] # 0
      <4>1. WorkerPlace(w) BY Zenon DEF FlowInv, OnePlace
      <4> QED BY ZenonT(60), <1>4, <4>1 DEF HandleReadWrite, Handling, WorkerPlace
    <3> QED BY <3>1, <3>2, PacketManagerAssumptions
  <2>4. FlowTypeOK BY DEF FlowInv
  <2>5. CASE alloc' = GetPage(alloc, orderID(wpkt[w])) BY Zenon, <2>1, <2>3, <2>4, <2>5, TakesPage
  <2> QED BY Zenon, <1>1, <2>1, <2>2, <2>5
<1>5. ASSUME NEW w \in Workers, Worker(w), ~HandleReadWrite(w) PROVE PageInv'
  <2>1. CASE Handler(w)
    <3>1. received' = received /\ sent' = sent /\ alloc' = alloc /\ serve' = serve
      BY ZenonT(60), <1>5, <2>1
         DEF Handler, HandleOpen, HandleClose, HandleCmd, Answer, serveVars, ctlVars
    <3> QED BY Zenon, <1>1, <3>1
  <2>2. CASE TakeRW(w) \/ HandleUnexpected(w) \/ ReadyPacket(w) \/ WorkingDone(w) \/ WorkerExits(w)
    <3>1. received' = received /\ sent' = sent /\ alloc' = alloc /\ serve' = serve
      BY ZenonT(60), <2>2 DEF TakeRW, HandleUnexpected, ReadyPacket, WorkingDone, WorkerExits, serveVars,
         ctlVars
    <3> QED BY Zenon, <1>1, <3>1
  <2> QED BY Zenon, <1>5, <2>1, <2>2 DEF Worker
<1>6. CASE Controller
  <2>1. CASE SelectRequest \/ SelectResponse \/ SelectFini
    <3>1. received' = received /\ sent' = sent /\ alloc' = alloc /\ serve' = serve
      BY Zenon, <2>1 DEF SelectRequest, SelectResponse, SelectFini, serveVars
    <3> QED BY Zenon, <1>1, <3>1
  <2> QED BY Zenon, <1>6, <2>1, SendHeadPages DEF Controller
<1>7. CASE UNCHANGED vars BY Zenon, <1>1, <1>7 DEF vars
<1> QED BY Zenon, <1>2, <1>3, <1>4, <1>5, <1>6, <1>7 DEF Next, ServerStep

LEMMA PagesAreExclusive == FlowInv /\ PageInv => PagesExclusive
<1> SUFFICES ASSUME FlowInv, PageInv, serve # "done"
             PROVE  /\ \A x, y \in Places(alloc, {orderID(i) : i \in 1..(Len(received) + 1)}) :
                         x[4] = y[4] => x = y
                    /\ \A i \in 1..Len(received) :
                         (\A k \in DOMAIN sent : sent[k] # i) => alloc.used[orderID(i)] # <<>>
  BY Zenon DEF PagesExclusive
<1>1. FlowTypeOK /\ InSequence BY DEF FlowInv
<1>2. OneUser(alloc, OrderIds) /\ PageHeld BY DEF PageInv
<1>3. Len(received) \in Nat /\ Len(received) <= MaxPackets BY <1>1 DEF FlowTypeOK
<1>4. PICK av, us : av = alloc.available /\ us = alloc.used
  BY Zenon
<1>5. PICK Ids : Ids = {orderID(i) : i \in 1..(Len(received) + 1)}
  BY ZenonT(60)
<1>6. Ids \subseteq OrderIds
  <2>1. \A i \in 1..(Len(received) + 1) : orderID(i) \in OrderIds
    BY <1>3, PageKeys, PacketManagerAssumptions
  <2> QED BY Zenon, <1>5, <2>1
<1>7. /\ av \in Seq(Nat) /\ \A x \in Ids : us[x] \in Seq(Nat)
  <2>1. av \in Seq(Nat) /\ us \in [OrderIds -> Seq(Nat)] BY <1>4 DEF PageInv, AllocType
  <2> QED BY Zenon, <1>6, <2>1
<1>8. /\ \A i, j \in 1..Len(av) : av[i] = av[j] => i = j
      /\ \A x, y \in Ids : \A i \in 1..Len(us[x]), j \in 1..Len(us[y]) :
           us[x][i] = us[y][j] => x = y /\ i = j
      /\ \A x \in Ids : \A i \in 1..Len(us[x]), j \in 1..Len(av) : us[x][i] # av[j]
  <2>1. Exclusive(av, us, alloc.made, OrderIds) BY Zenon, <1>2, <1>4 DEF OneUser
  <2>2. /\ \A i, j \in 1..Len(av) : av[i] = av[j] => i = j
        /\ \A x, y \in OrderIds : \A i \in 1..Len(us[x]), j \in 1..Len(us[y]) :
             us[x][i] = us[y][j] => x = y /\ i = j
        /\ \A x \in OrderIds : \A i \in 1..Len(us[x]), j \in 1..Len(av) : us[x][i] # av[j]
    BY Zenon, <2>1 DEF Exclusive
  <2>3. \A x \in Ids : x \in OrderIds BY Zenon, <1>6
  <2> QED BY Zenon, <2>2, <2>3
<1>9. ASSUME NEW x \in Places(alloc, Ids)
      PROVE  \/ \E i \in 1..Len(av) : x = <<"available", 0, i, av[i]>>
             \/ \E id \in Ids : \E i \in 1..Len(us[id]) : x = <<"used", id, i, us[id][i]>>
  <2>1. DOMAIN av = 1..Len(av) /\ \A id \in Ids : DOMAIN us[id] = 1..Len(us[id]) BY <1>7
  <2>2. x \in {<<"available", 0, i, av[i]>> : i \in DOMAIN av}
          \cup UNION {{<<"used", id, i, us[id][i]>> : i \in DOMAIN us[id]} : id \in Ids}
    BY <1>4 DEF Places
  <2> QED BY Zenon, <2>1, <2>2
<1>10. ASSUME NEW x \in Places(alloc, Ids), NEW y \in Places(alloc, Ids), x[4] = y[4]
       PROVE  x = y
  <2>1. CASE \E i \in 1..Len(av) : x = <<"available", 0, i, av[i]>>
    <3>1. PICK i \in 1..Len(av) : x = <<"available", 0, i, av[i]>> BY <2>1
    <3>2. CASE \E j \in 1..Len(av) : y = <<"available", 0, j, av[j]>> BY <1>8, <1>10, <3>1, <3>2
    <3>3. CASE \E id \in Ids : \E j \in 1..Len(us[id]) : y = <<"used", id, j, us[id][j]>>
      BY <1>8, <1>10, <3>1, <3>3
    <3> QED BY ZenonT(60), <1>9, <3>2, <3>3
  <2>2. CASE \E id \in Ids : \E i \in 1..Len(us[id]) : x = <<"used", id, i, us[id][i]>>
    <3>1. PICK id \in Ids : \E i \in 1..Len(us[id]) : x = <<"used", id, i, us[id][i]>> BY Zenon, <2>2
    <3>2. PICK i \in 1..Len(us[id]) : x = <<"used", id, i, us[id][i]>> BY Zenon, <3>1
    <3>3. CASE \E j \in 1..Len(av) : y = <<"available", 0, j, av[j]>>
      BY <1>8, <1>10, <3>2, <3>3
    <3>4. CASE \E e \in Ids : \E j \in 1..Len(us[e]) : y = <<"used", e, j, us[e][j]>>
      <4>1. PICK e \in Ids : \E j \in 1..Len(us[e]) : y = <<"used", e, j, us[e][j]>> BY Zenon, <3>4
      <4>2. PICK j \in 1..Len(us[e]) : y = <<"used", e, j, us[e][j]>> BY ZenonT(60), <4>1
      <4>3. us[id][i] = us[e][j] BY Zenon, <1>10, <3>2, <4>2
      <4>4. id = e /\ i = j
        <5>1. \A p, q \in Ids : \A a \in 1..Len(us[p]), b \in 1..Len(us[q]) :
                us[p][a] = us[q][b] => p = q /\ a = b
          BY Zenon, <1>8
        <5>2. id \in Ids /\ e \in Ids /\ i \in 1..Len(us[id]) /\ j \in 1..Len(us[e])
          OBVIOUS
        <5> QED BY ONLY Zenon, <4>3, <5>1, <5>2
      <4> QED BY ZenonT(60), <3>2, <4>2, <4>4
    <3>5. \/ \E j \in 1..Len(av) : y = <<"available", 0, j, av[j]>>
          \/ \E e \in Ids : \E j \in 1..Len(us[e]) : y = <<"used", e, j, us[e][j]>>
      BY Zenon, <1>9
    <3> QED BY Zenon, <3>3, <3>4, <3>5
  <2> QED BY Zenon, <1>9, <2>1, <2>2
<1>11. ASSUME NEW i \in 1..Len(received), \A k \in DOMAIN sent : sent[k] # i
       PROVE  alloc.used[orderID(i)] # <<>>
  <2>1. Len(sent) \in Nat /\ DOMAIN sent = 1..Len(sent) BY <1>1 DEF FlowTypeOK
  <2>2. \A k \in 1..Len(sent) : sent[k] = k BY <1>1 DEF InSequence
  <2>3. i > Len(sent) BY <1>3, <1>11, <2>1, <2>2
  <2>4. orderID(i) = i BY <1>3, PageKeys, PacketManagerAssumptions
  <2> QED BY Zenon, <1>2, <2>3, <2>4 DEF PageHeld
<1> QED BY ZenonT(60), <1>5, <1>10, <1>11

-----------------------------------------------------------------------------
(* Handles, workers and pages.                                             *)

INSTANCE FiniteSetTheorems

HandleTypeOK ==
  /\ kind \in ServerKinds /\ conn \in {"open", "eof", "closed"}
  /\ target \in [Packets -> 0..MaxPackets]
  /\ entries \subseteq Handles /\ handleCount \in Nat
  /\ files \in [Handles -> {"none", "open", "closed"}]
  /\ opener \in [Handles -> 0..MaxPackets]
  /\ result \in [Packets -> {"none", "ok", "failed", "badhandle"}]

\* The client can know the handle h: the packet that opened it was answered "ok".
Opened(h) == h \in Handles /\ opener[h] # 0 /\ result[opener[h]] = "ok"

\* A close of h has been executed.
CloseExecuted(h) == \E j \in executed : received[j] = "close" /\ target[j] = h

\* Every open uses a handle of its own, and uses up a packet.
Numbering ==
  /\ handleCount <= Cardinality(executed)
  /\ \A h \in Handles : h > handleCount => opener[h] = 0
  /\ \A h \in Handles : opener[h] # 0 => opener[h] \in executed

\* A packet names a handle that was open once; one that is no longer in the table has
\* been closed by an executed close.
Naming ==
  /\ \A i \in Packets : target[i] # 0 => Opened(target[i])
  /\ serve # "done" => \A h \in Handles : Opened(h) /\ h \notin entries => CloseExecuted(h)

\* A close is executed after everything before it.
ClosesLast ==
  \A j \in executed : received[j] = "close" => 1..(j - 1) \subseteq executed

\* A packet has a status once it has been executed.
ResultsLater == \A i \in Packets : i \notin executed => result[i] = "none"

\* A file that is open is in the table; Serve returns after all workers.
OpenListed ==
  /\ \A h \in Handles : files[h] = "open" => h \in entries
  /\ serve = "done" => \A w \in Workers : wpc[w] = "exited"

HandleInv ==
  HandleTypeOK /\ Numbering /\ Naming /\ ClosesLast /\ ResultsLater /\ OpenListed
    /\ OpenHandlesFound /\ FilesClosed

-----------------------------------------------------------------------------
(* Handles.                                                                 *)

LEMMA InitHandles == Init => HandleInv
<1> SUFFICES ASSUME Init PROVE HandleInv
  BY Zenon
<1>0. MaxPackets \in Nat BY PacketManagerAssumptions
<1>1. HandleTypeOK BY <1>0 DEF Init, HandleTypeOK
<1>2. Numbering BY <1>0, FS_EmptySet DEF Init, Numbering
<1>3. /\ Naming /\ ClosesLast /\ ResultsLater /\ OpenListed /\ OpenHandlesFound
      /\ FilesClosed
  BY Zenon DEF Init, Naming, ClosesLast, ResultsLater, OpenListed, OpenHandlesFound, FilesClosed, Opened
<1> QED BY Zenon, <1>1, <1>2, <1>3 DEF HandleInv

\* The steps that leave packets and handles alone.
HandlesQuiet ==
  /\ handleVars' = handleVars /\ kind' = kind /\ conn' \in {"open", "eof", "closed"}
  /\ received' = received /\ target' = target
  /\ serve' = "done" <=> serve = "done"
  /\ \A w \in Workers : wpc[w] = "exited" => wpc'[w] = "exited"

LEMMA QuietHandles ==
  ASSUME HandleInv, HandlesQuiet
  PROVE  HandleInv'
<1>1. /\ entries' = entries /\ files' = files /\ opener' = opener
      /\ handleCount' = handleCount /\ result' = result /\ executed' = executed
      /\ kind' = kind /\ received' = received /\ target' = target
  BY Zenon DEF HandlesQuiet, handleVars
<1>2. HandleTypeOK' BY <1>1 DEF HandleInv, HandlesQuiet, HandleTypeOK
<1>3. Numbering' /\ ClosesLast' /\ ResultsLater'
  BY Zenon, <1>1 DEF HandleInv, Numbering, ClosesLast, ResultsLater
<1>4. Naming' BY <1>1 DEF HandleInv, HandlesQuiet, Naming, Opened, CloseExecuted
<1>5. OpenListed' BY Zenon, <1>1 DEF HandleInv, HandlesQuiet, OpenListed
<1>6. OpenHandlesFound' /\ FilesClosed'
  <2>1. OpenHandlesFound' BY Zenon, <1>1 DEF HandleInv, OpenHandlesFound
  <2>2. serve' = "done" <=> serve = "done" BY Zenon DEF HandlesQuiet
  <2>3. FilesClosed' BY Zenon, <1>1, <2>2 DEF HandleInv, FilesClosed
  <2> QED BY Zenon, <2>1, <2>3
<1> QED BY Zenon, <1>2, <1>3, <1>4, <1>5, <1>6 DEF HandleInv

LEMMA QuietSteps ==
  ASSUME FlowTypeOK, HandleTypeOK,
         \/ RecvError \/ QueuePacket \/ Dispatcher \/ Controller \/ UNCHANGED vars
         \/ \E how \in {"eof", "closed"} : ConnEnds(how)
         \/ \E w \in Workers : \/ TakeRW(w) \/ HandleUnexpected(w) \/ ReadyPacket(w)
                               \/ WorkingDone(w) \/ WorkerExits(w)
  PROVE  HandlesQuiet
<1> USE DEF HandlesQuiet, handleVars
<1>0. conn \in {"open", "eof", "closed"} BY DEF HandleTypeOK
<1>1. CASE RecvError \/ QueuePacket
  BY Zenon, <1>0, <1>1 DEF RecvError, QueuePacket, workerVars
<1>2. CASE Dispatcher
  <2>1. CASE HandToCmd
    BY Zenon, <1>0, <2>1 DEF HandToCmd, FlowTypeOK, serveVars
  <2> QED BY Zenon, <1>0, <1>2, <2>1 DEF Dispatcher, TakePacket, WaitBeforeClose, RegisterPacket,
       HandToRW, CloseChannels, CloseFini, serveVars, workerVars
<1>3. CASE Controller
  BY Zenon, <1>0, <1>3 DEF Controller, SelectRequest, SelectResponse, SendHead, SelectFini, serveVars,
     workerVars
<1>4. CASE UNCHANGED vars BY <1>0, <1>4 DEF vars
<1>5. CASE \E how \in {"eof", "closed"} : ConnEnds(how)
  BY Zenon, <1>5 DEF ConnEnds, workerVars
<1>6. ASSUME NEW w \in Workers, \/ TakeRW(w) \/ HandleUnexpected(w) \/ ReadyPacket(w)
                                \/ WorkingDone(w) \/ WorkerExits(w)
      PROVE  HandlesQuiet
  <2>1. /\ handleVars' = handleVars /\ kind' = kind /\ conn' \in {"open", "eof", "closed"}
        /\ received' = received /\ target' = target /\ serve' = serve
    BY Zenon, <1>0, <1>6 DEF TakeRW, HandleUnexpected, ReadyPacket, WorkingDone, WorkerExits, serveVars
  <2>2. wpc[w] # "exited" /\ \E c : wpc' = [wpc EXCEPT ![w] = c]
    BY Zenon, <1>6 DEF TakeRW, HandleUnexpected, ReadyPacket, WorkingDone, WorkerExits, Handling
  <2>3. \A v \in Workers : wpc[v] = "exited" => wpc'[v] = "exited"
    BY Zenon, <2>2 DEF FlowTypeOK
  <2> QED BY Zenon, <2>1, <2>3
<1> QED BY Zenon, <1>1, <1>2, <1>3, <1>4, <1>5, <1>6

\* A packet arrives: the handle it names is one that the client has been told of.
LEMMA ArrivalHandles ==
  ASSUME FlowInv, HandleInv, NEW op \in Ops, NEW h \in 0..MaxPackets,
         NewPacket(op, h), h # 0 => h \in Known,
         handleVars' = handleVars, workerVars' = workerVars, kind' = kind,
         conn' \in {"open", "eof", "closed"}, serve # "done", serve' # "done"
  PROVE  HandleInv'
<1>1. /\ entries' = entries /\ files' = files /\ opener' = opener
      /\ handleCount' = handleCount /\ result' = result /\ executed' = executed
      /\ wpc' = wpc
  BY Zenon DEF handleVars, workerVars
<1> DEFINE n == Len(received)
<1>2. /\ received \in Seq(Ops) /\ n \in Nat /\ n + 1 \in Packets
      /\ received' = Append(received, op) /\ target' = [target EXCEPT ![n + 1] = h]
      /\ target \in [Packets -> 0..MaxPackets]
  BY SMTT(60), PacketManagerAssumptions
     DEF FlowInv, FlowTypeOK, HandleInv, HandleTypeOK, NewPacket, Packets
<1>3. \A j \in executed : j \in 1..n /\ j \in Packets
  <2>1. FlowTypeOK /\ InSequence /\ executed \subseteq 1..Handed BY DEF FlowInv, OnePlace
  <2>2. Handed \in Nat /\ Handed <= n BY <2>1, DispatcherBounds
  <2> QED BY <1>2, <2>1, <2>2 DEF FlowTypeOK
<1>4. \A j \in executed : received'[j] = received[j] /\ target'[j] = target[j]
  BY <1>2, <1>3
<1>5. \A g \in Handles : Opened(g)' <=> Opened(g) BY <1>1 DEF Opened
<1>6. HandleTypeOK' BY <1>1, <1>2 DEF HandleInv, HandleTypeOK
<1>7. Numbering' BY <1>1 DEF HandleInv, Numbering
<1>8. Naming'
  <2>1. ASSUME NEW i \in Packets, target'[i] # 0 PROVE Opened(target'[i])
    <3>1. CASE i = n + 1
      <4>1. target'[i] = h BY <1>2, <3>1
      <4>2. h \in Known BY <2>1, <4>1
      <4> QED BY Zenon, <4>1, <4>2 DEF Known, Opened
    <3>2. CASE i # n + 1
      BY Zenon, <1>2, <2>1, <3>2 DEF HandleInv, Naming
    <3> QED BY Zenon, <3>1, <3>2
  <2>2. ASSUME NEW i \in Packets, target'[i] # 0 PROVE Opened(target[i])'
    <3>1. Opened(target'[i]) BY <2>1, <2>2
    <3> QED BY Zenon, <1>1, <3>1 DEF Opened
  <2>3. ASSUME NEW g \in Handles, Opened(g)', g \notin entries' PROVE CloseExecuted(g)'
    <3>1. CloseExecuted(g) BY <1>1, <1>5, <2>3 DEF HandleInv, Naming
    <3> QED BY Zenon, <1>1, <1>4, <3>1 DEF CloseExecuted
  <2> QED BY Zenon, <2>2, <2>3 DEF Naming
<1>9. ClosesLast' BY Zenon, <1>1, <1>4 DEF HandleInv, ClosesLast
<1>10. OpenListed' BY <1>1 DEF HandleInv, OpenListed
<1>11. OpenHandlesFound'
  <2> SUFFICES ASSUME NEW i \in Packets, result'[i] = "badhandle", target'[i] # 0
               PROVE  \E j \in 1..(i - 1) : received'[j] = "close" /\ target'[j] = target'[i]
    BY Zenon DEF OpenHandlesFound
  <2>1. CASE i = n + 1
    <3>1. i \notin executed BY <1>2, <1>3, <2>1
    <3> QED BY Zenon, <1>1, <3>1 DEF HandleInv, ResultsLater
  <2>2. CASE i # n + 1
    <3>1. target'[i] = target[i] BY <1>2, <2>2
    <3>2. PICK j \in 1..(i - 1) : received[j] = "close" /\ target[j] = target[i]
      BY Zenon, <1>1, <3>1 DEF HandleInv, OpenHandlesFound
    <3>3. i \in executed BY <1>1 DEF HandleInv, ResultsLater
    <3>4. j \in 1..n /\ j \in Packets BY <1>2, <1>3, <3>3, PacketManagerAssumptions DEF Packets
    <3>5. received'[j] = received[j] /\ target'[j] = target[j] BY <1>2, <3>4
    <3> QED BY Zenon, <3>1, <3>2, <3>5
  <2> QED BY Zenon, <2>1, <2>2
<1>12. FilesClosed' BY <1>1 DEF FilesClosed
<1>13. ResultsLater' BY <1>1 DEF HandleInv, ResultsLater
<1> QED BY Zenon, <1>6, <1>7, <1>8, <1>9, <1>10, <1>11, <1>12, <1>13 DEF HandleInv

\* Serve returns: what is left open is closed.
LEMMA ReturnHandles ==
  ASSUME HandleInv, ServeReturns
  PROVE  HandleInv'
<1>1. /\ opener' = opener /\ handleCount' = handleCount /\ result' = result
      /\ executed' = executed /\ received' = received /\ target' = target /\ kind' = kind
      /\ conn' = conn /\ wpc' = wpc /\ serve' = "done" /\ files' = CloseLeftOpen
      /\ entries' \subseteq entries
      /\ \A w \in Workers : wpc[w] = "exited"
  BY Zenon DEF ServeReturns, workerVars
<1>2. \A h \in Handles : files'[h] # "open" /\ files'[h] \in {"none", "open", "closed"}
  BY Zenon, <1>1 DEF HandleInv, HandleTypeOK, OpenListed, CloseLeftOpen
<1>3. HandleTypeOK'
  <2>1. files' \in [Handles -> {"none", "open", "closed"}] BY <1>1, <1>2 DEF CloseLeftOpen
  <2> QED BY Zenon, <1>1, <2>1 DEF HandleInv, HandleTypeOK
<1>4. Numbering' /\ ClosesLast' /\ ResultsLater'
  BY Zenon, <1>1 DEF HandleInv, Numbering, ClosesLast, ResultsLater
<1>5. Naming' BY Zenon, <1>1 DEF HandleInv, Naming, Opened
<1>6. OpenListed' /\ FilesClosed' BY <1>1, <1>2 DEF OpenListed, FilesClosed
<1>7. OpenHandlesFound' BY <1>1 DEF HandleInv, OpenHandlesFound
<1> QED BY Zenon, <1>3, <1>4, <1>5, <1>6, <1>7 DEF HandleInv

\* What every handler finds and leaves: its packet is new, and a packet that closed a
\* handle earlier came before it.
HandlerFrame(w) ==
  /\ wpkt[w] \in Packets /\ wpkt[w] \notin executed /\ executed' = executed \cup {wpkt[w]}
  /\ serve # "done" /\ serve' = serve /\ received' = received /\ target' = target
  /\ kind' = kind /\ conn' = conn
  /\ \E s \in {"ok", "failed", "badhandle"} : result' = [result EXCEPT ![wpkt[w]] = s]

LEMMA HandlerFacts ==
  ASSUME FlowInv, HandleInv, NEW w \in Workers, Handler(w)
  PROVE  HandlerFrame(w)
<1>1. HandledEffect(w) BY HandlerEffect
<1>2. wpkt[w] \in Packets /\ wpkt[w] \notin executed
  <2>1. wpkt[w] \in 0..MaxPackets BY Zenon DEF FlowInv, FlowTypeOK
  <2>2. WorkerPlace(w) BY Zenon DEF FlowInv, OnePlace
  <2>3. wpkt[w] # 0 /\ wpkt[w] \notin executed BY <1>1, <2>2 DEF WorkerPlace, HandledEffect
  <2> QED BY <2>1, <2>3, PacketManagerAssumptions DEF Packets
<1>3. serve # "done" BY <1>1 DEF HandleInv, OpenListed, HandledEffect
<1>4. \E s \in {"ok", "failed", "badhandle"} : Answer(w, s)
  BY Zenon DEF Handler, HandleOpen, HandleReadWrite, HandleClose, HandleCmd
<1> QED BY Zenon, <1>1, <1>2, <1>3, <1>4 DEF HandlerFrame, HandledEffect, Answer, serveVars

LEMMA HandlerCount ==
  ASSUME FlowInv, NEW w \in Workers, HandlerFrame(w)
  PROVE  /\ Cardinality(executed) \in Nat
         /\ Cardinality(executed') = Cardinality(executed) + 1
         /\ Cardinality(executed') <= MaxPackets
<1>1. executed \subseteq Packets /\ executed' \subseteq Packets
  BY Zenon DEF FlowInv, FlowTypeOK, HandlerFrame
<1>2. IsFiniteSet(Packets) /\ Cardinality(Packets) = MaxPackets
  BY PacketManagerAssumptions, FS_Interval DEF Packets
<1>3. IsFiniteSet(executed) /\ IsFiniteSet(executed') BY <1>1, <1>2, FS_Subset
<1>4. Cardinality(executed') <= MaxPackets BY <1>1, <1>2, FS_Subset
<1>5. Cardinality(executed) \in Nat BY <1>3, FS_CardinalityType
<1>6. Cardinality(executed') = Cardinality(executed) + 1
  BY Zenon, <1>3, FS_AddElement DEF HandlerFrame
<1> QED BY Zenon, <1>4, <1>5, <1>6

\* The conjuncts that concern packets only.
LEMMA HandlerOrder ==
  ASSUME FlowInv, HandleInv, NEW w \in Workers, Handler(w), HandlerFrame(w)
  PROVE  ClosesLast' /\ ResultsLater'
<1> DEFINE i == wpkt[w]
<1>1. ASSUME NEW j \in executed', received'[j] = "close" PROVE 1..(j - 1) \subseteq executed'
  <2>1. CASE j \in executed BY Zenon, <1>1, <2>1 DEF HandleInv, ClosesLast, HandlerFrame
  <2>2. CASE j = i
    <3>1. received[i] \notin ReadWrite /\ i # 0
      BY <1>1, <2>2, PacketManagerAssumptions DEF HandlerFrame, ReadWrite, Packets
    <3>2. WorkerPlace(w) BY Zenon DEF FlowInv, OnePlace
    <3>3. w = CmdWorker BY Zenon, <3>1, <3>2 DEF WorkerPlace
    <3>4. 1..(i - 1) \subseteq executed
      BY Zenon, <1>1, <2>2, <3>1, <3>3 DEF FlowInv, Ordered, HandlerFrame
    <3> QED BY Zenon, <2>2, <3>4 DEF HandlerFrame
  <2> QED BY Zenon, <2>1, <2>2 DEF HandlerFrame
<1>2. ResultsLater' BY Zenon DEF HandleInv, ResultsLater, HandlerFrame, HandleTypeOK
<1> QED BY Zenon, <1>1, <1>2 DEF ClosesLast

\* An executed close of the handle that the packet names came before the packet.
LEMMA ClosedBefore ==
  ASSUME FlowInv, HandleInv, NEW i \in Packets, i \notin executed, CloseExecuted(target[i])
  PROVE  \E j \in 1..(i - 1) : received[j] = "close" /\ target[j] = target[i]
<1>1. PICK j \in executed : received[j] = "close" /\ target[j] = target[i]
  BY Zenon DEF CloseExecuted
<1>2. 1..(j - 1) \subseteq executed BY <1>1 DEF HandleInv, ClosesLast
<1>3. j \in Packets BY Zenon DEF FlowInv, FlowTypeOK
<1>4. i \notin 1..(j - 1) /\ i # j BY <1>2
<1>5. j \in 1..(i - 1) BY <1>3, <1>4, PacketManagerAssumptions DEF Packets
<1> QED BY Zenon, <1>1, <1>5

\* The handle of a packet that finds no entry has been closed in an earlier packet.
LEMMA LookedUp ==
  ASSUME FlowInv, HandleInv, NEW w \in Workers, HandlerFrame(w),
         NEW s \in {"ok", "failed", "badhandle"}, result' = [result EXCEPT ![wpkt[w]] = s],
         s = "badhandle" => target[wpkt[w]] \notin entries
  PROVE  OpenHandlesFound'
<1> SUFFICES ASSUME NEW k \in Packets, result'[k] = "badhandle", target[k] # 0
             PROVE  \E j \in 1..(k - 1) : received[j] = "close" /\ target[j] = target[k]
  BY Zenon DEF OpenHandlesFound, HandlerFrame
<1>1. CASE k # wpkt[w]
  <2>1. result[k] = "badhandle" BY Zenon, <1>1 DEF HandleInv, HandleTypeOK
  <2> QED BY Zenon, <2>1 DEF HandleInv, OpenHandlesFound
<1>2. CASE k = wpkt[w]
  <2>1. s = "badhandle" BY Zenon, <1>2 DEF HandleInv, HandleTypeOK
  <2>2. Opened(target[k]) /\ target[k] \notin entries
    BY Zenon, <1>2, <2>1 DEF HandleInv, Naming
  <2>3. CloseExecuted(target[k])
    BY Zenon, <2>2 DEF HandleInv, Naming, Opened, HandlerFrame
  <2> QED BY Zenon, <1>2, <2>3, ClosedBefore DEF HandlerFrame
<1> QED BY Zenon, <1>1, <1>2

\* Handling a packet does not change what an earlier open returned.
LEMMA OpenedKept ==
  ASSUME HandleInv, NEW w \in Workers, HandlerFrame(w), NEW h \in Handles,
         opener'[h] = opener[h], opener[h] # 0
  PROVE  Opened(h)' <=> Opened(h)
<1>1. opener[h] \in executed BY DEF HandleInv, Numbering
<1>2. opener[h] # wpkt[w] BY <1>1 DEF HandlerFrame
<1>3. opener[h] \in Packets
  BY PacketManagerAssumptions DEF HandleInv, HandleTypeOK, Packets
<1>4. result'[opener[h]] = result[opener[h]]
  BY Zenon, <1>2, <1>3 DEF HandlerFrame, HandleInv, HandleTypeOK
<1> QED BY Zenon, <1>4 DEF Opened

\* So a packet still names a handle that was open once.
LEMMA TargetsKept ==
  ASSUME HandleInv, NEW w \in Workers, HandlerFrame(w),
         \A h \in Handles : opener[h] # 0 => opener'[h] = opener[h]
  PROVE  \A i \in Packets : target'[i] # 0 => Opened(target[i])'
<1> SUFFICES ASSUME NEW i \in Packets, target[i] # 0 PROVE Opened(target[i])'
  BY Zenon DEF HandlerFrame
<1>1. Opened(target[i]) BY DEF HandleInv, Naming
<1>2. target[i] \in Handles /\ opener[target[i]] # 0 BY <1>1 DEF Opened
<1>3. opener'[target[i]] # 0 /\ result'[opener'[target[i]]] = "ok"
  <2>1. opener'[target[i]] = opener[target[i]] BY <1>2
  <2>2. Opened(target[i])' <=> Opened(target[i])
    BY Zenon, <1>2, <2>1, OpenedKept DEF HandlerFrame
  <2> QED BY Zenon, <1>1, <2>2 DEF Opened, HandlerFrame
<1> QED BY Zenon, <1>2, <1>3 DEF Opened, HandlerFrame

LEMMA QuietHandler ==
  ASSUME FlowInv, HandleInv, NEW w \in Workers, Handler(w), HandlerFrame(w), OpenHandlesFound',
         entries' = entries, files' = files, opener' = opener, handleCount' = handleCount
  PROVE  HandleInv'
<1>1. HandleTypeOK' BY Zenon DEF HandleInv, HandleTypeOK, HandlerFrame
<1>2. Numbering'
  <2>1. handleCount' <= Cardinality(executed')
    BY HandlerCount DEF HandleInv, Numbering, HandleTypeOK
  <2> QED BY Zenon, <2>1 DEF HandleInv, Numbering, HandlerFrame
<1>3. Naming'
  <2>1. \A i \in Packets : target'[i] # 0 => Opened(target[i])' BY TargetsKept
  <2>2. ASSUME NEW h \in Handles, Opened(h)', h \notin entries' PROVE CloseExecuted(h)'
    <3>1. opener[h] # 0 BY <2>2 DEF Opened
    <3>2. Opened(h) BY <2>2, <3>1, OpenedKept
    <3>3. CloseExecuted(h) BY Zenon, <2>2, <3>2 DEF HandleInv, Naming, HandlerFrame
    <3> QED BY Zenon, <3>3 DEF CloseExecuted, HandlerFrame
  <2> QED BY Zenon, <2>1, <2>2 DEF Naming
<1>4. ClosesLast' /\ ResultsLater' BY HandlerOrder
<1>5. OpenListed' /\ FilesClosed' BY Zenon DEF HandleInv, OpenListed, FilesClosed, HandlerFrame
<1> QED BY Zenon, <1>1, <1>2, <1>3, <1>4, <1>5 DEF HandleInv

LEMMA CloseHandler ==
  ASSUME FlowInv, HandleInv, NEW w \in Workers, Handler(w), HandlerFrame(w), OpenHandlesFound',
         HandleClose(w)
  PROVE  HandleInv'
<1> DEFINE g == target[wpkt[w]]
<1>0. /\ entries' = entries \ {g} /\ opener' = opener /\ handleCount' = handleCount
      /\ files' = [h \in Handles |-> IF h = g /\ h \in entries /\ files[h] = "open"
                                     THEN "closed" ELSE files[h]]
      /\ received[wpkt[w]] = "close"
  BY Zenon DEF HandleClose, Handling
<1>1. HandleTypeOK' BY <1>0 DEF HandleInv, HandleTypeOK, HandlerFrame
<1>2. Numbering'
  <2>1. handleCount' <= Cardinality(executed')
    <3>1. handleCount \in Nat /\ handleCount <= Cardinality(executed)
      BY Zenon DEF HandleInv, Numbering, HandleTypeOK
    <3>2. /\ Cardinality(executed) \in Nat
          /\ Cardinality(executed') = Cardinality(executed) + 1
      BY Zenon, HandlerCount
    <3>3. handleCount' = handleCount BY Zenon, <1>0
    <3> QED BY ONLY <3>1, <3>2, <3>3
  <2> QED BY Zenon, <1>0, <2>1 DEF HandleInv, Numbering, HandlerFrame
<1>3. Naming'
  <2>1. \A i \in Packets : target'[i] # 0 => Opened(target[i])' BY Zenon, <1>0, TargetsKept
  <2>2. ASSUME NEW h \in Handles, Opened(h)', h \notin entries' PROVE CloseExecuted(h)'
    <3>1. CASE h = g
      BY Zenon, <1>0, <3>1 DEF CloseExecuted, HandlerFrame
    <3>2. CASE h # g
      <4>1. opener[h] # 0 BY Zenon, <1>0, <2>2 DEF Opened
      <4>2. Opened(h) BY Zenon, <1>0, <2>2, <4>1, OpenedKept
      <4>3. CloseExecuted(h) BY Zenon, <1>0, <2>2, <3>2, <4>2 DEF HandleInv, Naming, HandlerFrame
      <4> QED BY Zenon, <4>3 DEF CloseExecuted, HandlerFrame
    <3> QED BY Zenon, <3>1, <3>2
  <2> QED BY Zenon, <2>1, <2>2 DEF Naming
<1>4. ClosesLast' /\ ResultsLater' BY HandlerOrder
<1>5. FilesClosed' BY Zenon DEF FilesClosed, HandlerFrame
<1>6. OpenListed'
  <2>1. ASSUME NEW h \in Handles, files'[h] = "open" PROVE h \in entries'
    <3>1. files[h] = "open" /\ h \in entries BY Zenon, <1>0, <2>1 DEF HandleInv, OpenListed
    <3>2. h # g BY Zenon, <1>0, <2>1, <3>1
    <3> QED BY Zenon, <1>0, <3>1, <3>2
  <2> QED BY Zenon, <2>1 DEF OpenListed, HandlerFrame
<1> QED BY Zenon, <1>1, <1>2, <1>3, <1>4, <1>5, <1>6 DEF HandleInv

LEMMA OpenHandler ==
  ASSUME FlowInv, HandleInv, NEW w \in Workers, Handler(w), HandlerFrame(w), OpenHandlesFound',
         NEW s \in {"ok", "failed"}, HandleOpen(w, s), s = "ok" \/ kind = "RequestServer"
  PROVE  HandleInv'
<1> DEFINE g == handleCount + 1
<1>0. /\ entries' = entries \cup {g} /\ handleCount' = g
      /\ files' = [files EXCEPT ![g] = IF s = "ok" THEN "open" ELSE "none"]
      /\ opener' = [opener EXCEPT ![g] = wpkt[w]]
  BY Zenon DEF HandleOpen
<1>1. handleCount \in Nat /\ handleCount <= Cardinality(executed)
  BY Zenon DEF HandleInv, HandleTypeOK, Numbering
<1>2. g \in Handles /\ g <= Cardinality(executed')
  BY <1>1, HandlerCount, PacketManagerAssumptions DEF Handles
<1>3. opener[g] = 0 BY <1>1, <1>2 DEF HandleInv, Numbering
<1>4. wpkt[w] \in 1..MaxPackets BY Zenon DEF HandlerFrame, Packets
<1>5. HandleTypeOK'
  <2>1. /\ files' \in [Handles -> {"none", "open", "closed"}]
        /\ opener' \in [Handles -> 0..MaxPackets]
    BY <1>0, <1>2, <1>4, PacketManagerAssumptions DEF HandleInv, HandleTypeOK
  <2>2. entries' \subseteq Handles /\ handleCount' \in Nat
    BY <1>0, <1>1, <1>2 DEF HandleInv, HandleTypeOK
  <2> QED BY Zenon, <2>1, <2>2 DEF HandleInv, HandleTypeOK, HandlerFrame
<1>6. \A h \in Handles : opener'[h] = IF h = g THEN wpkt[w] ELSE opener[h]
  BY Zenon, <1>0, <1>2 DEF HandleInv, HandleTypeOK
<1>7. Numbering'
  <2>1. ASSUME NEW h \in Handles, h > handleCount' PROVE opener'[h] = 0
    <3>1. h # g /\ h > handleCount
      BY <1>0, <1>1, <2>1, PacketManagerAssumptions DEF Handles
    <3> QED BY Zenon, <1>6, <3>1 DEF HandleInv, Numbering
  <2>2. \A h \in Handles : opener'[h] # 0 => opener'[h] \in executed'
    BY Zenon, <1>6 DEF HandleInv, Numbering, HandlerFrame
  <2> QED BY Zenon, <1>0, <1>2, <2>1, <2>2 DEF Numbering
<1>8. Naming'
  <2>1. \A i \in Packets : target'[i] # 0 => Opened(target[i])'
    BY Zenon, <1>3, <1>6, TargetsKept
  <2>2. ASSUME NEW h \in Handles, Opened(h)', h \notin entries' PROVE CloseExecuted(h)'
    <3>1. h # g /\ h \notin entries BY Zenon, <1>0, <2>2
    <3>2. opener'[h] = opener[h] BY Zenon, <1>6, <3>1
    <3>3. opener[h] # 0 BY Zenon, <2>2, <3>2 DEF Opened
    <3>4. Opened(h) BY Zenon, <2>2, <3>2, <3>3, OpenedKept
    <3>5. CloseExecuted(h) BY Zenon, <3>1, <3>4 DEF HandleInv, Naming, HandlerFrame
    <3> QED BY Zenon, <3>5 DEF CloseExecuted, HandlerFrame
  <2> QED BY Zenon, <2>1, <2>2 DEF Naming
<1>9. ClosesLast' /\ ResultsLater' BY Zenon, HandlerOrder
<1>10. FilesClosed' BY Zenon DEF FilesClosed, HandlerFrame
<1>11. OpenListed'
  <2>1. \A h \in Handles : files'[h] = "open" => h \in entries'
    BY Zenon, <1>0 DEF HandleInv, HandleTypeOK, OpenListed
  <2> QED BY Zenon, <2>1 DEF OpenListed, HandlerFrame
<1> QED BY Zenon, <1>5, <1>7, <1>8, <1>9, <1>10, <1>11 DEF HandleInv

LEMMA HandlerHandles ==
  ASSUME FlowInv, HandleInv, NEW w \in Workers, Handler(w)
  PROVE  HandleInv'
<1>0. HandlerFrame(w) BY Zenon, HandlerFacts
<1>1. ASSUME NEW s \in {"ok", "failed"}, HandleOpen(w, s) PROVE HandleInv'
  <2>1. OpenHandlesFound' BY Zenon, <1>0, <1>1, LookedUp DEF HandleOpen, Answer
  <2>2. CASE s = "ok" \/ kind = "RequestServer"
    BY Zenon, <1>0, <1>1, <2>1, <2>2, OpenHandler
  <2>3. CASE ~(s = "ok" \/ kind = "RequestServer")
    <3>1. UNCHANGED <<handleCount, entries, files, opener>> BY Zenon, <1>1, <2>3 DEF HandleOpen
    <3> QED BY Zenon, <1>0, <2>1, <3>1, QuietHandler
  <2> QED BY Zenon, <2>2, <2>3
<1>2. CASE HandleReadWrite(w)
  <2>1. OpenHandlesFound'
    <3>1. PICK s \in {"ok", "failed", "badhandle"} :
            /\ result' = [result EXCEPT ![wpkt[w]] = s]
            /\ s = "badhandle" => target[wpkt[w]] \notin entries
      BY Zenon, <1>2 DEF HandleReadWrite, Answer
    <3> QED BY Zenon, <1>0, <3>1, LookedUp
  <2>2. UNCHANGED <<entries, files, opener, handleCount>> BY Zenon, <1>2 DEF HandleReadWrite
  <2> QED BY Zenon, <1>0, <2>1, <2>2, QuietHandler
<1>3. CASE HandleClose(w)
  <2>1. OpenHandlesFound'
    <3>1. PICK s \in {"ok", "failed", "badhandle"} :
            /\ result' = [result EXCEPT ![wpkt[w]] = s]
            /\ s = "badhandle" => target[wpkt[w]] \notin entries
      BY Zenon, <1>3 DEF HandleClose, Answer
    <3> QED BY Zenon, <1>0, <3>1, LookedUp
  <2> QED BY Zenon, <1>0, <1>3, <2>1, CloseHandler
<1>4. CASE HandleCmd(w)
  <2>1. OpenHandlesFound' BY Zenon, <1>0, <1>4, LookedUp DEF HandleCmd, Answer
  <2>2. UNCHANGED <<entries, files, opener, handleCount>> BY Zenon, <1>4 DEF HandleCmd
  <2> QED BY Zenon, <1>0, <2>1, <2>2, QuietHandler
<1> QED BY Zenon, <1>1, <1>2, <1>3, <1>4 DEF Handler

LEMMA NextHandles == FlowInv /\ HandleInv /\ [Next]_vars => HandleInv'
<1> SUFFICES ASSUME FlowInv, HandleInv, [Next]_vars PROVE HandleInv'
  BY Zenon
<1>0. FlowTypeOK /\ HandleTypeOK BY DEF FlowInv, HandleInv
<1>1. ASSUME NEW op \in Ops, NEW h \in 0..MaxPackets, RecvPacket(op, h) PROVE HandleInv'
  <2>1. h # 0 => h \in Known BY Zenon, <1>1 DEF RecvPacket
  <2>2. /\ NewPacket(op, h) /\ handleVars' = handleVars /\ workerVars' = workerVars
        /\ kind' = kind /\ conn' = "open" /\ serve = "recv" /\ serve' = "queue"
    BY Zenon, <1>1 DEF RecvPacket
  <2> QED BY Zenon, <2>1, <2>2, ArrivalHandles
<1>2. ASSUME NEW op \in Ops, RecvUndecodable(op) PROVE HandleInv'
  <2>1. CASE kind = "RequestServer"
    <3>1. HandlesQuiet BY Zenon, <1>2, <2>1 DEF RecvUndecodable, HandlesQuiet, workerVars
    <3> QED BY Zenon, <3>1, QuietHandles
  <2>2. CASE kind # "RequestServer"
    <3>1. /\ NewPacket(op, 0) /\ handleVars' = handleVars /\ workerVars' = workerVars
          /\ kind' = kind /\ conn' = "closed" /\ serve = "recv" /\ serve' = "queue"
      BY Zenon, <1>2, <2>2 DEF RecvUndecodable
    <3>2. 0 \in 0..MaxPackets BY PacketManagerAssumptions
    <3> QED BY Zenon, <3>1, <3>2, ArrivalHandles
  <2> QED BY Zenon, <2>1, <2>2
<1>3. CASE ServeReturns BY <1>3, ReturnHandles
<1>4. ASSUME NEW w \in Workers, Handler(w) PROVE HandleInv' BY <1>4, HandlerHandles
<1>5. CASE \/ RecvError \/ QueuePacket \/ Dispatcher \/ Controller \/ UNCHANGED vars
           \/ \E how \in {"eof", "closed"} : ConnEnds(how)
           \/ \E w \in Workers : \/ TakeRW(w) \/ HandleUnexpected(w) \/ ReadyPacket(w)
                                 \/ WorkingDone(w) \/ WorkerExits(w)
  BY Zenon, <1>0, <1>5, QuietSteps, QuietHandles
<1> QED BY Zenon, <1>1, <1>2, <1>3, <1>4, <1>5 DEF Next, ClientStep, ServerStep, Serve, Worker

-----------------------------------------------------------------------------
(* The wait group, and what follows.                                        *)

\* The wait group counts the packets being worked on.
Counting == working = Cardinality(Busy)

Inv == FlowInv /\ Counting

LEMMA BusyFinite == FlowInv => IsFiniteSet(Busy)
<1> SUFFICES ASSUME FlowInv PROVE IsFiniteSet(Busy)
  BY Zenon
<1>1. Len(received) \in Nat BY DEF FlowInv, FlowTypeOK
<1>2. IsFiniteSet(1..Len(received)) BY <1>1, FS_Interval
<1>3. Busy \subseteq 1..Len(received) BY BusyFacts
<1> QED BY Zenon, <1>2, <1>3, FS_Subset

LEMMA InitInv == Init => Inv
<1> SUFFICES ASSUME Init PROVE Inv
  BY Zenon
<1>1. FlowInv /\ Busy = {} BY InitFlow
<1>2. working = 0 BY Zenon DEF Init
<1> QED BY Zenon, <1>1, <1>2, FS_EmptySet DEF Inv, Counting

LEMMA NextInv == Inv /\ [Next]_vars => Inv'
<1> SUFFICES ASSUME Inv, [Next]_vars PROVE Inv'
  BY Zenon
<1>1. FlowInv /\ working = Cardinality(Busy) /\ IsFiniteSet(Busy)
  BY Zenon, BusyFinite DEF Inv, Counting
<1>2. Drained BY Zenon, <1>1, FS_EmptySet DEF Drained
<1>3. FlowInv' /\ BusyStep BY <1>1, <1>2, NextFlow
<1>4. CASE Busy' = Busy /\ working' = working BY Zenon, <1>1, <1>3, <1>4 DEF Inv, Counting
<1>5. ASSUME NEW i \in Packets, i \notin Busy, Busy' = Busy \cup {i}, working' = working + 1
      PROVE  Inv'
  <2>1. Cardinality(Busy \cup {i}) = Cardinality(Busy) + 1 BY Zenon, <1>1, <1>5, FS_AddElement
  <2> QED BY Zenon, <1>1, <1>3, <1>5, <2>1 DEF Inv, Counting
<1>6. ASSUME NEW i \in Busy, Busy' = Busy \ {i}, working' = working - 1
      PROVE  Inv'
  <2>1. Cardinality(Busy \ {i}) = Cardinality(Busy) - 1 BY Zenon, <1>1, <1>6, FS_RemoveElement
  <2> QED BY Zenon, <1>1, <1>3, <1>6, <2>1 DEF Inv, Counting
<1> QED BY Zenon, <1>3, <1>4, <1>5, <1>6 DEF BusyStep

\* The flow of packets through the goroutines of a session (packet-manager.go:94-202):
\* no gap and no duplicate between Serve and the controller, every packet in one place,
\* a close behind everything sent before it, and the wait group equal to the number of
\* packets being worked on.
THEOREM FlowInvariant == Spec => []Inv
  BY InitInv, NextInv, PTL DEF Spec

\* A session with any number of workers, in any interleaving of Serve, dispatcher, workers
\* and controller, and for fewer than 2^32 packets, is an in-order server
\* (packet-manager.go:94-202): one response per request, in the order of the requests, after
\* the request has been executed; commands one by one; a close after everything before it.
THEOREM SessionIsInOrder == Spec => InOrderResponses
<1>1. Init => Abstract!AInit BY Zenon DEF Init, Abstract!AInit
<1>2. Inv /\ [Next]_vars => [Abstract!ANext]_(Abstract!avars) BY StepRefines DEF Inv
<1> QED BY <1>1, <1>2, InitInv, NextInv, PTL DEF Spec, InOrderResponses, Abstract!InOrder

\* The table of handles in every reachable state: why the three results below hold.
THEOREM HandleInvariant == Spec => [](Inv /\ HandleInv)
<1>1. Inv /\ HandleInv /\ [Next]_vars => HandleInv' BY NextHandles DEF Inv
<1> QED BY <1>1, InitInv, InitHandles, NextInv, PTL DEF Spec

\* For any number of workers and in any interleaving (packet-manager.go:139,
\* server.go:74-98): a request on a handle that the client had been told of and had not
\* closed in an earlier request finds the handle in the table.
THEOREM HandlesAreFound == Spec => []OpenHandlesFound
<1>1. HandleInv => OpenHandlesFound BY DEF HandleInv
<1> QED BY <1>1, HandleInvariant, PTL

\* When Serve has returned no file of the session is open (server.go:472,
\* request-server.go:168), whatever the client left open and however the session ended.
THEOREM NoFileLeftOpen == Spec => []FilesClosed
<1>1. HandleInv => FilesClosed BY DEF HandleInv
<1> QED BY <1>1, HandleInvariant, PTL

\* Every variable of a session has its type in every reachable state; in particular the
\* wait group is never negative and the handles never outnumber the packets.
THEOREM SessionTypes == Spec => []TypeOK
<1>1. Inv /\ HandleInv => TypeOK
  <2> SUFFICES ASSUME Inv, HandleInv PROVE TypeOK
    BY Zenon
  <2>1. working \in Nat
    BY Zenon, BusyFinite, FS_CardinalityType DEF Inv, Counting
  <2>2. handleCount \in 0..MaxPackets
    <3>1. executed \subseteq Packets BY Zenon DEF Inv, FlowInv, FlowTypeOK
    <3>2. IsFiniteSet(Packets) /\ Cardinality(Packets) = MaxPackets
      BY PacketManagerAssumptions, FS_Interval DEF Packets
    <3>3. Cardinality(executed) <= MaxPackets /\ Cardinality(executed) \in Nat
      BY Zenon, <3>1, <3>2, FS_Subset, FS_CardinalityType
    <3> QED BY <3>3, PacketManagerAssumptions DEF HandleInv, HandleTypeOK, Numbering
  <2> QED BY Zenon, <2>1, <2>2 DEF Inv, FlowInv, HandleInv, HandleTypeOK, TypeOK
<1> QED BY <1>1, HandleInvariant, PTL

\* While a session is served no page of the allocator has two users, and a request keeps
\* its page until its response has been sent (allocator.go:25-60), for any number of workers
\* that take pages and in any interleaving with the controller, which releases them.
THEOREM PagesHaveOneUser == Spec => []PagesExclusive
<1>1. Inv /\ PageInv /\ [Next]_vars => PageInv' BY NextPages DEF Inv
<1>2. Inv /\ PageInv => PagesExclusive BY PagesAreExclusive DEF Inv
<1> QED BY <1>1, <1>2, InitInv, InitPages, NextInv, PTL DEF Spec
=============================================================================
