---------------------------- MODULE ConfigProofs ----------------------------
(***************************************************************************)
(* The validator, for any configuration, and the reloading of ssftp.yaml   *)
(* with the logins, for any contents of the file, any number of changes to *)
(* it and of failing reads.                                                *)
(***************************************************************************)
EXTENDS ConfigService, WellFoundedInduction, TLAPS

IsList(s) == Len(s) \in Nat /\ DOMAIN s = 1..Len(s)

LEMMA DupExact ==
  ASSUME NEW s, NEW n \in Nat, DOMAIN s = 1..n
  PROVE  hasDupElements(s) <=> ~Distinct(s)
<1>1. ASSUME hasDupElements(s) PROVE ~Distinct(s)
  <2>1. PICK i \in DOMAIN s : s[i] \in {s[j] : j \in 1..(i - 1)}
    BY Zenon, <1>1 DEF hasDupElements
  <2>2. PICK j \in 1..(i - 1) : s[i] = s[j]
    BY <2>1
  <2>3. j \in DOMAIN s /\ i # j
    BY <2>1, <2>2
  <2> QED
    BY Zenon, <2>1, <2>2, <2>3 DEF Distinct
<1>2. ASSUME ~Distinct(s) PROVE hasDupElements(s)
  <2>1. PICK i \in DOMAIN s, j \in DOMAIN s : s[i] = s[j] /\ i # j
    BY Zenon, <1>2 DEF Distinct
  <2>2. CASE j < i
    <3>1. j \in 1..(i - 1)
      BY <2>1, <2>2
    <3> QED
      BY Zenon, <2>1, <3>1 DEF hasDupElements
  <2>3. CASE i < j
    <3>1. i \in 1..(j - 1)
      BY <2>1, <2>3
    <3> QED
      BY Zenon, <2>1, <3>1 DEF hasDupElements
  <2> QED
    BY <2>1, <2>2, <2>3
<1> QED
  BY <1>1, <1>2

\* The field f of the elements of a list is different for any two of them.
LEMMA DistinctField ==
  ASSUME NEW s, NEW f
  PROVE  Distinct(Field(s, f)) <=> \A i, j \in DOMAIN s : i # j => s[i][f] # s[j][f]
BY Zenon DEF Distinct, Field

\* Validate accepts exactly the configurations in which every Downloader has a directory of its
\* own and every client and user a name, a place and a password (configvalidator.go:26-211),
\* whatever their number.
THEOREM ValidateIsExact ==
  ASSUME NEW c, IsList(c.ClientDownloaders), IsList(c.ClientUploaders)
  PROVE  Validate(c) <=> Acceptable(c)
<1> DEFINE ds == c.ClientDownloaders
           us == c.ClientUploaders
<1>1. validateWebhook(c) <=> \A w \in ToSet(c.Webhooks) : w.Name = "virusFound" /\ w.Url \notin BadUrls
  BY Zenon DEF validateWebhook, isValidWebhookName, ValidWebhookNames
<1>2. ASSUME NEW s, IsList(s), NEW f
      PROVE  ~hasDupElements(Field(s, f)) <=> \A i, j \in DOMAIN s : i # j => s[i][f] # s[j][f]
  <2>1. DOMAIN Field(s, f) = 1..Len(s) /\ Len(s) \in Nat
    BY Zenon, <1>2 DEF Field, IsList
  <2> QED
    BY Zenon, <2>1, DupExact, DistinctField
<1>3. validateDownloaders(c) <=>
        \A i, j \in DOMAIN ds :
          /\ i # j => ds[i].LocalStagingDirectory # ds[j].LocalStagingDirectory /\ ds[i].Name # ds[j].Name
          /\ "" \notin {ds[i].Name, ds[i].Host, ds[i].LocalStagingDirectory} /\ ds[i].Port # 0
  <2>1. /\ ~hasDupElements(Field(ds, "Name")) <=>
              \A i, j \in DOMAIN ds : i # j => ds[i].Name # ds[j].Name
        /\ ~hasDupElements(Field(ds, "LocalStagingDirectory")) <=>
              \A i, j \in DOMAIN ds : i # j => ds[i].LocalStagingDirectory # ds[j].LocalStagingDirectory
    BY <1>2
  <2>2. (\A d \in ToSet(ds) : d.Name # "") <=> \A i \in DOMAIN ds : ds[i].Name # ""
    BY Zenon DEF ToSet
  <2>3. (\A d \in ToSet(ds) : d.Port # 0 /\ d.Host # "" /\ d.LocalStagingDirectory # "") <=>
          \A i \in DOMAIN ds : ds[i].Port # 0 /\ ds[i].Host # "" /\ ds[i].LocalStagingDirectory # ""
    BY Zenon DEF ToSet
  <2> QED
    BY Zenon, <2>1, <2>2, <2>3 DEF validateDownloaders
<1>4. validateUploaders(c) <=>
        /\ Distinct(Field(us, "Name"))
        /\ \A u \in ToSet(us) : "" \notin {u.Name, u.Host} /\ u.Port # 0
  <2>1. ~hasDupElements(Field(us, "Name")) <=> Distinct(Field(us, "Name"))
    BY Zenon, <1>2, DistinctField
  <2> QED
    BY Zenon, <2>1 DEF validateUploaders
<1>5. validateUsersCleanDir(c) /\ validateUsersStagingDir(c) <=>
        \A v \in ToSet(c.Users) :
          /\ "" \notin {v.Username, v.Password, v.JailDirectory}
          /\ v.JailDirectory = "*" => v.IsCleanDirUser
  BY Zenon DEF validateUsersCleanDir, validateUsersStagingDir
<1> QED
  BY Zenon, <1>1, <1>3, <1>4, <1>5 DEF Validate, Acceptable

-----------------------------------------------------------------------------

LEMMA MinIsLeast ==
  ASSUME NEW S \in SUBSET Nat, S # {}
  PROVE  Min(S) \in S /\ \A y \in S : Min(S) <= y
<1>1. PICK x \in S : \A y \in S : ~(<<y, x>> \in OpToRel(<, Nat))
  BY Zenon, WFMin, NatLessThanWellFounded
<1>2. ASSUME NEW y \in S PROVE x <= y
  <2>1. x \in Nat /\ y \in Nat
    BY Zenon
  <2>2. ~(y < x)
    <3>1. SUFFICES ASSUME y < x PROVE FALSE
      OBVIOUS
    <3>2. <<y, x>> \in Nat \X Nat /\ <<y, x>>[1] = y /\ <<y, x>>[2] = x
      BY <2>1
    <3>3. <<y, x>> \in OpToRel(<, Nat)
      BY <3>1, <3>2 DEF OpToRel
    <3> QED
      BY Zenon, <1>1, <3>3
  <2> QED
    BY <2>1, <2>2
<1> QED
  BY Zenon, <1>2 DEF Min

-----------------------------------------------------------------------------
(***************************************************************************)
(* SettledInForce.  A reload may begin while Overlord is still taking      *)
(* clients and users from the configuration of the one before, and what    *)
(* Overlord has then is a mixture.  What is inductive (ReloadInv) is that  *)
(* with no load begun since Overlord was notified, what it has taken so    *)
(* far is what the configuration says; a load that ends later notifies     *)
(* Overlord again.                                                         *)
(***************************************************************************)

\* No load is under way or waits to be passed on to Overlord.
AllNotified == main = "up" /\ watch = "event" /\ loader.pc = "off"

TakenSoFar ==
  /\ notifier = "uploaders" => pending = config.ClientDownloaders
  /\ notifier = "users" => clients = <<config.ClientDownloaders, config.ClientUploaders>>
  /\ notifier = "idle" => InForce

\* main and the watch never wait for the same load.
Waiting ==
  /\ "pc" \in DOMAIN loader
  /\ main \in {"load", "up"}
  /\ main = "load" => watch = "event" /\ notifier = "idle" /\ ~event
  /\ loader.pc = "off" <=> main = "up" /\ watch # "load"

ReloadInv == Waiting /\ (AllNotified => TakenSoFar)

-----------------------------------------------------------------------------
LEMMA NewLoadIsOn ==
  /\ "pc" \in DOMAIN NewLoad /\ NewLoad.pc = "reset"
  /\ "pc" \in DOMAIN NoLoad /\ NoLoad.pc = "off"
BY DEF NewLoad, NoLoad

LEMMA InitReload == Init => ReloadInv
BY NewLoadIsOn DEF Init, ReloadInv, Waiting, AllNotified

\* A step of LoadYamlConfig before its end: the load stays under way, so what it writes to
\* config does not matter yet.
LEMMA LoadGoesOn ==
  ASSUME ReloadInv, ResetValid \/ ReadYaml \/ StoreField \/ ValidateConfig \/ Publish
  PROVE  ReloadInv'
<1>1. loader.pc # "off" /\ UNCHANGED <<main, watch, notifier, event>>
  BY DEF ResetValid, ReadYaml, StoreField, ValidateConfig, Publish, loading, using
<1>2. "pc" \in DOMAIN loader' /\ loader'.pc # "off"
  <2> USE DEF ReloadInv, Waiting
  <2>1. CASE ResetValid
    BY <2>1 DEF ResetValid
  <2>2. CASE ReadYaml
    BY Zenon, <2>2, NewLoadIsOn DEF ReadYaml, Retry
  <2>3. CASE StoreField
    BY <2>3 DEF StoreField
  <2>4. CASE ValidateConfig
    BY <2>4, NewLoadIsOn DEF ValidateConfig, Retry
  <2>5. CASE Publish
    BY <2>5 DEF Publish
  <2> QED
    BY <2>1, <2>2, <2>3, <2>4, <2>5
<1> QED
  BY <1>1, <1>2 DEF ReloadInv, Waiting, AllNotified

\* A step that touches neither the load nor what is taken from it.
LEMMA FrameReload ==
  ASSUME ReloadInv, UNCHANGED <<config, loader, main, watch, notifier, pending, clients, users>>,
         event' = event \/ main = "up"
  PROVE  ReloadInv'
BY DEF ReloadInv, Waiting, AllNotified, TakenSoFar, InForce

LEMMA NextReload == ReloadInv /\ [Next]_vars => ReloadInv'
<1> SUFFICES ASSUME ReloadInv, [Next]_vars PROVE ReloadInv'
  OBVIOUS
<1> USE DEF loading, using
<1>1. ASSUME NEW y \in Yamls \cup {Unparsable}, ChangeFile(y) PROVE ReloadInv'
  BY <1>1, FrameReload DEF ChangeFile
<1>2. CASE ResetValid \/ ReadYaml \/ StoreField \/ ValidateConfig \/ Publish
  BY <1>2, LoadGoesOn
<1>3. CASE StartUp
  BY <1>3, NewLoadIsOn DEF StartUp, ReloadInv, Waiting, AllNotified, TakenSoFar, InForce
<1>4. CASE Loaded
  BY <1>4, NewLoadIsOn DEF Loaded, ReloadInv, Waiting, AllNotified
<1>5. CASE Poll
  BY <1>5, FrameReload DEF Poll
<1>6. CASE TakeEvent
  BY <1>6, NewLoadIsOn DEF TakeEvent, ReloadInv, Waiting, AllNotified
<1>7. CASE Notify
  BY <1>7 DEF Notify, ReloadInv, Waiting, AllNotified, TakenSoFar
<1>8. CASE NewDownloaders
  BY <1>8 DEF NewDownloaders, ReloadInv, Waiting, AllNotified, TakenSoFar
<1>9. CASE NewUploaders
  BY <1>9 DEF NewUploaders, ReloadInv, Waiting, AllNotified, TakenSoFar
<1>10. CASE SetUsers
  BY <1>10 DEF SetUsers, ReloadInv, Waiting, AllNotified, TakenSoFar, InForce
<1>11. ASSUME NEW k \in Loops, LoopStep(k) PROVE ReloadInv'
  BY <1>11, FrameReload DEF LoopStep, waitConfigValid, ReadFlag, EndRound
<1>12. CASE UNCHANGED vars
  BY <1>12, FrameReload DEF vars
<1> QED
  BY <1>1, <1>2, <1>3, <1>4, <1>5, <1>6, <1>7, <1>8, <1>9, <1>10, <1>11, <1>12
  DEF Next, Load, Reload

\* However reloads follow on each other, and whatever of them fails, the clients and the users
\* are those of the configuration as soon as no reload is under way (main.go:20,
\* overlord.go:277-281).
THEOREM SettledInForceHolds == Spec => []SettledInForce
<1>1. ReloadInv => SettledInForce
  BY DEF ReloadInv, AllNotified, TakenSoFar, SettledInForce
<1> QED
  BY <1>1, InitReload, NextReload, PTL DEF Spec

-----------------------------------------------------------------------------
(***************************************************************************)
(* ValidMeansValidated.  While the fields are stored one after the other   *)
(* the configuration is a mixture of two files; what is inductive          *)
(* (LoadInv) is how far the one that is loaded has come, and that valid is *)
(* not set in between.                                                     *)
(***************************************************************************)

FieldNames == ToSet(Fields)

\* y has been stored, has passed, and has the default port.
Passed(y) == config = validatePortSetDefault(Parsed(y)) /\ Validate(Parsed(y))

Loader ==
  [pc : {"off", "reset", "read", "store", "validate", "publish", "send"},
   buf : Yamls \cup {Unparsable}, field : 1..Len(Fields)]

LoadInv ==
  /\ config = [f \in FieldNames |-> config[f]]
  /\ loader \in Loader
  /\ file \in Yamls \cup {Unparsable}
  /\ loader.pc \in {"store", "validate", "publish", "send"} => loader.buf \in Yamls
  /\ loader.pc \in {"reset", "read"} => loader.field = 1
  /\ loader.pc = "store" =>
       \A i \in 1..(loader.field - 1) : config[Fields[i]] = Parsed(loader.buf)[Fields[i]]
  /\ loader.pc = "validate" => config = Parsed(loader.buf)
  /\ loader.pc \in {"publish", "send"} => Passed(loader.buf)
  /\ valid \in BOOLEAN
  /\ valid => loader.pc \in {"send", "off", "reset"} /\ \E y \in Yamls : Passed(y)

LEMMA FieldFacts ==
  /\ Len(Fields) = 7 /\ DOMAIN Fields = 1..7
  /\ \A i, j \in 1..7 : Fields[i] = Fields[j] => i = j
  /\ FieldNames = {Fields[i] : i \in 1..7}
  /\ FieldNames = {"SftpPort", "Webhooks", "LogDests", "Flags", "Users", "ClientDownloaders",
                   "ClientUploaders"}
<1>1. Len(Fields) = 7 /\ DOMAIN Fields = 1..7
  BY DEF Fields
<1>2. /\ Fields[1] = "SftpPort" /\ Fields[2] = "Webhooks" /\ Fields[3] = "LogDests"
      /\ Fields[4] = "Flags" /\ Fields[5] = "Users" /\ Fields[6] = "ClientDownloaders"
      /\ Fields[7] = "ClientUploaders"
  BY DEF Fields
<1>3. 1..7 = {1, 2, 3, 4, 5, 6, 7}
  OBVIOUS
<1>4. \A i, j \in 1..7 : Fields[i] = Fields[j] => i = j
  BY <1>2, <1>3
<1>5. FieldNames = {Fields[i] : i \in 1..7}
  BY Zenon, <1>1 DEF FieldNames, ToSet
<1> QED
  BY <1>1, <1>2, <1>3, <1>4, <1>5

LEMMA ParsedFacts ==
  ASSUME NEW y
  PROVE  /\ Parsed(y) = [f \in FieldNames |-> Parsed(y)[f]]
         /\ Parsed(y).ClientDownloaders = y.ClientDownloaders
         /\ Parsed(y).ClientUploaders = y.ClientUploaders
<1>1. \A f \in FieldNames :
        Parsed(y)[f] = IF f = "Users" THEN mergeStagingCleanDirUsers(y) ELSE y[f]
  BY Zenon DEF Parsed, FieldNames
<1>2. Parsed(y) = [f \in FieldNames |-> Parsed(y)[f]]
  BY Zenon DEF Parsed, FieldNames
<1>3. "ClientDownloaders" \in FieldNames /\ "ClientUploaders" \in FieldNames
  BY FieldFacts
<1>4. /\ Parsed(y)["ClientDownloaders"] = y["ClientDownloaders"]
      /\ Parsed(y)["ClientUploaders"] = y["ClientUploaders"]
  BY <1>1, <1>3
<1> QED
  BY <1>2, <1>4

\* The default port is all that changes.
LEMMA DefaultPort ==
  ASSUME NEW c, c = [f \in FieldNames |-> c[f]]
  PROVE  LET d == validatePortSetDefault(c)
         IN /\ d = [f \in FieldNames |-> d[f]]
            /\ \A f \in FieldNames : f # "SftpPort" => d[f] = c[f]
BY SMTT(60), FieldFacts DEF validatePortSetDefault

\* Whether a configuration is acceptable depends on four of its fields.
LEMMA AcceptableReads ==
  ASSUME NEW c, NEW d, Acceptable(c),
         d.ClientDownloaders = c.ClientDownloaders, d.ClientUploaders = c.ClientUploaders,
         d.Webhooks = c.Webhooks, d.Users = c.Users
  PROVE  Acceptable(d)
<1>1. \A i, j \in DOMAIN d.ClientDownloaders :
        LET x == d.ClientDownloaders[i]
            y == d.ClientDownloaders[j]
        IN /\ i # j => x.LocalStagingDirectory # y.LocalStagingDirectory /\ x.Name # y.Name
           /\ "" \notin {x.Name, x.Host, x.LocalStagingDirectory} /\ x.Port # 0
  <2>1. PICK s : s = c.ClientDownloaders
    BY Zenon
  <2>2. \A i, j \in DOMAIN s :
          /\ i # j => /\ s[i].LocalStagingDirectory # s[j].LocalStagingDirectory
                     /\ s[i].Name # s[j].Name
          /\ "" \notin {s[i].Name, s[i].Host, s[i].LocalStagingDirectory} /\ s[i].Port # 0
    <3>1. SUFFICES ASSUME NEW i \in DOMAIN s, NEW j \in DOMAIN s
                   PROVE  /\ i # j => /\ s[i].LocalStagingDirectory # s[j].LocalStagingDirectory
                                      /\ s[i].Name # s[j].Name
                          /\ "" \notin {s[i].Name, s[i].Host, s[i].LocalStagingDirectory}
                          /\ s[i].Port # 0
      BY Zenon
    <3>2. PICK x : x = c.ClientDownloaders[i]
      BY Zenon
    <3>3. PICK y : y = c.ClientDownloaders[j]
      BY Zenon
    <3>4. i \in DOMAIN c.ClientDownloaders /\ j \in DOMAIN c.ClientDownloaders
      BY <2>1
    <3>5. /\ i # j => x.LocalStagingDirectory # y.LocalStagingDirectory /\ x.Name # y.Name
          /\ "" \notin {x.Name, x.Host, x.LocalStagingDirectory} /\ x.Port # 0
      BY Zenon, <3>2, <3>3, <3>4 DEF Acceptable
    <3>6. s[i] = x /\ s[j] = y
      BY <2>1, <3>2, <3>3
    <3> QED
      BY Zenon, <3>5, <3>6
  <2>3. d.ClientDownloaders = s
    BY Zenon, <2>1
  <2> HIDE <2>1
  <2> QED
    BY Zenon, <2>2, <2>3
<1>2. Distinct(Field(d.ClientUploaders, "Name"))
  BY Zenon DEF Acceptable
<1>3. \A u \in ToSet(d.ClientUploaders) : "" \notin {u.Name, u.Host} /\ u.Port # 0
  BY Zenon DEF Acceptable
<1>4. \A w \in ToSet(d.Webhooks) : w.Name = "virusFound" /\ w.Url \notin BadUrls
  BY Zenon DEF Acceptable
<1>5. \A v \in ToSet(d.Users) : /\ "" \notin {v.Username, v.Password, v.JailDirectory}
                                /\ v.JailDirectory = "*" => v.IsCleanDirUser
  BY Zenon DEF Acceptable
<1> QED
  BY Zenon, <1>1, <1>2, <1>3, <1>4, <1>5 DEF Acceptable

\* What has passed is acceptable.
LEMMA PassedAcceptable ==
  ASSUME NEW y \in Yamls, Passed(y)
  PROVE  Acceptable(config)
<1> DEFINE p == Parsed(y)
<1>1. IsList(p.ClientDownloaders) /\ IsList(p.ClientUploaders)
  BY Zenon, ParsedFacts, ConfigAssumptions DEF IsList
<1>2. Acceptable(p)
  BY Zenon, <1>1, ValidateIsExact DEF Passed
<1>3. \A f \in FieldNames : f # "SftpPort" => config[f] = p[f]
  BY Zenon, ParsedFacts, DefaultPort DEF Passed
<1>4. /\ config.ClientDownloaders = p.ClientDownloaders /\ config.ClientUploaders = p.ClientUploaders
      /\ config.Webhooks = p.Webhooks /\ config.Users = p.Users
  BY <1>3, FieldFacts
<1> QED
  BY Zenon, <1>2, <1>4, AcceptableReads

-----------------------------------------------------------------------------
LEMMA NewLoads ==
  /\ NewLoad \in Loader /\ NewLoad.pc = "reset" /\ NewLoad.field = 1
  /\ NoLoad \in Loader /\ NoLoad.pc = "off"
BY FieldFacts DEF NewLoad, NoLoad, Loader

\* The program counter moves on.
LEMMA LoaderAt ==
  ASSUME NEW l \in Loader,
         NEW q \in {"off", "reset", "read", "store", "validate", "publish", "send"}
  PROVE  LET m == [l EXCEPT !.pc = q]
         IN m \in Loader /\ m.pc = q /\ m.buf = l.buf /\ m.field = l.field
BY DEF Loader

LEMMA InitLoad == Init => LoadInv
<1> SUFFICES ASSUME Init PROVE LoadInv
  OBVIOUS
<1>1. config = [f \in FieldNames |-> config[f]]
  BY Zenon DEF Init, EmptyConfig, FieldNames
<1>2. loader \in Loader /\ loader.pc = "reset" /\ loader.field = 1
  BY Zenon, NewLoads DEF Init
<1> QED
  BY Zenon, <1>1, <1>2 DEF Init, LoadInv

\* A step that touches nothing of this.
LEMMA FrameLoad ==
  ASSUME LoadInv, UNCHANGED <<config, valid, loader>>, file' \in Yamls \cup {Unparsable}
  PROVE  LoadInv'
BY Zenon DEF LoadInv, Passed

\* A load begins, or the one at its end is taken: valid and config are left alone.
LEMMA TurnLoad ==
  ASSUME LoadInv, UNCHANGED <<config, valid, file>>, loader' \in {NewLoad, NoLoad}
  PROVE  LoadInv'
<1>1. /\ loader' \in Loader /\ loader'.pc \in {"off", "reset"}
      /\ loader'.pc = "reset" => loader'.field = 1
  BY Zenon, NewLoads
<1>2. (\E y \in Yamls : Passed(y)) => (\E y \in Yamls : Passed(y))'
  BY Zenon DEF Passed
<1> QED
  BY <1>1, <1>2 DEF LoadInv

LEMMA StoreLoad ==
  ASSUME LoadInv, StoreField
  PROVE  LoadInv'
<1> DEFINE n == loader.field
           y == loader.buf
<1>1. /\ loader.pc = "store" /\ loader \in Loader /\ y \in Yamls /\ valid = FALSE
      /\ file \in Yamls \cup {Unparsable} /\ n \in 1..7
      /\ config = [f \in FieldNames |-> config[f]]
  BY FieldFacts DEF LoadInv, StoreField, Loader
<1>2. \A i \in 1..(n - 1) : config[Fields[i]] = Parsed(y)[Fields[i]]
  BY <1>1 DEF LoadInv
<1>3. /\ config' = [config EXCEPT ![Fields[n]] = Parsed(y)[Fields[n]]]
      /\ valid' = valid /\ file' = file
  BY Zenon DEF StoreField, loading
<1>4. config' = [f \in FieldNames |-> config'[f]]
  BY <1>1, <1>3
<1>5. \A f \in FieldNames : config'[f] = IF f = Fields[n] THEN Parsed(y)[f] ELSE config[f]
  BY <1>1, <1>3
<1>6. \A i \in 1..n : config'[Fields[i]] = Parsed(y)[Fields[i]]
  <2>1. SUFFICES ASSUME NEW i \in 1..n PROVE config'[Fields[i]] = Parsed(y)[Fields[i]]
    OBVIOUS
  <2>2. i \in 1..7 /\ (i = n \/ i \in 1..(n - 1))
    BY <1>1
  <2>3. Fields[i] \in FieldNames
    BY Zenon, <2>2, FieldFacts
  <2> QED
    BY Zenon, <1>2, <1>5, <2>2, <2>3
<1>7. CASE n = 7
  <2>1. loader' = [loader EXCEPT !.pc = "validate"]
    BY <1>7, FieldFacts DEF StoreField
  <2>2. loader' \in Loader /\ loader'.pc = "validate" /\ loader'.buf = y
    BY Zenon, <1>1, <2>1, LoaderAt
  <2>3. \A f \in FieldNames : config'[f] = Parsed(y)[f]
    <3>1. SUFFICES ASSUME NEW f \in FieldNames PROVE config'[f] = Parsed(y)[f]
      OBVIOUS
    <3>2. PICK i \in 1..7 : f = Fields[i]
      BY Zenon, FieldFacts
    <3>3. i \in 1..n
      BY <1>7
    <3> QED
      BY Zenon, <1>6, <3>2, <3>3
  <2>4. config' = Parsed(y)
    BY Zenon, <1>4, <2>3, ParsedFacts
  <2>5. config' = Parsed(loader'.buf)
    BY Zenon, <2>2, <2>4
  <2> HIDE DEF y
  <2> QED
    BY <1>1, <1>3, <1>4, <2>2, <2>5 DEF LoadInv
<1>8. CASE n # 7
  <2>1. loader' = [loader EXCEPT !.field = n + 1]
    BY <1>8, FieldFacts DEF StoreField
  <2>2. loader' \in Loader /\ loader'.pc = "store" /\ loader'.buf = y /\ loader'.field = n + 1
    BY <1>1, <1>8, <2>1, FieldFacts DEF Loader
  <2>3. 1..(loader'.field - 1) = 1..n
    BY <1>1, <2>2
  <2>4. \A i \in 1..(loader'.field - 1) : config'[Fields[i]] = Parsed(loader'.buf)[Fields[i]]
    <3>1. SUFFICES ASSUME NEW i \in 1..(loader'.field - 1)
                   PROVE  config'[Fields[i]] = Parsed(loader'.buf)[Fields[i]]
      OBVIOUS
    <3>2. i \in 1..n
      BY Zenon, <2>3, <3>1
    <3>3. Parsed(loader'.buf) = Parsed(y)
      BY Zenon, <2>2
    <3>4. config'[Fields[i]] = Parsed(y)[Fields[i]]
      BY Zenon, <1>6, <3>2
    <3> HIDE DEF y, n
    <3> QED
      BY Zenon, <3>3, <3>4
  <2> HIDE DEF y, n
  <2> QED
    BY <1>1, <1>3, <1>4, <2>2, <2>4 DEF LoadInv
<1> QED
  BY <1>7, <1>8

LEMMA LoadSteps ==
  ASSUME LoadInv, ResetValid \/ ReadYaml \/ ValidateConfig \/ Publish
  PROVE  LoadInv'
<1>1. /\ loader \in Loader /\ valid \in BOOLEAN /\ file \in Yamls \cup {Unparsable}
      /\ config = [f \in FieldNames |-> config[f]]
  BY Zenon DEF LoadInv
<1>2. CASE ResetValid
  <2>1. loader' \in Loader /\ loader'.pc = "read" /\ loader'.field = loader.field
    BY Zenon, <1>1, <1>2, LoaderAt DEF ResetValid
  <2>2. valid' = FALSE /\ config' = config /\ file' = file
    BY Zenon, <1>2 DEF ResetValid, loading
  <2> QED
    BY Zenon, <1>1, <1>2, <2>1, <2>2 DEF LoadInv, ResetValid
<1>3. CASE ReadYaml
  <2>1. valid' = valid /\ config' = config /\ file' = file
    BY Zenon, <1>3 DEF ReadYaml, loading
  <2>2. valid = FALSE
    BY <1>1, <1>3 DEF ReadYaml, LoadInv
  <2>3. CASE Retry
    BY Zenon, <2>1, <2>3, TurnLoad DEF Retry
  <2>4. CASE file # Unparsable /\ loader' = [loader EXCEPT !.pc = "store", !.buf = file]
    <3> HIDE DEF LoadInv
    <3>1. file \in Yamls
      BY Zenon, <1>1, <2>4
    <3>2. loader' \in Loader /\ loader'.pc = "store" /\ loader'.buf \in Yamls
      BY Zenon, <1>1, <2>4, <3>1 DEF Loader
    <3>3. loader'.field = 1
      <4>1. loader.field = 1
        BY <1>3 DEF ReadYaml, LoadInv
      <4> QED
        BY <1>1, <2>4, <4>1 DEF Loader
    <3> QED
      BY <1>1, <2>1, <2>2, <3>2, <3>3 DEF LoadInv
  <2> QED
    BY Zenon, <1>3, <2>3, <2>4 DEF ReadYaml
<1>4. CASE ValidateConfig
  <2>1. /\ loader.pc = "validate" /\ config' = validatePortSetDefault(config)
        /\ valid' = valid /\ file' = file
    BY Zenon, <1>4 DEF ValidateConfig, loading
  <2>2. config = Parsed(loader.buf) /\ loader.buf \in Yamls /\ valid = FALSE
    BY <1>1, <2>1 DEF LoadInv
  <2>3. config' = [f \in FieldNames |-> config'[f]]
    BY Zenon, <1>1, <2>1, DefaultPort
  <2>4. CASE Validate(config) /\ loader' = [loader EXCEPT !.pc = "publish"]
    <3>1. loader' \in Loader /\ loader'.pc = "publish" /\ loader'.buf = loader.buf
      BY Zenon, <1>1, <2>4, LoaderAt
    <3>2. Passed(loader.buf)'
      BY Zenon, <2>1, <2>2, <2>4, <3>1 DEF Passed
    <3> QED
      BY <1>1, <2>1, <2>2, <2>3, <3>1, <3>2 DEF LoadInv
  <2>5. CASE Retry
    <3>1. loader' \in Loader /\ loader'.pc = "reset" /\ loader'.field = 1
      BY Zenon, <2>5, NewLoads DEF Retry
    <3> QED
      BY <1>1, <2>1, <2>2, <2>3, <3>1 DEF LoadInv
  <2> QED
    BY Zenon, <1>4, <2>4, <2>5 DEF ValidateConfig
<1>5. CASE Publish
  <2>1. /\ loader.pc = "publish" /\ valid' = TRUE /\ config' = config /\ file' = file
        /\ loader' = [loader EXCEPT !.pc = "send"]
    BY Zenon, <1>5 DEF Publish, loading
  <2>2. loader' \in Loader /\ loader'.pc = "send" /\ loader'.buf = loader.buf
    BY Zenon, <1>1, <2>1, LoaderAt
  <2>3. loader.buf \in Yamls /\ Passed(loader.buf)
    BY <2>1 DEF LoadInv
  <2>4. Passed(loader.buf)'
    BY Zenon, <2>1, <2>2, <2>3 DEF Passed
  <2>5. (\E y \in Yamls : Passed(y))'
    BY Zenon, <2>2, <2>3, <2>4
  <2> QED
    BY <1>1, <2>1, <2>2, <2>3, <2>4, <2>5 DEF LoadInv
<1> QED
  BY <1>2, <1>3, <1>4, <1>5

LEMMA NextLoad == LoadInv /\ [Next]_vars => LoadInv'
<1> SUFFICES ASSUME LoadInv, [Next]_vars PROVE LoadInv'
  OBVIOUS
<1>1. file \in Yamls \cup {Unparsable}
  BY Zenon DEF LoadInv
<1>2. ASSUME NEW y \in Yamls \cup {Unparsable}, ChangeFile(y) PROVE LoadInv'
  BY Zenon, <1>2, FrameLoad DEF ChangeFile
<1>3. CASE ResetValid \/ ReadYaml \/ ValidateConfig \/ Publish
  BY Zenon, <1>3, LoadSteps
<1>4. CASE StoreField
  BY Zenon, <1>4, StoreLoad
<1>5. CASE StartUp \/ Loaded \/ TakeEvent
  BY Zenon, <1>5, TurnLoad DEF StartUp, Loaded, TakeEvent, loading
<1>6. CASE Poll \/ Notify \/ NewDownloaders \/ NewUploaders \/ SetUsers
  BY Zenon, <1>1, <1>6, FrameLoad
  DEF Poll, Notify, NewDownloaders, NewUploaders, SetUsers, loading
<1>7. ASSUME NEW k \in Loops, LoopStep(k) PROVE LoadInv'
  BY Zenon, <1>1, <1>7, FrameLoad DEF LoopStep, waitConfigValid, ReadFlag, EndRound, loading
<1>8. CASE UNCHANGED vars
  BY Zenon, <1>1, <1>8, FrameLoad DEF vars
<1> QED
  BY Zenon, <1>2, <1>3, <1>4, <1>5, <1>6, <1>7, <1>8 DEF Next, Load, Reload

\* While valid is set, the configuration is one content of the file as a whole, with the
\* default port, and acceptable (config.go:137, :185-202); for any contents of the file and any
\* number of changes and of failing reads.
THEOREM ValidMeansValidatedHolds == Spec => []ValidMeansValidated
<1>1. LoadInv => ValidMeansValidated
  BY Zenon, PassedAcceptable DEF LoadInv, ValidMeansValidated, Passed
<1> QED
  BY <1>1, InitLoad, NextLoad, PTL DEF Spec

-----------------------------------------------------------------------------
(***************************************************************************)
(* LoginsKept.  The configuration is a mixture of two files while one is   *)
(* loaded, but its users are always those of one file; what is inductive   *)
(* (UsersInv) is that the users in force and those of the configuration    *)
(* are each the merged lists of some file.                                 *)
(***************************************************************************)

Merged(us) == \E y \in Yamls : us = mergeStagingCleanDirUsers(y)
UsersInv == main = "up" => Merged(users) /\ Merged(config.Users)

LEMMA ParsedUsers ==
  ASSUME NEW y
  PROVE  Parsed(y)["Users"] = mergeStagingCleanDirUsers(y)
<1>1. "Users" \in FieldNames
  BY FieldFacts
<1> QED
  BY Zenon, <1>1 DEF Parsed, FieldNames

\* The users of a configuration that has passed are those of its file.
LEMMA PassedUsers ==
  ASSUME NEW y \in Yamls, Passed(y)
  PROVE  Merged(config.Users)
<1>1. \A f \in FieldNames : f # "SftpPort" => config[f] = Parsed(y)[f]
  BY Zenon, ParsedFacts, DefaultPort DEF Passed
<1>2. config["Users"] = Parsed(y)["Users"]
  BY <1>1, FieldFacts
<1> QED
  BY Zenon, <1>2, ParsedUsers DEF Merged

LEMMA NextUsers == LoadInv /\ UsersInv /\ [Next]_vars => UsersInv'
<1> SUFFICES ASSUME LoadInv, UsersInv, [Next]_vars PROVE UsersInv'
  OBVIOUS
<1> USE DEF loading, using
<1>0. ASSUME UNCHANGED <<config, main, users>> PROVE UsersInv'
  BY Zenon, <1>0 DEF UsersInv, Merged
<1>1. ASSUME NEW y \in Yamls \cup {Unparsable}, ChangeFile(y) PROVE UsersInv'
  BY Zenon, <1>0, <1>1 DEF ChangeFile
<1>2. CASE ResetValid \/ ReadYaml \/ Publish
  BY Zenon, <1>0, <1>2 DEF ResetValid, ReadYaml, Publish
<1>3. CASE StoreField
  <2>1. /\ loader.buf \in Yamls /\ config = [f \in FieldNames |-> config[f]]
        /\ main' = main /\ users' = users
    BY Zenon, <1>3 DEF StoreField, LoadInv
  <2>2. config' = [config EXCEPT ![Fields[loader.field]] = Parsed(loader.buf)[Fields[loader.field]]]
    BY Zenon, <1>3 DEF StoreField
  <2>3. "Users" \in FieldNames
    BY FieldFacts
  <2>4. config'["Users"] = config["Users"] \/ config'["Users"] = Parsed(loader.buf)["Users"]
    BY <2>1, <2>2, <2>3
  <2>5. Merged(config.Users) => Merged(config'.Users)
    BY Zenon, <2>1, <2>4, ParsedUsers DEF Merged
  <2> QED
    BY Zenon, <2>1, <2>5 DEF UsersInv, Merged
<1>4. CASE ValidateConfig
  <2>1. /\ config = [f \in FieldNames |-> config[f]] /\ main' = main /\ users' = users
        /\ config' = validatePortSetDefault(config)
    BY Zenon, <1>4 DEF ValidateConfig, LoadInv
  <2>2. \A f \in FieldNames : f # "SftpPort" => config'[f] = config[f]
    BY Zenon, <2>1, DefaultPort
  <2>3. config'["Users"] = config["Users"]
    BY <2>2, FieldFacts
  <2> QED
    BY Zenon, <2>1, <2>3 DEF UsersInv, Merged
<1>5. CASE StartUp
  <2>1. loader.buf \in Yamls /\ Passed(loader.buf)
    BY <1>5 DEF StartUp, LoadInv
  <2>2. Merged(config.Users)
    BY Zenon, <2>1, PassedUsers
  <2>3. users' = config.Users /\ config' = config
    BY Zenon, <1>5 DEF StartUp
  <2> QED
    BY Zenon, <2>2, <2>3 DEF UsersInv, Merged
<1>6. CASE SetUsers
  <2>1. users' = config.Users /\ config' = config /\ main' = main
    BY Zenon, <1>6 DEF SetUsers
  <2> QED
    BY Zenon, <2>1 DEF UsersInv, Merged
<1>7. CASE Loaded \/ Poll \/ TakeEvent \/ Notify \/ NewDownloaders \/ NewUploaders
  BY Zenon, <1>0, <1>7 DEF Loaded, Poll, TakeEvent, Notify, NewDownloaders, NewUploaders
<1>8. ASSUME NEW k \in Loops, LoopStep(k) PROVE UsersInv'
  BY Zenon, <1>0, <1>8 DEF LoopStep, waitConfigValid, ReadFlag, EndRound
<1>9. CASE UNCHANGED vars
  BY Zenon, <1>0, <1>9 DEF vars
<1> QED
  BY Zenon, <1>1, <1>2, <1>3, <1>4, <1>5, <1>6, <1>7, <1>8, <1>9 DEF Next, Load, Reload

\* The merged list has the logins of both lists and no others, in the fields a login needs.
LEMMA MergedLogins ==
  ASSUME NEW y \in Yamls
  PROVE  LET us == mergeStagingCleanDirUsers(y)
         IN /\ DOMAIN us \subseteq Nat
            /\ \A v \in Listed(y) : \E i \in DOMAIN us : us[i].Username = v.Username
                 /\ us[i].Password = v.Password /\ us[i].PublicKey = v.PublicKey
            /\ \A i \in DOMAIN us : \E v \in Listed(y) : us[i].Username = v.Username
                 /\ us[i].Password = v.Password /\ us[i].PublicKey = v.PublicKey
<1> DEFINE s == y.StagingDirUsers
           c == y.CleanDirUsers
           M(v) == [v EXCEPT !.IsCleanDirUser = TRUE]
           t == [i \in DOMAIN c |-> M(c[i])]
           us == s \o t
<1>1. /\ s \in Seq(ToSet(s)) /\ c \in Seq(ToSet(c))
      /\ \A v \in ToSet(c) : {"Username", "Password", "PublicKey", "JailDirectory", "IsCleanDirUser"} = DOMAIN v
  BY Zenon, ConfigAssumptions
<1>2. \A i \in DOMAIN c : c[i] \in ToSet(c)
  BY Zenon DEF ToSet
<1>3. ASSUME NEW i \in DOMAIN c
      PROVE  /\ t[i].Username = c[i].Username /\ t[i].Password = c[i].Password
             /\ t[i].PublicKey = c[i].PublicKey
  <2>1. t[i] = M(c[i])
    BY Zenon
  <2>2. {"Username", "Password", "PublicKey", "JailDirectory", "IsCleanDirUser"} = DOMAIN c[i]
    BY Zenon, <1>1, <1>2
  <2>3. PICK v : v = c[i]
    BY Zenon
  <2>4. M(v).Username = v.Username /\ M(v).Password = v.Password /\ M(v).PublicKey = v.PublicKey
    <3>1. {"Username", "Password", "PublicKey", "JailDirectory", "IsCleanDirUser"} = DOMAIN v
      BY Zenon, <2>2, <2>3
    <3> QED
      BY ONLY <3>1
  <2> QED
    BY Zenon, <2>1, <2>3, <2>4
<1>4. /\ Len(s) \in Nat /\ DOMAIN s = 1..Len(s) /\ Len(c) \in Nat /\ DOMAIN c = 1..Len(c)
  <2> HIDE DEF s, c
  <2> QED
    BY <1>1
<1>5. PICK T : s \in Seq(T) /\ t \in Seq(T) /\ Len(t) = Len(c)
  <2> DEFINE T == ToSet(s) \cup {M(v) : v \in ToSet(c)}
  <2>1. /\ \A i \in DOMAIN c : M(c[i]) \in T
        /\ \A i \in DOMAIN s : s[i] \in T
    BY Zenon, <1>2 DEF ToSet
  <2>2. s \in [1..Len(s) -> T]
    <3> HIDE DEF s, c, T, M
    <3> QED
      BY <1>1, <1>4, <2>1
  <2>3. t \in [1..Len(c) -> T]
    <3> HIDE DEF s, c, T, M
    <3> QED
      BY <1>4, <2>1
  <2> HIDE DEF s, c, t, T, M
  <2>4. s \in Seq(T)
    BY <1>4, <2>2
  <2>5. t \in Seq(T) /\ Len(t) = Len(c)
    BY <1>4, <2>3
  <2> QED
    BY <2>4, <2>5
<1>6. /\ DOMAIN us = 1..(Len(s) + Len(c))
      /\ \A i \in 1..(Len(s) + Len(c)) : us[i] = IF i <= Len(s) THEN s[i] ELSE t[i - Len(s)]
  <2> HIDE DEF s, c, t
  <2> QED
    BY <1>4, <1>5
<1>7. \A i \in DOMAIN s : i \in DOMAIN us /\ us[i] = s[i]
  <2> HIDE DEF s, c, t, us
  <2> QED
    BY <1>4, <1>6
<1>8. \A i \in DOMAIN c : Len(s) + i \in DOMAIN us /\ us[Len(s) + i] = t[i]
  <2> HIDE DEF s, c, t, us
  <2> QED
    BY <1>4, <1>6
<1>9. \A i \in DOMAIN us : (i \in DOMAIN s /\ us[i] = s[i])
                           \/ (i - Len(s) \in DOMAIN c /\ us[i] = t[i - Len(s)])
  <2> HIDE DEF s, c, t, us
  <2> QED
    BY <1>4, <1>6
<1>10. DOMAIN us \subseteq Nat
  <2> HIDE DEF s, c, us
  <2> QED
    BY <1>4, <1>6
<1>11. ASSUME NEW v \in Listed(y)
       PROVE  \E i \in DOMAIN us : us[i].Username = v.Username
                /\ us[i].Password = v.Password /\ us[i].PublicKey = v.PublicKey
  <2>1. CASE v \in ToSet(s)
    BY Zenon, <1>7, <2>1 DEF ToSet
  <2>2. CASE v \in ToSet(c)
    <3>1. PICK i \in DOMAIN c : v = c[i]
      BY Zenon, <2>2 DEF ToSet
    <3>2. PICK j : j = Len(s) + i
      BY Zenon
    <3>3. j \in DOMAIN us /\ us[j] = t[i]
      BY Zenon, <1>8, <3>2
    <3>4. t[i].Username = v.Username /\ t[i].Password = v.Password /\ t[i].PublicKey = v.PublicKey
      BY Zenon, <1>3, <3>1
    <3> HIDE DEF us, t
    <3> QED
      BY Zenon, <3>3, <3>4
  <2> QED
    BY Zenon, <2>1, <2>2 DEF Listed
<1>12. ASSUME NEW i \in DOMAIN us
       PROVE  \E v \in Listed(y) : us[i].Username = v.Username
                /\ us[i].Password = v.Password /\ us[i].PublicKey = v.PublicKey
  <2>1. CASE i \in DOMAIN s /\ us[i] = s[i]
    BY Zenon, <2>1 DEF ToSet, Listed
  <2>2. CASE i - Len(s) \in DOMAIN c /\ us[i] = t[i - Len(s)]
    <3>1. PICK j \in DOMAIN c : us[i] = t[j]
      <4> HIDE DEF us, s, c, t
      <4> QED
        BY Zenon, <2>2
    <3>2. PICK v : v = c[j]
      BY Zenon
    <3>3. v \in Listed(y)
      BY Zenon, <3>2 DEF ToSet, Listed
    <3>4. t[j].Username = v.Username /\ t[j].Password = v.Password /\ t[j].PublicKey = v.PublicKey
      BY Zenon, <1>3, <3>2
    <3> HIDE DEF us, s, c, t
    <3> QED
      BY Zenon, <3>1, <3>3, <3>4
  <2> QED
    <3> HIDE DEF us, s, c, t
    <3> QED
      BY Zenon, <1>9, <2>1, <2>2
<1> QED
  BY Zenon, <1>10, <1>11, <1>12 DEF mergeStagingCleanDirUsers

\* The look-ups, on any list: who has a password or a key in it, and whether the keys under a
\* name can be parsed.
PassIn(us, name, pass) == \E i \in DOMAIN us : us[i].Username = name /\ us[i].Password = pass
KeyIn(us, name, key) == \E i \in DOMAIN us : us[i].Username = name /\ us[i].PublicKey = key
GoodKeys(us, name) == \A i \in DOMAIN us : us[i].Username = name => us[i].PublicKey \notin BadKeys

LEMMA Accepts ==
  ASSUME NEW us, NEW hits
  PROVE  Accept(us, hits).ok <=> hits # {}
<1>1. CASE hits = {}
  <2>1. Refused.ok = FALSE
    BY DEF Refused
  <2> QED
    BY Zenon, <1>1, <2>1 DEF Accept
<1>2. CASE hits # {}
  <2>1. Accept(us, hits) = [user |-> us[Min(hits)], ok |-> TRUE]
    BY Zenon, <1>2 DEF Accept
  <2> QED
    BY <1>2, <2>1
<1> QED
  BY <1>1, <1>2

\* A password lets in whoever has it under that name.
LEMMA PassLookUp ==
  ASSUME NEW us, NEW name, NEW pass
  PROVE  AuthPass(us, name, pass).ok <=> PassIn(us, name, pass)
BY Zenon, Accepts DEF AuthPass, PassIn

\* A key lets in only who has it under that name, and lets them in if the keys under that name
\* can be parsed.
LEMMA KeyLookUp ==
  ASSUME NEW us, NEW name, NEW key, DOMAIN us \subseteq Nat
  PROVE  /\ AuthPublicKey(us, name, key).ok => KeyIn(us, name, key)
         /\ KeyIn(us, name, key) /\ GoodKeys(us, name) => AuthPublicKey(us, name, key).ok
<1> DEFINE ends == {i \in DOMAIN us : us[i].Username = name /\ us[i].PublicKey \in BadKeys \cup {key}}
           r == AuthPublicKey(us, name, key)
<1>1. Refused.ok = FALSE
  BY DEF Refused
<1>2. r = IF ends # {} /\ us[Min(ends)].PublicKey \in BadKeys THEN Refused ELSE Accept(us, ends)
  BY Zenon DEF AuthPublicKey
<1>3. ends # {} => Min(ends) \in ends
  BY Zenon, MinIsLeast
<1>4. r.ok <=> ends # {} /\ us[Min(ends)].PublicKey \notin BadKeys
  <2> HIDE DEF ends, r
  <2> QED
    BY Zenon, <1>1, <1>2, Accepts
<1>5. ASSUME r.ok PROVE KeyIn(us, name, key)
  BY Zenon, <1>3, <1>4, <1>5 DEF KeyIn
<1>6. ASSUME KeyIn(us, name, key), GoodKeys(us, name) PROVE r.ok
  <2>1. ends # {}
    BY Zenon, <1>6 DEF KeyIn
  <2>2. us[Min(ends)].PublicKey \notin BadKeys
    BY Zenon, <1>3, <1>6, <2>1 DEF GoodKeys
  <2> QED
    BY Zenon, <1>4, <2>1, <2>2
<1> QED
  BY Zenon, <1>5, <1>6

\* So the logins of a merged list are those of the file.
LEMMA LoginsOfFile ==
  ASSUME NEW y \in Yamls, NEW us, us = mergeStagingCleanDirUsers(y), NEW name, NEW pass, NEW key
  PROVE  /\ AuthPass(us, name, pass).ok <=> HasPass(y, name, pass)
         /\ AuthPublicKey(us, name, key).ok => HasKey(y, name, key)
         /\ HasKey(y, name, key) /\ KeysParse(y, name) => AuthPublicKey(us, name, key).ok
<1> DEFINE Same(u, v) == u.Username = v.Username /\ u.Password = v.Password /\ u.PublicKey = v.PublicKey
<1>1. /\ DOMAIN us \subseteq Nat
      /\ \A v \in Listed(y) : \E i \in DOMAIN us : Same(us[i], v)
      /\ \A i \in DOMAIN us : \E v \in Listed(y) : Same(us[i], v)
  BY Zenon, MergedLogins
<1>2. AuthPass(us, name, pass).ok <=> PassIn(us, name, pass)
  BY Zenon, PassLookUp
<1>3. PassIn(us, name, pass) => HasPass(y, name, pass)
  <2>1. SUFFICES ASSUME NEW i \in DOMAIN us, us[i].Username = name, us[i].Password = pass
                 PROVE  HasPass(y, name, pass)
    BY Zenon DEF PassIn
  <2>2. PICK v \in Listed(y) : Same(us[i], v)
    BY Zenon, <1>1
  <2> QED
    BY Zenon, <2>1, <2>2 DEF HasPass
<1>4. HasPass(y, name, pass) => PassIn(us, name, pass)
  <2>1. SUFFICES ASSUME NEW v \in Listed(y), v.Username = name, v.Password = pass
                 PROVE  PassIn(us, name, pass)
    BY Zenon DEF HasPass
  <2>2. PICK i \in DOMAIN us : Same(us[i], v)
    BY Zenon, <1>1
  <2> QED
    BY Zenon, <2>1, <2>2 DEF PassIn
<1>5. KeyIn(us, name, key) => HasKey(y, name, key)
  <2>1. SUFFICES ASSUME NEW i \in DOMAIN us, us[i].Username = name, us[i].PublicKey = key
                 PROVE  HasKey(y, name, key)
    BY Zenon DEF KeyIn
  <2>2. PICK v \in Listed(y) : Same(us[i], v)
    BY Zenon, <1>1
  <2> QED
    BY Zenon, <2>1, <2>2 DEF HasKey
<1>6. HasKey(y, name, key) => KeyIn(us, name, key)
  <2>1. SUFFICES ASSUME NEW v \in Listed(y), v.Username = name, v.PublicKey = key
                 PROVE  KeyIn(us, name, key)
    BY Zenon DEF HasKey
  <2>2. PICK i \in DOMAIN us : Same(us[i], v)
    BY Zenon, <1>1
  <2> QED
    BY Zenon, <2>1, <2>2 DEF KeyIn
<1>7. KeysParse(y, name) => GoodKeys(us, name)
  <2>1. SUFFICES ASSUME KeysParse(y, name), NEW i \in DOMAIN us, us[i].Username = name
                 PROVE  us[i].PublicKey \notin BadKeys
    BY Zenon DEF GoodKeys
  <2>2. PICK v \in Listed(y) : Same(us[i], v)
    BY Zenon, <1>1
  <2> QED
    BY Zenon, <2>1, <2>2 DEF KeysParse
<1>8. /\ AuthPublicKey(us, name, key).ok => KeyIn(us, name, key)
      /\ KeyIn(us, name, key) /\ GoodKeys(us, name) => AuthPublicKey(us, name, key).ok
  BY Zenon, <1>1, KeyLookUp
<1> QED
  BY Zenon, <1>2, <1>3, <1>4, <1>5, <1>6, <1>7, <1>8

\* With the list of users in force at any moment of any reload, a login that every content of the
\* file has works, in whichever of its two lists and at whatever position, and only logins of a
\* file work (config.go:178, :223-237, overlord.go:281, usergov.go:36-72); for any contents of the
\* file, any number of changes and of failing reads.
THEOREM LoginsKeptHolds == Spec => []LoginsKept
<1>1. Init => UsersInv
  BY DEF Init, UsersInv
<1>2. UsersInv => LoginsKept
  <2>1. SUFFICES ASSUME UsersInv, main = "up", NEW name, NEW pass, NEW key
                 PROVE  LoginKept(name, pass, key)
    BY Zenon DEF LoginsKept
  <2>2. PICK y \in Yamls : users = mergeStagingCleanDirUsers(y)
    BY Zenon, <2>1 DEF UsersInv, Merged
  <2>3. /\ AuthPass(users, name, pass).ok <=> HasPass(y, name, pass)
        /\ AuthPublicKey(users, name, key).ok => HasKey(y, name, key)
        /\ HasKey(y, name, key) /\ KeysParse(y, name) => AuthPublicKey(users, name, key).ok
    BY Zenon, <2>2, LoginsOfFile
  <2> QED
    BY Zenon, <2>3 DEF LoginKept
<1> QED
  BY <1>1, <1>2, InitLoad, NextLoad, NextUsers, PTL DEF Spec

-----------------------------------------------------------------------------
(* Types.  What is not in LoadInv and Waiting already.                     *)

Counts ==
  /\ changes \in 0..MaxChanges /\ polled \in 0..changes /\ faults \in 0..MaxFaults
  /\ event \in BOOLEAN /\ missed \in BOOLEAN
  /\ watch \in {"event", "load", "notify"}
  /\ notifier \in {"idle", "downloaders", "uploaders", "users"}
  /\ loop \in [Loops -> {"wait", "flag", "round"}]

LEMMA NextCounts == Counts /\ [Next]_vars => Counts'
<1> SUFFICES ASSUME Counts, [Next]_vars PROVE Counts'
  OBVIOUS
<1>0. MaxChanges \in Nat /\ MaxFaults \in Nat
  BY Zenon, ConfigAssumptions, FaultsAssumption
<1> USE <1>0 DEF Counts
<1>1. ASSUME NEW y \in Yamls \cup {Unparsable}, ChangeFile(y) PROVE Counts'
  <2>1. /\ UNCHANGED <<polled, faults, event, watch, notifier, loop>>
        /\ changes < MaxChanges /\ changes' = changes + 1
    BY Zenon, <1>1 DEF ChangeFile, using
  <2>2. missed' \in BOOLEAN
    BY Zenon, <1>1 DEF ChangeFile
  <2> QED
    BY <2>1, <2>2
<1>2. CASE ResetValid \/ StoreField \/ ValidateConfig \/ Publish
  BY <1>2 DEF ResetValid, StoreField, ValidateConfig, Publish, loading, using
<1>3. CASE ReadYaml
  BY <1>3 DEF ReadYaml, Fault, loading, using
<1>4. CASE StartUp
  BY <1>4 DEF StartUp
<1>5. CASE Loaded \/ Notify
  BY <1>5 DEF Loaded, Notify, loading
<1>6. CASE Poll
  BY <1>6 DEF Poll, using
<1>7. CASE TakeEvent
  BY Zenon, <1>7 DEF TakeEvent
<1>8. CASE NewDownloaders \/ NewUploaders \/ SetUsers
  BY <1>8 DEF NewDownloaders, NewUploaders, SetUsers, loading
<1>9. ASSUME NEW k \in Loops, LoopStep(k) PROVE Counts'
  <2>1. UNCHANGED <<changes, polled, faults, event, missed, watch, notifier>>
    BY Zenon, <1>9 DEF LoopStep, waitConfigValid, ReadFlag, EndRound, loading
  <2>2. \E q \in {"wait", "flag", "round"} : loop' = [loop EXCEPT ![k] = q]
    BY <1>9 DEF LoopStep, waitConfigValid, ReadFlag, EndRound
  <2> QED
    BY <2>1, <2>2
<1>10. CASE UNCHANGED vars
  BY Zenon, <1>10 DEF vars
<1> QED
  BY Zenon, <1>1, <1>2, <1>3, <1>4, <1>5, <1>6, <1>7, <1>8, <1>9, <1>10 DEF Next, Load, Reload

\* The types of the state; and a load is under way exactly when main or the watch waits for its
\* end, so that no load is ever without a receiver of configloaded and none has two (main.go,
\* filewatcher.go:318-351).
THEOREM ConfigTypes == Spec => []TypeOK
<1>1. Init => Counts
  <2>1. MaxChanges \in Nat /\ MaxFaults \in Nat
    BY Zenon, ConfigAssumptions, FaultsAssumption
  <2>2. ASSUME Init PROVE event \in BOOLEAN /\ missed \in BOOLEAN
    BY Zenon, <2>2 DEF Init
  <2>3. ASSUME Init PROVE loop \in [Loops -> {"wait", "flag", "round"}]
    BY Zenon, <2>3 DEF Init
  <2>4. ASSUME Init
        PROVE  changes = 0 /\ polled = 0 /\ faults = 0 /\ watch = "event" /\ notifier = "idle"
    BY Zenon, <2>4 DEF Init
  <2> QED
    BY <2>1, <2>2, <2>3, <2>4 DEF Counts
<1>2. LoadInv /\ ReloadInv /\ Counts => TypeOK
  <2>1. SUFFICES ASSUME LoadInv, ReloadInv, Counts PROVE TypeOK
    OBVIOUS
  <2>2. DOMAIN config = ToSet(Fields)
    BY Zenon, <2>1 DEF LoadInv, FieldNames
  <2>3. /\ loader.pc \in {"off", "reset", "read", "store", "validate", "publish", "send"}
        /\ loader.buf \in Yamls \cup {Unparsable} /\ loader.field \in 1..Len(Fields)
    BY <2>1 DEF LoadInv, Loader
  <2>4. {event, missed, valid} \subseteq BOOLEAN
    BY Zenon, <2>1 DEF LoadInv, Counts
  <2> QED
    BY Zenon, <2>1, <2>2, <2>3, <2>4 DEF TypeOK, LoadInv, Counts, ReloadInv, Waiting
<1> QED
  BY <1>1, <1>2, InitLoad, NextLoad, InitReload, NextReload, NextCounts, PTL DEF Spec
=============================================================================
