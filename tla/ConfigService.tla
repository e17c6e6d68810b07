---------------------------- MODULE ConfigService ----------------------------
(***************************************************************************)
(* Loading and reloading of ssftp.yaml (ssftp/config.go), the watch on the *)
(* file (ssftp/filewatcher.go), the start of the program (ssftp/main.go)   *)
(* and the goroutines that use the configuration: Overlord, which replaces *)
(* clients and users after a reload, and the three loops that look at the  *)
(* valid flag before each round (ssftp/overlord.go, filewatcher.go).       *)
(*                                                                         *)
(* The fields of Config are written one after the other into the one       *)
(* object that everybody reads.  The writer holds mux, but no reader takes *)
(* it.                                                                     *)
(***************************************************************************)
EXTENDS ConfigValidator, Faults

CONSTANTS
  Yamls,        \* the contents ssftp.yaml may have, as records
  Unparsable,   \* any content that does not unmarshal
  Loops,        \* the loops, by their flag: EnableFileScavenging, EnableSftpClientDownloader,
                \* EnableSftpClientUploader
  MaxChanges    \* bound: times the file is changed

\* The clients and the users of a file are lists, and users have the fields of User.
ASSUME ConfigAssumptions ==
  /\ Unparsable \notin Yamls /\ MaxChanges \in Nat
  /\ \A y \in Yamls : \A s \in {y.ClientDownloaders, y.ClientUploaders} :
       Len(s) \in Nat /\ DOMAIN s = 1..Len(s)
  /\ \A y \in Yamls : \A s \in {y.StagingDirUsers, y.CleanDirUsers} :
       /\ s \in Seq(ToSet(s))
       /\ \A v \in ToSet(s) :
            {"Username", "Password", "PublicKey", "JailDirectory", "IsCleanDirUser"} = DOMAIN v

\* In the order of the assignments; the flags are one.
Fields == <<"SftpPort", "Webhooks", "LogDests", "Flags", "Users", "ClientDownloaders",
            "ClientUploaders">>

VARIABLES
  file,       \* content of ssftp.yaml
  changes,    \* number of changes to it
  polled,     \* the number of the change the watcher has seen last
  event,      \* the watcher has an event to deliver
  missed,     \* history: a change fell between the first load and the beginning of the watch
  config,     \* ConfigService.config
  valid,      \* ConfigService.valid
  loader,     \* the goroutine of LoadYamlConfig; buf is what it has read
  main,       \* "load" until the first load is done, then "up"
  watch,      \* registerConfigFileChangeEvent: "event", "load" or "notify"
  notifier,   \* watchConfigFileChanges: "idle", "downloaders", "uploaders" or "users"
  pending,    \* the Downloaders of NewSFTPClients under construction
  clients,    \* Overlord.sftpclients: Downloaders and Uploaders
  users,      \* UserGov.Users
  loop        \* the loops: "wait" (for valid), "flag" (about to read theirs), "round"

vars == <<file, changes, polled, event, missed, config, valid, loader, main, watch, notifier,
          pending, clients, users, loop, faults>>
loading == <<file, changes, polled, event, missed>>
using == <<main, watch, notifier, pending, clients, users, loop>>

Parsed(y) == [f \in ToSet(Fields) |-> IF f = "Users" THEN mergeStagingCleanDirUsers(y) ELSE y[f]]
EmptyConfig ==
  [f \in ToSet(Fields) |-> IF f = "SftpPort" THEN 0
                           ELSE IF f = "Flags" THEN [k \in Loops |-> FALSE] ELSE <<>>]

NoLoad == [pc |-> "off", buf |-> Unparsable, field |-> 1]
NewLoad == [NoLoad EXCEPT !.pc = "reset"]

Init ==
  /\ file \in Yamls \cup {Unparsable}
  /\ changes = 0 /\ polled = 0 /\ event = FALSE /\ missed = FALSE
  /\ config = EmptyConfig /\ valid = FALSE
  /\ loader = NewLoad
  /\ main = "load" /\ watch = "event" /\ notifier = "idle"
  /\ pending = <<>> /\ clients = <<<<>>, <<>>>> /\ users = <<>>
  /\ loop = [k \in Loops |-> "wait"]
  /\ faults = 0

\* The administrator writes the file.
ChangeFile(y) ==
  /\ changes < MaxChanges
  /\ file' = y /\ changes' = changes + 1
  /\ missed' = FALSE
  /\ UNCHANGED <<polled, event, config, valid, loader, using, faults>>

-----------------------------------------------------------------------------
(* LoadYamlConfig.                                                         *)

Retry == loader' = NewLoad

\* Mutant: valid keeps its value while a load is under way.
ResetNothing ==
  /\ loader.pc = "reset"
  /\ loader' = [loader EXCEPT !.pc = "read"]
  /\ UNCHANGED <<loading, config, valid, using, faults>>

ResetValid ==
  /\ loader.pc = "reset"
  /\ valid' = FALSE
  /\ loader' = [loader EXCEPT !.pc = "read"]
  /\ UNCHANGED <<loading, config, using, faults>>

\* ReadFile and Unmarshal; on an error the load begins again after a pause.
ReadYaml ==
  /\ loader.pc = "read"
  /\ \/ file = Unparsable /\ Retry /\ UNCHANGED faults
     \/ Fault /\ Retry
     \/ /\ file # Unparsable
        /\ loader' = [loader EXCEPT !.pc = "store", !.buf = file]
        /\ UNCHANGED faults
  /\ UNCHANGED <<loading, config, valid, using>>

StoreField ==
  LET f == Fields[loader.field]
  IN /\ loader.pc = "store"
     /\ config' = [config EXCEPT ![f] = Parsed(loader.buf)[f]]
     /\ loader' = IF loader.field = Len(Fields) THEN [loader EXCEPT !.pc = "validate"]
                  ELSE [loader EXCEPT !.field = @ + 1]
     /\ UNCHANGED <<loading, valid, using, faults>>

\* Mutant: after a validation error the load is given up.
ValidateOnce ==
  /\ loader.pc = "validate"
  /\ config' = validatePortSetDefault(config)
  /\ loader' = [loader EXCEPT !.pc = IF Validate(config) THEN "publish" ELSE "stopped"]
  /\ UNCHANGED <<loading, valid, using, faults>>

\* Validate sets the default port in passing; with errors the load begins again.
ValidateConfig ==
  /\ loader.pc = "validate"
  /\ config' = validatePortSetDefault(config)
  /\ IF Validate(config) THEN loader' = [loader EXCEPT !.pc = "publish"] ELSE Retry
  /\ UNCHANGED <<loading, valid, using, faults>>

Publish ==
  /\ loader.pc = "publish"
  /\ valid' = TRUE
  /\ loader' = [loader EXCEPT !.pc = "send"]
  /\ UNCHANGED <<loading, config, using, faults>>

-----------------------------------------------------------------------------
(* The receivers of configloaded, and what they do with it.                *)

\* main: users and clients are taken from the configuration, the watch on the file begins with
\* the file as it is now, and the goroutines are started.
StartUp ==
  /\ loader.pc = "send" /\ main = "load"
  /\ loader' = NoLoad
  /\ main' = "up"
  /\ users' = config.Users
  /\ clients' = <<config.ClientDownloaders, config.ClientUploaders>>
  /\ polled' = changes
  /\ missed' = (file # loader.buf)
  /\ UNCHANGED <<file, changes, event, config, valid, watch, notifier, pending, loop, faults>>

\* The watcher compares the file with what it saw last; it waits until its event is taken.
Poll ==
  /\ main = "up" /\ ~event /\ polled # changes
  /\ polled' = changes /\ event' = TRUE
  /\ UNCHANGED <<file, changes, missed, config, valid, loader, using, faults>>

\* registerConfigFileChangeEvent takes the event and starts a load.
TakeEvent ==
  /\ event /\ watch = "event"
  /\ event' = FALSE /\ watch' = "load"
  /\ loader' = NewLoad
  /\ UNCHANGED <<file, changes, polled, missed, config, valid, main, notifier, pending, clients,
                 users, loop, faults>>

\* Mutant: the loop of LoadYamlConfig is not left.
LoadedAgain ==
  /\ loader.pc = "send" /\ watch = "load"
  /\ loader' = NewLoad /\ watch' = "notify"
  /\ UNCHANGED <<loading, config, valid, main, notifier, pending, clients, users, loop, faults>>

Loaded ==
  /\ loader.pc = "send" /\ watch = "load"
  /\ loader' = NoLoad /\ watch' = "notify"
  /\ UNCHANGED <<loading, config, valid, main, notifier, pending, clients, users, loop, faults>>

\* configChange: from here on the watcher may load again, while Overlord reads.
Notify ==
  /\ watch = "notify" /\ notifier = "idle"
  /\ watch' = "event" /\ notifier' = "downloaders"
  /\ UNCHANGED <<loading, config, valid, loader, main, pending, clients, users, loop, faults>>

\* NewSFTPClients: the Downloaders first.
NewDownloaders ==
  /\ notifier = "downloaders"
  /\ pending' = config.ClientDownloaders
  /\ notifier' = "uploaders"
  /\ UNCHANGED <<loading, config, valid, loader, main, watch, clients, users, loop, faults>>

NewUploaders ==
  /\ notifier = "uploaders"
  /\ clients' = <<pending, config.ClientUploaders>>
  /\ pending' = <<>>
  /\ notifier' = "users"
  /\ UNCHANGED <<loading, config, valid, loader, main, watch, users, loop, faults>>

\* Mutant: users are those of the start.
SetNoUsers ==
  /\ notifier = "users"
  /\ notifier' = "idle"
  /\ UNCHANGED <<loading, config, valid, loader, main, watch, pending, clients, users, loop, faults>>

SetUsers ==
  /\ notifier = "users"
  /\ users' = config.Users
  /\ notifier' = "idle"
  /\ UNCHANGED <<loading, config, valid, loader, main, watch, pending, clients, loop, faults>>

\* The loops: wait for valid, read the flag, do a round or sleep.
waitConfigValid(k) ==
  /\ main = "up" /\ loop[k] = "wait" /\ valid
  /\ loop' = [loop EXCEPT ![k] = "flag"]
  /\ UNCHANGED <<loading, config, valid, loader, main, watch, notifier, pending, clients, users,
                 faults>>

ReadFlag(k) ==
  /\ loop[k] = "flag"
  /\ loop' = [loop EXCEPT ![k] = IF config.Flags[k] THEN "round" ELSE "wait"]
  /\ UNCHANGED <<loading, config, valid, loader, main, watch, notifier, pending, clients, users,
                 faults>>

EndRound(k) ==
  /\ loop[k] = "round"
  /\ loop' = [loop EXCEPT ![k] = "wait"]
  /\ UNCHANGED <<loading, config, valid, loader, main, watch, notifier, pending, clients, users,
                 faults>>

Load == ResetValid \/ ReadYaml \/ StoreField \/ ValidateConfig \/ Publish \/ StartUp \/ Loaded
Reload == Poll \/ TakeEvent \/ Notify \/ NewDownloaders \/ NewUploaders \/ SetUsers
LoopStep(k) == waitConfigValid(k) \/ ReadFlag(k) \/ EndRound(k)

Next ==
  \/ \E y \in Yamls \cup {Unparsable} : ChangeFile(y)
  \/ Load \/ Reload
  \/ \E k \in Loops : LoopStep(k)

Spec == Init /\ [][Next]_vars

\* The goroutine that loads, those that react to it and the loops keep running; the watcher's
\* poll comes every 300 ms.
FairSpec ==
  Spec /\ WF_vars(Load) /\ WF_vars(Reload) /\ \A k \in Loops : WF_vars(LoopStep(k))

-----------------------------------------------------------------------------
TypeOK ==
  /\ file \in Yamls \cup {Unparsable} /\ changes \in 0..MaxChanges /\ polled \in 0..changes
  /\ {event, missed, valid} \subseteq BOOLEAN
  /\ DOMAIN config = ToSet(Fields)
  /\ loader.pc \in {"off", "reset", "read", "store", "validate", "publish", "send"}
  /\ loader.buf \in Yamls \cup {Unparsable} /\ loader.field \in 1..Len(Fields)
  /\ main \in {"load", "up"} /\ watch \in {"event", "load", "notify"}
  /\ notifier \in {"idle", "downloaders", "uploaders", "users"}
  /\ loop \in [Loops -> {"wait", "flag", "round"}] /\ faults \in 0..MaxFaults
  \* a load is under way exactly when somebody is waiting for its end
  /\ loader.pc = "off" <=> main = "up" /\ watch # "load"

\* While valid is set, the configuration is one content of the file as a whole, with the
\* default port, and it has passed Validate (config.go:137, :185-202).
ValidMeansValidated ==
  valid => \E y \in Yamls : /\ config = validatePortSetDefault(Parsed(y))
                            /\ Acceptable(config)

\* When no reload is under way the clients and the users are those of the configuration
\* (main.go:20, overlord.go:277-281), however reloads followed on each other.
InForce == clients = <<config.ClientDownloaders, config.ClientUploaders>> /\ users = config.Users
SettledInForce == main = "up" /\ watch = "event" /\ notifier = "idle" /\ loader.pc = "off" => InForce

\* A file that passes validation, if it is not changed any more, comes into force
\* (filewatcher.go:318-351): no change is overlooked and no failure ends the reloading; except
\* a change made between the first load and the beginning of the watch.
Rejected(y) == y = Unparsable \/ ~Validate(Parsed(y))
Converges ==
  []<>(\/ Rejected(file) \/ missed
       \/ valid /\ config = validatePortSetDefault(Parsed(file)) /\ InForce)

\* When the file has been replaced by one that does not pass, the loops come to rest until it
\* is put right: "pause execution while loading and checking config validity" (config.go:212).
PausedWhileRejected ==
  \A k \in Loops : <>[](Rejected(file) /\ ~missed) => <>[](loop[k] = "wait")

\* With the list of users in force at any moment of any reload, a login that every content of the
\* file has works, wherever in the file it is, also while a file that fails validation is loaded;
\* so does a key, if the keys under that name can be parsed.  And a login works only if a file has
\* it: nobody gets in with the password or the key of somebody else (config.go:178, :223-237,
\* overlord.go:281, usergov.go:36-72).
Listed(y) == ToSet(y.StagingDirUsers) \cup ToSet(y.CleanDirUsers)
HasPass(y, name, pass) == \E v \in Listed(y) : v.Username = name /\ v.Password = pass
HasKey(y, name, key) == \E v \in Listed(y) : v.Username = name /\ v.PublicKey = key
KeysParse(y, name) == \A v \in Listed(y) : v.Username = name => v.PublicKey \notin BadKeys
LoginKept(name, pass, key) ==
  /\ (\A y \in Yamls : HasPass(y, name, pass)) => AuthPass(users, name, pass).ok
  /\ (\A y \in Yamls : HasKey(y, name, key) /\ KeysParse(y, name)) => AuthPublicKey(users, name, key).ok
  /\ AuthPass(users, name, pass).ok => \E y \in Yamls : HasPass(y, name, pass)
  /\ AuthPublicKey(users, name, key).ok => \E y \in Yamls : HasKey(y, name, key)
LoginsKept ==
  main = "up" => \A v, w \in UNION {Listed(y) : y \in Yamls} :
                   LoginKept(v.Username, w.Password, w.PublicKey)

\* The users who may log in are those of a file that has passed validation: mux is there to
\* "block readers from reading config when config is loading" (config.go:53), SetUsers
\* (overlord.go:281) among them.
UsersValidated ==
  main = "up" => \E y \in Yamls : Validate(Parsed(y)) /\ users = mergeStagingCleanDirUsers(y)
=============================================================================
