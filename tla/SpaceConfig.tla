---------------------------- MODULE SpaceConfig ----------------------------
(***************************************************************************)
(* The configuration the Space serves: pool membership and service         *)
(* accounts.  Both are files of the raw Bucket log (the last write of a    *)
(* path is its value), a text cache of that log, and the copies in memory  *)
(* that requests are checked against.  Three parties work on them at once: *)
(* administrators' changes, the timer that follows the log, and the        *)
(* process, which may stop at any time and starts again from the log.      *)
(*                                                                         *)
(* One Space process runs at a time and is the only writer of the pool and *)
(* account paths; operators write the preset labels.  Its clock does not   *)
(* go back across a restart, as the last time it gave out is only in       *)
(* memory.  So the writes of one path arrive in the order of their keys.   *)
(***************************************************************************)
EXTENDS Naturals, Sequences

CONSTANTS Users,            \* users an administrator adds and removes
          BootstrapAdmins,  \* POOL_ADMINS
          BootstrapMembers, \* ALLOWED_USERS
          Orgs,             \* organizations an administrator may allow
          Accounts,         \* names of service accounts
          FirstFiles,       \* the files the log begins with
          PrepareMayFail,   \* storing a base for consumers may fail
          MaxChanges, MaxStops \* bounds on the behaviours checked

\* The registry the log begins with, if it is readable, holds accounts and keys
\* with the number 0: a key that is issued later is another one.
ASSUME FirstFilesAssumption ==
  \A files \in FirstFiles :
    \/ files.accounts = [malformed |-> TRUE]
    \/ files.accounts \in [known : SUBSET Accounts, active : SUBSET Accounts,
                          keys : SUBSET (Accounts \X {0})]

VARIABLES log,       \* configuration writes of the raw Bucket, in key order
          indexed,   \* how many of them the durable index holds
          text,      \* the text cache: path -> last value remembered
          served,    \* path -> [file, error] in memory
          writes,    \* path -> the change that is being written
          mutex,     \* who runs under the application's mutex
          refresh,   \* what the running refresh has found
          storage,   \* storageState
          contract,  \* contract of the restored index
          published, \* contract of the published index
          up,        \* the process is running
          changes, stops, \* counters for the bounds; changes also numbers the keys
          revoked    \* keys whose removal was acknowledged (history)

configVars == <<log, indexed, text, served, writes, mutex, refresh, storage, contract,
                published, up, changes, stops, revoked>>

Files == {"pool", "accounts"} \* the two files kept in memory
Paths == Files \cup {"labels"}

NoOrg == "no organization"
NoWrite == [stage |-> "none"]
NoRefresh == [step |-> "none"]
Malformed == [malformed |-> TRUE]

-----------------------------------------------------------------------------
(* What the files say. *)

NormalizeConfig(config) == [config EXCEPT !.members = @ \cup config.admins]
AdminSet(config) == config.admins \cup BootstrapAdmins
MemberSet(config) == config.members \cup AdminSet(config)

BootstrapConfig ==
  [members |-> BootstrapMembers \cup BootstrapAdmins, admins |-> BootstrapAdmins, org |-> NoOrg]

\* Accounts and credentials; a revoked account keeps its name.
EmptyFile == [known |-> {}, active |-> {}, keys |-> {}]

Fallback == [pool |-> BootstrapConfig, accounts |-> EmptyFile]

\* A file that cannot be read leaves the fallback in place, with an error.
Load(path, value) ==
  IF value = Malformed THEN [file |-> Fallback[path], error |-> TRUE]
  ELSE [file |-> IF path = "pool" THEN NormalizeConfig(value) ELSE value, error |-> FALSE]

LoadAll(cache) == [path \in Files |-> Load(path, cache[path])]

HasConfigError(path) == served[path].error

ActiveAccount(file, account) == account \in file.active

\* A credential is accepted only from a readable registry, for an active account.
Authenticates(key) ==
  /\ up /\ ~HasConfigError("accounts")
  /\ key \in served["accounts"].file.keys
  /\ ActiveAccount(served["accounts"].file, key[1])

-----------------------------------------------------------------------------
(* The log and its text cache. *)

WritesOf(path, prefix) == {i \in DOMAIN prefix : prefix[i].path = path}

LatestWrite(path, prefix) ==
  prefix[CHOOSE i \in WritesOf(path, prefix) : \A j \in WritesOf(path, prefix) : j <= i].value

PrimeTextCacheFromLatestWrites(prefix) == [path \in Paths |-> LatestWrite(path, prefix)]

\* Segments are applied in order; each write is remembered as it is applied.
ApplySegments(cache, tail) ==
  [path \in Paths |->
    IF WritesOf(path, tail) = {} THEN cache[path] ELSE LatestWrite(path, tail)]

RememberText(path, value) == text' = [text EXCEPT ![path] = value]

HasConfigurationWrites(from, to) == from < to

-----------------------------------------------------------------------------
(* Start-up: nothing is served before all of it has succeeded. *)

ConfigInit ==
  /\ \E files \in FirstFiles :
       log = <<[path |-> "pool", value |-> files.pool],
               [path |-> "accounts", value |-> files.accounts],
               [path |-> "labels", value |-> 1]>>
  /\ indexed = 0 /\ contract = 1 /\ published = 1
  /\ text = [path \in Paths |-> Malformed]
  /\ served = [path \in Files |-> [file |-> Fallback[path], error |-> TRUE]]
  /\ writes = [path \in Files |-> NoWrite]
  /\ mutex = "free" /\ refresh = NoRefresh /\ storage = "unknown" /\ up = FALSE
  /\ changes = 0 /\ stops = 0 /\ revoked = {}

StartUp ==
  /\ ~up /\ published = LatestWrite("labels", log)
  /\ up' = TRUE /\ storage' = "ready" /\ contract' = published
  /\ indexed' = Len(log)
  /\ text' = PrimeTextCacheFromLatestWrites(log)
  /\ served' = LoadAll(text')
  /\ UNCHANGED <<log, writes, mutex, refresh, published, changes, stops, revoked>>

Stop ==
  /\ up /\ stops < MaxStops
  /\ up' = FALSE /\ stops' = stops + 1 /\ storage' = "unknown"
  /\ text' = [path \in Paths |-> Malformed]
  /\ served' = [path \in Files |-> [file |-> Fallback[path], error |-> TRUE]]
  /\ writes' = [path \in Files |-> NoWrite]
  /\ mutex' = "free" /\ refresh' = NoRefresh
  /\ UNCHANGED <<log, indexed, contract, published, changes, revoked>>

\* Operators write preset labels of another contract and publish an index for them.
WriteLabels(labels) ==
  /\ changes < MaxChanges /\ changes' = changes + 1
  /\ log' = Append(log, [path |-> "labels", value |-> labels])
  /\ UNCHANGED <<indexed, text, served, writes, mutex, refresh, storage, contract, published,
                 up, stops, revoked>>

PublishReplacement ==
  /\ published # LatestWrite("labels", log)
  /\ published' = LatestWrite("labels", log)
  /\ UNCHANGED <<log, indexed, text, served, writes, mutex, refresh, storage, contract,
                 up, changes, stops, revoked>>

-----------------------------------------------------------------------------
(* Changes by administrators.  Each file has a queue of its own: the next  *)
(* change is computed from memory when the one before it has ended.        *)

PoolReady == storage = "ready" /\ \A path \in Files : ~HasConfigError(path)

Begin(path, value) ==
  /\ up /\ writes[path] = NoWrite
  /\ changes < MaxChanges /\ changes' = changes + 1
  /\ writes' = [writes EXCEPT ![path] = [stage |-> "writing", value |-> value]]
  /\ UNCHANGED <<log, indexed, text, served, refresh, storage, contract, published, up, stops,
                 revoked>>

\* Changes of service accounts and the repairs wait for the mutex; a request
\* that was admitted may find the pool no longer ready when its turn comes.
(* Mutant: the change does not wait for the mutex.                         *)
Unlocked == UNCHANGED mutex

Locked == mutex = "free" /\ mutex' = "change"

AddMember(config, user) ==
  /\ user \notin MemberSet(config)
  /\ Begin("pool", [config EXCEPT !.members = @ \cup {user}])

RemoveMember(config, user) ==
  /\ user \in config.members \ AdminSet(config)
  /\ Begin("pool", [config EXCEPT !.members = @ \ {user}])

AddAdmin(config, user) ==
  /\ user \notin AdminSet(config)
  /\ Begin("pool", [config EXCEPT !.admins = @ \cup {user}, !.members = @ \cup {user}])

RemoveAdmin(config, user) ==
  /\ user \in config.admins \ BootstrapAdmins
  /\ (config.admins \ {user}) \cup BootstrapAdmins # {}
  /\ Begin("pool", [config EXCEPT !.admins = @ \ {user}])

SetMemberOrg(config, org) ==
  /\ org # config.org
  /\ Begin("pool", [config EXCEPT !.org = org])

\* The routes of the pool's members, admins and organization take no mutex.
ChangePool ==
  /\ PoolReady
  /\ \/ \E user \in Users : \/ AddMember(served["pool"].file, user)
                            \/ RemoveMember(served["pool"].file, user)
                            \/ AddAdmin(served["pool"].file, user)
                            \/ RemoveAdmin(served["pool"].file, user)
     \/ \E org \in Orgs \cup {NoOrg} : SetMemberOrg(served["pool"].file, org)
  /\ UNCHANGED mutex

IssueKey(account) == <<account, changes + 1>>

Issue(file, account) ==
  /\ account \notin file.known
  /\ Begin("accounts", [known |-> file.known \cup {account}, active |-> file.active \cup {account},
                        keys |-> file.keys \cup {IssueKey(account)}])

Rotate(file, account) ==
  /\ ActiveAccount(file, account)
  /\ Begin("accounts", [file EXCEPT !.keys = @ \cup {IssueKey(account)}])

RevokeKey(file, key) ==
  /\ ActiveAccount(file, key[1])
  /\ Begin("accounts", [file EXCEPT !.keys = @ \ {key}])

Revoke(file, account) ==
  /\ ActiveAccount(file, account)
  /\ Begin("accounts", [file EXCEPT !.active = @ \ {account},
                                    !.keys = {key \in @ : key[1] # account}])

ChangeAccounts ==
  /\ ~HasConfigError("accounts")
  /\ \/ \E account \in Accounts : \/ Issue(served["accounts"].file, account)
                                  \/ Rotate(served["accounts"].file, account)
                                  \/ Revoke(served["accounts"].file, account)
     \/ \E key \in served["accounts"].file.keys : RevokeKey(served["accounts"].file, key)
  /\ Locked

\* A malformed file is replaced: the pool's by what is served in its place.
RepairConfig ==
  /\ HasConfigError("pool")
  /\ Begin("pool", served["pool"].file)
  /\ Locked

RepairAccounts ==
  /\ HasConfigError("accounts")
  /\ Begin("accounts", EmptyFile)
  /\ Locked

Lands(path) ==
  /\ writes[path].stage = "writing"
  /\ log' = Append(log, [path |-> path, value |-> writes[path].value])
  /\ writes' = [writes EXCEPT ![path].stage = "landed"]
  /\ UNCHANGED <<indexed, text, served, mutex, refresh, storage, contract, published, up,
                 changes, stops, revoked>>

\* The change leaves its queue, and the mutex if it ran under it.
Leaves(path) ==
  /\ writes' = [writes EXCEPT ![path] = NoWrite]
  /\ mutex' = IF mutex = "change" /\ (path = "accounts" \/ HasConfigError(path)) THEN "free"
              ELSE mutex

\* The stored segment was read back: memory follows, and the answer is sent.
Acknowledged(path) ==
  /\ writes[path].stage = "landed"
  /\ RememberText(path, writes[path].value)
  /\ served' = [served EXCEPT ![path] = Load(path, writes[path].value)]
  /\ revoked' = IF path = "accounts"
                THEN revoked \cup (served[path].file.keys \ writes[path].value.keys)
                ELSE revoked
  /\ Leaves(path)
  /\ UNCHANGED <<log, indexed, refresh, storage, contract, published, up, changes, stops>>

\* The upload or its read-back failed: an error is answered, whether or not
\* the segment is stored.
Fails(path) ==
  /\ writes[path] # NoWrite
  /\ Leaves(path)
  /\ UNCHANGED <<log, indexed, text, served, refresh, storage, contract, published, up,
                 changes, stops, revoked>>

-----------------------------------------------------------------------------
(* The timer that follows the log, under the mutex. *)

Discover ==
  /\ up /\ mutex = "free"
  /\ mutex' = "refresh"
  /\ refresh' = [step |-> "discovered", seen |-> Len(log)]
  /\ UNCHANGED <<log, indexed, text, served, writes, storage, contract, published, up,
                 changes, stops, revoked>>

(* Mutant: the failure is logged and not reported.                         *)
RefreshFailsQuietly ==
  /\ refresh # NoRefresh /\ refresh.step # "advanced"
  /\ refresh' = NoRefresh /\ mutex' = "free"
  /\ UNCHANGED <<log, indexed, text, served, writes, storage, contract, published, up, changes,
                 stops, revoked>>

\* Any request to the Bucket may fail, and new labels must keep the contract.
\* After the index has advanced, the one request left is the base that
\* ConsumerSourceStore.prepare stores when the source has outgrown the last one.
RefreshFails ==
  /\ refresh # NoRefresh
  /\ refresh.step = "advanced" => PrepareMayFail
  /\ refresh' = NoRefresh /\ mutex' = "free" /\ storage' = "invalid"
  /\ UNCHANGED <<log, indexed, text, served, writes, contract, published, up, changes, stops,
                 revoked>>

Prime ==
  /\ refresh.step = "discovered"
  /\ HasConfigurationWrites(indexed, refresh.seen)
  /\ text' = PrimeTextCacheFromLatestWrites(SubSeq(log, 1, refresh.seen))
  /\ refresh' = [refresh EXCEPT !.step = "primed"]
  /\ UNCHANGED <<log, indexed, served, writes, mutex, storage, contract, published, up,
                 changes, stops, revoked>>

AdvanceToDiscovered ==
  /\ refresh.step = "primed"
  /\ text["labels"] = contract
  /\ text' = ApplySegments(text, SubSeq(log, indexed + 1, refresh.seen))
  /\ indexed' = refresh.seen
  /\ refresh' = [refresh EXCEPT !.step = "advanced"]
  /\ UNCHANGED <<log, served, writes, mutex, storage, contract, published, up, changes,
                 stops, revoked>>

\* A reload takes its turn in the queue of changes of its file.
Reload ==
  /\ refresh.step = "advanced" /\ writes["pool"] = NoWrite
  /\ served' = LoadAll(text)
  /\ refresh' = NoRefresh /\ mutex' = "free" /\ storage' = "ready"
  /\ UNCHANGED <<log, indexed, text, writes, contract, published, up, changes, stops, revoked>>

NothingChanged ==
  /\ refresh.step = "discovered"
  /\ ~HasConfigurationWrites(indexed, refresh.seen)
  /\ refresh' = NoRefresh /\ mutex' = "free" /\ storage' = "ready"
  /\ UNCHANGED <<log, indexed, text, served, writes, contract, published, up, changes, stops,
                 revoked>>

-----------------------------------------------------------------------------

Refresh == Discover \/ RefreshFails \/ Prime \/ AdvanceToDiscovered \/ Reload \/ NothingChanged
Write == \E path \in Files : Lands(path) \/ Acknowledged(path) \/ Fails(path)

ConfigNext ==
  \/ StartUp \/ Stop
  \/ \E labels \in {1, 2} : WriteLabels(labels)
  \/ PublishReplacement
  \/ ChangePool \/ ChangeAccounts
  \/ RepairConfig \/ RepairAccounts
  \/ Write \/ Refresh

\* The timer is set again whatever became of the last refresh, and a request to
\* the Bucket ends, if only in a failure.
ConfigSpec ==
  /\ ConfigInit /\ [][ConfigNext]_configVars
  /\ WF_configVars(Refresh) /\ WF_configVars(Write) /\ WF_configVars(StartUp)

-----------------------------------------------------------------------------
(* Properties. *)

Serves == up /\ storage = "ready"

\* A credential whose removal was acknowledged (a key or its whole account was
\* revoked) is never accepted again, whatever the timer reloads meanwhile and
\* from whatever the process starts again.
RevokedIsRefused == \A key \in revoked : ~Authenticates(key)

\* When the changes and the stops are over, the process either serves what the
\* log says, or is not serving: a change that a reload rolled back, or one that
\* is stored though its answer was an error, does not stay hidden behind a Space
\* that reports itself ready.
ConfigurationSettles ==
  []<>(Serves => \A path \in Files : served[path] = Load(path, LatestWrite(path, log)))
=============================================================================
