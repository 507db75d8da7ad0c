# Oxidrop: a TLA+ model of the firewall

Oxidrop is a firewall that sits between two network interfaces: an XDP program
decides about every frame, and a userspace daemon (axum, tokio, SQLite) lets an
administrator configure it and serves a web interface.  This directory models
the program in TLA+, checks the models with TLC, and proves the central
properties with TLAPS.  Paths below are relative to the repository's root.

## The system

| Part | Code | State it keeps | Operations |
|---|---|---|---|
| XDP packet filter | `oxidrop-ebpf/src/main.rs`, `oxidrop-common/src/lib.rs` | the BPF maps: `CONFIG`, `ALLOW_LIST_V4/6`, `PACKET_COUNTS_V4/6`, `SUBNET_MATCHING_V4/6` | one invocation of `oxidrop` per frame, on any CPU |
| Token bucket | `evaluate_bucket` | one bucket per flow key in `PACKET_COUNTS` | refill, charge |
| Map handlers | `oxidrop/src/state.rs` | one `RwLock` per map, in one process | list, insert, delete, delete all |
| Cleanup task | `oxidrop/src/main.rs` | none but the time it read | every 10 minutes: collect idle keys, remove them |
| Control plane | `state.rs` (`update_config`, `shutdown_ebpf`, `restart_ebpf`), `ebpf.rs`, `main.rs` | the `CONFIG` map, its copy in SQLite, the XDP links and the adapters they are on | patch, shut down, restart, start up |
| Subnet policy | `state.rs`, `db.rs`, `main.rs` | the LPM tries and the `subnet_match_v4/6` tables | insert with roll-back, delete, restore at start-up |
| Accounts | `db.rs`, `api.rs`, the migration | the `users` table | create, modify, rename, delete, change password, create the default administrator |
| Sessions and routing | `auth.rs`, `router.rs` | the session store | login, logout, the password-change gate |
| Log stream | `state.rs` (`LogStore`) | the `firewall_logs` table, a broadcast channel | record, prune, list, subscribe |
| Statistics | `state.rs` (`get_traffic_stats`) | none | reads the maps one after the other |
| Web interface | `frontend/src` | query cache, session state | pages over the API |

How they meet.  The XDP program and userspace share nothing but the BPF maps.
The kernel makes each map operation atomic; no lock spans two of them, and the
`RwLock`s of userspace do not exclude the XDP program.  The handlers and the
cleanup task exclude each other, map by map, through those locks.  The control
plane holds the `CONFIG` lock across an update, takes the lock on the eBPF
program under it, and awaits the database and the log while it holds both; a
request that takes longer than 30 seconds is dropped at whichever `await` it
has reached (`TimeoutLayer`, `main.rs:183`).  The daemon may die between any
two steps; the maps die with it, the database does not.

### Which behaviours are hard, and what makes each part correct

*Packet filter.*  A frame is a sequence of map operations, and any number of
frames are in flight on several CPUs while userspace rewrites the maps.  The
allow list is an LRU hash on preallocated elements: a lookup returns a pointer
into an element that may be freed and given to another flow before the program
writes `last_seen` through it.  Correct means: an `Allow` entry exists only for
a flow that the protected side (or an administrator) opened; a frame from outside
passes only on an open flow; a reply finds the entry its conversation made; the
EtherType mask is obeyed; a flow gets no more than its profile, and no less.

*Cleanup.*  It races the packets that refresh the entries it has decided to
remove.  Correct means: what is idle goes, what is not stays.

*Control plane.*  Three copies of one fact (which adapters the firewall is on):
the links, `CONFIG` and the database, updated one after the other with failures
and cancellation in between.  Correct means: they agree when no request is in
progress; an acknowledged update survives a restart.

*Subnet policy.*  Two copies of a rule, keyed differently (the trie masks the
address, the table does not), of different capacity, changed one after the other.
Correct means: what was acknowledged is in force and is what a restart restores; a
restart is possible.

*Accounts and sessions.*  Sessions are in Redis and name an account by an id that
SQLite uses again; the account is read when a request starts and acted on later;
several administrators change one account.  Correct means: a session admits to the
account whose password its client gave, as long as that password is in force; a
password somebody else chose admits to nothing but its change; names are unique.

*IPv6 parse.*  The ports of an IPv6 flow lie behind a chain of extension headers
whose lengths are in three different units, and the program walks at most six
rounds of it.  Correct means: the ports of a key come from the transport header it
names, and frames of one conversation share a key whatever headers they carry.

*Log stream.*  Records are inserted and then broadcast, by requests that may be
dropped in between; the table is pruned while they come in; a subscriber may be
slower than the channel; a page fetches and then subscribes.  Correct means: an id
names one event; the table stays bounded and keeps the newest; a subscriber hears
events in order and without a gap, or is told that it does not.

`PROJECT.json` lists each hazard at its line with the property that covers it,
or why none does.

## The plan

1. `TokenBucket`, `PacketFilter`: the data path and everything that writes its
   maps.  **Done**, with type correctness and the stateful promise proved.
2. The limiter's two promises as theorems: no flow gets more than its profile as
   long as it is on one CPU at a time, and none gets less on any number of them.
   **Done** (`RateLimitProofs`).
3. `ControlPlane`: `CONFIG`, the database row and the links under
   `update_config`, `shutdown_ebpf`, `restart_ebpf`, start-up, failures of every
   call, the request timeout and a crash.  Abstract specification: one atomic
   cell of configuration (`ConfigCell`).  **Done**, with all its safety
   properties and the refinement proved.
4. `Gateway`: `ControlPlane` and the direction logic of `PacketFilter` together:
   while adapters are swapped, which frames are taken for outgoing.  Not done;
   `PacketFilter` lets `CONFIG` change under a frame between any two of its steps.
5. `SubnetPolicy`: trie and tables with masked keys; restore order.  **Done**, with
   all its invariants proved.
6. `Accounts`: users, sessions, the password-change gate, the bootstrap.  **Done**,
   with all its properties proved.
7. `LogStream`: record, prune, broadcast, subscribe, and the page.  **Done**, with
   all its safety properties proved.
8. `Ipv6Walk`: the bounded walk over extension headers against the layout the
   sender gave them.  **Done**, with all its properties proved.
9. The web interface's other pages.  Not done: they render the answer of one request.

Worth proving next: that the walk of `Ipv6Walk` comes nearer to its end with every
step, and that a frame is not sent out of the adapter it came in on while `CONFIG`
stays (it needs a history of `CONFIG`).

## Modules

### TokenBucket

`evaluate_bucket` as pure operators on bucket records.  A profile's
`rate_shift` appears as `period` = 2^`rate_shift`, so `elapsed >> rate_shift` is an
integer division.  `Generated` is the number of whole periods, `Refill` adds them
modulo `Modulus` (2^64 in the code; the eBPF build does not check overflow),
caps at the burst and restarts the period, `Charge` takes a token if there is one.

### PacketFilter

One instance is one IP family: the v4 and v6 arms run the same steps on maps of
their own.  A frame is a record of what the program distinguishes: ingress,
EtherType, the two ends (address and port together), protocol, whether it is a
TCP segment with FIN or RST, and how far its headers can be read.

| Variable | Code |
|---|---|
| `config` | `CONFIG[0]` |
| `subnet` | what the LPM lookup of a host's address returns |
| `allow` | the elements of `ALLOW_LIST`; a pointer is the name of an element |
| `counts` | `PACKET_COUNTS` |
| `job` | per CPU, the invocation in progress: stage, packet, direction, the time read, the pointer, the bucket copy |
| `out` | the frame whose verdict this step returns, in the state right after it |
| `clock` | `bpf_ktime_get_ns` |
| `lock`, `cleaner` | the allow list's write lock with the keys its holder will remove; the time the cleanup task read |
| `opened` | history: keys opened since they last were absent or denied |
| `meter` | history, per key: the frames charged since its bucket began, the tokens and the time it began with, and the last time a frame passed or an administrator wrote the bucket (`served`) |

| Action | Code |
|---|---|
| `ReceiveInspected`, `ReceiveTruncated`, `ReceivePassed`, `ReceiveUnsupported` | the parse and the match on the EtherType, `main.rs:198-257`, `513-520` |
| `CheckSubnet` | `259-264` |
| `LookupHit`, `LookupMiss` | `get_ptr_mut` and the decision on its result, `266-291` |
| `Refresh`, `InsertAllowed` | the write through the pointer; the insert whose failure is ignored |
| `CloseFlow`, `ForgetBucket` | the two removals of the FIN/RST path, `302-307` |
| `TakeBucket` | the copy of the bucket, `309-321` |
| `SettleCharged`, `SettleUncharged` | `ddos_and_bucket_ending`, `546-586` |
| `SetConfig`, `SetSubnet` | the write of `CONFIG` and of the trie, whoever makes it |
| `modify_allow_list`, `clear_allow_list_key`, `clear_allow_list_all` | the handlers, `state.rs:788-859`; the last only collects the keys |
| `modify_packet_counts`, `clear_packet_counts` | `state.rs:992-1061`; deleting all counts is one `clear_packet_counts` per key |
| `CleanupWake`, `CleanupCollect`, `RemoveDoomed`, `ReleaseLock` | the cleanup task, `main.rs:248-291`; `RemoveDoomed` and `ReleaseLock` also end `clear_allow_list_all` |

What a stale pointer may do follows the kernel's LRU hash: an update of an
existing key takes a new element and frees the old one, a delete frees the
element, and a freed element may be handed to another key while the pointer is
still in use.  A full map evicts any entry (the LRU order is approximate in the
kernel) or, for the insert, finds none and fails.

Abstractions.  A write of `CONFIG` is one step; the kernel copies it in words, so
a frame could see half of a new configuration.  Log output is left out.
Addresses and ports are one value: no check looks inside them, except that the
subnet lookup is keyed by the end (its address).

### MCPacketFilter

The constants for TLC: a protected host behind adapter 2, an outside host behind
adapter 1, one flow between them.

### Ipv6Walk, MCIpv6Walk

A frame is the chain of headers its sender laid out, each with the octet it starts
at, and the number of octets that arrived.  The reference is in the layout:
`Octets` is what IPv6 says of the lengths, `Advance` what the code adds, and
`OctetsAt` is anything where no header starts, so a walk that went wrong would read
whatever an option holds.

| Variable | Code |
|---|---|
| `frame` | the bytes from the Ethernet header on |
| `at` | before the parse, in the loop, at the read of the ports; `"aborted"` is `OutOfBounds` |
| `round`, `offset`, `proto`, `found` | the loop counter, `current_offset`, `next_proto`, `found_l4` |
| `outcome` | the protocol of the key and where its ports (and FIN, RST) were read |

| Action | Code |
|---|---|
| `Reject`, `Accept` | `main.rs:332-346` |
| `Recognise`, `Skip`, `Cut`, `StopAtUnknown`, `StopWalk` | the arms of the loop: the transport, an extension header, one that cannot be read, one that names an unknown protocol, everything else or no rounds left |
| `ReadPorts`, `Return` | `391-435` |

What the code makes of the rest: a chain whose next protocol is unknown, and one of
six or more extension headers, has the ports 0 and 0 and the protocol reached; a
later fragment has no transport header, and the payload in its place is read as
one.  `PacketFilter` takes a frame's key as given.

### LogStream, MCLogStream

One call of `record_details` is a member of `Record`, one browser of `Viewer`.

| Variable | Code |
|---|---|
| `up` | the server is running |
| `table` | `firewall_logs`, by id: `INTEGER PRIMARY KEY` gives one more than the largest |
| `call` | per record: before the insert, between insert and send, returned, dropped |
| `sent` | everything that was ever sent through the channel, which keeps the last `Buffer` |
| `page`, `stream` | the page's state and entries, and as history what the table held when its fetch was answered (`held`); its websocket with the receiver's position, what went into the socket and how much of that the page has taken |
| `written`, `ahead` | history: the record of each row; the calls that had returned when this one began |

| Action | Code |
|---|---|
| `Begin`, `Insert`, `InsertFails`, `Send` | `record`, `record_details`, `state.rs:204-249` |
| `Drop`, `InsertLate` | the request is dropped at the await; the statement that was sent |
| `RecordLog` | `Database::record_log`, the row without the broadcast |
| `Prune` | one round of `prune_periodically` |
| `Open`, `Answer`, `Load`, `Subscribe`, `Fail`, `Show`, `Leave` | the page's fetch, `get_logs`, `setEntries`, `log_websocket`, an error, `onmessage`, leaving |
| `Receive`, `Lag`, `Break` | `stream_logs`: an entry received and sent, `Lagged`, a failing send |
| `Crash`, `Start` | the process; the table stays |

Abstractions.  The text of a record.  A request for the log by a user who is no
administrator changes nothing.  A page that is left before its fetch is answered
still opens a socket in the code (`logs.tsx:31`), which nobody closes; nothing of
it is shown, and the model has no stream for it.

### PacketFilterProofs, RateLimitProofs, ControlPlaneProofs, SubnetPolicyProofs, AccountsProofs, Ipv6WalkProofs, LogStreamProofs

The theorems; see below.

### FirewallPatch, ConfigCell, ControlPlane, MCControlPlane

`FirewallPatch` is what the control plane's steps tell configurations apart by:
the two adapters, and one value for all the other fields; and
`ConfigPatch::apply`.  `ConfigCell` is the abstract specification: one
configuration to which each request applies its whole patch in one step.
`ControlPlane` is the code.

| Variable | Code |
|---|---|
| `phase` | how far `main` is: process not running, attaching, storing, serving |
| `config` | `CONFIG[0]` |
| `db` | the row of `firewall_config` |
| `attached` | `EbpfProgramm`'s adapters; the links are on them |
| `lock` | the holder of `CONFIG`'s write lock.  The lock on `EbpfProgramm` is taken only under it by the handlers modelled |
| `req` | per request: operation, body, the await it is at, its local `cfg`, the answer it will give |
| `late` | statements of dropped saves that the database's thread has not run yet |
| `acked`, `overtaken`, `strayed` | history: what was last acknowledged; a late statement ran since a save; a request ended between the attachment and its write of `CONFIG` |

| Action | Code |
|---|---|
| `Arrive` | an authorised request with a valid body, `state.rs:639-657`, `1474-1481`, `1531-1538` |
| `TakeLock` | the lock, `config.get`, `apply` |
| `RebootForUpdate`, `ShutDown`, `Restart`, `RestartNothing` | what each handler does with the links, up to its next await |
| `SetConfig`, `Save`, `Log` | the rest of `update_config` and `shutdown_ebpf` |
| `Drop` | the 30 s `TimeoutLayer` or the end of the connection, at any await; the guards are released |
| `LateSave` | sqlx has handed the statement to SQLite's thread before the future was dropped |
| `LoadConfig`, `AttachAtStart`, `StoreAtStart`, `FailToStore` | `main.rs:111-125` |
| `Crash` | the process ends; links and maps go with it, the row stays |

Every call that can fail may fail: the attachment (of either adapter: `reboot`
then detaches both), the write of the map, the save (the database, or a value
that does not fit its column).  `config.get` cannot fail after start-up: `TypeOK`
says that `CONFIG` is set as long as the daemon is up.

Abstractions.  Requests refused before the lock (no session, no permission, an
invalid body) change nothing.  A record in the log is one await.  A failing
start-up before `LoadConfig` is a daemon that is down.

### SubnetPolicy, MCSubnetPolicy

One instance is one IP family; the v6 handlers repeat the v4 ones on maps and
tables of their own.  A rule is a network as the client wrote it and the length of
its prefix; `KeyOf` is what the trie compares.

| Variable | Code |
|---|---|
| `up` | `main` has restored the rules and serves |
| `trie` | `SUBNET_MATCHING`, by key |
| `rows` | the table, by rule as written |
| `lock` | the holder of the map's write lock |
| `req` | per request: operation, rule, action, the await it is at |
| `late` | statements of dropped requests the database's thread has not run yet |
| `acked`, `unstored`, `ghosts` | history: what the last acknowledged change left of a key; keys in force whose row may be missing; keys that may have a row and no rule in force |

| Action | Code |
|---|---|
| `Arrive` | an authorised request with a prefix that fits, `state.rs:1166-1187`, `1221-1242` |
| `Insert`, `Remove` | the lock and the call on the trie, either of which may fail |
| `Save` | `save_subnet`, and the removal from the trie when it fails |
| `Erase` | `delete_subnet`, which succeeds without a row, too |
| `Drop`, `RunLate` | the time limit or the end of the connection; the statement that was sent |
| `Restore` | `main.rs:97-110`: rows in `ORDER BY prefix_len DESC, network ASC`, so among rows of one key the one with the highest address stays.  It is disabled when the rows do not fit: `insert(..)?` ends the process |
| `Crash` | the maps are gone, the table stays |

Abstractions.  Which rule a packet meets (the longest prefix) is not a matter of
these handlers.  An old kernel refuses to replace a rule in a full trie; `Insert` may
fail at any time, and `Restore` meets the case only with two spellings of a key.

### Accounts, MCAccounts

Passwords appear as the hashes made of them: each hashing takes a new salt, so
hashes are numbered in the order they are made.  A client is the cookie of one
session.

| Variable | Code |
|---|---|
| `up` | the server answers; `bootstrap_default_admin` has run |
| `users` | the table `users`, by id |
| `session` | the record in Redis: the id and the hash it was opened with, and two histories: what its client proved last (`proved`), whether it was bound to something else (`stray`) |
| `req` | per request: the client, the account as it was read, the await it is at |
| `hashes` | how many hashes there have been |
| `handed` | history: hashes of passwords chosen by somebody else, with the duty to change them |

| Action | Code |
|---|---|
| `Authenticate`, `OpenSession` | `login`: the row is read and the password verified; later the session gets the hash that was read |
| `SessionEnds` | `logout`; or ten minutes without a request, which may happen at any time |
| `AdmitChange`, `AdmitManage` | the layers in front of `change_password` and of the routes behind `require_completed_password_change`: `get_user` by id, the comparison of hashes, the gate |
| `Flush` | axum-login drops a session whose hash is not the account's |
| `ChangePassword`, `Reload`, `Bind` | `change_password_endpoint`: the statement, the second `get_user`, the second login |
| `CreateUser`, `ModifyUser`, `ResetUser`, `ChangeUsername`, `DeleteUser` | one statement each; `ResetUser` is `modify_user` with a password |
| `RequestEnds` | every answer without a change: wrong password, weak password, no permission, no such user, name taken, database error, time limit, end of the connection |
| `Crash`, `Start` | the process; the table and the sessions stay |

A statement whose request was dropped after it was sent is the request that stays
in progress until it takes its step and then ends.

Abstractions.  A right password is a choice: anybody may have been told one.  The
other routes behind the gate (configuration, logs) are `AdmitManage` followed by
`RequestEnds`.  The time of the last login is written and read by nobody.
`MaxGiven` and `MaxHashes` bound the hashes made.

## Runs

| Run | Checks | Bounds and why they are enough |
|---|---|---|
| `PacketFilter_state` | `AllowEntriesWereOpened`, `NoUnsolicitedForward`, `RepliesMeetTheirFlow`, `DenyIsKept` | 2 CPUs, 2 elements (so that an update of the key moves it and leaves a stale pointer), one flow in both directions, closing from outside and not; clock 0..1 with idle limit 0, so the cleanup task removes entries; rules Allow or Deny from the administrator |
| `PacketFilter_flow` | `TypeOK`, `RateBound`, `NeverStarved`, `CleanupSelectsOnlyOld`, `ListedTypesNeedTheirFlag`, `IdleEntriesGo` | 1 CPU, burst 1, period 2, clock 0..3, idle limit 1: the bucket empties, refills after a whole period and not after half of one, hits the cap and is forgotten by a closing segment; the cleanup task reads the time and the lock comes later; rate limiting, subnet rules and the IPv4 flag each on and off; a frame of every class of the dispatch and of every readable length |
| `Ipv6Walk_chains` | `TypeOK`, `PortsAreTheTransports`, `TransportIsFound`, `WholeFramesAreParsed` | the code's 6 rounds; chains of 0 to 7 headers with one kind per length formula, and of 0 to 2 of every kind with lengths 0 and 2; each ending in every kind, each whole and cut at four places |
| `LogStream_live` | `TypeOK`, `IdsNameOneRecord`, `StreamIsContiguous`, `SentInOrder`, `OnlyTheGapIsMissed`, `PruneKeepsNewest`, `TableReturnsToBound`, `StreamsCatchUp` | 3 records, so that two overlap and a third overwrites the buffer or is pruned for; one page that keeps 2 entries, so that it has room, is full and drops one; a table, a buffer and a socket of 1; a clock that may go back; any number of crashes |
| `LogStream_gap` | `LivePageIsComplete`, violated | 2 records, a page with room for both |
| `ControlPlane_requests` | `TypeOK`, `AckedSurvives`, `LinksFollowConfig`, `ImplementsCell`, `RequestsEnd` | 2 requests at once, each slot used again and again; a patch of both adapters and a patch of neither; 1 crash (start-up runs twice, with and without a stored row); 1 late statement |
| `Accounts_sessions` | `TypeOK`, `GatedUntilChanged`, `ProvedIsVerified`, `AdmittedOnProof` | 2 requests, 2 clients, 2 names; an administrator with every right and one that may only modify; hashes up to 4 given by administrators and a fifth chosen by a user: bootstrap, change, creation, deletion and creation again, and then the change that was in progress |
| `SubnetPolicy_safe` | `TypeOK`, `AckedSurvives`, `StoredWhenInForce`, `StartsAgain` | 2 requests, 2 prefixes, a trie of 1 entry, so that every insert may meet a full trie and what a failed delete left behind takes another's place; 1 crash, 1 late statement |
| `SubnetPolicy_alias` | `DeletionPersists`, violated | one prefix in two spellings |
| `PacketFilter_race` | `RateBound`, violated | the same bound with 2 CPUs |
| `PacketFilter_disabled` | `DisabledTypesRejected`, violated | IPv6 frames, IPv6 flag cleared |
| `PacketFilter_cleanup` | `CleanupRemovesOnlyOld`, violated | one entry, one refresh between scan and removal |

The clock is bounded by `MaxTime`; every other quantity is finite by itself.
`SettleCharged` may fail to store the bucket only when the count map is full: in
`PacketFilter_flow` it has room for every flow (`MaxCounts` is 3 for 2 flows), as the
rate bound needs.

`MaxCrashes` bounds the crashes of the daemon and `MaxLate` the statements of
dropped requests that are still to run.  Two requests are enough for every pair of
steps; a third would wait at the lock like the second.

Deadlock is checked in all other runs: userspace can always act, a request slot can
be used again, a page can be left and opened, and the walk over extension headers must
come to an end for every frame.  It is not in those of `SubnetPolicy`, where the daemon really stops: it cannot start again from rows
that do not fit (`StartsAgain` says when that may happen).

### Fairness

Fairness is assumed by `PacketFilter_flow`, `ControlPlane_requests` and `LogStream_live`.  The cleanup task is a loop on
the tokio runtime, so each of its steps is weakly fair once it can be taken.  It
shares the allow list's write lock with the handlers, which may take and release
it for ever; tokio hands the lock out in the order it was asked for, so a task that
waits gets it: strong fairness of `CleanupCollect`.  Nothing is assumed of the XDP
program, of the administrator or of the clock.

`ControlPlane_requests` assumes the same of the requests: whoever holds `CONFIG`'s lock
runs on (each database call returns, successfully or after its busy timeout of 5
seconds), and whoever waits for the lock gets it.  Nothing makes the daemon drop a
request, so the property holds without the timeout.

`LogStream_live` assumes that the pruning task runs (an interval of a minute, and an
error only skips one round), that the task of each websocket runs on, and that an open
page takes what its socket brings.  Nothing is assumed of records, of requests or of
a viewer's opening or leaving.  A socket that never takes anything would make the task wait
in `send`: the page is what empties it.

### What the run on the log shows

* Ids are not used again, though SQLite gives one more than the largest: pruning
  keeps the newest row, so the largest never goes.
* A subscriber that lags is disconnected (`recv` returns `Lagged`, which ends the
  loop): what it heard has no gap, but the page neither says that the stream has
  ended nor opens another.
* Concurrent records may be sent in the other order than their ids; what is kept is
  the order of calls that do not overlap.
* A page lacks an event only when it was sent before the page subscribed and was not
  in the table when the fetch was answered (`OnlyTheGapIsMissed`): the gap of
  `LogStream_gap` is the only one.  A row that was inserted before the answer and is
  broadcast after the subscription is on the page twice.
* A row may be in the table without having been sent (a request dropped between
  the two, a late statement, `record_log`); a page sees it when it is opened again.

### What the control plane's runs show

* An acknowledged update or shutdown is in force and stored, and a crash does not
  lose it, until another request writes the map.  The exception is part of the
  property because the code allows it: a save that was sent and whose request was
  dropped may reach the database after the next request's save.
* The program is attached to exactly the adapters `CONFIG` names or to none.  The
  exception again is the code's: `update_config` awaits the log between `reboot` and
  the write of `CONFIG` (`state.rs:712`), and a request that ends there leaves the
  links on the new adapters and `CONFIG` on the old ones until the next
  reboot or shutdown.
* "Or to none" is needed: after a failing `restart_ebpf` or a failing attachment at
  start-up `CONFIG` and the row keep the adapters, and nothing is attached.
* Two changes never mix (`ImplementsCell`): the lock is held from the read of
  `CONFIG` to the save.

### What the run on subnet rules shows

* With one spelling per prefix, the 200 of an insert or a delete means the trie and
  the table agree on that prefix, and stays true until the next change of it.
* The exceptions are the code's.  The roll-back of a failed insert removes the key
  even when the insert had replaced a stored rule, a failed erase keeps the row of
  a rule no longer in force, and a dropped request leaves one write without the other:
  these keys are `ghosts`, the next start restores them, and it is only with them
  that the rows can outgrow the trie.

### What the run on accounts shows

* `SessionEnds` apart, nothing a request does needs the session store to be told:
  a changed, reset or deleted password ends the sessions opened with it, because the
  hash is compared at each request, and a new account never has the hash of an old one.
* The exception is the code's.  `change_password` reloads the row by id and logs
  in with whatever it finds (`api.rs:89-97`).  When a reset, or a deletion followed by
  a creation that uses the id again, comes between its statement and the reload,
  the session is bound to a password its client never gave (`stray`).
* A running server whose last account is deleted admits nobody until it is
  restarted, and one whose last administrator was demoted or deactivated cannot be
  administered at all, because the table is not empty.  The README (lines 71-73)
  promises the default account without saying when.

### What the violations show

* `PacketFilter_race`: `PACKET_COUNTS` is read, charged and written back without
  anything to make it atomic.  Two CPUs that hold frames of one flow pass both on
  one token, so the profile is not a strict clamp.
* `PacketFilter_disabled`: only the IPv4 arm looks at the protocol mask.
* `LogStream_gap`: the page subscribes after its fetch was answered.  What is
  recorded in between is in neither, and stays out until the page is opened again.
* `SubnetPolicy_alias`: nothing masks the address a rule is written with.  The
  trie takes two spellings for one rule, the table for two; deleting one of them
  empties the trie, leaves the other row and answers 200.
* `PacketFilter_cleanup`: the removal does not look at the entry again.  What was
  selected is old (`CleanupSelectsOnlyOld`); what is removed need not be.

That FIN and RST skip the state lookup is no violation of anything the repository
says, so `NoUnsolicitedForward` speaks of the other frames: a closing segment of no
conversation is forwarded, and removes the entry and the bucket of its key.

## Proofs

`PacketFilterProofs` proves, for every set of CPUs, flows, elements, configurations
and every bound:

* `TypeCorrect`: `Spec => []TypeOK`.
* `AllowEntriesAreOpened`: `Spec => []AllowEntriesWereOpened`.
* `StatefulAdmission`: `Spec => []NoUnsolicitedForward`.
* `MaskIsObeyed`: `Spec => ListedTypesNeedTheirFlag`.
* `RepliesAreMet`: `Spec => RepliesMeetTheirFlow`.
* `DenyStays`: `Spec => DenyIsKept`.
* `SelectedEntriesAreOld`: `Spec => CleanupSelectsOnlyOld`.

They assume the named assumptions of the modules: the constants have their types;
the sentinel `Absent` is none of the values it stands beside; and, for
`AllowEntriesAreOpened` and `StatefulAdmission`, `InsideAssumption`: a configuration's output adapter is the one facing the
protected network.

The argument.  Neither of these two is inductive.  `StateInv` adds that a key
has at most one element (`UniqueKeys`) and what a frame in flight has already
established (`JobsHonest`): an outgoing frame came in on an inside interface, only
an outgoing frame reaches the insert, only a closing one reaches the removal of the
bucket, and an incoming frame past its lookup found its flow open.  The write
through a stale pointer is harmless because it changes `last_seen` alone; an
eviction is harmless because it removes the history of the key it evicts together
with its entry, which is where `UniqueKeys` is needed.  The last four are action
properties: each is shown of every step from a state of the invariant.  For
`SelectedEntriesAreOld` that invariant says that the time the task holds is past
(`CleanerIsPast`).

`RateLimitProofs` proves the two promises of the rate limit, for every set of CPUs,
flows, configurations, every capacity and every clock:

* `SerialFlowsAreBounded`: `Spec /\ Undisturbed => []RateBound`.
* `OneCpuIsBounded`: `Spec => []RateBound` with one CPU, more entries in the map than
  flows, no administrator who writes buckets, and rates that stay.
* `FlowsAreServed`: `Spec => NeverStarved`, when bursts are positive and no count wraps.

Hypotheses of the upper bound.  `RateBound` does not hold of `Spec` alone:
`PacketFilter_race` violates it with two CPUs.  `Undisturbed` names all that it needs
and nothing more: at no time are two copies of one flow's bucket out
(`SerialFlows`; the frames of a flow arrive on one receive queue, or its two adapters
deliver on one CPU); a charge is stored, the insert finding room (`ChargesAreStored`);
an administrator does not write a bucket while a copy is out or dated ahead of the
clock (`BucketsAreTimely`); and the
rate of a flow's protocol stays (`PeriodsStay`), since the bound is about one profile.
`OneCpuIsBounded` is that setting for every instance like `PacketFilter_flow`; it
derives `Undisturbed` from conditions on the constants alone, so it also shows that
the hypothesis can be met.

The argument.  `BudgetInv` says that the bucket in the map, and the copy a CPU holds,
are *covered*: the tokens in it and the frames charged are together at most the credit
and one per whole period up to its `last_update`.  A refill keeps this because what it
adds, `elapsed \div period`, is paid for by the time it moves `last_update` on, and
the remainder it forgets is in the limiter's favour; a charge moves one from the tokens
to the frames.  `RateBound` follows as `last_update` is not ahead of the clock.

Hypotheses of the lower bound.  A burst of 0 admits nothing, by intent.  Counts are
u64: a burst or a written bucket so large that adding the clock's nanoseconds
passes 2^64 would wrap to a small number (`NoWrap`).  A configuration that is stored has
bursts below 2^63 (`sqlite_integer`, `db.rs:166`) and the clock counts from boot, so no
stored burst comes near; a bucket written by an administrator may be any u64.  Nothing
is assumed about CPUs, capacity or changes of rates.

The argument.  `ServedInv` says that the bucket in the map was last refilled no later
than the last time a frame of the flow passed, and a copy either the same or has a
token.  A refill is stored only by the frame that made it, and that frame finds a token,
passes, and moves `served` on.  So a frame refused with no token left has found less
than a period between `last_update` and now, whichever copy it held.

`ControlPlaneProofs` proves, for every set of requests, patches, adapters and
policies, and every number of crashes and late statements:

* `TypeCorrect`: `Spec => []TypeOK`.
* `AcknowledgedIsStored`: `Spec => []AckedSurvives`.
* `LinksAreConfigured`: `Spec => []LinksFollowConfig`.
* `HandlersImplementCell`: `Spec => ImplementsCell`, the refinement of `ConfigCell`.

They assume that `Absent` and `Keep` are none of the values they stand beside, and
that the patches and the default configuration have their types.

The argument.  `SafeInv` is `TypeOK`, mutual exclusion (`Exclusive`: a request past
the lock holds it) and `AllFaithful`: until a request writes `CONFIG`, its local
configuration is its patch on top of what `CONFIG` holds now, which is what rules
out a lost update.  `AckInv` adds that a request about to store has withdrawn the
last acknowledgement and that what it will acknowledge is already in force.
`LinkInv` adds that the links of a request between `reboot` and its write are on the
adapters it is about to write.  The refinement maps the progress of each request
onto the cell's; a step that neither writes `CONFIG` nor ends a request is a
stutter of the cell.

`SubnetPolicyProofs` proves, for every set of rules and requests, every capacity and
every number of crashes and late statements:

* `TypeCorrect`: `Spec => []TypeOK`.
* `AcknowledgedIsStored`: `Spec => []AckedSurvives`.
* `InForceIsStored`: `Spec => []StoredWhenInForce`.
* `DaemonStartsAgain`: `Spec => []StartsAgain`.

They assume that `Nobody` is no request, and that there are finitely many rules, whose
networks are addresses.  The last three are about rules with one spelling per
prefix; `SubnetPolicy_alias` shows that they need it.

The argument.  `StoreInv` adds to the two agreements that a key somebody is changing
is not acknowledged, and that the trie has what the holder of the lock made of it.
`FitInv` counts the claims on the trie, the rules in force and the one whose row is
about to be erased: there are never more than entries, and every row is of a claimed
key or a ghost.  That `Restored` is well defined (there is a last row) needs the
well-foundedness of the naturals, `RestoredIsARow`.

`AccountsProofs` proves, for every set of clients, requests, names and grants and
every number of hashes:

* `TypeCorrect`: `Spec => []TypeOK`, with the uniqueness of names.
* `HandedOutPasswordsAreGated`: `Spec => []GatedUntilChanged`.
* `SessionsAreProved`: `Spec => AdmittedOnProof`.
* `ProvedSessionsAreVerified`: `Spec => []ProvedIsVerified`.

They assume that the grants are rights and that the default name is a name.

The argument.  `Evolves` says what any step does to the table: a row keeps its
account, hash and flag, or gets a hash that has never been.  `GateInv` adds that a
row with a handed-out hash has the flag.  `BoundInv` adds that the hash of a login
held by a session or a request belongs to no account but its own (`Consistent`), and
that a hash bound by a reload agrees with the one written as long as the row does
(`Agrees`); both survive every step because a hash is never made twice.

`Ipv6WalkProofs` proves, for every set of well-formed frames and every number of
rounds:

* `TypeCorrect`, `PortsAreRead`, `TransportIsReached`, `WholeFramesPass`: each of the
  module's invariants.

They assume that the frames are well formed, that there is a round, and that `Absent`
is none of the values it stands beside.

The argument.  `WalkInv` says that after `round` rounds the walk stands on header
`round + 1` of the chain, at the octet it starts at, and why it stopped before the last.
What two octets say there is unique only because headers do not overlap
(`HeadersInOrder`), which holds over the whole length of a chain and so needs the
well-foundedness of the naturals.

`LogStreamProofs` proves, for every set of records and viewers, every size of the
table, the answer, the buffer and the socket:

* `TypeCorrect`: `Spec => []TypeOK`.
* `IdsAreNeverReused`: `Spec => []IdsNameOneRecord`.
* `StreamsHaveNoGap`: `Spec => []StreamIsContiguous`.
* `EntriesAreSentInOrder`: `Spec => []SentInOrder`.
* `PruningKeepsTheNewest`: `Spec => PruneKeepsNewest`.
* `LivePagesMissOnlyTheGap`: `Spec => []OnlyTheGapIsMissed`.

They assume that at least one row is kept, that the sizes are numbers, and that
`Absent` is no stream.  The first is what the ids rest on: a table pruned to nothing
would begin again at 1.

The argument.  `IdInv` adds that the largest id is the number of rows ever written
(`written` is not empty unless nothing was), so the next is new.  `StreamInv` adds that
a receiver stands behind exactly what it has put into its socket.  `OrderInv`
adds that whatever was sent is of a call that has returned, and that `ahead` names
only such calls.  `NewestPruned` finds the newest of the pruned rows, again by
well-foundedness: all rows above it stay.  `PageInv` says that a page with room for
another row shows its whole answer and everything it has taken from its socket, and that
a page with a stream is an open one: prepending drops nothing while there is room
(`RoomDropsNothing`), so what such a page lacks was neither in the answer nor sent.

Only model-checked: the liveness properties `IdleEntriesGo`, `RequestsEnd`,
`TableReturnsToBound` and `StreamsCatchUp`, which are out of the prover's reach.

## Not modelled

* Torn reads of the configuration: the kernel copies an element in words, and the XDP
  program reads it in place.
* The parse of Ethernet, IPv4, TCP and UDP headers, but for how far they can be read.
* `get_traffic_stats`: it reads the maps one after the other and changes nothing;
  no statement of the repository says that its sums are of one moment.
* The pages of the web interface other than the log: each renders the answer of one
  request, and the server is what keeps its promises.
* Which rule the longest-prefix match picks, password rules and hashing, the session
  store and axum-login: external, modelled as far as `src/` relies on them.
* Argument parsing, build scripts, packaging, and the text of log records.
