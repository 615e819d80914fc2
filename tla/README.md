# Verification of tubo

Tubo connects applications over a peer-to-peer overlay. A *Pipe* is a named
connection to a service; its owner publishes it, other machines open it. This
directory models the parts of tubo whose correctness depends on the order of
events in several goroutines, processes or machines, checks the models with TLC
on small instances, and proves the central results with TLAPS.

Paths below are relative to `src/`; file names without a directory are under
`src/internal/`.

## The system

| part | source | state | module |
|---|---|---|---|
| exact authority | `exactauthority/`, `usecase/share.go`, `runtime/{redemption,renewal}_handler.go`, `runtime/exact_authorizer.go`, `cli/app.go` (revoke) | `revocations`, `invite_redemptions`, `accepted_exact_relationships`; minted invites and leases | `ExactAuthority` |
| exact access | `usecase/accept.go`, `store/exact_connection.go`, `runtime/exact_*.go` | durable binding, lease cache | `ExactAccess` |
| sessions | `runtime/session.go`, `runtime/ownership.go`, `runtime/serve.go` | runtime tree, session pumps, timers | `SessionLifecycle` |
| scope sync | `runtime/sync.go`, `store/store.go` | sync lease, cooldown | `ScopeSync` |
| discovery | `runtime/authority.go`, `runtime/client.go`, `store/store.go`, `discovery/` | records, snapshots, a member's cache | `Discovery` |
| scoped client | `runtime/pipe.go`, `runtime/client.go` | record resolver, connect-lease cache | `ScopedClient` |
| relay reservation | `reachability/relay_reservation.go`, `runtime/pipe.go` | reservation, status of the run, record | `RelayReservation` |
| local keys | `localkey/` | key file, lock file | `LocalKey`, `KeyCell` |
| definitions | `usecase/{attach,connect,accept}.go`, `store/usecaseports.go`, `cli/` | services, pipes, key files, binding | `Workflows` |
| engine, topology | `engine/`, `domain/` | traversal state | `Traversal` |
| runs and supervision | `cli/{app,operations,supervisor,ps}.go`, `runtime/relay_recovery.go` | run record, launchd unit | `RunRecords` |

How they interact: a published Pipe runs stream handlers for redemption,
renewal and tunnel opens against one SQLite store that commands of other
processes (share, revoke) write at the same time. A consumer accepts an invite
once, keeps a durable binding, and renews short-lived access leases for every
open. Each accepted open becomes a session that owns the stream and the local
target until either end, the lease's expiry or the shutdown of the run ends it.
In a scope, publishers announce records to an authority, members copy its
snapshots, and one process per home does so at a time. Commands define Pipes and
start, stop and supervise the processes that serve them.

What makes it hard: handlers take several separate store reads before they act;
commands of other processes write in between; replies get lost and are retried;
a session has up to five parties that may end it at the same time; shutdown
races with creation; the run record is written by the runtime and by commands.

## Modules

| module | models | extends |
|---|---|---|
| `ExactAuthority` | the owner side of exact access for one Pipe | |
| `ExactAccess` | consumers composed with the owner side | `ExactAuthority` |
| `SessionLifecycle` | the runtime tree of a Pipe run and its sessions | |
| `StoreTime` | the order of the store's time columns | |
| `ScopeSync` | the sync controllers of a scope and their lease | `StoreTime` |
| `Discovery` | records, authority snapshots, a member's cache | `StoreTime` |
| `ScopedClient` | a local Pipe's connections, lease cache and record resolver | |
| `RelayReservation` | the reservation of a published Pipe | |
| `KeyCell` | what a key path promises: a cell that is written once | |
| `LocalKey` | `Load` and `Provision`, one system call a step | instance of `KeyCell` |
| `Workflows` | the commands that define Services and Pipes | |
| `Traversal` | path resolution and hop-by-hop opens over the tables of `Workflows`, as functions | `Workflows` |
| `RunRecords` | the run record of a Pipe and the processes that serve it | |
| `*_proofs` | theorems; those of `ExactAuthority` are in `ExactAccess_proofs`, those of `Traversal` in `Workflows_proofs` | the module they are named for (the last one: `Traversal`), `TLAPS` |
| `PublishedPipe_proofs` | theorems about the two things a published Pipe needs, its key and its reservation | `LocalKey`, `RelayReservation`, `TLAPS` |
| `MC*` | the symmetry sets of the TLC instances | the module they are named for |

### ExactAuthority

`epoch`, `revoked`, `redeemedBy` and `relation` are the store's rows; `invites`
and `issued` are the credentials in the world; `h` holds the stream handlers and
`seen` the running `revoke pipe-access` commands. A handler is named by what it
does next, so `"redeem_commit"` is a redemption that has passed both checks and
has not committed. Each store read and each transaction is one step, and a
handler's time stamp (`iat`) is taken before its first read, as the code takes
`now` before it. `staleAt` and `revokedAt` are history variables: the moments of
the revocations. Signature, possession and binding checks are abstracted: a
handler starts only for requests that pass them. `Abort` stands for all the ways
a handler can end early (stream error or deadline, store error, unreachable
target, the process stopping); the code answers all of them by denying.

### ExactAccess

Client slot `c` is a running accept command (`Acceptors`) or one application
connection (`Connectors`) and talks to handler `c`; in the proofs a slot may be
both in turn. `binding` and `cache` are the consumer's two tables. A
client can die at any step (`Abandon`), the owner's handler can fail under a
waiting client (`Break`), and each consumer write can fail; `MaxFaults` bounds
the number of failures. Owner and consumer read one clock: the code tolerates a
skew of `MaxClockSkew` on the not-before side and none on expiry.

### SessionLifecycle

`sess[s]` is a session's creating goroutine (`pc`) and its `sessionPump`. A
critical section of `sp.mu` is one step; between them anything can happen. The
creators differ in what they do when a step is refused and in what their
deferred calls close: the stream handler (`Servers`), and the scoped client or
the exact local ingress (`Locals`). Bytes are left out: a copying direction ends
in EOF or in an error. `acts` counts the terminal actions on a carrier.

### StoreTime

The store keeps moments as RFC3339Nano texts and compares the texts in SQL. The
format drops the fraction of a whole second and `Z` sorts behind `.`, so within
one second the whole second comes last. `Res` is the number of ticks of a
second and `Text(t)` the rank of the text of moment `t`. With `Res` 1 every
moment is a whole second and the order is right.

### ScopeSync

`lease` is the scope's row of `scope_sync_leases`, `retry` the cooldown in its
freshness row, `ctl[c]` a controller: the select loop (`pc`) and, during an
attempt, the goroutine that fetches (`fetch`). A store call is one step and
works with the time stamp taken before it. Tokens are random in the code; here
they count the acquisitions (`tenure`), which makes "an older owner" sayable.
Any thread may be delayed for any time in `Spec`; `PromptSpec` lets the clock
move only when no thread is ready to run. `Crash` leaves the lease row behind,
`Stop` cancels the runtime's context, `Foreground` is a refresh by a command,
which writes the cooldown without a lease.

### Discovery

The authority's rows (`rows`, `gen`), one member home (`cache`, `fresh`) and its
overlapping fetches (`fetch`). `sent` holds every record published so far: an
announcement may arrive late, twice or never. The answer of the authority is
computed when `ServeSnapshot` runs and applied when `Reconcile` runs, with
anything in between; a lost answer is `ServeSnapshot` without a change of the
fetch. One number stands for `generation` and `high_water`, which the authority
always advances together. A publisher whose home is the authority's own is
`Publish` followed by `Announce`. `Own` are the Pipes that are also published in
the member's home. Signatures and publish grants are assumed to verify, one
clock is read by all, and a publisher's clock does not go back between runs
(sequences come from it when the row is gone).

### ScopedClient

A local Pipe found through discovery. `conn[c]` is the goroutine of an accepted
connection: it takes a lease from `cache` or asks the authority, dials the
endpoint of the selected record (`seen`), presents the lease, and after a
failure resolves the record once more (under `refreshMu`, `mu`, and not within
the cool-down `cool`) and retries once if the record is newer. `rf` is the
refresh goroutine, the process `Periodic` resolves on a timer. `cache` and the
stored `row` keep a lease beside an expiry read separately from it, which is why
both are in an `Entry`. Times count down. The authority's exchange checks the
epoch in one step and mints in another. What no caller can use any more (a lease
too old for `current`) is kept as `NoLease`; the code treats both alike. `calm`
is the time since the last revocation and `rf.old` tells whether the pair that a
refresh exchanges is still of the authority's epoch: history variables. The
peer that answers a scoped open is external: the authorizer of scoped opens is
quarantined in this revision (`runtime/scope_token_authorizer.go` panics).

### RelayReservation

One maintenance pass is `connect`, `reserve` and, for a scoped Pipe, `publish`;
`Acquire` is the first, `Serve` repeats it when `due`. `held` is the reservation
at the relay, `left` what the code believes of it, `rec` the published record,
`status` the run's status, `stage` the place in the pass. Calls take any time up
to their time-outs. A publication has none of its own: it may refresh the grant
and announce the record with ten attempts each, so `PublishTime` exceeds the
margin. The first publication does not refresh the grant, and a record never
outlives it (`capped`).

### KeyCell and LocalKey

`LocalKey` has the key file's name in the running system (`key`) and on the disk
(`disk`), the data that was fsynced, the lock file's name and the inodes that
processes have locked. `Provision` makes the directory, locks, loads, writes a
temporary file, links it, syncs, or rolls back; every call may fail, a process
may be killed, and power may be lost (`PowerLoss`). `KeyCell` says what callers
may rely on, with none of this: a cell that takes only a key that no caller has,
gives the key in it to everybody and never replaces it; the key may be withdrawn
only before its creation was reported, and stays after that. Whoever got a key
that is withdrawn later keeps it (`given`). `LocalKey` implements it with
`cell <- key`, `kept <- (dir = "durable")`; `gone` records the given keys that
the path has lost.

### Workflows and Traversal

`Traversal` holds `domain.ResolveLogicalPath` (which walks the definitions of a
store when a Pipe starts) and the chain of `engine.FromWire`, `Advance`,
`forwardPipeTarget` and `tunnelServer.serve` (which walks them hop by hop), as
recursive functions of the number of hops, and a reference: a chain of distinct
Pipes that ends in a defined Service. `Workflows` builds the graphs: `service
create`, `attach`, `pipe create`, `accept`, `connect` and `rm`, each store and
file operation a step, with several commands interleaved and any of them killed.
Any operation can fail without an effect (`Breaks`), which ends its command. A
tunnel reaches a next Pipe only through a discovery record, so only a Pipe with a
scope (`Discoverable`); a Pipe of `attach` publishes none.
The name `Default` stands for `connect-<remote Pipe ID>`, which is both the
default name of a connecting Pipe and the file name of the recipient key.
Only `rm` of a Pipe is a transaction, and its file removal follows the commit.

### RunRecords

`row` is the Pipe's run record, `proc[p]` a runtime process and, for a local
Pipe, its relay-recovery goroutine, which writes the record on its own;
`cmd[c]` is a running `start`, `start -d`, `stop`, `restart`, `rm`, `rm --force`,
`rm --stale` or `supervise`. `launchd` is the unit file, whether it is loaded and
the `supervisors` row. Processes crash at any step, launchd restarts a loaded
unit, commands are killed. What an `install` that fails has done it undoes, and
the code ignores the errors of the undoing: any part of it may stay (`Undo`). A
process number stands for the process identity (PID, start time, command line),
which is never reused. A local Pipe listens on a fixed port, so a second one fails to listen. `history` names the circumstances
that the first property excludes.

## Runs

| run | instance | properties |
|---|---|---|
| `owner_side` | 2 recipients, 2 invites, 1 handler, 2 revokers, clock to 2, 2 revocations | `OneRecipient`, `RevocationBound`, `OpenFence`, `ReacceptOnlyByFirstRedemption` |
| `access` | 1 consumer, 2 invites, 1 accepting and 1 connecting slot, 1 revoker, 1 fault, fair | `AuthoritySpec` (refinement), `BindingIsAccepted`, `CacheUnderBinding`, `AcceptCanBeCompleted`, `AccessReturns`, `RevokedSessionsEnd` |
| `sessions` | 1 server and 1 local session, fair | `StoppedIsStopped`, `SingleTerminalAction`, `GracefulOnlyIfClean`, `StopsReturn`, `ExpiryEndsSession` |
| `sync_fencing` | 2 controllers, lease of 2 ticks, 2 ticks a second, store errors | `LeaseIsItsHolders`, `StaleOwnersNeverWrite` |
| `sync_timing` | 2 controllers, the code's settings in ticks of 10 seconds, prompt and fair | `PromptOwnerHoldsLease`, `OrphanedLeaseIsTaken` |
| `discovery` | 2 Pipes (1 own), 2 fetches, 3 ticks a second, records of 4 ticks, snapshots of 1 record, 2 publications, 4 generations, fair | `HonestSnapshotsApply`, `CacheIsSnapshot`, `NoOldNews`, `OwnRowsStay`, `Converges` |
| `scoped_client` | 1 connection, refresh and periodic goroutines, 1 move of the remote Pipe, fair | `PresentedLeaseLives`, `EndpointFollows`, `ConnectionsSettle`, `RevokedPairsEnd` |
| `reservation` | a margin of exactly a tick and two time-outs, a publication longer than that, 3 lifetimes, 2 first grants, 2 faults, fair | `NoLapse`, `RecordFresh`, `Recovers` |
| `local_key` | 2 processes, 3 keys, 2 lock inodes, fair | `KeyCellSpec` (refinement), `RollbackIsOwn`, `CreatedKeyStays`, `ProvisionReturns` |
| `workflows` | 3 commands, 2 names, 3 keys, hop limit 2 | `KeyBacksPipe`, `InviteNotBurnt`, `TraversalAgrees` |
| `run_records` | 2 commands, 3 processes | `RegistryTracksRuntime`, `DetachedStartIsHonest` |
| `revocation_race` | 1 recipient, 2 invites, 2 revokers | violated: `RevocationMakesStale` |

What they show:

- `owner_side`: one invite serves one recipient; no lease outlives a revocation
  by more than its lifetime, whatever a handler read before it; opens pass only
  with the epoch in force; only a first redemption re-authorizes.
- `access`: the composition implements `ExactAuthority`; a binding has a
  relationship behind it; the cache never runs ahead of the binding; a committed
  accept whose reply was lost is completed by retrying it; a consumer whose first
  relationship was revoked and that a second invite has re-authorized gets its
  session, although its cache may still hold a lease of the revoked epoch, which
  is presented and refused until it expires; sessions of a revoked epoch end.
- `sessions`: `Stop` and `Close` return, and only when everything is finished;
  a carrier ends once, gracefully only after two EOFs; expiry ends a session
  although peer and target are silent for ever.
- `sync_fencing`, `sync_timing`: a displaced owner writes nothing; a lease is
  changed by its holder or taken over at its expiry, within a second; on a
  machine that keeps up an owner never loses its lease, and an orphaned lease is
  taken by a controller that contends.
- `discovery`: no honest answer is refused as ambiguous, nor as replayed unless
  the cached record is in its last second (where the authority, comparing texts,
  may have deleted it and taken an older one again); the cache is the last
  accepted snapshot plus the home's own rows and never goes back; if what the
  authority lists fits in a snapshot, it is accepted in the end.
- `scoped_client`: no expired lease is presented, although the lease, its expiry
  and the stored row are updated apart; the endpoint follows the remote Pipe;
  nobody waits for `refreshMu` for ever. A pair of a revoked epoch gets a
  successor only from an exchange that was checked before the revocation and
  minted after it, and the client uses that less than a time-out after the
  revocation.
- `reservation`: no renewal comes too late, however it falls between ticks and
  however long its calls take; the record of a Pipe that calls itself ready
  expires only while its successor is being announced, or when the Pipe was
  started with a grant about to expire; both happen. A degraded run recovers.
- `local_key`: the key file behaves like `KeyCell`: a key in it is never
  replaced, and a key made after another was withdrawn is a new one; a rollback
  removes only its own, unreported key; a key reported as created survives a power loss;
  `Provision` returns, though the name of the lock is removed while it is held.
- `workflows`: unless an `rm` overlaps another command, a defined Pipe's key file
  holds the key its ID is derived from. After the redemption the key that made it
  stays, whatever fails, so that a retry can complete, and none of the conflicts
  that connect checks for before it comes up after it unless another command
  overlaps. Path resolution and tunnel agree for every graph and hop limit, where
  the Pipes after the first publish records.
- `run_records`: with commands given one after the other, the record names the
  process that serves the Pipe, through crashes, launchd restarts and installs
  that fail, unless one leaves its service loaded and its supervisor record
  deleted; `start -d` tells the truth about its child whatever else runs.

Bounds. Two recipients for one invite and an old and a new invite are the
smallest contest; the proofs remove the bound for the owner side. `access` has
one recipient: what two recipients do to each other is the owner side's matter,
what two commands of one consumer do to its tables is this run's. Its second
invite is what lets the consumer be accepted again after the revocation, with
the first lease still in its cache; invites are not revoked here. `owner_side`
has one handler, whose requests of different recipients overlap with the
commands of the owner; two handlers at once are in `access` and in the proofs.
`MaxTime` leaves room for a lease to be minted before a revocation and to expire after it;
`MaxEpoch` 2 lets one revocation be repeated. `sync_fencing` needs two
acquisitions and a clock that passes a whole lease. In `discovery` a record
expires while an answer is under way, generations outnumber publications, and a
second has moments before its last, so that texts and moments disagree inside
the last second of a record and agree before it. Two publications are two
records of one Pipe or one of each; the limit of 1 makes a snapshot that is too
large. In `scoped_client` one lease lifetime spans margin and time-out.
`workflows` needs three commands so that an `rm`
and a third command can meet a killed one; a hop limit of 2 with two names has
chains at, under and over the limit, cycles and self-targets. `run_records`
needs three processes for a restart by launchd during a restart by command. In
`reservation` one of the three lifetimes is refused, one leaves room for exactly
one late pass, one is the record's; a grant of 3 units expires long before.

`CHECK_DEADLOCK FALSE` is set where the system really stops: `access` (clock and
faults exhausted with no binding and no usable invite left), `sessions` (the
runtime tree is closed), `workflows` and `run_records` (all commands are over).

Fairness. Handlers and goroutines run, their I/O has deadlines (10 seconds on
every handshake), timers fire, and a read or write on a stream or connection
closed on this machine returns. `AccessFairness` also assumes that the user
keeps retrying each invite and that applications keep connecting (strong
fairness, since a slot is busy in between); without that no claim about eventual
access makes sense. Nothing is assumed of peers and targets.
`PromptFairSpec` makes every thread of a controller run and every timer fire
before the clock passes it; it holds on a machine that is not overloaded or
suspended. `RelayReservation` makes the same assumption of its one goroutine.
`Converges` and `EndpointFollows` assume that fetches are repeated (the code's
cadence) and, of the network, only that a request repeated for ever is answered
in the end (strong fairness). `ScopedClient` and `LocalKey` assume that a mutex
or `flock` that is free again and again is got in the end, which Go's mutexes
and the kernel's wait queue give.

## Findings

The checked one:

- `revocation_race`: `tubo revoke pipe-access` computes the next epoch outside
  the transaction that writes it, and `Store.Revoke` accepts an equal epoch, so
  the second of two overlapping commands reports success without making a
  relationship stale that was accepted between the two.

Observations made while modelling. They are not runs of their own; where a
property above holds only under a condition, one of them is the reason.

- The epoch check of a redemption and its commit are separate transactions
  (`exactauthority/redeem.go:129`, `:142`). The damage is bounded:
  `RevocationBound` still holds and such a relationship cannot be renewed, but it
  can replace a newer relationship of the same recipient, who then needs a fresh
  invite.
- A remote owner's `revoke pipe-access` reads the epoch from the local store
  (`cli/app.go:992`), against the comment before it: a second revocation from a
  member's home does not advance the authority's epoch.
- `serve` trusts the session to have ended a carrier that `SetActiveCarrier`
  refused (`runtime/serve.go:218`); the session never saw it.
- `runOwner` never returns true (`runtime/sync.go:139`), so a controller that
  lost its lease returns for good while its runtime runs on.
  `docs/reference/STATE.md:97` says both that runtimes contend "every bounded
  interval" and that "renewal loss/cancellation stops later attempts".
  `PromptOwnerHoldsLease` shows that on a machine that keeps up losing a lease
  needs a failing store.
- The expiry of a sync lease is compared as a text (`store/store.go:1179`), so a
  contender stamped at a whole second takes over up to a second early. The
  fencing token keeps this harmless.
- The key lock is removed by name before it is unlocked (`localkey/key.go:105`),
  so two processes can hold it; what excludes the second key is the link, not
  the lock.
- After a failed pass over a live relay connection `due` still goes by the lost
  reservation's schedule (`reachability/relay_reservation.go:225`), and after a
  failed publication by that of the new one, which `record` has stored before
  `onReady` publishes. `docs/runbooks/OPERABILITY.md:98` says that "remote
  publishers retry failed grant/announcement renewal every five seconds after the
  normal renewal deadline until authority recovers"; the next attempt comes with
  the next renewal of the reservation. `Recovers` holds.
- A publication has no deadline of its own, and the first one takes the grant as
  it is; hence the two exceptions in `RecordFresh`. `NoLapse` needs lifetimes that
  are refused or leave room for a publication and a late pass, `RecordFresh` that
  they are no longer than the record's (`Timing`); a relay that grants only a
  little more than the minimum, or more than an hour, is outside.
- A creator of a key that fails or dies between the link and the sync of the
  directory can leave another process, which has loaded the key meanwhile, with
  one that a rollback or a power loss takes away, although the comment at
  `localkey/key.go:84` promises a durable key to every caller of `Provision`.
  `CreatedKeyStays` is about the creator.
- `attach` writes the Service first, "so a Pipe never outlives its target
  Service definition" (`usecase/attach.go:41`), but in a transaction of its own:
  an `rm` of the Service that falls between the two writes leaves a Pipe without
  one. A connect can meet a conflict after the redemption when another command
  defines a Pipe of its name meanwhile (`overlap` in `InviteNotBurnt`).
- The opener of a next hop looks its record up by name
  (`runtime/engine_adapter.go:47`), so a path through a Pipe without a scope,
  which path resolution accepts at start, cannot be opened.
- `rm` of a connecting Pipe deletes the recipient key (`cli/operations.go:742`),
  while the binding stays: `domain/model.go:180` says that the accepted Pipe stays
  usable. Hence `removed` in `InviteNotBurnt`.
- `rm` of a Pipe that is starting, a failed second start over a live local Pipe,
  and a start over a live but degraded run delete or replace the record of a
  living process (`booting` and `passed` in `RunRecords`). An interrupt while
  starting leaves a `starting` row. A stopping runtime records `stopped` before
  its host is closed, and the recovery goroutine may overwrite it. The
  `ProcessState` test in `startDetached` never fires, since nothing has waited
  for the child. The cleanup of `supervise install` ignores its errors
  (`cli/supervisor.go:254`): a service that could not be booted out runs on, and
  with its supervisor record deleted no command refuses to start a second runtime
  (`orphan`).
- The lease row of a scoped client can hold one lease with another's expiry
  (`runtime/pipe.go:693`); the margin of a minute covers it. A denied open does
  not drop the cached lease. A connection that got `refreshMu` inside the
  cool-down gives up although the record changed while it waited. The authority
  checks the epoch of an exchanged pair and reads it again to mint; hence the
  exception in `RevokedPairsEnd`.

## Proofs

The theorems hold for all values of the constants. What they state is checked by
the runs on the instances above, except for a few consequences of the inductive
invariants (`NeverAhead`, `EpochMonotone`, `GivenKeysAreOne`, `KeysAreWhole`,
`WaitsEnd`, `ExpiryIsNoticed`, `TakeoverIsPrompt`, `LockIsHeldToFetch`) that no
run lists.

`ExactAccess_proofs`, owner side: for every set of recipients, invites, handlers and
revokers and all lifetimes, `IInv` is inductive (`Inductive`), and from it follow
`OneInviteOneRecipient`, `BoundedRevocation`, `NeverAhead` and the action
properties `EpochMonotone`, `OpensAreFenced` and `Reacceptance`. The assumptions
are positive lifetimes, natural bounds, and a `None` that is no recipient and no
invite. Why `RevocationBound` is not inductive: it speaks of minted leases, but
whether the next lease respects it depends on when a handler took its time stamp
relative to a revocation it has not noticed. `Knows` adds exactly that: a
handler past the check of an invite (an epoch) took its stamp no later than that
invite was revoked (that epoch ended), because the check would have failed
otherwise and the clock only grows. With a bound on the lifetime of a lease the
bound follows. That a revoke command never read an epoch greater than the
current one gives `EpochMonotone`.

`ExactAccess_proofs`, composition: `AccessImplementsAuthority` is the refinement
that the `access` run checks, for any number of consumers, client slots and
faults. Every step of a client either leaves the owner's variables alone or is a
handler's step; what needs an argument is that a client starts a handler only
with what the owner's specification lets a handler start with: an open presents
a lease the owner has issued. `AccessInv` carries it: on top of `IInv`,
a client past the binding write has a durable binding and one with a lease in
hand has one that was issued to it (`Entitled`), the handler it waits for works
for its recipient (`Attended`), and whoever redeemed an invite has a relationship
(`RedeemedIsRelated`). `BindingsAreAccepted` and `CachesFollowBindings` follow.
`AccessIsRevocable` and `AccessIsFenced` are what the refinement is for: the
owner side's invariants and action properties hold of the composed system without
another proof.

`ScopeSync_proofs`, for any controllers and all settings that `settings()`
accepts: `Invariance`, `StaleOwnersAreFenced`, `LeasesAreTheirHolders`. The
invariant adds to the types that the row's token is 0 or the latest one, that a
controller has a token exactly while it owns, and that only owners fetch; with
them a commit that finds its own token in the row is a commit of the latest
owner. `LeaseIsItsHolders` also needs `TextOrder`: if the text of `e` is not
behind that of `s`, then `e < s + Res`.

`PromptOwnersHold`, in the same module, is about a machine that keeps up
(`PromptSpec`): an owner holds its lease until it gives up. It assumes
`RoomyLease`, `Renew < Cadence` and `3 * Renew + Res <= TTL`. The code's defaults
satisfy it (`runtime/sync.go:15`: 1 minute, 45 seconds, 10 seconds), and so does
the `sync_timing` instance. `settings()` itself accepts any lease longer than
`Renew` and than the time-out, which is not enough: the bound is tight, TLC finds
the property violated with `Renew` 1, `Res` 1 and `TTL` 3. The reason is that
three intervals can pass without a renewal: an attempt starts up to one interval
after the last renewal, it ends just before its first heartbeat, and the loop
then sleeps for another interval. `PromptInv` says so: `Timed` that no time
passes between a stamp and its store call nor beyond a due timer, `Held` how old
the lease can be at each place of the loop. That no contender takes the row
meanwhile is `HeldLong`, where the second of textual disorder is paid for.

`TakeoverIsPrompt` is the safety half of `OrphanedLeaseIsTaken`, and gives the
time that property leaves open: on a machine that keeps up, with a store that
answers and with any settings, no controller still waits when the lease in the
row has been expired for a second, `Renew` and its jitter of `Renew \div 4`.
`ContendInv` follows the row between the refusal and the wait: a refused lease
expired less than a second ago (`TextStrict`), and whoever writes the row
meanwhile writes an expiry of a whole lifetime from now or deletes it. A store
that fails is excluded because the code then waits without having seen the row.

`Discovery_proofs`, for any Pipes, fetches, lifetimes and limits: `Invariance`,
`CacheFollowsSnapshot`, `SnapshotsApply`, `NewsIsNew`, `OwnRowsAreKept`. That an
answer is acceptable depends on every answer still under way, so the invariant
orders all snapshots in play (`SnapshotsInOrder`: equal generations have equal
contents, and a later one has no older record unless that record was in its last
second) and all records in play (`RecordsInOrder`: among records of a Pipe the
sequence, the issue time and the expiry agree).

`PublishedPipe_proofs`, for any number of processes, keys and inodes: the conjunction
`KeyInv` is inductive (`RollbacksAreOwn`, `CreatedKeysStay`, `GivenKeysAreOne`,
`KeysAreWhole`), and `ImplementsCell`: every step of `LocalKey` is a step of
`KeyCell` or leaves it unchanged. The steps that need the invariant are the link,
which fills the cell with a key that nobody has (`NewKeysAreNew`: a key that was
generated and not linked is nowhere else), the rollback, which withdraws only a
key nobody was promised, and the power loss, after which a reported key is still
there because its name and data were on the disk. `GivenKeysAreOne` says which
keys callers may still hold besides the path's: those taken back or lost before
they were reported.

In the same module, for all margins, ticks and time-outs that satisfy
`Timing`: `ReservationNeverLapses` and `RecordNeverLapses`. `PassCovered` says
that at every point of a pass what is left of the reservation covers the rest of
the pass; `RecordCovered` that a record that is not cut short by its grant covers
what is left of the reservation, except during a publication. `Timing` asks that
the margin covers a tick and two time-outs, as 60 seconds cover 5 and twice 15,
and nothing of how the margin compares to a publication.

`ScopedClient_proofs`: `LeasesLive`, for any number of connections and all times
with a margin of three set-up time-outs. The expiry the code keeps may be later
than the lease it is kept with, by the age of the request that set it; the
invariant bounds that drift for the cache, the row and every caller, and the
margin pays for it. `RevokedPairsHaveNoSuccessor` is `RevokedPairsEnd`:
`SurvivorInv` adds that a refresh which a revocation has overtaken after its check
has no more of its time left than is missing from a time-out since the
revocation. `LockIsHeldToFetch` is what `ConnectionsSettle` needs besides
fairness: a connection holds `refreshMu` exactly while it fetches, which its
time-out ends, so no return path of `resolve` leaves it locked and no two
connections fetch at once.

`SessionLifecycle_proofs`, for any number of sessions: `StopsAreComplete`,
`CarriersEndOnce` and the action property `GracefulIsClean`. `SessionInv` ties
the place of a session's goroutine to what the session owns and to its count of
admitted work (`PhaseOK`), counts the terminal actions of a carrier exactly, one
for a closer past an owned carrier and one for a goroutine that left with its own
defer (`CloserOK`), and says that a registered session is in the registry, in the
list of the closing Pipe, or stopped (`TreeOK`). The last is what makes
`NodeRuntime.Close` complete although sessions are created while it runs.

Two more theorems there are the safety halves of the liveness properties.
`WaitsEnd` (for `StopsReturn`): whoever waits for a stop, the goroutine in `Stop`,
the closer in `completeStop` or `PipeRuntime.Close`, waits for something that can
move without waiting for anybody: the closer itself, or a pump whose remaining
copies have a closed end. There is no cycle of waits, for any number of sessions.
`ExpiryIsNoticed` (for `ExpiryEndsSession`): while a server's session carries data
its timer is armed or its stop has begun, wherever expiry falls in the hand-over
of the timer. `WatchInv` adds to `SessionInv` that a stop that is awaited has
begun, and what `ExpiryIsNoticed` says from admission on; the step lemmas
(`Advances`) add that no step undoes a stop.

`Workflows_proofs`, for any number of names and concurrent commands:
`KeysBackPipes` and `InvitesAreNotBurnt`. Both speak of the store and the files,
but depend on what each command has read and not yet written. `WorkInv` adds,
for every command, what it has in hand at each step (`InHand`), that the
specification it is about to store is that of a key on disk and that `rm` is
about to delete a key file no definition uses (`Backed`, `Unused`, while no `rm`
overlapped), that an accept redeems with the key on disk (`Redeems`), and that
after the conflict checks nothing stands in the way of the local Pipe (`Free`,
while nothing overlapped). The last is why a connect that runs alone meets no
conflict after the redemption; that a write fails is always possible, and leaves
the key.

`TraversalsAgree`, in the same module, is `TraversalAgrees` for any number of
names and commands and every hop limit of at least 1 (`TraversalAssumption`): in
every graph that the commands can build, path resolution and tunnel accept
exactly the Pipes whose chain (for the tunnel, one whose further Pipes publish
records) ends in a defined Service within the limit. It is
about recursive functions, so it needs induction over the number of hops.
`SetInduction` is derived from the library's well-foundedness of `<`, and
`Iterate` from it: a function has an n-th iterate, which lets the recursive
definitions be unfolded. The argument is about trails: from a Pipe there is one
way to go, so every chain is a beginning of the trail (`ChainsAreFrom`,
`TrailLeads`), which either ends or comes back to a Pipe it has passed
(`CyclesEnd`, `LooseEnds`, `TrailEnds`); a hop of the resolution (`WalkSteps`) or
of the tunnel (`TunnelSteps`) goes one Pipe further along the trail or settles
the answer. `GraphsAgree` concludes this for every graph that satisfies
`GraphOK`: stored definitions are valid and their IDs are distinct. That the
commands only build such graphs is `WorkInv` with `ValidInv`, which says of every
stored definition, and of every one a command has built and not yet stored, that
it passed `Valid`.

`RunRecords_proofs`, for any number of processes and commands: `RegistryIsRight`
and `DetachedStartsAreHonest`. `RunInv` has two halves. `Sound` holds whatever
commands overlap: a record, or a copy of one in somebody's hands, that names a
process names one that has been ready (`RunOK`), and a command's child is what
the command says of it (`ChildOK`); it gives the second theorem. `Exclusive`
holds until one of the circumstances in `history`: one command is at work, at
most one process can still write or delete the record (`Holding`), and the
record, the reservation made for it, or launchd knows that process (`Known`).
It has to speak of processes that do not serve yet and of those that no longer
do, since both still write the record. A loaded service has its supervisor
record, or an install is about to write it or to undo what it did
(`Supervised`). `NoRow` is assumed to be no record.

Only model-checked: the liveness properties, since TLAPS does not reason about
fairness and `ENABLED` (`AcceptCanBeCompleted`, `AccessReturns`,
`RevokedSessionsEnd`, `StopsReturn`, `ExpiryEndsSession`, `OrphanedLeaseIsTaken`,
`Converges`, `EndpointFollows`, `ConnectionsSettle`, `Recovers`,
`ProvisionReturns`). Every invariant, action property and refinement
that a passing run checks is also proved.

## Not modelled

- Signatures, encodings and framing: their correctness is cryptographic or
  syntactic. A model's request is one that passes these checks.
- Member invites and publish grants of a scope: checks of signed data without a
  protocol of their own. `RequestShareInvite` and `RedeemShareInvite` have no
  caller outside tests, and the authorizer of scoped opens panics if called.
- Store migrations: one transaction before any other statement of the process.
- The dialling of `relay_recovery.go` (only the status it writes is in
  `RunRecords`) and the scope authority's renewal every fixed ten minutes.
- Address parsing, candidate selection and the bootstrap bundle: functions of
  their input. libp2p itself. Parsing, help and rendering of the command line.
- A Pipe's definition may change while it is served; the process keeps the one
  it loaded at its start. `Workflows` and `RunRecords` are therefore separate.
