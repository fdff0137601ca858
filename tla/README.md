# Marbles: a verification project

Marbles is a work tracker for humans and coding agents: one server, one database,
HTTP clients. This directory holds TLA+ modules translated from its Rust source,
TLC configurations that check them on small instances, and proofs checked by
TLAPS. Paths below are relative to the repository; `db.rs` alone means
`src/db.rs`. PROJECT.json maps every definition to its source lines and lists the
hazards of the code, each at its line with the properties that would catch it.

    tlasany SqliteStore.tla                              # parse
    tlc -workers 2 -config sqlite_lease.cfg MCSqlite     # check
    tlapm SqliteStoreProofs.tla                          # prove

Contents: [inventory](#inventory),
[modules](#modules-and-how-they-correspond-to-the-code), [runs](#runs),
[fairness](#fairness), [disagreements](#where-code-and-documentation-disagree),
[proofs](#proofs), [limits](#what-is-not-covered), [plan](#plan).

## Inventory

**Issue tables** (`db.rs`, `types.rs`). State: rows of `project`, `issue`, `dep`,
`history`, `outbound_event`. Operations: create, update, labels, add/remove
dependency, claim, touch (heartbeat), release, sweep, close, supersede, drop
project. Hard: leases that expire by a clock nobody shares, operations of several
transactions, an outbox written with every history row. Correct when: one live
holder per issue; an acyclic graph with both ends of every edge present; closes
past no open blocker; every change accounted for by an event queued in the same
transaction.

**SQLite store behind the HTTP API** (`db.rs`, `api.rs`, `store.rs`). State: one
connection behind a mutex. Each handler runs on a blocking thread
(`storage_call`), so requests interleave between lock sections, never inside one.
Hard: check-then-act across two lock sections (`release`, `close`, `supersede`,
`add_label`, `remove_label`); the clock is read before the lock is won; the server
restarts between two sections; the CLI can open the same file for `project rm`
(SQLite's own lock keeps its transactions apart).

**PostgreSQL store** (`postgres_store.rs`). The same operations, each one
transaction under the company's advisory lock, for blue and green servers at once.
Hard: skewed clocks; one server stopping in the middle.

**Shared PostgreSQL connection** (`postgres_store.rs`: `with_reconnect`,
`SharedClient`, `transaction`; `client.rs`). State: a slot with at most one
connection and a `reconnecting` flag. Hard: the lock is released while dialing; a
connection lost before or after COMMIT was sent; panics; a caller that gives up
while its request runs on. Correct when: nothing is applied twice, 2xx means
applied, a refusal means not applied, and the health check recovers.

**Outbox and webhook publisher** (`webhook.rs`, `log_event`, `pending_events`,
`mark_event_*`, the company registries). State: outbox rows with attempts and next
attempt, the stores the process has open, and the publisher's pass. Hard: a stale
batch, a crash between sending and recording, two publishers on the same rows,
rows dropped in flight, errors that abandon a pass, backoff. Correct when:
delivered means accepted, event ids are never reused, and everything goes out
eventually.

**Sweeper** (`main.rs`, every 60 s; `claims.sweep` for humans). Clears lapsed
agent claims, reports lapsed human holds.

**Company registry and health** (`CompanyStores`, `PostgresCompanyStores`). SQLite
registries open every file at start; the PostgreSQL registry is filled only by
requests.

**Remote dependencies** (`identity.rs`, `assertion_cache.rs`, `refs.rs`, the
verdicts of `webhook.rs`, `remote_dep` rows of `db.rs`). State: a store's identity
file with its key pairs, the client's `remotes.json` of pinned keys, the cache
files of verified assertions, the remote edges. Operations: sign, rotate, restore;
`remote add`, `rm`, `rotate`; observe, note unreachable, prune; the gate of
`ready`. Hard: everything arrives late, twice or damaged, keys retire while their
word is cached, the registry is rewritten without a lock. Correct when: work
passes a remote blocker only on that store's own, fresh, `closed`; a retired key
stays retired; the last verified state is kept.

**Readiness, plans, folders, reports** (`plan.rs`, `report.rs`, the folder and
metric statements of `db.rs`). State: the issue tables and `folder` rows; the rest
is computed. Operations: `plans.create` (many transactions), `ensure_folder`,
`move_project`. Hard: a creation cut short; the same question answered by several
pieces of code (ready, frontier, rollup, SQL). Correct when: the chart's numbers
are those of a schedule, a frontier offers only work that may start, one issue per
plan node, folders are a forest, counts add up.

**Import** (`jsonl.rs`, `import.rs`). One transaction per row, edge and status,
made (the first) to be run again after a crash. Correct when: a run that reports
success has landed every row, edge and close, whatever others did.

**Records backend** (`adapter.rs`, `records.rs`, `soil_engine.rs`). State: an
append-only trail, or a `soil:records` host. An operation is several appends with
nothing grouping them. Hard: death between two appends, several invocations,
counters resumed by replay. Correct when: each completed operation is one the
tables allow, no event without its audit, no number twice.

**Signing keys at the server** (`auth.rs`). State: a copy of the provider's keys,
a refresh mutex, the last attempt. Hard: one fetch shared by all requests, a
cooldown, slow and failed fetches, rotation meanwhile. Correct when: a new key is
seen, a withdrawn one stops working.

**Saved login** (`oidc.rs`, `main.rs`). State: `client.toml` and
`client.refresh.lock`. Hard: refresh tokens that work once, several commands, a
login that replaces the file, commands that die. Correct when: the saved login can
be refreshed, nobody posts a used token, a token goes only to its own server.

**Not modelled**: business-hours deadlines (`time.rs`), snapshot, backup and
doctor (`db/snapshot.rs`), the PostgreSQL migration, command line and setup,
canvas sync and cutover probe, the viewer; see [what is not
covered](#what-is-not-covered).

How they interact: the CLI refreshes its login and calls the API over HTTP; the
server checks the token against its keys; a handler reads the clock, picks the
company's store from the registry and calls it; the store appends history and
outbox rows in the transaction of the change; the sweeper and the publisher of
each server work on every store its registry has open; the publisher posts to an
external receiver; readers combine the tables with the verified cache of remote
assertions.

## Modules and how they correspond to the code

| Module | Models | Role |
| --- | --- | --- |
| `LeaseLock` | the promise about claims | abstract specification: a lock per issue |
| `IssueRows` | `db.rs` tables and transactions | shared by the stores: one `...Tx` operator per transaction, the properties they must keep |
| `SqliteStore` | `db.rs`, `api.rs` | actions = lock sections; `call` = what a thread carries between them |
| `PostgresStore` | `postgres_store.rs` | actions = transactions; only `release` takes two |
| `RecordStore` | `adapter.rs`, `records.rs`, `soil_engine.rs` | actions = appends; refines the steps of `IssueRows` |
| `Outbox` | `webhook.rs`, the outbox half of `db.rs` | queueing, passes, deliveries, backoff, registry |
| `PgSession` | `with_reconnect`, `transaction`, `client.rs` | one connection, several callers |
| `StoreKeys`, `RemotePins`, `AssertionCache` | `identity.rs`, `remotes.json`, `assertion_cache.rs`, `refs.rs` | operators: keys and verdicts; the registry; the cache, the gate and what the reports show |
| `Federation` | their composition | a remote store and a client's commands |
| `WorkGraph`, `Portfolio` | `plan.rs`, `report.rs`, the folder and metric statements of `db.rs` | operators of the readers; `Portfolio` also the folder tree |
| `Planning` | `plan.rs`, `jsonl.rs`, `import.rs` | requests of many transactions over `IssueRows` |
| `Credentials` | `oidc.rs`, `main.rs` | commands sharing a saved login |
| `KeyCache` | `auth.rs` | requests sharing the signing keys |
| `MC*` | | values for TLC |
| `*Proofs` | | theorems |

`IssueRows`: `issue[i]` is the row of id `i` (`status = "none"`: no row), `dep`
the edges, `projects` the project rows, `now` the wall clock. `events` is what the
last step appended to history, with `queued` telling whether `log_event` also
wrote the outbox row (it does when the issue row exists after the change). A
transaction that fails writes nothing, so an error path is a false guard, or the
end of a request that had already committed one of its sections (`NotFound`). Ids
belong to a fixed project (`ProjectOf`); titles, parents, priorities, metadata and
timestamps that no guard reads are abstracted.

`SqliteStore`: a `Stamp` is the clock reading a handler took before queueing for
the lock, at most `MaxLag` old. A human principal claims as itself for a
business-hours deadline (any member of `Deadlines`); an agent principal may name
any assignee, as in `claims_claim`, `claims_touch` and `claims_release`, and ask
for any ttl, clamped only from above. `Crash` loses the requests and keeps the
rows. `SupersedeClose`/`SupersedeRead`/`LabelsCommit` are `supersede`'s
`close_unchecked`, then `add_label`'s read and write.

`PostgresStore`: `now` is the most advanced of the servers' clocks; `MaxLag`
covers skew and waiting for the advisory lock. `Stop(s)` ends one server's
requests. There is no `drop_project`.

`RecordStore`: an operation reads the live records, and `Begin` gives its process
the set of appends to make; each append is an action. An append has a `turn`: those
of one turn (the edges a drop removes, say) go in any order, a turn waits for the one
before. `RowAfter` is what a record makes of the row it replaces. `shared` is the
host: a trail file belongs to one process, a `soil:records` host to all. `Stop` is
the process dying, `Open` its replay, with the counter taken from the trail
(`Resume`). `dueIssue`, `dueDep` and `dueProjects` are the records as they will be
when the appends under way are made: that view maps every operation to a
transaction of `IssueRows` (`ImplementsTables`).

`Outbox`: a row's `next_attempt_at` is the countdown `wait`; `attempts` is capped
at the clamp of the backoff, beyond which nothing reads it. `sent` holds the
attempts fetched with the event, from which the delay is computed. The receiver is
external: it accepts or refuses, and an answer can be lost. `Open` is
`for_company`; `AtStart` what a starting server has open.

`PgSession`: `pc` follows `with_reconnect`: `lock`, `dial` or `redial` (lock
released), `op` or `again` (lock held). `tx` is the transaction as the database
sees it: COMMIT is `sent`, then `applied` or `lost`; it can be applied after the
client is gone. `verdict` follows the status mapping of `api.rs` (a 422 for
`Error::Bad`, a 500 for database errors) and `client.rs` (timeouts and 5xx are
"unavailable"). `update` and `close` read the row back in a second call
(`ReadsBack`).

The federation modules: a key is an id and its material; a signature is the name
of the key that made it, or `NoSignature`. `issued` and `signed` hold every
descriptor and assertion ever made, and any of them, or a damaged copy, may reach
the client at any time. The client's clock is `now`; `Ahead` is how far a signer's
clock may run before it. A command of `remote` loads `remotes.json`, decides and
writes it back; one in `Slow` can be overtaken between the two, the others do it
at once. A crash during the write leaves `torn`, which readers take for an empty
registry and the commands refuse. `View` is what `marbles remote` and the reports
show, `Satisfied` the gate of `ready_with_remote_edges`, `EdgeFreshness` and
`EdgeAudit` the two judges of a stored edge.

`WorkGraph` and `Portfolio`: `fact[i]` holds the columns only readers use (plan
key, conflict group, estimate, type, parent, timestamps). `Topo`, `Finishes`,
`LatestFinishes`, `Slack`, `CriticalChain`, `Peak`, `Frontier`, `Rollup`,
`Burndown`, `Scrum` and `Dashboard` are the functions of those names; minutes are
small numbers.

`Planning`: a `job` is the script of transactions a request has still to make
(`PlanScript`, `ImportScript`, `ArrayScript`); `Abort` is an error or the process
dying before any of them. The JSONL importer ends with rounds over the rows it has
still to settle (`Settle`, `EndRound`). `scene` picks, per behaviour, which
operations its clients use.

`Credentials`: `cmd[p]` is where a command is between reading `client.toml` and
saving it, with the configuration it holds; `lock` is the kernel's lock
on `client.refresh.lock`, which ends with its holder. The provider is external:
it redeems a token once (`live`, `minted`). `spoilt` are tokens lost to something
outside the program: an answer that never came, a session ended elsewhere, a
command that died holding the only token. `Revoke` also stands for a request that
was abandoned and is redeemed late.

`KeyCache` has a clock of its own: `Lookup` is `cached_jwks`, `Enter` the part
under the refresh mutex, `Serve`, `Fetched` and `FetchFailed` the fetch. `Never`
is later than every time of the instance. `MCSignIn` puts `Credentials` and
`KeyCache` in one run: they share no variable, and each behaviour explores one of
them.

## Runs

| Run | Shows | Distinct states |
| --- | --- | --- |
| `sqlite_lease` | `LeaseSpec` (refinement of `LeaseLock`), `AuditTrail`, `LiveClaimEnds`, `LapsedAgentRequeued`, `LapsedHumanEscalates` | 98k |
| `sqlite_graph` | `DepAcyclic`, `EdgesResolve` | 55k |
| `postgres_edits` | `AuditTrail` of every edit of issues, labels and edges | 254k |
| `postgres_blue_green` | `LeaseSpec` and `AuditTrail` with two skewed servers | 12k |
| `outbox_sqlite` | `DeliveredWasAccepted`, `FreshIds`, `EventuallyDelivered` | 68k |
| `outbox_postgres` | `DeliveredWasAccepted`, `EventuallyDelivered` with two publishers | 315k |
| `pg_session` | `AtMostOnce`, `OkMeansApplied`, `RefusedMeansNotApplied`, `HealthRecovers` | 46k |
| `federation` | `GateSound`, `AuditAgrees`, `RetiredStays`, `LastKnownKept` | 578k |
| `records` | `OutboxHasAudit`, `EdgesResolve`, `SequencesKept`, `ImplementsTables` (refinement of `IssueRows`' transactions), `NeverStolen` | 151k |
| `planning` | `ChartSound`, `FrontierSound`, `PlanUnique`, `ImportLands`, `FolderForest`, `ReportsAgree` | 213k |
| `sign_in` | `SavedLoginUsable`, `NoNeedlessLogin`, `TokenForItsServer`, `NewKeySeen`, `WithdrawnKeyEnds` | 1987k |
| `records_claim_race` | `OneClaimWins` is violated (disagreement 1) | |

Eleven more configurations, not among the runs of PROJECT.json, reproduce the
[disagreements](#where-code-and-documentation-disagree): TLC refutes the property each
of them names, in seconds.

Every property of a passing run has a mutant in PROJECT.json, a plausible bug
under which the same run finds it violated. Mutants stand next to the definition
they change, with a suffix (`SweepTx_Swapped`).

Bounds, and why they are enough:

- One issue with three names (`sqlite_lease`): a claim concerns one row. `Horizon
  = 3` seconds with ttls 0, 1, 2 and deadlines 1 and 3 (one above `MaxTTL = 2`, so
  the clamp of a claim and the unclamped renewal both occur) lets a lease be
  granted, lapse, be swept and be granted again; `MaxLag = 1` lets a transaction
  use a reading older than the last commit. One thread is enough for a request
  caught between two sections while every single-section request runs around it.
- Three issues in two projects (`sqlite_graph`): the shortest cycle a check of
  direct back edges misses, and an edge across projects in both directions. No
  clock is needed, so `Horizon = 0`. Two of the issues are symmetric, the third is
  not.
- Two issues and one worker (`postgres_edits`): an issue and its blocker, or its
  replacement. Edits are single transactions, so further servers add nothing. Claims,
  heartbeats, releases and sweeps have their `AuditTrail` in `sqlite_lease` and
  `postgres_blue_green`.
- `Limit = 2` with three events in one store and one refused for good
  (`outbox_sqlite`): a fetch that does not return everything due, a store behind
  another one, backoff up to its clamp (`MaxExp = 1`). Two faults allow a lost
  answer and then a crash; two publishers already interleave fully with one.
- Two writers, one reading back, a probe and four faults (`pg_session`): the
  connection breaks, the retry's breaks as well, while another caller dials or
  gives up.
- One remote store with three interchangeable issues and a cache of two files
  (`federation`), so that pruning happens; two commands, of which one may be
  overtaken; a window and an overlap of one second within three, so that both end;
  a key pair beyond the first (rotations and restores together, `MaxKeys`), one
  assertion and one damaged file.
- Two issues in two projects, two processes, both hosts, 14 appends (`records`):
  an operation dies half way and the trail is opened and used again; the claim
  race needs one more append and a second agent.
- Six scenes (`Scenes` of `MCPlanning`): a plan drawn up in several attempts with
  edges added by hand; one being executed, with specs that are refused; one under
  claims that lapse; imports cut short and run again, with forward edges, a row
  closed before its blocker, a child before its parent, an edge out of the export,
  a cycle; folders; a board over time. Four issues hold a diamond across two
  projects.
- Two commands, two profiles and three refresh tokens, two seconds (`sign_in`): a
  command waits while another rotates and a login replaces the file. Two requests
  and two keys over five seconds with ttl 3, cooldown 2 and a fetch of 1: a copy
  outlives a cooldown and ends.
- `Ops` names the operations an instance's clients call, so each run spends its
  states on the operations its properties are about.

Deadlock is checked in the first seven runs: clients may stop calling, but the
sweeper, the publisher and the probes go on. The others bound clocks, appends and
tokens instead, so an instance may come to an end (`CHECK_DEADLOCK FALSE`).

## Fairness

- `SqliteStore`: requests in flight finish (`WF` of `Commit(t)`: threads are
  scheduled; a crash ends them instead), the sweeper keeps sweeping with a fresh
  clock reading (its loop ends neither on an error nor on a failed worker), and
  time passes. Clients owe nothing.
- `Outbox`: the publisher's loop never ends (`Publisher::run` logs and goes on)
  and time passes. `WF` of `Open` says that every company's clients keep making
  requests: a restarted PostgreSQL server knows no company until then, and its
  events wait. Faults are bounded by `MaxFaults`, the usual "eventually the faults
  stop". `EventuallyDelivered` assumes fewer events refused for good than one
  fetch returns.
- `PgSession`: connects, dials and statements have deadlines, so callers finish;
  the health check is polled; PostgreSQL is brought back up.

`Federation`, `RecordStore`, `Planning`, `Credentials` and `KeyCache` state safety
only: nothing in that code is owed to a caller beyond its own request.

## Where code and documentation disagree

Each has a configuration that refutes the property named, a sentence of the repository,
on a small instance in which the case happens (`tlc -config plan_wiring.cfg MCPlanning`;
the module is `MCSqlite` for 2 to 5, `PgSession` for 6, `MCPlanning` for 7, 8, 10 and 12,
`MCFederation` for 9 and 11). The first is also a run and a finding of PROJECT.json:

1. `records_claim_race`, `OneClaimWins`: over `soil:records`, a claim reads the issue
   and then its version in two calls (`adapter.rs:1203`), so another invocation's claim
   in between is replaced, against `soil_engine.rs:4`.
2. `sqlite_release_race`, `ReleaseByHolder`: a release clears a live claim that was
   granted to somebody else after its holder check (`api.rs:891`, against `api.rs:889`,
   README.md:288). On PostgreSQL the handler has the same gap.
3. `sqlite_close_race`, `CloseRespectsBlockers`: SQLite closes past a blocker added
   after `check_blockers` (`db.rs:1437`, against `db.rs:1441`). In PostgreSQL the check
   and the write are one transaction.
4. `update_closes`, `ClosedHasReceipt`: `issues.update` closes without evidence
   (`api.rs:698`, against README.md:34). The patched status passes the blockers as
   well.
5. `sqlite_supersede_race`, `SupersededPoints`: `supersede` closes the issue, reads its
   labels and writes them back in lock sections of their own (`db.rs:1520`, `db.rs:1098`),
   so another client's label edit in between takes the pointer away, against
   `db.rs:1512` and docs/durability.md:13. Two label edits lose one of them for the same
   reason, and a restart after the first section leaves no pointer either. In PostgreSQL
   it is one transaction.
6. `pg_unavailable`, `UnavailableMeansNotApplied`: a write reported as "not applied" was
   applied (`client.rs:58`, README.md:342): a late answer, or a COMMIT on a lost
   connection.
7. `plan_wiring`, `OfferedInOrder`: `plans.create` makes the nodes first and wires their
   edges afterwards (`plan.rs:654`): until then, and for good if it stops there, a node is
   offered without its dependencies, against README.md:231.
8. `queue_age`, `QueueAgeIsReady`: the queue age metric counts claimed issues
   (`db.rs:1613`, against `db.rs:1586`).
9. `registry_overtaken`, `RetiredForGood`: `remotes.json` is loaded and saved without a
   lock (`main.rs:2903`, `identity.rs:743`): a rotation that was overtaken writes the older
   copy back, and with it a key that had been retired, against `identity.rs:873`.
   `RetiredStays` of the run `federation` excepts those saves and no other step.
10. `plan_two_authors`, `PlanUnique`: two requests that create the same plan at once both
    find none of its nodes (`plan.rs:620`) and both create them, against `plan.rs:612`.
    The run `planning` checks `PlanUnique` with one author.
11. `federation_workspace`, `WorkspaceHonest`: `read_all` passes over a cache file that
    does not parse (`assertion_cache.rs:701`), so the workspace of a remote is `fresh` while
    one of its references reads as `unverifiable`, although it "never reports more health
    than the weakest reference we hold" (`report.rs:898`).
12. `import_order`, `EdgesOfExportLand`: the array importer drops an edge to an issue later
    in the same export (`import.rs:77`); its comment (`import.rs:74`) excuses only edges
    that leave the export.

Noted from the source only:

- README.md:298, docs/durability.md:13 promise `BEGIN IMMEDIATE`; `Db::tx` uses
  rusqlite's default, deferred transaction (`db.rs:443`), which matters only when
  a second process opens the file.
- README.md:132: a lapsed human hold escalates "rather than being re-stolen";
  `claim` lets anybody take it once it has lapsed (`db.rs:1320`).
- README.md:219: nodes of a conflict group "must never run concurrently"; only the
  frontier keeps them apart, `ready` and claims do not.
- `jsonl.rs:11` calls a row that exists with other content a conflict; the code
  (`jsonl.rs:193`) looks at the project and the import mark only. A child listed
  before its parent fails, on every further run too.
- `report.rs:901` says the worst freshness of a workspace wins, in an order; the
  code (`report.rs:908`) lets the first unverifiable or unknown edge decide.
- `cache.rs:4` keeps the newest answer; of two responses under way the older can
  be renamed over the newer.
- `adapter.rs:702`: dropping a project leaves its folder record.
- `records.rs:376`: a last line torn by a crash makes the trail fail to load;
  `soil_engine.rs:42`: concurrent invocations compute the same audit numbers. The
  properties `ImplementsTables` and `NeverStolen` are therefore about the trail
  file.

## Proofs

Everything below holds for every value of the constants, from the assumptions
named in the modules: projects of ids, policy values in `Nat`, ttls integers,
`NoOne` not a name (`IssueRows`); stamps at most `MaxLag` old; bounds in `Nat`.

- `IssueRowsProofs` proves each transaction once. `RowsNext` collects them with
  arbitrary arguments; the theorems say that a step of it keeps `RowsTypeOK`
  (`RowsType`), acyclicity (`RowsAcyclic`), resolved edges (`RowsEdgesResolve`),
  implements a step of `LeaseLock` (`RowsLease`), ends live claims only by
  release or close (`RowsLiveClaim`) and accounts for what it changes (`RowsAudit`).
  Acyclicity rests on what `Reach` is, the least closed set: an added edge whose
  target does not reach its source closes no cycle, because the reach of any node in
  the new graph is inside the union of its old reach and, if it contains the source,
  the reach of the target.
- `SqliteStoreProofs` and `PostgresProofs` show that every action of the
  store is a step of `RowsNext` or leaves the rows alone, and conclude
  `TypeCorrect`, `Acyclic`, `Edges` (SQLite), `LeaseRefinement` (`Spec =>
  LeaseSpec`), `LiveClaims` and `Audited` (`AuditTrail`). The type invariant includes
  `RowConsistent`: claim columns are set and cleared together, without which a row of
  kind "human" and no assignee would have to be considered, and an id without a row
  has nothing, without which a created row could lose columns unaccounted for. The
  refinement needs no further invariant because `heldBy` is read at `now`, and a
  stamp is never later: what a stale reading calls lapsed is lapsed.
- `OutboxProofs`: `Delivered` (`DeliveredWasAccepted`) from an invariant that a
  positive answer in a publisher's hand is in `accepted`; `Fresh` (`FreshIds`)
  from the one that every id in use, accepted, fetched or sent lies below `next`
  of its store.
- `PostgresProofs`, the connection: `SessionInv` = `SessionTypeOK`, `OneOwner` (the
  connection is in the slot, or with one caller, or being dialed by one while the flag
  is up) and `Knows(c)` for every caller (how `applied`, `tx`, `part`, `pc` and `verdict` constrain each
  other) gives `NeverTwice` (`AtMostOnce`), `HonestOk` (`OkMeansApplied`) and
  `HonestRefusal` (`RefusedMeansNotApplied`). None is inductive alone: that a retry
  applies nothing twice depends on `tx` being unsent whenever a caller dials again.
- `SignInProofs`, saved login: `Ind` = `TypeInv`, `FileInv` (while nobody holds the
  lock the saved token is good, otherwise it is the one the holder started from),
  `CommandInv` (who posts or saves holds the lock, with its own profile's login),
  `LockInv` (the holder posts or saves) and `TokenInv` (which tokens in a command's
  hands are good, and that a new login's is nobody else's) gives `SavedLogin`,
  `NoNeedless` and `RightServer`. None is inductive alone: that the file stays usable
  depends on whether the command that used its token up still holds the lock, and on
  the tokens of logins being nobody else's.
- `SignInProofs`, signing keys: `TypeInv`, `KeyInv`, `CopyInv` and `RequestInv`, with
  `ServedSince`: a copy holds what the provider published at some time since its
  fetch began. From `Lengths` (`KeyHorizon` and the fetch limit in `Nat`, `0 <
  Cooldown <= Ttl`; `auth.rs:260` has 5 and 900 seconds) it gives `Withdrawn` and
  `NewKey`.
- `FederationProofs`: three invariants. `GateInv` (`SignedInv`, `CacheInv`: every
  cached assertion was signed by its store, seen no later than now) gives `Gate`
  (`GateSound`). `PinsInv` (`IdentityOK`, `DescriptorOK`, `RegistryOK`: a record trusts
  each key once, its active key has no end, names are unique, in the file and in every
  copy a command holds) gives `Judges` (`AuditAgrees`: with one pin per key the order in
  which the judges look does not matter) and `Retired` (`RetiredStays`: a rotation lets no
  ended key back, and time ends keys only). `AgeInv` (the cache has at most `MaxEntries`
  files, none dated after now) gives `LastKnown` (`LastKnownKept`): a file that gives way
  was one of the oldest of a full cache, and the file it gives way to was not there
  before, for otherwise the write would not have taken the cache beyond its bound.
- `RecordStoreProofs`: an operation reads, plans its appends and makes them one by
  one, and anything may happen between two of them. `Ind` = `TypeInv`, `CountInv` (no
  number in the trail is beyond the counter of the process that has the file),
  `OutboxHasAudit`, `EdgesResolve` and, for every process, `Planned`: what it has
  still to append is numbered beyond the trail (`Numbered`), ordered so that an audit
  precedes its event and the records of an edge outlive the edge (`Orderly`),
  respectful of live claims as long as nobody else has the file (`Respectful`), and
  made of appends that its operation decides (`Decided`). `OutboxHasAudit` and
  `EdgesResolve` are not inductive alone, since they depend on appends that were
  planned several steps before. The theorems are `RecordsOutboxHasAudit`,
  `RecordsEdgesResolve`, `RecordsSequencesKept`, `RecordsNeverStolen` and
  `RecordsImplementsTables`, the refinement: an append changes nothing of the view in
  which what is due is done, and what `Begin` plans is one transaction of `IssueRows`.
  It rests on `RecordsAssumption` and, over a trail file, on the version a swap read
  being still `Current`.
- `PlanningProofs`: a request is a script of transactions, and any number of clients
  interleave theirs. `PlanningTypes` is `TypeOK` with `JobsOK`, whose `WiresReady`
  says that both nodes of an edge still to be drawn have ids or are created before
  it; without it the edge of a plan could name no issue. `Forest` (`FolderForest`)
  needs no more than itself: `Ancestors` is the least set closed under parents, so a
  folder that is not among the ancestors of its new parent closes no cycle, and
  nobody else's ancestors grow but by that parent's. `Frontiers` (`FrontierSound`) is
  about one reader's answer: of the eligible nodes of a group the first in the order
  of the plan exists and is unique, because plan keys are natural numbers and a
  nonempty set of them has a least member. `OneNodeEach` (`PlanUnique`) rests on
  `KeysFree`: no key a creation has still to make is there already or made twice.
  `ExportLanded` (`ImportLands`) rests on `ImportInv`: of every row, edge and status
  of the export, either it has landed or a step that lands it is still to come
  (`Landing`), through the rounds of the settling phase, whose failed rows come back.
  `Charts` (`ChartSound`) says of every reachable state, for any plans, durations and
  default estimate, that the chart a plan is scheduled by is right. It needs of the
  states `ChartableOK`: no cycle (`RowsAcyclic`), and finitely many rows, since a
  transaction adds one at most (`RowsGrow`); the rest is about the readers, for any
  scope and durations (`Charted`):
  - `TopoOrdered`: of the nodes left, one that reaches the fewest of the others has no
    dependency among them, as the graph has no cycle (`SomethingFree`); so the order
    lists every node once, dependencies first.
  - `FinishesIs`, `LatestIs`, `SlackIs`: each pass, walked position by position, ends at
    the equations it is meant to solve, over the nodes before a node or after it.
  - `SlackExact`: slipping a node by its slack moves no finish past the latest one
    it may have, and by one more breaks the total, along the edges that pass it on.
  - `CriticalIs`: a tight node that starts after the plan does has a tight dependency
    that finishes as it starts, so the walk back only ends at the start of the plan.
    `PathFits`: no path outlasts the finish of its last node. Together: `LongestIs`.
  - `PeakIs`: after the events up to a minute the sweep's count is the number of
    nodes running then, since at one minute ends are counted before starts.

  These are inductions over positions of a sequence, done without the library's
  induction theorems: a set of bad positions has a least member (`LeastNat`,
  `Climbs`, `Falls`), and a function given by its steps exists because each of its
  prefixes does (`Recurs`). `WorkGraph` computes along positions, as the loops of
  `plan.rs` do.

  `Reports` (`ReportsAgree`) says that whatever adds up the issues agrees with them, and
  with every other reader that does, for any projects, folders and window. A sum is
  walked along a list of the set's members (`SetToSeq`), so `SumParts` first shows what
  it is: a sum of counts over parts that share no member is the count of their union,
  and `SumGrows` compares two sums. Each conjunct then has a lemma (`ProgressAgrees`,
  `ReadyAgrees`, `BurndownEnds`, `TimesAgree`, `LatencyBounded` ...). They need three
  things of the states besides `FolderForest`:
  - `ChartableOK`, as above: finitely many rows, and edges between rows that are there.
  - `DatesOK`: every row is in a project that is there, it is closed exactly when it has
    a closing time, and its times are in order and not in the future (`InOrder`).
    Without it a close could be missing from a cycle time or a burndown, whatever the
    statuses say. The clock only moves forward, so a time once stamped stays past.
  - `FoldersFinite`: there are finitely many folders at any time, though `Folders` may
    be infinite.

  `OneNodeEach`, `ExportLanded` and `Reports` have hypotheses, because the code guards
  against none of these.
  `OneNodeEach` holds while one author at a time draws up the plan (`OneAuthor`;
  disagreement 10 is what happens otherwise). `ExportLanded` holds while whatever
  else runs in several transactions is an import of the same export too
  (`ImportsAlone`), and in cases that do not let other clients reopen, drop, untie or
  create issues by hand (`ImportsKept`): each of those undoes what a row had landed,
  behind the importer's back. Claims, closes, new edges and the passing of time are
  allowed, and so is any run cut short before. `Reports` holds while a row an import
  settles was made by an import (`ImportsOwn`): the importer closes with the export's
  own closing time, which lies before anything made since, so if a row is dropped
  between its creation and its settling and somebody else creates one under the same
  id, that one is closed before it is made, and no duration counts it. Every behaviour
  of the run `planning` satisfies all three: it has one client, and no scene with
  imports has the operations named.
  The assumptions are `NumbersAssumption` (ids and plan keys are numbers above 0, as
  they sort; estimates and the default are numbers of minutes), `FoldersAssumption`
  (the root is not a folder), `ProjectsAssumption` (finitely many projects),
  `WindowAssumption` (the report's window is a number of days) and `CasesAssumption`
  (specs and exports are finite sequences of well-formed rows).

Only model-checked: liveness (fairness and ENABLED are out of this prover's
reach); the type invariant of `Outbox` (its `2 ^ attempts` is beyond the arithmetic
back end).

## What is not covered

Components:

- **Business-hours deadlines** (`time.rs`): a deadline is any length of
  `Deadlines`; the calendar arithmetic has no state and interacts with nothing.
- **Snapshot, backup, doctor, PostgreSQL migration, canvas sync, cutover probe**:
  one-shot copies and read-only checks; I/O.
- **Command line, configuration, setup, viewer**: arguments and output. The steps
  that change shared state (project rm, serve, remote, login, refresh) are
  modelled where they act.

Within the modelled ones:

- One company per store model; routing of principals to companies is left out.
  Several companies appear only in `Outbox`.
- A second process on the SQLite file, other than as whole transactions. Panics
  inside SQLite lock sections, which poison the store's mutex.
- `PgSession` has one server; a COMMIT refused on a live connection, a panic while
  dialing, and the dial that was abandoned at its deadline and completes later
  (its connection is dropped), are left out.
- `Federation`: the webhook consumer's replay guard and the transport. A key id
  that returns with other material (rotate, restore, rotate) needs more key pairs
  than the run has; it rests on the proofs, which bound nothing.
- `Planning`: text forms of a plan, percentages and rates, the order and paging of
  ready; the folder statements of PostgreSQL, which are SQLite's.
  `Settle` takes an import's read of a row together with the update or close it leads
  to. A node takes the least free id of its project, where the code draws ids until one
  is free: readers only compare ids to order ties.
- `RecordStore`: folders and remote edges; soil's own protocol.
- `Credentials`: the browser flow's state and PKCE checks. The comparison of
  urls before a refresh starts (`main.rs:695`) is left out: without it more commands
  reach the lock. `KeyCache`: the checks
  of a token's claims, static tokens, a server's restart (which empties the copy).
- The offline read cache only as what a write is told (`PgSession`).

## Plan

Written, in this order: the issue tables and both stores; outbox; connection;
federation; plans, imports, folders and reports; records; saved login and signing
keys. What is left, in order of importance:

1. The replay guard of a webhook consumer, composed with `Outbox`.
2. A registry of several companies: a sweep that stops at a failing company.
3. `WorkWeek`: the deadline arithmetic against a minute-by-minute reference.
4. The offline cache's files under concurrent commands.
