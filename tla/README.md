# dtmpfs in TLA+

A verification development for dtmpfs, the distributed in-memory file system of
this repository. It models the data path of a file, the namespace and its
listings, cluster membership and placement, the mounts' caches and connections,
and the memory accounting of a store. TLC model-checks these on small instances;
TLAPS proves their safety properties for every instance.

## The system

| Part | Source (under `src/crates/`) | State | Who runs it |
|---|---|---|---|
| meta server | `dtmpfs-meta/src/service.rs`, `state.rs` | inodes, directories, open handles, nodes, under one `RwLock` | tokio tasks, one per RPC; a watcher task |
| store server | `dtmpfs-store/src/service.rs`, `state.rs`, `heartbeat.rs` | blocks and marks (`DashMap`), `ram_used` (atomic) | tokio tasks, one per RPC; a heartbeat task |
| client mount | `dtmpfs-client/src/fs.rs`, `flush.rs`, `cache.rs`, `client.rs` | open files with dirty buffers, block and attribute caches, store connections | one FUSE request at a time, and spawned replica writes |
| common code | `dtmpfs-common/src/` | none | placement (`pick_nodes`), identifiers, errors, configuration |

A mount opens a file at the meta server and gets its size, generation and block
map. Writes stay in the open file's buffers. `flush`, `fsync` and `release` all
run `publish`: ask the meta server to place new blocks, take the buffers out of
the open file, write them to the primaries (and wait for the replicas under
`fsync`, spawn their writes otherwise), then call `Meta.Close`, which compares the
generation and bumps it. Truncation and removal spawn `DeleteBlock` calls from the
meta server. Every block key on the wire carries generation 0.

## Modules

| Module | Models | Operations |
|---|---|---|
| `FileData` | one file: inode, handles, open files, block cache, stores, spawned calls | `open`, `read`, `write`, `publish`, `Meta.Open/Close/AllocateBlocks/SetAttr/Unlink`, delivery, restart, crash, membership |
| `OptimisticFile` | what handles and generations promise, without blocks or messages | begin, commit, abandon, remove |
| `FileCommits` | the refinement mapping from `FileData` to `OptimisticFile` | |
| `Namespace` | `inodes`, `dirs`, `next_ino` and the requests of the mounts | `create`, `mkdir`, `unlink`, `rmdir`, `rename` |
| `ReadDir` | `Namespace`, and a mount that lists a directory | `readdir` of `fs.rs`, `Meta.ReadDir` |
| `StoreRam` | one store's `blocks`, `high_water`, `ram_used` | `write_block`, `delete_block`, `replicate`, each map or counter operation a step |
| `Placement` | `pick_nodes` | |
| `Membership` | `Placement`; heartbeat tasks, `nodes`, `last_heartbeat`, the watcher | `spawn_heartbeat`, `heartbeat_node`, `spawn_heartbeat_watcher`, `live_nodes`, crashes and restarts |
| `StorePool` | `Membership`, and a mount's `StoreClientPool` over it | `get`, `evict`, `refresh_addrs`, `list_nodes` as `fetch_block` and `publish` use them |
| `AttrCache` | one inode's `Attr` and the attribute caches of the mounts | `lookup`, `getattr`, `setattr`, `create`, `open`, `publish`, `unlink`, expiry and eviction |
| `MC...` | the instances for TLC | |
| `..._proofs` | theorems and proofs: `FileData_proofs` (types, and the invariant of calm runs), `FileDataExclusive_proofs` (close-to-open), `FileDataSafety_proofs` (in every environment, with the refinement of `FileCommits`), `Namespace_proofs`, `ReadDir_proofs`, `Membership_proofs` (also of `Placement` and `StorePool`), `AttrCache_proofs`, `StoreRam_proofs` | |

### FileData

A file is an array of cells, `BlockSize` to a block. A cell holds the number of
the write that set it, so a block tells whose bytes it has, and 0 stands for a
byte nobody wrote.

* A meta handler holds the lock throughout and is one step. `open` takes the lock
  twice (`service.rs:422`, `434`) and is two: `OpenRead`, `OpenInsert`.
* A mount serves one request at a time (`Serving`, `Ready`), because fuser calls
  the handlers with `&mut self` and they block on their RPCs. Between two RPCs
  other mounts run: `WriteBegin`/`WriteStep` is `apply_write` block by block,
  `PublishBegin`, `PublishAllocate`, `SendBlock`, `CloseAccepted` and
  `CloseRejected` are `publish`.
* `Fetch` is `fetch_block`: buffer, cache, then the stores of the placement in
  order, where `NotFound` ends the search with zeros.
* `SendFails` is `try_collect` meeting an error: the buffers are gone, and calls
  still out may arrive (`Stray`, `spawned`). `spawned` also holds the replica
  writes of `flush`; `DeliverWrite` applies them in any order.
* `Env` says what else may happen, so that a run can name the conditions under
  which a property holds: overlapping writers, writing again after `fsync` or
  `flush`, failing calls, store restarts, mount crashes, truncation, unlink, and
  stores going Up and Down.

The variables after `drops` are history variables. No step reads them; they
record what the closes published, what a slot wrote, the last result, the log of
publications, the cells of each write, and the blocks changed since the last
publication.

Stores are indexed by block alone, since keys always carry generation 0; the mark
test of a store can then never refuse, and the budget is left to `StoreRam` (a
refused write is a failed call here).

### Namespace

A `HashMap` is a function whose domain is its key set. A handler is one step, but
the kernel that sent the request looked the names up earlier. So a request is
formed in one step (`Form`, the checks the Linux VFS makes on the tree the mount
saw; external to the repository) and executed in a later one, when other mounts
may have changed the tree. "Above" in the tree is said with sets that are closed
under entries, which needs no recursion: `j` is below `i` if it is in every closed
set that `i` is in. `RenameNoParent` is the path of `rename` that fails
after it has removed the source entry (`service.rs:359-361`).

### StoreRam

Handlers of one store run on several threads and share nothing but `DashMap`s and
an atomic counter. Each operation on those is a step. A block is its length; the
counter wraps at `Width`, as `u64` arithmetic does in a release build. Calls carry
the generations the RPC interface allows, although today's callers send 0 only.

### OptimisticFile and FileCommits

`OptimisticFile` says what the handles and generations of a file amount to:
sessions that start from a version the file has had, of which the first to close
wins. `FileCommits` maps `FileData` to it. A slot that is open under a handle the
meta server still knows is a session, its `OpenFile.generation` the version it
started from. `OpenInsert` begins a session (with the version that `OpenRead` saw,
perhaps out of date), `CloseAccepted` commits, `Unlink` removes, and every other
step abandons some sessions or none.

### ReadDir

The kernel passes the number of entries it has had so far as an offset. The
handler fetches the whole directory again, in pages that continue after a name,
and skips that many entries. The tree may change between two calls and between
two pages. Names are numbers, since only their order matters; a page is what comes
after the cookie, by rank.

### Placement, Membership and StorePool

Time is discrete and kept as ages. The watcher reads the clock (`WatchTick`) and
marks silent stores once it has the lock (`WatchMark`); heartbeats and time come in
between. A store's task connects, then sends one heartbeat at a time; a call can be
lost, and the call of a process that has died can arrive later (`late`). Stores
crash and come back, some at another address, and the meta server comes back with
an empty table. `Nodes` are the stores that are followed, the other `Names` stay
Up, so that placement always has a choice.

`Placement` ranks stores by a hash that is a parameter; the stores' order in the
`HashMap` is another, because it decides between equal scores. Scores are equal when
a block's index is its inode number (`hash.rs:16-17`: both seeds are the same, and
the XOR is 0).

`StorePool` puts a mount on top. A channel is the address it was opened for. A read
asks for addresses only while it has none (`fs.rs:101`) and evicts the channel it
fails on; a publish asks every time (`flush.rs:33`) and evicts nothing.

### AttrCache

An `Attr` is the number of changes the inode has seen. A call is executed at the
meta server in one step and its answer is filed in a later one. `open` and `publish`
get an `Attr` too, but do not file it; `unlink` leaves the entry where it is.

## What the runs show

Passing runs:

| Run | Checks | Instance |
|---|---|---|
| `exclusive` | `CloseToOpen`, `FreshOpen`, `OkMeansPublished`, `PublishSucceeds` | two mounts take turns writing, a reader shares the mount and cache of one; two blocks of two cells, writes of one cell, two replicas, no failures |
| `chaos` | `TypeOK`, `SizeFits`, `Provenance`, `CacheFresh`, `PlacementAgreement`, `ImplementsCommits` | two overlapping writers, writes after `fsync`, failing calls, restarts, crashes, membership; one block of two cells, no replicas |
| `progress` | `Provenance`, `EveryRequestEnds`, `ImplementsCommits` | one writer whose writes span both blocks, failures, restarts, truncation, unlink; fair |
| `namespace` | `TypeOK`, `EntriesResolve`, `OneName`, `LinksCovered` | two mounts, three inodes beside the root |
| `namespace_alone` | `LinksExact`, `TreeShape`, `ListsAll`, `ListsOnce` | one mount changes the tree, three inodes beside the root; a listing with pages and replies of one entry |
| `store_ram` | `TypeOK`, `Accounting`, `OverBudgetBounded`, `MarkCovers` | two handlers, one block at three generations, lengths 1 and 2, budget 3 |
| `cluster` | `NoFalseDown`, `RingFresh`, `MinimalDisruption`, `SilentStoreLeaves`, `RunningStoreReturns`, `MountRecovers` | three stores, two of them followed, one that moves; a crash of a store or of the meta server; fair |
| `attr_cache` | `StaleBounded`, `StatMonotone`, `CachesSettle` | two mounts, three versions, answers that take up to one unit; fair |

So: with one writer at a time and no failures dtmpfs keeps its close-to-open
promise, caches and read-modify-write included. With overlapping writers,
failures, restarts and crashes, handles and generations still behave as optimistic
sessions, bytes never move to another offset, the size a close records cuts off no
published byte and reaches no further than the last one, a cache entry is stale only if a copy
was rewritten under its generation, and every request ends. The namespace tables
agree with each other under any interleaving, and a listing of a directory that only
grows misses nothing. Membership never takes out a store that is heard, takes out a
silent one in bounded time, and moves placements only with the stores that come or
go. A mount that reads and publishes finds every store that runs. Attributes are out
of date for a bounded time and never go backwards. The RAM counter loses no byte to
a race.

Runs that end in a violation, each against a sentence of the documentation that
`PROJECT.json` quotes:

| Run | Property | What happens | Where |
|---|---|---|---|
| `stale_writer` | `FreshOpen` | a close is turned down, but its blocks have replaced the published ones | `flush.rs:90` |
| `failed_flush` | `OkMeansPublished` | buffers are lost with a failing call, the next flush replies Ok | `flush.rs:64` |
| `fsync_write` | `PublishSucceeds` | writes after `fsync` can never be published | meta `service.rs:453` |
| `restart_zeros` | `SurvivingCopyRead` | a restarted primary's `NotFound` is read as zeros, though a replica has the block | `fs.rs:134` |

### Further behaviours of the models

These follow from the same modules and explain why some properties are checked
under restrictions. They are not kept as runs.

* Blocks are visible before the close that publishes them, and stay visible when
  their mount dies before it (`flush.rs:104`): `FreshOpen` needs `Settled`, and
  fails with `"crash"` in `Env`. `docs/consistency.md:501` says otherwise.
* Of two writers of different blocks the second is turned down (meta
  `service.rs:459`); `docs/consistency.md:383` says both survive.
* Truncation keeps the block with the new end, block 0 for size zero
  (meta `service.rs:139`). Its old bytes come back when the file grows
  (`docs/HLD.md:477`), and it stays on its stores (`docs/acceptance-tests.md:1565`).
  `FreshOpen` fails with `"truncate"` in `Env`, and so does `PlacementAgreement`:
  a slot opened before keeps the placement the inode has dropped.
* Spawned replica writes of two publishes may swap (`flush.rs:115`), after which
  primary and replica differ; and failover may read a replica that a published
  write has not reached (`fs.rs:137`). `CloseToOpen` fails with `"read_fail"` and
  two replicas, `CacheFresh` likewise: hence the single copy in `chaos`, and
  `FirstAnswers` in its theorem.
* Two renames, each allowed by the tree its mount saw, can put a directory inside
  itself, and a rename can replace an entry of the other kind (meta
  `service.rs:333-362`). `TreeShape` fails with two mounts.
* A rename removes the source entry before it finds that the destination directory
  is gone (meta `service.rs:359-361`) and fails: the inode keeps no name.
  `docs/consistency.md:682` calls rename "atomic on the meta side". The tables stay
  consistent (`EntriesResolve`, `LinksCovered`).
* Racing writes exceed the budget (store `service.rs:57`), within
  `OverBudgetBounded`. `replicate` over a stored block counts it twice (line 113),
  which `leaked` records. `delete_block` of one generation forgets the mark of
  another (line 91), which `unmarked` records. Between insert and `fetch_add` a
  delete makes the counter wrap (line 67), and a write that tests the budget then is
  refused.
* After a removal the offset of a listing points too far and an entry is left out
  (`fs.rs:623`); after an addition one is given twice. `docs/LLD.md:1055` accepts
  both.
* A mount that only reads never asks for addresses again once it has some
  (`fs.rs:101`): a store that was not in the list then, or has moved since, stays
  out of its reach, and reads of blocks that are only there fail.
  `docs/architecture.md:131` says "A periodic `ListNodes` is not required for
  correctness". `MountRecovers` holds because the mount also publishes.
* `docs/HLD.md:507` (I8) counts a store live only within the timeout of its last
  heartbeat; the watcher's interval and its wait for the lock add up to two periods
  (`RingFresh`).
* Blocks whose index is their inode number have no ranking: their stores follow the
  order of a `HashMap`, against `docs/LLD.md:682` ("Deterministic").
  `MinimalDisruption` leaves them out. Their placement is kept once made, so nothing
  is lost by it.
* A block placed while no store is Up has `"?"` for its primary (meta
  `state.rs:123`) and is never placed again: every publish of it fails.
* The answer of `Meta.Close` is not filed: for up to the time to live `fstat` shows
  the size before the mount's own `fsync`. `docs/architecture.md:483` says the cache
  is "Updated on every Meta.* RPC that returns an Attr".

### Bounds

* `FileData`: two mounts and two stores are the fewest at which one party's view
  can differ from another's. Blocks of two cells make every write of one cell a
  read-modify-write (`exclusive`), and a write of two cells start in the middle of
  one block and end in the middle of the next (`progress`); two writes make one
  overwrite another; three opens allow an open between two publications.
  `MaxWrites`, `MaxOpens` and `MaxDrops` stop a run; the system then stands still,
  hence `CHECK_DEADLOCK FALSE`.
* `Namespace`: two names and three inodes beside the root make all replacements
  possible (file over file, directory over directory, within and across
  directories) and two levels of nesting. `MaxIno` ends a run, so deadlock is not
  checked in `namespace`; in `namespace_alone` a directory can always be listed.
  Symmetry under permutation of names and of mounts is sound in `namespace`: no
  definition tells two of them apart, and the run checks invariants only. `ReadDir`
  orders the names and uses none.
* `ReadDir`: pages and replies of one entry put a change between any two entries.
* `StoreRam`: two handlers suffice for each race on a key; three generations of two
  lengths let them overrun the budget. With `Width` 32 the counter wraps where it
  can, below zero. `MaxLeaked` stops `replicate` once a block has been counted
  twice. Deadlock is checked: a store always takes another call.
* `Membership`: one unit for the timeout and one for the period; `MaxAge` lies above
  every age that a test can tell apart. One fault is enough for a late heartbeat, a
  move and an empty table. Liveness is stated for the store that can move
  (`Steady`), while the other one comes and goes without fairness.
* `AttrCache`: a time to live of two units and answers of one let an entry be filed
  old and expire; three versions give a change before and after.

### Fairness

* `FileData!FairSpec` has weak fairness of `Serve(f)`, the next step of a handler
  that has started. The tokio runtime polls a task that can run, and an RPC is
  assumed to end with an answer or an error. The code sets no RPC timeout, so a store
  that keeps a connection open and stays silent is outside this assumption. Nothing
  is assumed of applications, evictions, deliveries or failures.
* `StorePool!FairSpec` has weak fairness of time, of the watcher (both are interval
  loops) and of the heartbeat task of a steady store. Strong fairness of `Deliver`
  says that a heartbeat sent again and again gets through in the end: the task goes
  on after every error. For the mount it assumes applications that keep reading and
  writing blocks of the store, of whose writes some succeed when they can again and
  again. Crashes, restarts, losses and late calls have no fairness; neither a
  restart nor a crash is ever required to happen. `Tick` waits for the watcher, which
  expresses that the watcher has the lock before its next tick is due.
* `AttrCache!FairSpec` has weak fairness of time and of answers. That changes stop
  is no assumption but the effect of `MaxVersion`; hence `CachesSettle` reads "once
  they have stopped".

## What is proved

TLAPS checks every proof to the last leaf. Each invariant and action property of a
passing run is also a theorem, for all values of the constants that satisfy the
assumptions of the modules:

* `FileData`: positive block counts and sizes, ranges inside the file, `MountOf` a
  function from slots to mounts, `Absent` not a block's content, `NoNode` not a store,
  `PickNodes` returning a sequence of live stores (`hash.rs:7-23`);
* `Namespace`, `ReadDir`: `MaxIno`, the page and the reply positive, names ordered as
  numbers are;
* `Placement`, `Membership`: finitely many stores, a hash without collisions among
  their names, a positive period and replication factor;
* `AttrCache`: a positive time to live;
* `StoreRam`: finitely many handlers, blocks, generations and lengths (a process has
  no more), and a counter wide enough for all blocks, what handlers have in flight
  and what `replicate` may count twice (`RoomAssumption`: memory ends long before
  2^64).

| Theorem | States |
|---|---|
| `FileData_proofs!TypeCorrect` | `Spec => []TypeOK` |
| `FileDataSafety_proofs!SizeFollowsCloses` | `Spec => []SizeFits` |
| `FileDataSafety_proofs!SlotsAgreeOnPlacement` | without truncation, `Spec => []PlacementAgreement` |
| `FileDataSafety_proofs!BytesStayInPlace` | `Spec => []Provenance` |
| `FileDataSafety_proofs!HandlesAreOptimistic` | `Spec => ImplementsCommits` |
| `FileDataSafety_proofs!CachesNeverMaskAClose` | without truncation, under `FirstAnswers`, `Spec => []CacheFresh` |
| `FileDataExclusive_proofs!OneWriterIsCloseToOpen` | under `Calm`, `Spec => []CloseToOpen` |
| `FileDataExclusive_proofs!OneWriterIsFresh` | under `Calm`, `Spec => []FreshOpen` |
| `FileDataExclusive_proofs!OneWriterOkIsPublished` | under `Calm`, `Spec => []OkMeansPublished` |
| `FileDataExclusive_proofs!OneWriterSucceeds` | under `Calm`, `Spec => []PublishSucceeds` |
| `Namespace_proofs!NamespaceTypes` | `Spec => []TypeOK` |
| `Namespace_proofs!NamesResolve` | `Spec => []EntriesResolve` |
| `Namespace_proofs!NamesUnique` | `Spec => []OneName` |
| `Namespace_proofs!LinksNeverShort` | `Spec => []LinksCovered` |
| `Namespace_proofs!LoneLinksExact` | with one mount, `Spec => []LinksExact` |
| `Namespace_proofs!LoneTree` | with one mount, `Spec => []TreeShape` |
| `ReadDir_proofs!ListingIsComplete` | `ListSpec => []ListsAll` |
| `ReadDir_proofs!ListingHasNoRepeats` | `ListSpec => []ListsOnce` |
| `ReadDir_proofs!ListingChangesNoName` | `ListSpec => Spec` |
| `Membership_proofs!OnlySilenceTakesOut` | `MemberSpec => []NoFalseDown` |
| `Membership_proofs!ListIsFresh` | `MemberSpec => []RingFresh` |
| `Membership_proofs!PicksMoveMinimally` | `MemberSpec => MinimalDisruption` |
| `Membership_proofs!MountsLeaveMembers` | `Spec => MemberSpec` |
| `AttrCache_proofs!StalenessIsBounded` | `Spec => []StaleBounded` |
| `AttrCache_proofs!StatNeverGoesBack` | `Spec => StatMonotone` |
| `StoreRam_proofs!MarksCoverBlocks` | `Spec => []MarkCovers` |
| `StoreRam_proofs!StoreTypes` | `Spec => []TypeOK` |
| `StoreRam_proofs!CounterIsExact` | `Spec => []Accounting` |
| `StoreRam_proofs!BudgetOverrun` | `Spec => []OverBudgetBounded` |

* `TypeCorrect`. Types are not inductive alone. A write in progress must have its
  cursor inside the file, and a block that is still to be sent must have data.
  `Shape(f)` says both, `TypeInv` is `TypeOK` and `Shape` of every slot, and there
  is one lemma for each action. The arithmetic of `apply_write` is in
  `DivBounds`, `BlockOfInside` and `ChunkEndBounds`.
* `SlotsAgreeOnPlacement`. `AllocateBlocks` keeps a placement once made, and only
  truncation and unlink take one away. Truncation really breaks the agreement,
  hence the assumption.
* `BytesStayInPlace`. `ProvInv` says of every copy of a block (stores, buffers,
  calls, caches) what `Provenance` says, and adds what lies ahead: a running write
  covers the cells it has still to set, and a write that has not begun covers none.
* `SizeFollowsCloses`. `Meta.Close` records the `size_hint` of the slot, which
  comes from the slot's open and its writes, so `SizeFits` alone says too little
  about the next close. `SizeInv` adds that the `size_hint` of every open slot covers
  what the slot has written and, as long as its generation is the inode's (only
  then is its close accepted), what is published; and that, until something is
  truncated, it ends at a byte that is published or that the slot has written.
  Writes that span blocks are left out of the first part (`WithinBlock`): one that
  fails on a later block leaves the earlier ones dirty and `size_hint` where it was
  (`fs.rs:160-189`), so its first bytes may be published beyond the size. After a
  truncation the size may lie beyond all published bytes, since a slot opened
  before it still has the old `size_hint`.
* `HandlesAreOptimistic`. `SessionInv` adds that no two open slots share a handle:
  otherwise the end of one session would be the end of two. Each step maps to one of
  the abstract actions, most of them through `KeepsSessions`.
* `CachesNeverMaskAClose`. `CacheInv` says of each entry what `CacheFresh` says, and
  that no entry is of a generation still to come: a new generation starts with no
  entries, since the generation is in the key. It needs `SessionInv` (a slot's
  generation is one the inode has had) and `PlacementAgreement` (a slot fetches from
  the stores the inode names). `FirstAnswers` says that a read gets its answer from
  the first store of a placement or from none: no read fails and no store goes Down,
  or a block has one copy. Without it a read may go on to a replica
  that a spawned write has not reached; TLC finds that with two replicas. Writers may
  overlap, writes fail, stores restart and mounts crash.
* The `OneWriter` theorems. `Calm` says that `Env` is empty (no
  failures, one writer at a time) and that `pick_nodes` gives every block at least
  one store, each once. `CalmInv` follows a block on its way: into a buffer that
  holds what its slot is entitled to, out of it to the primary, where it may be seen
  before the close, and into the published state when the close bumps the
  generation. At any time a primary, and a cache entry of the current generation,
  holds the published block or the block of the one publish under way. Spawned
  writes go to replicas only, and never to a primary, so they disturb no reader.
* `Namespace`. `NameInv` joins `TypeOK`, `EntriesResolve` and `OneName` with
  `RenamesDiffer`: a pending rename has two different ends, which the kernel
  ensures. `OneName` is needed for `EntriesResolve`, since unlink frees an inode
  without looking for another name, and the other way round. The lemmas `Shrunk`
  and `CutOut` carry the removals of unlink, rmdir and rename.
* `LinksNeverShort`. `Spare(i)` is what an inode's count has beyond the links that
  the tree accounts for. Every handler keeps every `Spare` as it was (`StepSpare`), a
  rename over an entry of the other kind included. The one exception is a rename that
  fails half way: it takes a directory's name and leaves its parent the link. So
  `Spare` may grow but stays at or above zero (`LinkInv`).
* `LoneLinksExact`, `LoneTree`. With one mount the tree does not change between the
  kernel's checks and the handler. `LoneInv` says so (`Screened`: the pending request
  passes the checks on the tree as it is), that every `Spare` is zero, and that a
  closed set with the root has every inode (`Reached`). A rename moves a subtree to a
  directory outside of it: a set that is closed afterwards, joined with the subtree,
  was closed before, so it has the new parent, hence what moved (`Moved`). With two
  mounts `Screened` fails, and so do both properties.
* Listings. The offset of the kernel is a number of entries, so the argument is about
  ranks. `Ahead` is what the call in progress would go through if nothing changed any
  more. While nothing is removed, the rank of a name in `Ahead` only grows, so a name
  not yet given still lies beyond the offset (`NoneMissed`). While nothing is added,
  ranks only shrink, so a name that was given stays before the offset (`NoneAgain`).
  `ListingChangesNoName` carries the theorems of `Namespace` over.
* Membership. `Watched` bounds the age of an Up store by where the watcher is in its
  cycle; with it `NoFalseDown` and `RingFresh` are inductive. They are proved of
  `MemberSpec`, and hold with mounts at work by `MountsLeaveMembers`.
* `PicksMoveMinimally`. A store is picked when fewer than `ReplicationFactor` stores
  beat it. Taking stores away takes no more than some of those (`SurvivorsStay`); if
  all picked stores stay, a store that newly came in would be beaten by all of them
  (`BestExists`, `OthersDoNotMatter`). Without ties the order of the `HashMap` drops
  out (`OrderIrrelevant`).
* `AttrCache`. `Recent` says that an answer is out of date by at most the time it has
  been under way, and an entry by its age and one flight; `Forward` that what a mount
  will show next, from an answer or from the cache, is not older than what it has
  shown.
* `MarksCoverBlocks`. `MarkCovers` is inductive once types are there and a handler
  past its first step has a call.
* `CounterIsExact`. `Accounting` is inductive with the types: each step changes one
  stored length, what one handler owes, or the counter, and the sum stays (modulo the
  width). What a sum over a finite set is, and how it changes with one summand, is
  proved from the fold of the community modules (`Recursion`, `SumsDef`,
  `BlockChange`). Those proofs are inductions over finite sets, each written as the
  search for a smallest counterexample: the library's `WFMin` takes a set where its
  induction rules take a predicate, which the provers cannot instantiate.
* `BudgetOverrun`. `HeldBound` counts the lengths of handlers that have passed the
  budget test along with the stored blocks. A handler that passes it has read a
  counter which is short of the truth by at most one block for each other handler
  (`Accounting`), and has not wrapped upwards (`LeakBound`, `RoomAssumption`).
  `MaxLeaked` bounds what `replicate` counts twice; the code has no such bound, and
  a counter that is too high only refuses more.

Only model-checked: the liveness properties `EveryRequestEnds`, `SilentStoreLeaves`,
`RunningStoreReturns`, `MountRecovers` and `CachesSettle`, since the provers handle
neither fairness nor `ENABLED`. The four properties of the violation runs are
refuted there; three of them hold under `Calm`. `SurvivingCopyRead` is not proved
under any restriction.

## What is not modelled

* Times, modes and owners (a change of them is a version in `AttrCache`), and the
  mapping of errors to errnos: one line to a case, no state.
* `statfs`, `link` and the extended attributes: they change nothing.
* Configuration, the cluster token, start-up, debug endpoints, generated code.
* The meta server's restart under open files: `Membership` has it, `FileData` not,
  where the inode would simply be gone.
* Failing calls to the meta server, except for heartbeats and `list_nodes`: it answers
  every other request.
* What happens to blocks on a store that moves: `StorePool` follows connections,
  `FileData` contents.
* Memory: a process never runs out of anything but a store's budget.
