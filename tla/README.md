# OMNI File System: a verification project

The OMNI file system (OFS) keeps users, files and directories in one image
file, serves them to clients over TCP, and comes with a terminal client. This
project models it in TLA+, checks the models with TLC on small instances, and
proves the most important safety properties with TLAPS for every size.

Paths below are relative to `src/source/`.

## 1. Inventory

| Part | State | Operations | Hard about it | Correct when |
|---|---|---|---|---|
| **Core: table, bitmap, blocks, path index** (`core/ofs_core.cpp`, `meta_entry.hpp`, `ofs_instance.hpp`) | `meta_entries` (slot table, `valid` = 0 means in use), `free_bitmap`, block region (next pointer + payload), `path_index` | `file_create`, `file_delete`, `file_edit`, `file_truncate`, `file_rename`, `dir_create`, `dir_delete` | slots and blocks are reused at once; listings, parents and index say the same thing three times; failures halfway | no two entries share a block, chains end, listings, parents and index agree, no block is lost |
| **Accounts and sessions** (`core/ofs_core.cpp` 307-397) | `users`, `user_index`, `sessions`, the user table in the image | `user_login`, `user_logout`, `user_create`, `user_delete`, `fs_init`, `fs_shutdown` | index kept beside the table; slot reuse; restart and crash | index and table agree; a restart changes no account |
| **Request server** (`server/server.cpp`, `server.hpp`, `main_server.cpp`) | `running`, accept thread, `op_queue`, 4 workers, `client_sessions` (descriptor to session), the accept loop's `fd_set` | `acceptLoop`, `TSQueue::push`/`pop`, `workerLoop`, `handleRequest`, `sendResponse`, `start`, `stop` | threads, condition variable, descriptor reuse, disconnects, shutdown | replies and sessions stay with their client, each command runs once, queued ones are answered, `stop()` returns |
| **Client** (`ui/ofs_terminal_ui.py`) | one socket | `send_command` (one command, one reply), the menu flows | partial replies, delete + create as "save" | every command gets a reply or an error |
| **Image file** | header, user table, metadata, bitmap, blocks | `persist_*`, `fs_shutdown`, `fs_init` | each call writes a different subset, in an order of its own | each call takes effect in one write; a restart finds what returned calls did |
| **Bytes of files** | payload of blocks | `file_read`, `file_edit`, `file_truncate` | stale bytes, clipping at block ends | a read returns the file's own bytes, all of them |
| **Queries** | none | `dir_list`, `file_exists`, `dir_exists`, `get_metadata`, `get_stats` | each reads another structure | they agree |
| **SimpleHashMap** (`data_structures/`) | buckets | `insert`, `erase`, `find`, `clear` | - | it is a function |
| **Configuration and layout** | offsets, block count | `SimpleConfig::load`, `fs_format`, `fs_init` | unsigned arithmetic, a fixpoint loop, the block count computed twice | regions fit the image, formatting ends |
| **Parsing, JSON, screens, scenario program** | none | `parseArgs`, `make_response_json`, curses, `core/main` | quoting | - |

The parts interact as follows. The accept thread turns lines into `OFSRequest`s
on `op_queue`; four workers take them, look up the descriptor's session under
`session_mtx`, and call the core **without a lock**; the core works on one
`FSInstance`. `main_server.cpp` calls `fs_init`, `start`, waits for Enter, then
`stop` and `fs_shutdown`.

`PROJECT.json` lists the hazards of this code, each with the line where it bites
and the properties that would catch it going wrong; where none does, it says why.

## 2. Modules

| Module | Models | Uses |
|---|---|---|
| `OFSCore` | table, bitmap, blocks, path index; one action per API call | - |
| `OFSTree` | the abstract promise: a tree of names with folders and files of a size | - |
| `OFSCoreTree` | `OFSCore` under well-behaved clients, and the refinement mapping to `OFSTree` | extends `OFSCore`, instantiates `OFSTree` |
| `OFSQueries` | the calls that only read, and what they must agree on | extends `OFSCoreTree` |
| `OFSPersist` | the writes of each call to the image, the end of the process between any two, `fs_shutdown`, `fs_init` | extends `OFSCoreTree`, instantiates `OFSTree` |
| `OFSBytes` | the abstract promise: a sequence of bytes per file | - |
| `OFSFileData` | the bytes in the blocks under create, edit, truncate, delete, read | instantiates `OFSBytes` |
| `OFSUsers` | accounts, name index, sessions, the image's user table, restart and crash | - |
| `OFSServer` | accept thread, queue, workers, descriptors, sessions, clients, `stop()` | - |
| `OFSConcurrent` | `file_create` and `file_delete` cut into the steps other workers see | - |
| `OFSLayout` | the arithmetic of `fs_format` and `fs_init` | - |
| `OFSCoreMC`, `OFSCoreTreeMC`, `OFSPersistMC`, `OFSFileDataMC`, `OFSUsersMC`, `OFSLayoutMC` | small instances for TLC | the modules above |
| `OFSCoreProofs` | lemmas on chains, allocation, listings, sequences; type correctness of the core, its inductive invariant, what follows, and that chains end | extends `OFSCore` |
| `OFSCoreTreeProofs` | no block lost, sizes, listings, index, and the refinement of `OFSTree` | extends `OFSCoreTree`, `OFSCoreProofs` |
| `OFSPersistProofs` | what the image holds between any two writes, and what a restart finds | extends `OFSPersist`, `OFSCoreTreeProofs` |
| `OFSQueriesProofs` | the calls that only read agree | extends `OFSQueries`, `OFSCoreTreeProofs` |
| `OFSFileDataProofs` | reads are whole; the refinement of `OFSBytes` | extends `OFSFileData` |
| `OFSUsersProofs` | the index of accounts, restarts | extends `OFSUsers` |
| `OFSServerProofs` | sessions and replies stay with their client, no command lost or answered twice, sessions stay alive | extends `OFSServer` |
| `OFSLayoutProofs` | the layout for every configuration | extends `OFSLayout` |

### OFSCore

`meta` is the table (slot 1 is the root), `free_bitmap` the set of blocks whose
bit is **set** (the code's name; a set bit means in use), `blocks` the region:
each block has a next pointer and the list of its nonzero 32-bit words - what
`dir_block_read` sees. `path_index` is a function from path strings to slots.

- A path is a list of tokens and a flag for a spelling with one more leading
  slash: `path_index` compares strings, `split_path_tokens` drops the
  difference, and the terminal UI really sends `//f` for a file of the root.
- `Trunc` is `set_name`: a name cut to the 11 bytes of `name[12]`.
- Every action is one whole call. Helpers that change the volume
  (`dir_add_child`, `dir_remove_child`) map a volume record to the possible
  results, in the order of the code; calls that return early without changing
  anything are no step. `file_create_no_space`, `file_rename_fails` and the
  error branch of `dir_create` are the failing calls that leave a trace.
- `allocate_blocks` takes the lowest free blocks, as the bitmap scan does.
- A walk over a chain is a member of `Chains`; an endless walk has none, which
  `ChainsEnd` rules out, so no action is blocked by it.

What is abstracted: bytes inside words (`file_edit` and `file_create` write
members of `Data`; editing keeps link and size), permissions, owners, times,
`next_meta_index` (written, never read to decide anything), and writes of
metadata, bitmap and header to the image (`OFSPersist`). Failing I/O is left
out. Calls are atomic here: four workers call the core without a lock
(`server.cpp:43`), and `OFSConcurrent` interleaves them.

### OFSTree and OFSCoreTree

`OFSTree` is what a client is told: make a file or folder below a folder, remove
a file or an empty folder, resize, move. `OFSCoreTree` restricts the clients to
what the code silently relies on (canonical paths, names of at most 11 bytes,
new entries below directories, no rename of a directory, room in the directory's
one block) and maps `tree` to what the path index finds.
Outside those limits the promise fails, as the hazards list says; the safety
properties of `OFSCore` hold without them.

### OFSQueries

A query is the set of its answers, empty for an error, read off the state of
`OFSCoreTree`: `dir_list` from the directory's block, `file_exists`,
`dir_exists` and `get_metadata` through the path index (the last follows the
chain to count blocks), `get_stats` from bitmap and table. `QueriesAgree` says
that these readings are one tree, `StatsAddUp` that the totals are its totals.
Owners, permissions and times are left out of the answers.

### OFSBytes and OFSFileData

`OFSFileData` keeps, per metadata slot, `valid`, `total_size` and the chain as a
sequence of blocks (that chains are disjoint lists linked by next pointers is
`OFSCore`'s subject), and the payload bytes of every block. `file_read` stops at
`total_size` or where the chain ends, as the loop does. `OFSBytes` is the
promise: `shown` is what a read returns, `kept` what the file has, of which
`shown` is a prefix. `kept` is longer than `shown` because the code keeps bytes
a truncation cut off inside the last block, and lets an edit at the end of the
file write behind it: the refinement holds, and the stronger claim of
`core/main:173` (`ZeroFilled`) does not. `fs_format` zeroes the encoding map, for
which `encode_data` and `decode_data` copy.

### OFSPersist

Memory changes at once when a call of `OFSCoreTree` is taken; `todo` holds the
writes the code makes in that call, in order, and `write` moves them to `image`
one by one. No call starts before the last one's writes are through (calls are
one after the other here). Every write is followed by `flush` in the code, so
that what was written survives the process: `crash` drops memory and `todo` and
lets `fs_init` read the image. After a crash the model stops: bitmap and
directory blocks may then disagree, a state `OFSCore` does not describe.
`fs_shutdown` writes table and bitmap and is followed by `fs_init`.

### OFSConcurrent

Two calls, `file_create` and `file_delete`, of files of one block in the root
directory, each cut where another worker may see or change what it works on:
the scan for a slot, the marking, `bitmap_get`, `bitmap_set`, the insertion
into the index; the lookup, the freeing, the unmarking, `clear` and the
rebuild. Every client uses a name of its own, so that what goes wrong is not a
matter of two clients asking for contradictory things.

### OFSLayout

The calls are cut at the turns of `fs_format`'s `while (true)`: `first_guess`,
`settle`, `write_image`, then `fs_init` on the header written. Subtractions wrap
at `Wide`, stored offsets at `Narrow`; `UserBytes`, `EntryBytes`, `HeaderBytes`
are the sizes of the records. `Memory` is the largest table or bitmap that can be
allocated: a `total_size` smaller than the tables wraps to a region of nearly
2^64 bytes and ends in `bad_alloc`. `fs_init` knows the entries only from the
two stored offsets (`meta_count`); where these wrap inside the tables it finds
another number of them. Its branch for less than a block of room is modelled, but
takes stored offsets that wrap several times, so gigabytes of tables: no
configuration of the run gets there.

### OFSUsers

`users` is the table, `user_index` the name index, `sessions` the open sessions
with the copy of the account each took at login, `image` the table as it is on
disk. `Stored` is `UserInfo`'s constructor, which cuts a name to 31 bytes.
`user_create` looks a name up as sent and enters it as stored, as the code does.
`crash` restarts from `image`; `fs_shutdown` writes the table first. Passwords
are compared through `placeholder_hash`, which may map two to one. New session
ids are taken to be fresh (128 random bits in the code). Names `Own` are those
the table keeps whole and cuts no other name to; the properties that fail for
the others are stated for these, beside accounts of all kinds.

### OFSServer

The threads are the accept thread (`select_accept`, `select_read`, `recv_line`,
`recv_end`, `accept_exit`), the workers (`pop`, `pop_wait`, `lookup`, `login`,
`logout`, `call`, `bind`, `sendResponse`, `worker_exit`) and the main thread
(`stop`, `join`). Each lock-protected section is one step, so that between the
copy of the session pointer, the core call and the update of `client_sessions`
everything else may happen. `master` is the `fd_set`, `open` the descriptors
really open: after `close(fd)` without `FD_CLR`, `master` is no longer within
`open`, `select` fails with EBADF and the loop spins - a stutter here.
A worker that waits is `"waiting"` until a `push` notifies it.

Assumptions: `select` and the following `accept` are one step, each received
line another; a line arrives whole; nothing else in the process opens a
descriptor while the server runs; `running`, a plain `bool` shared by threads,
is read as written (the loops that read it call opaque functions); spurious
wakeups change nothing (the predicate is tested again) and are left out; a reply
to a closed connection goes nowhere (SIGPIPE is not modelled). Core calls are
atomic, and only the life of sessions is kept of them.

`Patient` are the clients that send a command after the reply to the last, as
`send_command` of the UI does. The server does not ask for it: it makes a request
of every line it receives (`server.cpp:101-111`). Other clients have up to
`InFlight` commands out, and their own `logout` can free the session another
worker is using for their next command. What the process does after such a read is
undefined (a second `user_logout` through a freed record may erase any session,
for one), so the model ends there: the threads move only while `Defined` holds,
and the safety properties of a server with such clients say what holds up to
that point.

## 3. Runs

| Run | Checks | Result |
|---|---|---|
| `core_recycle` | `TypeOK`, `Inv` (the inductive invariant), `BlocksOwnedOnce`, `ChainsEnd`, `ChildrenMatchParents`, `IndexedEntriesLive`, `RootAlive` | hold; 100,342 states |
| `core_nonempty` | `NonEmptyDirsStay` | **violated** |
| `tree_shape` | `NoBlockLeaked`, `EveryEntryInTree`, `IndexIsTree`, `ChainFitsSize`, `QueriesAgree`, `StatsAddUp`, `ImplementsTree` | hold; 116,633 states |
| `users` | `TypeOK`, `IndexSound`, `IndexIsTable`, `RestartKeepsAccounts` | hold; 1,173,068 states |
| `server` | `TypeOK`, `SessionAlive`, `BoundAlive`, `SessionIsOwn`, `ReplyToAsker`, `EachCommandOnce`, `QueuedAnswered`, `AcceptEnds` | hold; 390,953 states |
| `server_stop` | `StopEnds` | **violated** |
| `server_leave` | `CommandsReturn` | **violated** |
| `file_data` | `TypeOK`, `ReadsWhole`, `ImplementsBytes` | hold; 3,264 states |
| `file_zero` | `ZeroFilled` | **violated** |
| `persist` | `NoFileShowsAnother`, `FilesStayMarked`, `DurableTree`, `CrashKeepsReturned`, `CleanRestartKeeps` | hold; 404,295 states |
| `concurrent` | `CreatedStays` | **violated** |
| `layout` | `TypeOK`, `FormatFits`, `ReopenOverruns`, `SwingsForEver`, `FormatEnds` | hold; 12,783 states |

The five violations are disagreements between the code and what the
repository says of itself:

1. `NonEmptyDirsStay` (`core/main:205` expects the deletion of a non-empty
   directory to fail): when no block is left for a directory's first listing,
   `file_create` ignores the failure, and `dir_delete` then sees an empty block.
2. `StopEnds` (`main_server.cpp:59`, "Press Enter to stop server..."): `stop()`
   wakes no waiting worker, so its join never returns and `fs_shutdown` never runs.
3. `CommandsReturn` (docstring of `send_command`): after any client has left,
   `select` fails for ever; nobody else is read, answered or told of an error.
4. `ZeroFilled` (`core/main:173`, "zero-filled"): a shrink inside the last block
   leaves the bytes it cuts off, and a growth shows them again; `core/main`'s own
   sequence of calls does so. The run has clients that never edit (`NoEditSpec`),
   so that its trace is this one: creation, shrink, growth. With edits there is
   another way: an edit at the end of a file leaves bytes behind it, and a growth
   shows them.
5. `CreatedStays` (`core/main:132`, "file_exists after create"): two creations on
   two workers take the same free slot; deleting one of the files removes both.

Two properties hold for a reason worth knowing. `SessionIsOwn` and
`ReplyToAsker` hold because the accept loop is dead once a descriptor was
closed, so that no number is ever given out twice: their mutants add the missing
`FD_CLR` and nothing more, and then a new client gets another one's reply and
session. Repairing the loop therefore means tying requests to connections too.

`SessionAlive` holds for each client that waits for its replies, whatever the
others do; a client that does not wait can have its `logout` free the session
another worker is using for its next command. `BoundAlive` says how small the
window is for every client: a descriptor leads to a freed session only while the
`logout` that freed it is between `user_logout` and the `erase`.

`layout` says when `fs_format` hangs: exactly when the room beside the tables is
`(8k + 1) * block_size + k` bytes, where `k` bytes of bitmap leave room for one
block more than they have bits for and `k + 1` bytes do not. A `total_size` of
104845501 with the other defaults is such a one. It also says how far `fs_init`,
which counts the blocks without the bitmap, goes beyond `total_size`: by at most
the bitmap, and by 190 bytes with `default.uconf`.

`persist` says what survives a crash and, by what its properties leave out, what
does not: directories' blocks are not marked in the image's bitmap until some
other call or `fs_shutdown` writes it, and a directory's first block may not be
in the image's table, so that after a restart the directory lists nothing while
its files are still found by their paths.

### Bounds and why they suffice

- `core_recycle`: 3 slots, 3 blocks of **one** word, files of 0, 1 and 2 blocks,
  6 paths. The smallest volume where a file of two blocks, a directory block and
  a free block compete, where a truncation can interleave with a deletion, and
  where two entries recycle each other's slots and blocks; a directory overflows
  with its second child. A name cut by `set_name`, `//b`, and a path below a
  file are among the paths.
- `core_nonempty`: blocks large enough that the counterexample is due to the
  full disk and not to a full directory block.
- `tree_shape`: 4 slots, 3 blocks, two directory levels, files of 1 and 2 blocks.
- `file_data`: 2 files of up to two blocks of two bytes on three blocks, all
  contents of bytes 0 and 1: a block can pass from one file to the other in any
  position of a chain, and every position inside and at the end of a block
  occurs. The files are symmetric.
- `persist`: 3 slots, 4 blocks, the paths and sizes of `tree_shape`: every kind of
  write of every call occurs, with another file or directory beside it.
- `concurrent`: two workers, two slots, two blocks: room for both files, so that
  nothing fails for lack of space.
- `users`: 3 slots, 2 sessions (an administrator created and deleted by another,
  a slot recycled under an open session), 2 passwords, and a name that is cut
  to another one.
- `server`: 2 clients, 2 workers, 2 descriptors, one login. Two workers are
  enough for a race on one session or one notification; the other two of the code
  add interleavings of the same kind. Both clients wait for their replies:
  clients that send ahead multiply the states beyond what the liveness check can
  do, and the theorems cover them. The clients send `login` and `logout`; any other
  command runs as a login does that fails, but for its use of the session, which a
  `logout` uses too.
  `server_leave` and `server_stop` need fewer parts for their counterexamples.
- `layout`: 2629 configurations: every `total_size` from 782 to 3400 with blocks
  of 128 bytes and small tables (up to three bytes of bitmap, so both a
  boundary of the bitmap and a size that swings are among them), the defaults
  and the sizes next to the one that swings there, images smaller than their
  tables, a header or a block that is too small, a header past `Narrow` and tables
  that cross it.
  2^30 and 2^28 stand for 2^64 and 2^32, which TLC's integers cannot hold;
  `OFSLayoutProofs` has no such restriction.

No bound is hidden in an action except `InFlight` in `send_command`, `Sent` in
`Next` and the finite `Session` set in `login`, which ends the supply of logins; `NextFD` is
empty when `NFD` descriptors are open, as `accept` fails at the process limit.

### Fairness

`OFSServer!FairSpec` assumes weak fairness of the accept thread, of each worker
and of the main thread's join: the operating system runs every runnable thread,
and no lock is held across a blocking call. Clients and the operator owe
nothing. The threads of a server whose behaviour is defined go on for ever; in the
runs, where every client waits, it always is. `QueuedAnswered` ends with "or the server is stopped", because workers
may leave the loop with requests in the queue. `OFSLayout!FairSpec` says that a
call that can go on does.

## 4. Proofs

All theorems hold for every value of the constants allowed by the named
assumptions: `SizesAssumption`, `TruncAssumption`, `ClientAssumption`,
`DataAssumption` (`OFSCore`); `MaxUsersAssumption`, `StoredAssumption`,
`AdminAssumption`, `PasswordAssumption` (`OFSUsers`); `ServerAssumption`, `WorkerAssumption` (`OFSServer`);
`SizesAssumption`, `ByteAssumption` (`OFSFileData`); `LayoutAssumption`.

- **Type correctness of the core** (`OFSCoreProofs!TypeCorrect`): one lemma per
  action. Its lemmas say what a chain, an allocation, a
  rewrite of a listing and the rebuilt index are.
- **Safety of the core** (`OFSCoreProofs!InvCorrect`): `BlocksOwnedOnce` is not
  inductive: a call follows and rewires links, so one must know about links
  outside chains too. `Inv` strengthens it to `WellLinked`: every block in use
  has one predecessor at most (an entry or a block in use), a directory has one
  block, a free slot owns none. From it chains are determined by their start
  and two chains that meet have the same start (the lemmas walk the chains
  backwards). `ListsOwn` and `IndexedEntriesLive` go along, since deletions free
  exactly what the index and the listing lead to. The theorems
  `BlocksOwnedOnceCorrect`, `ChildrenMatchParentsCorrect`,
  `IndexedEntriesLiveCorrect`, `RootAliveCorrect` follow. No assumption on the
  clients' paths is made.
- **Chains end** (`OFSCoreProofs!ChainsEndCorrect`): with `Inv` a second
  invariant goes along, `Ranked`: there is a number for each block that falls
  along the next pointers of the blocks in use, so no ring exists, not even one
  that no entry leads to. Most calls
  only cut links (`NoNewLink`), and the same numbers do; `file_create` and a
  growth link free blocks one after the other, behind all that is there: they
  get the numbers below, and the others are raised (`RankGrown`). From a rank,
  `WalkEnds` builds the chain of a block from that of the next one.
- **Tree** (`OFSCoreTreeProofs`), for clients inside the limits of
  `OFSCoreTree`: `NoBlockLeakedCorrect`, `ChainFitsSizeCorrect`,
  `EveryEntryInTreeCorrect`, `IndexIsTreeCorrect`, `ImplementsTreeCorrect`.
  `TreeInv` adds to `Inv` that every marked block is in the chain of an entry
  (`Accounted`), that a file's chain has the blocks its size needs (`AllFit`),
  that every entry is listed by its parent, a directory in use (`AllHang`), and
  that the index holds the path one climbs from each entry (`PathsMatch`).
  The paths of the index are shorter than the table has slots, so that the climb
  of `build_full_path_from_meta`, which stops after `NM` steps, always reaches
  the root. Each call is first reduced to its effect (`FileMade`, `FolderMade`,
  `Removed`, `FileMoved`, `FileSized`): which entries and chains change, and which
  paths come and go. From the effect follow both the invariant and the one
  operation of `OFSTree`.
- **Image file** (`OFSPersistProofs`): `NoFileShowsAnotherCorrect`,
  `FilesStayMarkedCorrect`, `CrashKeepsReturnedCorrect`,
  `CleanRestartKeepsCorrect` and the refinement `DurableTreeCorrect`. None of
  these is inductive, since what they say at one write depends on the writes
  still to come. `UpInv` relates image, `todo` and memory as long as the process
  is up:
  - `BlocksCome`, `BitmapComes`, `TableComes`: carried out, the writes to come
    make the image's blocks those of the memory, its bitmap one that has the
    files' blocks, and its table the memory's but for the blocks of directories,
    in one write. With nothing to come, the image holds every file.
  - `LateOutside`: after the table, no block of a file is written.
  - `FilesWhole`, while the table is still to come: each file of the image has a
    sequence of blocks of its own (`Family`) whose links the writes before the
    table keep or cut, never lead elsewhere (`EarlyHarmless`). That is where the order of
    writes matters: a truncation cuts a chain on the image before the table tells
    the new size, and `file_create` fills blocks before the table shows them.
  - until its table is written, the image shows the tree before the call, which is one
    operation of `OFSTree` away from the tree after it.

  A write keeps `UpInv` whatever call it belongs to (`WriteStep`). Each call is
  shown to have the form `Calls`: blocks first, the table once, then the bitmap
  and blocks outside files (`CreateStep`, `DeleteStep`, `TruncateStep`, ...),
  from which `CallWrites` gets `UpInv` once for all calls. `FamilyShows` goes from
  sequences to what `file_read` shows: what it reads of a file is a prefix of the
  file's own sequence, and these share no block.
- **Queries** (`OFSQueriesProofs`): `QueriesAgreeCorrect` and
  `StatsAddUpCorrect` from `TreeInv`. `OwnChain` gives each entry exactly one
  chain, so that the number of marked blocks is the sum over the entries
  (`SumOfParts`); `AllKept` shows that `dir_list` drops nothing of what a
  directory's block lists. `dir_list` keeps the children in use by a recursive
  function (`InUse`), since the provers cannot expand `SelectSeq`.
- **Bytes** (`OFSFileDataProofs`): `TypeCorrect`, `ReadsWholeCorrect`, and the
  refinement `ImplementsCorrect`, for any block size. `DataInv` says that no
  block is in two places of the chains, that the blocks of chains are marked and
  that a chain has exactly the blocks its size needs. Every call is shown to be
  a `Changes(f, e)`: it gives one file an entry that keeps this and leaves the
  others' blocks alone, from which the invariant and the promise that only `f`
  changes follow once for all calls. What is left per call is what happens to
  the file's own bytes; there, byte `k` is byte `Off(k)` of block `Blk(k)` of the
  chain, one to one.
- **Accounts** (`OFSUsersProofs`): `TypeCorrect`, `IndexSoundCorrect`,
  `IndexIsTableCorrect`, `RestartKeepsAccountsCorrect`, for any names. For the
  last two, `OwnInv` adds that no two active accounts share a name of their
  own: then the index that creations and deletions keep and the one a restart
  builds lead to the same slot, whatever accounts with cut names are beside it.
- **Server** (`OFSServerProofs`): `TypeCorrect`, `SessionIsOwnCorrect`,
  `ReplyToAskerCorrect`. Neither property is inductive. The invariant says that
  all that ties clients to a descriptor - holding it, a request read from it
  and still queued or handled, the opener of its session - ties it to one client
  (`OneUser`), and that a descriptor with any tie is in `master`
  (`UsedInMaster`). Nobody is accepted on a descriptor of `master`: while all of
  `master` is open it is not free, and once one of it is closed `select` fails
  for ever. So the proof shows both properties and why they hold.
- **Commands** (`OFSServerProofs!EachCommandOnceCorrect`): a count over
  socket, queue and workers. Each step moves one command of one client; what is
  hard is the answer, which must be counted for the asker and for nobody else.
  `Asker` (the requests of a client that has not left carry its descriptor) and
  `OneUser` give that, and `RoundReads` that the end of a connection is read only
  after the client has left. `WorkerAssumption`: the workers are finitely many.
- **Sessions stay alive** (`OFSServerProofs!SessionAliveCorrect`,
  `BoundAliveCorrect`), for any clients, those that send ahead included. A client
  that waits has one command in the server at most (`OneHeld`, from the count of
  `EachCommandOnce`), so one worker at most serves its descriptor (`OneServed`). A
  logout frees a session of its own client, which is bound to that client's
  descriptor only, and the new session of a login is known to its worker alone
  (`LoginOwn`). So a descriptor leads to a freed session only while the worker
  that freed it is on its way to unbind it (`BoundAlive`), and in that time
  nobody else looks it up if the client waits.
- **Layout** (`OFSLayoutProofs`): `FormatFitsCorrect`, `ReopenOverrunsCorrect`
  and `SwingsForEverCorrect` for every configuration, from `LoopInv`: the bitmap
  of the loop never exceeds the room there is, so that its subtraction does not
  wrap. `NoFixpoint` shows that for the sizes of `Swings` no bitmap makes the
  loop's condition true.

Only model-checked: everything temporal, since liveness under fairness and
`ENABLED` are outside the prover's reach - `QueuedAnswered`, `AcceptEnds`,
`FormatEnds` - and the five violations. Every other property a passing run
checks is proved as it stands in the run, from the named assumptions only.

## 5. Not modelled, and why

- `set_permissions`, owners, times, `user_list`, `get_session_info`: no call
  reads them to decide anything.
- Failing, torn or reordered writes of the image: the code checks the stream in
  places but has no recovery; a power loss after `flush` is the file system's.
- Calls after a crash: table, bitmap and directory blocks may then disagree, and
  what the calls do depends on words `OFSCore` does not keep.
- Under four workers: the shared position of the one `fstream`, and races inside
  `std::vector` and `SimpleHashMap` (undefined behaviour with outcomes no model
  of this size enumerates); the calls other than `file_create` and `file_delete`.
- Messages split by TCP on either side, and SIGPIPE: what a piece becomes depends
  on its characters. `parseArgs`, JSON: conversions of characters.
- The flows of the screens (reading, deleting and creating a file to save it).
- `SimpleHashMap`'s buckets: a function to its callers while one thread uses it.
- `SimpleConfig::load`, `max_files` = 0.
- curses, `core/main`.

## 6. Plan

In this order:

1. `OFSConcurrent` with the stream position shared by two calls, and with
   `dir_create`; its composition with `OFSServer`'s workers.
2. `OFSPersist` with calls after a crash, once `OFSCore` tells apart a block's
   words where a directory's block is also a file's.
3. The client's flows on top of `OFSServer`, with replies in pieces.

## 7. Running

    tlc -workers 2 -config OFSCoreRecycle.cfg OFSCoreMC
    tlapm OFSCoreProofs.tla

`PROJECT.json` names module, configuration and expectation of every run, the
mutated definition each property is known to catch, and the source lines each
definition stands for.
