# 5S8S in TLA+

5S8S is an in-memory key-value cache: one process keeps a hash map, clients
add, get and remove entries over TCP.  The repository holds several versions
of it.  This directory models them, checks small instances with TLC and proves
the properties that matter most with TLAPS.

## The system

| part | source | state | operations |
|---|---|---|---|
| epoll server | `old_main.cpp`, `networking.hpp` | listening socket, descriptors, epoll ready list, `arr_buff`, `errno`, `cache`, `send_buffer` | `accept_conn`, `read_data`, decode and execute, `write_data`, close on hang-up |
| wire format | `old_main.cpp:118-145`, `client.py:7-28` | the receive array | `compose_*`, `std::find`, `std::stoi`, key and value slices |
| Python client | `client.py` | one connection per call | `add`, `get`, `rm` |
| hash map used by the server | `flat_hash_map/bytell_hash_map.hpp` | slots with a metadata byte, chains by jump distance | `emplace`, `find`, `erase`, `rehash`, iteration |
| second hash map | `flat_hash_map/flat_hash_map.hpp` | slots with a probe distance | the same, robin-hood |
| both hash maps as objects | the same two headers | the array each table owns, its allocator, the fields swap exchanges | constructors, assignments, `swap`, destructor, exceptions |
| hash policies | `flat_hash_map.hpp:206-264, 931-1278` | index of the prime or the shift | `log2`, `next_power_of_two`, `next_size_over`, `index_for_hash` |
| start of the epoll server | `networking.hpp:35-82`, `old_main.cpp:33-96` | sockets, the port | `bind`, `listen`, `epoll_create1`, `epoll_ctl` |
| tokio server | `rust_version/src/main.rs` | one map, one task per connection with its `Messages` | `poll`, `process`, `poll_flush` |
| pooled Python client | `rust_version/python_client/fses.py` | a pool of connections with a busy flag | `add`, `get`, `close` |
| blocking server | `main.cpp` | one socket | accept, read, answer |

The epoll server and `client.py` talk over TCP; the server owns one hash map;
all connections share one receive array and one `errno`.  The tokio server and
`fses.py` are a second pair with a wire format of their own.

What is hard in this code:

* **events and descriptors**: a batch of events names only descriptors, which
  are closed and reused while the batch is worked through;
* **edge triggering**: one read and one accept per event, so a wakeup that is
  missed is missed for good;
* **stale data**: `read_data`'s result is dropped, so the request still in
  `arr_buff` is executed again after EAGAIN, end of file and resets;
  `write_data` looks at an `errno` that a successful `write` did not set;
* **segments**: a request may arrive in pieces and is executed after each;
* **failure**: `accept` and `epoll_ctl` at their limits, RST at any moment,
  SIGPIPE, an exception out of `std::stoi`;
* **a pool**: coroutines share connections by a flag, the server closes every
  connection after one message, writes to closed connections fail late, and
  an exception skips the line that gives the flag back;
* **hash tables**: chains that share the slots of one array, relocation of a
  foreign element, growth in the middle of an insert, erase by moving the last
  element of the chain;
* **arrays**: their size, allocator and hash function are not stored with them
  but recomputed from members that swaps, moves and assignments exchange one by
  one, while a failing growth may unwind several calls of `rehash`;
* **a start** that other servers on the machine, restarts and early clients
  interfere with, and a **blocking** server that one silent client stops.

`PROJECT.json` lists these hazards one by one with the properties for them.

## Modules

| module | models | checked or proved in |
|---|---|---|
| `MapOps` | the cache as a map: `Put`, `Remove` | |
| `WireFormat` | `compose_*`, the receive array, `std::find`, `std::stoi`, the slices | `WireFormatProofs` |
| `WireReads` | what the server makes of one whole request read over anything | `MCParts`, `PartsProofs` |
| `CacheService` | the abstract service: a request takes effect at most once, in one step | refined by `EpollServer` |
| `EpollServer` | `old_main.cpp`, `networking.hpp`, `client.py` and the kernel between them | `MCEpollServer`, `EpollServerProofs` |
| `KeyedMap` | the abstract hash map: a finite function that only its calls change | refined by `BytellMap` |
| `BytellMap` | `bytell_hash_map.hpp`: slots, chains, eviction, growth, erase, iteration | `MCBytellMap`, `BytellMapProofs` |
| `FlatMap` | `flat_hash_map.hpp`: slots with distances, displacement, growth, erase, iteration; keeps the promises of `KeyedMap` | `MCFlatMap`, `FlatMapProofs` |
| `ControlByte` | the control byte behind a slot of `BytellMap` | `MCParts`, `PartsProofs` |
| `TwoTables` | who owns the arrays of two tables of either kind | `MCParts`, `TwoTablesProofs` |
| `HashPolicy` | `log2`, `next_power_of_two`, the list of primes and its functions | `MCHashPolicy` in `MCParts`, `PartsProofs` |
| `Startup` | the start of `old_main.cpp`, `networking::bind` | `MCParts`, `PartsProofs` |
| `BlockingServer` | `main.cpp` | `MCParts` |
| `FsesNet` | the wire format of `fses.py` and the connections | |
| `TokioServer` | `rust_version/src/main.rs` | |
| `FsesClient` | `fses.py` and the asyncio streams under it | |
| `FsesSystem` | the three together; refines `CacheService` | `MCFsesSystem`, `FsesProofs` |
| `CommonLemmas` | least and greatest numbers, induction over numbers and finite sets, maps, sequences of elements that wait | used by all proofs |

### WireFormat

Bytes are one-character strings and the array is a function from positions.
`Overlay` is what `read` does to `arr_buff`; `DecodeInsert` and `DecodeLookup`
are `old_main.cpp:122-131` and `141-145` with the separator window of 130 as
`SepWindow`.  A missing digit or a key size of 0 throws out of the program; a
size that runs past the array is undefined and gets a mode of its own,
`"overrun"`.  The code does not rule it out: if an add arrived behind its first
byte, its rest `2|1|...` is in front of the array, and with `g2`, the beginning
of a torn get, laid over it the array asks for a key of 21 bytes; with greater sizes
the real array of 68512 bytes is passed in the same way.  `epoll_torn` gets there.  The model ends at that
point and its properties say nothing of what follows.  `OnlyExtraRepliesEnd`
proves that whole requests never lead there.
Signs and blanks, which `std::stoi` would skip, do not occur among the bytes:
no client sends them in a size.

### EpollServer

A connection carries one call, as in `client.py`.  Variables:

* clients: `call`, `todo` (bytes of the request that have not arrived), `seen`
  (replies read);
* network: `rcv` (bytes in the socket), `out` (replies written), `peer` (what
  arrived of the other end: FIN, RST, or one of them under way);
* kernel and loop: `listening`, `backlog`, `conn` (descriptor table), `ready`
  (epoll's list), `watched`, `batch` (events not handled), `write` (the
  `write_data` call under way), `errno`;
* data: `buf`, `cache`, `sendBuffer`; `alive`.

| action | code |
|---|---|
| `Connect`, `Send`, `Receive`, `CloseClient` | `client.py:43-62` |
| `RstArrives` | the client's kernel |
| `EpollWait` | `old_main.cpp:101-103` |
| `HandleHup` | `old_main.cpp:106-108` |
| `HandleAccept`, `AcceptFails`, `AcceptUnwatched` | `old_main.cpp:109-114`, `networking.hpp:95-123` |
| `HandleRead` | `old_main.cpp:115-170` with `read_data`, `networking.hpp:126-141` |
| `WriteAttempt` | one turn of the loop in `write_data`, `networking.hpp:162-182` |

`HandleRead` is the whole handler: the read with its four outcomes, the decode
and the effect on the cache and the send queue; the reply is then written by
`WriteAttempt` steps, between which a RST may arrive.  While a write is under
way no other event is handled: there is one thread.

What the kernel does is modelled from its contract: a ready list that an event
joins on an edge and leaves in `epoll_wait`, which polls the descriptor once
more; the order of a batch is not promised and is arbitrary here; `close`
makes epoll forget the descriptor; accept uses the lowest free one; a closed
peer answers a write with a RST; a RST after the FIN makes the next write a
SIGPIPE, a RST alone is reported once as an error.  EPOLLRDHUP is tested in
the code but not registered, so only EPOLLHUP (a RST) reaches that branch;
the branches of `old_main.cpp:171-204` are never reached, because EPOLLOUT
holds for every open socket.  The socket's send buffer never fills.  The
array's contents before the first read are uninitialised and come from
`Garbage`; a size past its end stops the process.

`CacheService` is implemented by `EpollServer` with the connections whose
request is unread or on its way as those waiting; the keys are the server's,
without their last byte.  `WholeRequests` says when this is so: requests are not
cut and fit the array, their sizes have fewer digits than the separator window
is wide, no key is empty, and what the array holds at the start is not an
insert.  The last one cannot be left out: `arr_buff` is not initialised
(`old_main.cpp:96`), and an event that brings no bytes executes what it holds.

### BytellMap

`slots` is the array: each slot has the control byte as `kind` (empty,
reserved, direct hit, list entry) and `jump` (the index into
`jump_distances`, 0 for the end of a chain) and its element.  Blocks of eight
slots are layout and left out.  A call runs in steps, because it may be
interrupted by its own growth:

| action | code in `bytell_hash_map.hpp` |
|---|---|
| `Emplace`, then `Present`, `DirectHit`, `NewKey` or `Evict` | `emplace` 464-491, `emplace_direct_hit` 865-889, `emplace_new_key` 921-939 |
| `MoveOne`, `MoveLast` | one turn of the loop 890-912 that takes a foreign chain apart |
| `Grow` | `grow` 971-974, from each of its call sites |
| `Assign` | `insert_or_assign`, `operator[]` on a key that is there |
| `Erase`, `EraseAtCursor`, `EraseRange`, `EraseNext`, `Clear` | `erase` and `clear` 587-692 |
| `Rehash`, `Reserve`, `ShrinkToFit`, `Copy`, `SetMaxLoad` | 528-581, 694, 220-227, 733 |
| `Begin`, `Advance` | `begin`, `operator++` |

`emplace`, `grow`, `rehash` and again `emplace` call each other.  The stack of
these calls is the sequence `todo` of the elements still to be emplaced: a
rehash puts the elements of the array it replaces before those that wait, which
is the order in which the nested loops get to them.  `move` is the state of the
eviction loop, `doomed` the vector `depth_in_chain` of a range erase (a map
from slots to depths; the sort leaves the order of equal depths open, so does
`EraseNext`), `cursor` an iterator of the caller with the keys it has visited.
`range`, the keys a range erase began with, is a history variable.  A walk
along a chain is the recursive function in `Chain`.  Sizes come from the
constant set `Sizes` (`prime_list`); `SizeOver` is a set because no size may be
large enough, in which case the call throws.  The hash is a constant function.

The abstract map `Contents` has the elements in the array and those in `todo`,
so an element is put at the call of `emplace` and every step after that, the
whole rehash included, must leave the map alone (`KeepsPromises`).

### FlatMap

`slots` is the array with `max_lookups` more slots than the table has buckets;
each slot has `distance_from_desired` (-1 for empty) and its element, the last
one is the end marker of distance 0.  `size` is `bucket_count()`, `lookups` is
`max_lookups`.

| action | code in `flat_hash_map.hpp` |
|---|---|
| `Emplace`, then `Present`, `Grow`, `Insert` or `Displace` | `emplace` 575-587, `emplace_new_key` 826-841 |
| `CarryIn`, `Swap`, `PassOver`, `GiveUp` | one turn of the loop 841-865, with the element carried in `hand` |
| `Erase`, `EraseAtCursor`, `EraseRange`, `Clear` | 671-729 |
| `Rehash`, `Reserve`, `ShrinkToFit`, `Copy`, `SetMaxLoad` | 624-665, 731, 355, 774 |
| `Begin`, `Advance` | `begin`, `operator++` |

The stack of nested calls is `todo`, as in `BytellMap`.  `GiveUp` is the one
place where an insert is undone: the element in hand takes the slot of the new
one and the new one starts again in a larger table.  A range erase is one step;
how far each element moves up is in closed form (`MoveUp`) what the loop
696-705 computes one by one.  `SizeOver(n)` is the least size that is large enough,
as a set that is empty if there is none; then no array can be allocated and the
call throws.  Promises of `KeyedMap` are stated call by call (`KeepsPromises`):
the call that emplaces, assigns or erases is the step that changes the map, a
range erase removes exactly the keys in the range, and `Rearrange` (rehash,
reserve, shrink, copy, iterate) and `Continue` (the turns of the loops and the
growths inside a call) leave the map alone.

### TwoTables

`FlatMap` and `BytellMap` have one table and its slots.  `TwoTables` has the
two maps as objects and leaves out where an element lies: `store` has, for each
table, the fields that `swap_pointers` exchanges, with the elements as a set;
`heap` the arrays that are allocated, with their size and their allocator;
`alloc` the allocator of each table that is constructed.  The two headers have
the same text here but for the size of an array, so `kind` is chosen at the
start, as are the `propagate_on_container` traits.

| action | code |
|---|---|
| `DefaultConstruct`, `ConstructRange`, `CopyConstruct`, `MoveConstruct`, `Destroy` | `flat_hash_map.hpp:300-379, 429`, `bytell_hash_map.hpp:164-246, 296` |
| `CopyAssign`, `MoveAssignPropagating`, `MoveAssignEqual`, `MoveAssignEach` | `operator=`, `380-428` and `247-295` |
| `Swap`, `Clear`, `RehashCall`, `ShrinkToFit`, `Erase` | the calls of these names |
| `Insert`, then `Present`, `Place`, `Grow` or `CopyThrows`; `EndRehash`, `EndCall` | `emplace`, and `rehash` with the loop over the old array |

A call of `rehash` takes the old array into local variables; `frames` is the
stack of these.  When an allocation fails, no size is large enough or the copy
of an element throws, `Unwind` ends all calls at once: the catch blocks and
destructors of the constructors free the array of the table, nobody those of
the frames.  The move assignment is `noexcept`, so there the program ends.

### HashPolicy and ControlByte

`HashPolicy` has 64-bit words as sets of bits, so that shifts, the addition of
1 and the smearing of the highest bit are exact; the product with the magic
number is computed digit by digit.  `ControlByte` puts the byte beside the
record `BytellMap` has instead of it and writes both.

### Startup and BlockingServer

`Startup` has several processes on one machine, each at one of its calls, any
of which may fail.  The kernel refuses an address while anybody holds the port
or connections of a process that is gone linger on it (neither `bind` sets
SO_REUSEADDR), keeps connections from `listen` on and reports those it has when
`epoll_ctl` adds the listener.  `EpollServer` begins where this module ends.

`BlockingServer` is the loop of `main.cpp`, one step per blocking call, with
clients that write in pieces, leave at any time or never write.

### FsesSystem

`FsesNet` has one connection per member of the pool: `link` (how far the server
is with it), `sent` and `arrived` (bytes under way, bytes in the server's
socket), `reply` (bytes for the client), `down` (FIN and RST for the client) and
`up` (closed by the client).  Sizes have `SizeLen` digits, two in the runs
instead of eight.

| action | code |
|---|---|
| `Accept` | `main.rs:176-180`, `process` |
| `Serve` | a `poll` that finds a whole message (55-75), the match on it, the answer and the end of the task (141-165) |
| `Await` | a `poll` that does not (58-68, 80) |
| `Disconnect` | a `poll` at the end of the stream (77-78) with the answer "e" |
| `Panic` | `split_to` or `parse` of a size that has not all arrived (62) |
| `Open`, `Start`, `Close` | `fses.py:11-14`, the calls, 41-46 |
| `Take` | one turn of the loop in `add` or `get`: flag, `write`, and `read` as far as it does not wait (22-25) |
| `ReadReply`, `ReadEof`, `ReadRaises` | the ways out of `read` |
| `NoticeEof`, `NoticeReset`, `ConnectionLost` | asyncio's event loop |

Between two awaits a coroutine is alone, so `Take` is one step; `write` and
`read` are in it because neither waits for the other.  What asyncio does is
modelled from its contract: bytes written after `close` or after an error are
dropped, an error of `write` reaches the reader one turn of the event loop
later, at the end of file `read` returns nothing.  `Close` may happen at any
time, because `pool` belongs to the class and `__del__` of any `Client` closes
it.

`split_to` past the end of a buffer is documented to panic, but versions of the
`bytes` crate that look at the capacity return what there is; `Cargo.toml`
allows any version, so a header cut inside its second size has both outcomes.

The second outcome reads a wrong size and then a wrong key, so `TypeOK`, `Acked`
and `AtMostOnce` are about requests that are cut behind their header, whose
characters are one byte each (the client counts characters and the server bytes)
and whose sizes fit their fields: `WholeRequests` in `FsesSystem`.  `pool_torn`
has torn headers and longer characters.

`wrote` and `executed` are history variables.  `FsesSystem` implements
`CacheService` with callers as its connections; a caller's request waits there
from the moment it is the first on its connection until the server closes it.
Key and value are those of the server, which exchanges them.

## Runs

| run | instance | shows |
|---|---|---|
| `parts` | the six parts that share no state with the rest, one per behaviour: requests in the array, the policies, the control byte, two tables, the start, the blocking server | `LeftoversIgnored`, `PickledKeysDistinct`, `BitTricksExact`, `SizesFit`, `ByteIsRecord`, `SoleOwner`, `ArrayKnown`, `OneServer`, `AnsweredUnlessSilenced`, `EarlyReported` |
| `epoll_torn` | 2 connections, 2 descriptors, 1 watch, add / set / get / rm, requests cut after 1, 2 or 4 bytes | `WellFormed`, `NoStaleEvent`, `DataNotified`, `RereadHarmless` |
| `epoll_whole` | 3 connections, 2 descriptors, whole adds and removes | `TakesEffectOnce`, `ListenerLostToLimits`, `EndsByExtraReply` |
| `epoll_release` | 2 connections, add and get, fairness | `Released` |
| `bytell_table` | 6 keys, four of them with one hash, 3 jumps, load factor 1 | `WellFormed`, `Findable`, `EachOnce`, `PassSeesAll`, `RangeErased` |
| `bytell_values` | 5 keys, three of them with one hash, 2 jumps, tables from 5 slots, load factors 15/16 and 1, fairness | `KeepsPromises`, `Returns` |
| `flat_table` | 6 keys with three neighbouring homes, 3 lookups, load factors 1/2 and 2, fairness | `WellFormed`, `Findable`, `EachOnce`, `PassSeesAll`, `KeepsPromises`, `Returns` |
| `pool_torn` | 2 callers, 2 connections, segments of 3 or 4 bytes, a two-byte character, fairness | `ReadsEnd` |
| `pool_whole` | 3 callers, 2 connections, segments of 5 or 6 bytes | types, `BusyMeans`, `OneCaller`, `OwnReply`, `Acked`, `AtMostOnce` |
| `epoll_answer`, `epoll_status`, `pool_adds` | | violated: the first findings below |

`WellFormed` is the type invariant of a module with what its parts say of each
other: `Bookkeeping` in `EpollServer`, `ChainsEnd` in `BytellMap`,
`SentinelKept` in `FlatMap`.  `EachOnce` is `SizeCounts` and `NothingTwice`.

`parts` chooses one part at the start (`part` in `MCParts`) and leaves the
others in their initial states.  Parts that share nothing need no product, and
each property of a part is checked over all behaviours of that part.

Bounds of `parts`.  Keys of up to 2 bytes over 4 bytes, `i` `1` `|` `.` among
them.  The words of `BitTricksExact` are all intervals and all pairs of bits,
so that every shift has bits to move and none, with and without a carry; the
requests of `SizesFit` are those up to 200 and the neighbours of each prime, and
each function is asked for the indices around 0 and around its size.  TLC's
integers end at 2^31, and so does the list of primes.  The control byte is
complete.  Two tables with two keys and three arrays are the fewest with
which a rehash grows inside a rehash and the third array is one that was lost
before; sizes 2 and 5 make the least array incomplete as a block of 4 and the
second one of two blocks; two allocators differ or are equal.  With two
processes each of them can find the port taken, by the other or by what its
own predecessor left; queues end at 2, one more than an event takes.  Three
clients of the blocking server are one that is served, one that waits and one
that is silent; requests of two pieces are longer than one read.

Bounds of the others.  Two connections suffice for every interaction of two events in a
batch and for a stale request or `errno` that hits somebody else; the third
makes the descriptor limit bite while somebody waits.  One watch makes
`epoll_ctl` fail after an accept.  Two attempts of `write_data` instead of five
keep the case "repeated, then closed"; `epoll_status` uses five.  A cut after 1, 2 and 4 bytes leaves the mode alone, a size without its
separator, and a header without its body.  The receive array is as long as two
separator windows and the body need (9 bytes for whole requests of 8; 16 for
torn ones, so that a size of 21 reaches past its end and a key or value behind a
shifted separator does not).  One of the arrays that `epoll_torn` starts with
holds the rest of an add that an earlier server got in two segments, so that two
connections are enough for torn requests to meet.  Connections are symmetric in
the runs without liveness.

An add has a header of 5 bytes in the pool runs: segments of 3 or 4 bytes end
inside its second size, 5 and 6 behind it and in the body.  Three callers on a
connection are the one that is answered, the one whose request is lost and the
one whose write fails; two connections add a choice of the pool and a panic on
the other one.

The tables of the code start at 11 slots and have 125 jumps; those of the runs
start at 5 slots and have 3 jumps for 6 keys and 2 jumps for 5 keys, so that
the keys already fill a table, run out of jumps before they run out of slots and
evict chains of three elements.  Both runs of `BytellMap` reach the growth in
the middle of an eviction, with one element of the chain moved and the rest torn
off, the growth for want of a jump with slots left, and the growth of a table
that is still being refilled by a rehash: the hashes are chosen for that.
`bytell_values` has no symmetry, because of `Returns`, and therefore one value: what an
assignment to a key writes is proved (`PromisesKept`) and not model-checked.
With 2 jumps and four equal hashes growing need not end: the chain
covers both jumps of its head in a table of any size.  In the code the jumps reach up
to 5 * 10^18, so that this takes thousands of keys with one hash; the third
jump of the runs, longer than any chain, stands for those.  Keys of equal hash
are interchangeable and symmetric in the runs without liveness.

`FlatMap` has 4 lookups in the code and 3 in its run.  Three is the least with
which an element can be passed over and the insert still give up: two keys have
the first slot as home, three the second, one the third.  The load factor 2,
which `max_load_factor` accepts, is needed for that with so few keys: at 1/2
tables are sparse.  `Sizes` are primes; with powers of two instead the module
models the tables of `power_of_two_std_hash`.

Fairness (`BytellMap!FairSpec`, `FlatMap!FairSpec`).  A call runs on until it returns; callers
need not call anything.

Fairness (`EpollServer!FairSpec`).  The loop is weakly fair: the process is scheduled.
RSTs arrive.  A client that has connected sends, reads and closes, as its
coroutine does next.  Clients need not connect: no fairness on `Connect`.
`Released` needs all of it; without the RST that answers the server's reply
the descriptor stays open.

Fairness (`FsesSystem!FairSpec`).  Both event loops run, bytes arrive, and a
coroutine that has called goes on.  Nobody has to open, call or close.

Fairness (`MCParts!Spec`, as in `BlockingServer!FairSpec` and
`Startup!StartFairSpec`).  The thread of the
blocking server runs and a client that is not silent writes and reads; a
process that was started goes on with its next call, whether it fails or not.
Nobody has to connect, to leave, to start a process or to kill one.  `Run` has
one fairness condition for all outcomes of a call, so no call is made to
succeed.

Deadlock is not checked in `parts`, whose requests and questions are asked once,
nor in the epoll and pool runs: when the clients are done
the server waits for ever.

Not true of requests in segments, and so only checked for whole ones:
`TakesEffectOnce` and `Released`.  A torn request is executed on a mixture of
bytes, and one whose second part starts with `a` gets no reply, so no RST.

## Findings

Violated in a run of their own:

* `RmStatus` (`epoll_status`): a connection accepted before its request has
  arrived is answered with the outcome of whatever request is in `arr_buff`.
* `GetAnswered` (`epoll_answer`): one accept per edge-triggered event leaves a
  connection in the accept queue until another one is made.
* `AddsPerformed` (`pool_adds`): the server ends after one message per
  connection, so the second add over a pooled connection is lost and `add`
  returns an empty status.

Seen in the source and modelled as they are, so that the properties above hold
in spite of them:

* the last byte of every key is dropped (`old_main.cpp:130`, `145`).  Pickles
  end in a fixed byte, so keys of `client.py` stay distinct
  (`PickledKeysDistinct`); `Stored` in `EpollServer` is a request without it;
* only mode `s` is queued for other instances (`old_main.cpp:135`), while
  `client.py` inserts with mode `i`;
* `poll` of the tokio server returns the value before the key and
  `process_add` takes the key first (`main.rs:74`, `148`): what is stored is the
  exchanged pair (`Taken` in `FsesSystem`);
* `get` of the tokio server answers `o` and never the value (`main.rs:151`,
  `process_get` is not called);
* an exception of `read` leaves the flag of a pooled connection set
  (`fses.py:25-28`), as `BusyMeans` says; the fourth call on one connection
  raises, because its `write` goes to a connection that was reset, and with all
  flags set every later call looks for a connection for ever.

* the test of `epoll_fd` behind `epoll_ctl` (`old_main.cpp:70-73`) lets a
  failure of `epoll_ctl` pass: the server waits for events that never come, as
  the last case of `EarlyReported` says;
* a growth that fails inside a rehash leaks the arrays of the calls around it
  with the elements in them (`flat_hash_map.hpp:624-655`, no catch):
  `lost` in `TwoTables`.

Seen in the source and outside the model:

* the move constructor with an allocator (`flat_hash_map.hpp:375-379`,
  `bytell_hash_map.hpp:241-246`) exchanges the arrays whether or not the
  allocators are equal; with unequal ones both tables would free an array the
  other's allocator made.  The callers of `TwoTables` move to an equal one;
* a table of one slot, which `power_of_two_hash_policy` can ask for, looks like
  the static one to `bytell_hash_map` (`num_slots_minus_one` is 0, 556-573), so
  its array is not freed.  `Sizes` has no 1, nor has `prime_list`;
* `next_power_of_two` of more than 2^63 is 0 (`flat_hash_map.hpp:253-264`), as
  the word arithmetic has it; no table is that large;
* `erase(it, it)` of `flat_hash_map` (`flat_hash_map.hpp:684-707`) with an
  element at `it` that is away from its home moves elements by 0 slots, which
  destroys the element and those behind it without counting them;
  `bytell_hash_map.hpp:618` returns early for an empty range.  The callers of
  `FlatMap` erase ranges of at least one element.

## Proofs

`tlapm` checks every theorem below for all values of the constants that meet the
assumptions named.  `CommonLemmas` has what the other modules share: a set of
naturals that is not empty has a least member, from which ordinary and strong
induction over numbers, induction over finite sets and the greatest member
follow; two ways of numbering the members of a set; facts about maps and about
sequences of elements with different keys, which is what a rehash puts before
those that wait.

| module | theorem | property |
|---|---|---|
| `EpollServerProofs` | `TypeCorrect`, `StaysWellFormed` | `ControlTypeOK`, `WellFormed` |
| | `EventsAreFresh`, `ListenerKept` | `NoStaleEvent`, `ListenerLostToLimits` |
| | `RereadIsHarmless` | `RereadHarmless` |
| | `DataIsNotified` | `DataNotified`, if every request fits the array |
| | `TakesEffectOnceAlways`, `OnlyExtraRepliesEnd` | `TakesEffectOnce`, `EndsByExtraReply`, under `WholeRequests` |
| `FlatMapProofs` | `StaysWellFormed`, `StaysFindable`, `StaysOnce` | `WellFormed`, `Findable`, `EachOnce` |
| | `PassesSeeAll` | `PassSeesAll` |
| | `PromisesKept` | `KeepsPromises` |
| `BytellMapProofs` | `StaysWellFormed`, `StaysFindable`, `StaysOnce` | `WellFormed`, `Findable`, `EachOnce` |
| | `PassesSeeAll`, `ErasesTheRange` | `PassSeesAll`, `RangeErased` |
| | `PromisesKept`, `ImplementsMap` | `KeepsPromises`, and from it `KeyedMap` |
| `FsesProofs` | `FlagsMeanReaders`, `ReadersDiffer`, `RepliesAreOwn` | `BusyMeans`, `OneCaller`, `OwnReply` |
| | `TypesAlways`, `AckedAlways` | `TypeOK`, `Acked`, under `WholeRequests` |
| | `ServerLives` | `alive`: no panic, under `WholeRequests` |
| | `TakesEffectAtMostOnce` | `AtMostOnce`, under `WholeRequests` |
| `TwoTablesProofs` | `SoleOwnerAlways`, `ArrayKnownAlways` | `SoleOwner`, `ArrayKnown` |
| `PartsProofs` | `LeftoversNeverMatter`, `PickledKeysNeverMeet` | `LeftoversIgnored`, `PickledKeysDistinct` |
| | `ByteIsRecordAlways` | `ByteIsRecord` |
| | `OneServerAlways` | `OneServer` |
| | `NextPowerAlways`, `Log2OfHighest` | the half of `BitTricksExact` about `next_power_of_two`; what reduces the other half to 64 words |

### The wire format

`WireFormatProofs` is about the operators, without a state.  `Itb` is a
recursive function: `ItbIs` shows by strong induction that it has the value its
definition gives it, digits only, the last one the number modulo 10.  `std::stoi`
is a fold over the digits; read from the left (Horner) it returns the number
that was written.  A composed request is a head of the mode, the sizes and their
separators, then key and value; laid over the array (`Overlay`) its bytes are in
front, so that the first separator `std::find` meets is the one behind the size,
digits not being separators.  `InsertReadBack` and `LookupReadBack` put this
together: a whole request is decoded as it was composed, less the last byte of
its key, whatever the array held.  `DecodeTyped` says that any array at all is
decoded to bytes, an exception or an overrun.

### EpollServer

For any number of connections, descriptors and watches, any calls, any way of
cutting requests and any contents of the array.

The inductive invariant behind `EventsAreFresh` and `ListenerKept` is
`NoStaleEvent /\ OneOwner /\ Bookkeeping`.  `NoStaleEvent` alone is not
inductive: that closing a descriptor leaves no event behind needs the events of
a batch to be for different descriptors (`OneOwner`, which the kernel
guarantees) and the write under way to be for none of them (`Bookkeeping`); that
accepting does not make an event stale needs events to be for watched, hence
open, descriptors only.
`DataIsNotified` adds `Arriving`: unread and unsent bytes of a request
together fit the array, so that one read takes all.  `RereadIsHarmless` is
inductive by itself; the lemma `ExecuteTwice` says that executing a request is
idempotent.

`TakesEffectOnceAlways` is the refinement of `CacheService`.  Its invariant
(`WholeInv`) says that a request is in one piece, still with its client, unread
or gone (`InOnePiece`), and that executing what the array holds would leave the
cache as it is (`Settled`).  A read that brings bytes brings a whole request, the
array then holds that one whatever it held before, and executing it is
`Perform`; a read that brings none executes the old one, and `Settled` makes that
a stutter.  A close drops unread bytes: `Lose`, for the whole backlog when it is
the listener that is closed.  Connecting is `Submit`, because no request is
empty.

`OnlyExtraRepliesEnd` needs two things more.  `Settled` also says that what the
array holds, once something has been read, neither throws nor reaches past the
end when it is executed again.  And a RST means a reply (`RstMeansReply`): it
answers one that was written to a closed client, or comes from a client that
left with one unread.  So a SIGPIPE can only hit one more reply to a connection
that had one, and by `NoStaleEvent` the connection is the one the reply is for.

### FlatMap

For any keys, values and hash function, any sizes, numbers of lookups and load
factors, and any sequence of calls.

The layout of the array is stated slot by slot (`Layout`): a slot is empty or
has an element at its distance from home, less than the lookups, and the slot
before an element that is away from home has one at most one nearer to home; the
last slot is the sentinel.  Along a row these facts add up (`Chain`): between
an element and its home every slot has an element at least as far from home as
the search for this key would be.  So the search ends, inside the array, and
finds the key if it is there (`Search`, `Finds`); `Findable` needs nothing else.
An empty slot or the slot at which a displacement stops may be filled, and an
element may move up by one, because both keep the facts of the two neighbours.

`IInv` adds what holds between the steps of a call: the element in hand
(`InHand`) has the distance its slot asks for, its predecessor is at most one
nearer to home, its key is in no slot, and the element that is being inserted is
already in the array at `result`, which is what `GiveUp` exchanges it for;
`todo` has each key once, and only the caller's element may have a key of the
table (`Comes`); `numElements` counts; an iterator has seen what is before it
and nothing else (`CursorInv`).  A growth in the middle of this takes the
elements in the order of their slots (`RankBijection`) and puts them before
those that wait.  `Contents` is then unchanged, as the elements of the array and
of `todo` have different keys, which is what `PromisesKept` needs beyond `IInv`.

### BytellMap

For any keys, values and hash function, any list of jumps, any sizes and load
factors, and any sequence of calls; the only assumption is `BytellAssumption`,
the types of the constants.

The chains are stated jump by jump (`Linked`): a direct hit is at home; a jump
leads to a list entry of the same home; no two jumps lead to one slot, and every
list entry is led to.  That is not yet enough, since the slots of a circle meet
all of it and no search that enters one ends.  So there is a numbering `r` of
the slots that grows along every jump.  It is existentially quantified, not a
variable: a new end of a chain gets a number above its predecessor's, and a
growth starts with no jumps at all.  From these local facts, by induction over
the numbers, follows what the operators that walk along a chain give: from a
home the walk (`Chain`) meets exactly the elements of that home (`Links`), has
one end (`Last`), and each of its other members has one predecessor (`Before`,
`Parent`), which is where `find_parent_block` stops.  With no key twice, a
search finds an element in its slot and nowhere else.

`IInv` is the inductive invariant:

* `Numbered`: the chains are linked with some numbers.  While an eviction is
  under way one chain is in two pieces; then the rest that begins at `move.at`
  is led to by nobody, and the end of the front piece, `move.parent`, has the
  same home and a lesser number (`Torn`).  Moving an element keeps that, the last one
  joins the pieces, and a growth in the middle drops all jumps.  The depths noted in
  `doomed` are the numbers of their slots, so they grow along a chain too;
* `MoveInv`: the evicted block is reserved from the first move on and no other
  slot is; it is the home of the element that waits, whose key is in no slot;
* `TodoInv`: what waits has different keys, and no key of the table unless it is
  the caller's own element, alone;
* `CursorInv`: an iterator has seen what is above it.  An erase fills the gap with the end of a
  chain, which may come from below or above: from above it has been seen, from
  below it now is at the iterator, which therefore stays at a slot that is filled
  again;
* `DoomInv`: the slots in `doomed` are those with a key of the range.  Neither
  this nor `RangeErased` is inductive without the depths: the end of a chain that
  fills a gap must not be doomed itself, which is so because the deepest doomed
  slot goes first;
* `Apart` and `SizeCounts`: no key is in two slots, and `numElements` counts.

TLC checked `IInv` on both tables of the runs before it was proved, with the
depths of the slots as the numbers (and greater ones for the rest of a torn chain).  The contents are proved about as the set of elements in the array
or waiting (`Items`): `Promise` says what each call does to it, and every other
step leaves it as it is, because the elements of a growth go over into `todo`
one to one (`Stored`).  `ImplementsMap` is then `Map!Init` from `Init` and a step
or a stutter of `KeyedMap` from each step.

### FsesSystem

`BusyMeans` and `OneCaller` are inductive together and not apart.  `OwnReply`
needs what connects it with the server (`ReplyInv`): an open connection has no
reply (`AnswerCloses`); a connection that was written on and given back is
answered and read, or known as ended (`GivenBack`), so that whoever takes it
next reads nothing (`Readers`); one that was never written on gives the server
no message (`Untouched`).  These hold for any segments and every outcome of a
torn header.

The other theorems are about the bytes.  `Zfill` writes a size with all its
digits and `Parse` reads it back, by induction over the digits.  `StreamInv` then
says what the server has of an open connection that was written on: the start of
the first caller's request, either all of it unread (`Unread`), or the header
taken and a message awaited whose sizes are those of the request (`HalfRead`),
followed by whatever later callers wrote.  So the server never reads a size that
has not all arrived (`ServerLives`), and what it executes is the first caller's
request (`Executions`), which an acknowledgement then tells that caller
(`AckedAlways`).  For `TakesEffectAtMostOnce` a caller waits while it is the
first on a connection that is not closed: a closed connection has been written on
or can no longer be (`Ended`), so nobody begins to wait on it, and serving,
failing and closing take exactly one caller out.

### TwoTables

For any number of tables, keys, allocators and arrays, any sizes and any calls
that fail.  `SoleOwner` is inductive but for the shape of the records and the
tables a call is on (`OwnerInv`).  A call uses several helpers in a row, a copy
assignment for example an emptying, a rehash and an unwinding; so there is one
lemma per helper about any tables, frames and heap in which `Sound` holds
(`Released`, `Exchanged`, `Pushed`, `Popped`, `Lost`), and the calls only combine
them.  `ArrayKnown` is about what a table remembers of its array.  `KnownInv` says
of every table, and of every frame of a rehash, that size, allocator and policy
are those its array was allocated with (`TablesKnown`, `FramesKnown`): swaps and
moves exchange all of them or none, and the frames of a rehash are for the
allocator of the table the call is on.

### Startup and ControlByte

`OneServer` needs to know that a process that has not got behind `bind` has
nothing to leave behind (`NothingYet`), because what lingers after a kill would
otherwise contradict another process that is bound.  For `ByteIsRecord` the
invariant is the encoding itself (`Encoded`); from it the reads are arithmetic
on 128.

### HashPolicy

After shifts of 1, 2, 4 and so on a word has the bits less than 2, 4, 8 and so on
places below its own (`SpreadTwice`), so that six of them fill it up to its
highest bit (`SmearIs`).  `NextPowerAlways` follows with the carry of `++`
(`IncRow`), for all 2^64 words where TLC asks for some.  `Log2OfHighest` says
that `log2` depends on the highest bit alone; the 64 words of one bit are among
those of the run, so proof and run together cover every word.

### Assumptions

TLC evaluates each of them on a run.

* `WireAssumption`, `EpollAssumption`, `WireReadsAssumption`, `FlatAssumption`,
  `BytellAssumption`,
  `NetAssumption`, `TablesAssumption`: types of the constants; bytes of the
  requests are bytes, and the sizes of `WireReads` have no more digits than the
  window is wide.
* `PowersAssumption`, `PowersKnown`, `TensAssumption`: a number lies between two
  powers of 2; powers of 10 are products.  They are true of all numbers, but the
  provers know nothing of exponents.
* `WholeRequests`, of `EpollServer` and of `FsesSystem`: hypotheses of the
  theorems named, on what clients send.  They describe the runs `epoll_whole` and
  `pool_whole`; where they do not hold the statements are false, as the torn
  runs' properties say.

### Only model-checked

* liveness: `Released`, `Returns`, `ReadsEnd`, `AnsweredUnlessSilenced`,
  `EarlyReported`;
* `Log2IsExact` for the 64 words of one bit and `SizesFit` of `HashPolicy`: they
  rest on the entries of a table and of two lists, which TLC looks up one by one.

## Roadmap

1. `next_size_over` for every request up to the last prime, once a prover can
   take the list entry by entry; now the neighbours of each prime are checked.
2. Liveness of the growth, `Returns`: it needs a bound on the growths of one
   call, and prover support for fairness.
3. The two hazards that no property is about: an argument of `emplace` that
   refers into the table, and a range erase of no element (see below).

## Not modelled

Of the two hash maps: exceptions thrown by hashes and comparisons, arguments
that refer into the table they are inserted to, which `emplace` would read after
`grow` has freed them (`bytell_hash_map.hpp:870`), the empty range above, and a
growth that fails after `flat_hash_map` has given up a displacement (line 861):
the element in hand is in the slot of the new one by then.  `FlatMap` is
therefore only partly modelled.

The cache that `main.cpp` declares is never used.  `networking::connect` is
never called, nor are `process_get` and `get_peers` of `main.rs`.  The drivers
`benchmark.py` and `loop_client.sh` only call the clients.  `evpp/` is an empty
submodule.
