# TLA+ models and proofs of M-JIAJIA

M-JIAJIA is a software distributed shared memory: a library with which the
processes of one program, one per host, share pages of memory.  Each page has a
home; other hosts cache copies, which are brought up to date by *scope
consistency*: what a host writes inside a critical section is visible to the
next host that enters a section of the same lock, and what was written before a
barrier is visible after it.

This directory models the library's protocols and the data structures under
them, model-checks small instances with TLC and proves some invariants for
every instance with TLAPS.  Paths below are relative to `src/src` unless they
start with `src/`.

## 1. The system

A host runs four threads.

* The **application thread** runs the program and the library calls.  Calls that
  need another host set a flag (`acqwait`, `barrwait`, `getpwait`, `diffwait`,
  `waitwait`, `cvwait`, `loadwait`, `waitstat`), put a message in the out queue
  and spin until the flag is cleared.  Page faults (SIGSEGV) run in this thread.
* The **server thread** (`udp/udp_server.c`) takes one message after the other
  from the in queue and runs its handler (`msg_handle`, `msg/msg.c`); handlers
  change the protocol state, put answers in the out queue and clear flags.
* The **client thread** (`udp/udp_client.c`) takes one message after the other
  from the out queue and resends it until it is acknowledged.
* The **listen thread** (`udp/udp_listen.c`) acknowledges datagrams and puts the
  expected ones in the in queue.

With `comm_type = rdma` the three communication threads are those of `rdma/*`:
the client posts a send and waits for its completion, the listen thread takes
completions of receives, the server thread scans a ring per peer.

### Components

| component | state | operations | interacts with |
|---|---|---|---|
| locks, barriers: caller (`syn/synuser.c`, `syn/syn.c`) | `lockstack`, flags, `myscope` | `jia_lock`, `jia_unlock`, `jia_barrier` (`endinterval`, `acquire`, `startinterval`, `sendwtnts`) | manager by ACQ, REL, WTNT, BARR; memory |
| locks, barriers: manager (`syn/synserver.c`, `syn/syn.c`) | `locks[]`: acquirers, scope, notices; `noclearlocks` | `acqserver`, `relserver`, `wtntserver`, `barrserver`, `acqgrantserver`, `barrgrantserver`, `invserver` | callers by ACQGRANT, INVLD, BARRGRANT |
| shared pages (`mem/memsyn.c`, `mem/memserver.c`) | `cache[]`, `home[]`, `page[]`, twins, page protections | fault handler, `getpage`, `encodediff`, `senddiffs`, `getpserver`, `diffserver`, `diffgrantserver`, `getpgrantserver` | home by GETP, DIFF |
| page cache (`mem/memsyn.c`) | `cache[]`, `cachei` | `findposition`, `replacei`, `flushpage` | fault handler |
| allocation (`mem/memuser.c`) | `page[]`, `home[]`, `homesize`, `globaladdr` | `jia_alloc*` | none: every host computes alone |
| jia_wait, condition variables | `waitcounter`, `condvars[]` | `jia_wait`, `jia_setcv`, `jia_resetcv`, `jia_waitcv`, handlers | manager |
| load balancing (`load/load.c`) | `loadstat[]`, `loadcnt` | `jia_loadbalance`, handlers | master |
| statistics, exit (`stat/stat.c`, `exit/exit.c`) | `allstats[]`, `statcnt` | `jia_exit`, handlers | master |
| message slots (`msg/msg.c`) | slot states, semaphore | `freemsg_lock`, `freemsg_unlock` | all threads |
| message queues (`comm/comm.c`) | ring, two semaphores, mutexes | `enqueue`, `dequeue` | all threads |
| UDP link (`udp/*`) | `snd_seq`, `rcv_seq`, sockets | `client_thread`, `outsend`, `listen_thread` | network |
| broadcast tree (`msg/msgserver.c`) | root and level in the message | `bsendmsg`, `bcastserver` | queues |
| message passing (`msg/msguser.c`) | `msgbuf[]` | `jia_send`, `jia_recv`, `jia_bcast`, `jia_reduce`, `msgrecvserver` | queues |
| home migration (`syn/mig.c`) | `home[]`, `page[]`, `cache[]` | `migpage`, `migarrangehome`, `migcheckcache` | barrier, allocation, getpserver |
| RDMA connections (`rdma/rdma_comm.c`) | `connect_array[].id`, `completion_num`, retries | `sync_server_thread`, `sync_client_thread`, `sync_connection`, `init_rdma_resource` | rdma_cm |
| RDMA link (`rdma/*`) | a ring per peer with `head`, `tail`, `post`, `busy_value`, `free_value` | client, listen and server thread, `check_flags` | adapter |
| startup, settings (`init/init.c`, `setting/setting.c`, `udp/udp_comm.c`) | `system_setting`, `start_port`, sockets | `init_setting`, `jiacreat`, `init_udp_comm` | ssh, scp, the other machines |
| tools, printing | - | - | operating system |

### What is hard

* Two threads of a host work on the same pages without locks; the protocol
  depends on who is waiting for whom (`diffserver` against the application).
* Notices, grants and releases of one lock and of barriers travel by different
  paths; a host may be one barrier ahead of a manager.
* A list of notices may need several messages.
* Messages are lost, delayed and repeated by the link; the link gives up.
* Slots, queue places, cache places and `msgbuf` places are few.
* Some state is replicated by computing it on every host (page table, powers),
  and after a barrier each host moves the homes of pages for itself.
* The calls of message passing and the server thread share `msgbuf` without a lock.
* Connections are set up by threads that retry against peers that start late.
* Nobody checks that the other hosts have come up, with the same files.

`hazards` in `PROJECT.json` lists these at their lines, with the properties that
watch over them, or with a note why none does.  What makes each component correct is stated by its
properties, section 3.

## 2. Modules

| module | models | composed with |
|---|---|---|
| `Dsm` | locks, barriers, faults, diffs, all their handlers, on all hosts | rests on `Wire` for `Transfer` |
| `DsmProofs` | proofs: type correctness of `Dsm`, locks exclude, manager's queues, barriers separate | extends `Dsm` |
| `Rendezvous`, `RendezvousProofs` | `jia_wait`, condition variables, load balancing, the end of `jia_exit` | - |
| `PageCache`, `PoolProofs` | replacement of cached pages | refines the unlimited cache assumed by `Dsm` (argued, not checked) |
| `Alloc` | `jia_alloc*` on every host | extended by `Migration`; provides `HomeOf` of `Dsm` |
| `Migration` | phases between barriers, faults, notices, grants and the moving of homes | extends `Alloc` |
| `MigrationProofs` | proof: the blocks of `Alloc` are where the reference placement has them | extends `Migration` |
| `MsgBuffer`, `PoolProofs` | pool of message slots | - |
| `MsgQueue`, `PoolProofs` | ring of messages with its semaphores | implements `BoundedFifo` (proved) |
| `BoundedFifo` | abstract: bounded queue whose consumer reads in place | - |
| `UdpLink`, `UdpLinkProofs` | client thread, listen threads, lossy network | implements `Wire` (proved) |
| `Wire` | abstract: every message arrives once and in order | - |
| `Bcast` | broadcast tree over the queues | extended by `Mailbox` |
| `Mailbox` | `msgbuf` of every host, `jia_recv` against the server thread | extends `Bcast` |
| `MsgPass`, `MsgPassProofs` | `jia_send`, `jia_recv`, `jia_bcast`, `jia_reduce` of all hosts; proofs about these, the tree and `msgbuf` | extends `Mailbox` |
| `RdmaConnect` | setting up the connections, with lost requests and retries | extended by `Rdma` |
| `Rdma`, `RdmaProofs` | the three communication threads over posted receives and completions; proofs about these and the connections | extends `RdmaConnect` |
| `Startup`, `StartupProofs` | settings, copying of files, starting of slaves, binding of sockets | - |

`MC*` modules hold the constants of the runs.

### How state and actions correspond to the code

**Dsm.**  `prog[h]` are the calls the application on host h still makes: lock,
unlock, barrier, and reads and writes of words, each of which may fault.  `pc[h]`
says where in a call it waits.  Contents are abstracted to version numbers of
words (`store`, `twin`, `latest`); a diff carries the words that differ from the
twin.  A waiting call is split at its busy-wait loops and nowhere else:
`EndInterval` (diffs to the homes), `Acquire`, `Acquired` for `jia_lock`;
`Release`; `BarrierArrive`, `BarrierLeave`.  `SegvHome`, `SegvFetch`,
`SegvFetched`, `SegvUpgrade` are the paths of `sigsegv_handler`.  Each `...Server`
action is one handler, except `diffserver`, which is split at its two calls of
`mprotect` (`DiffServerOpen`, `DiffServerPatch`) because the application thread
can write the page between them.  `sigsegv_handler` takes every access to an
invalidated page for a write (it tests the page's presence, not the access), so
a reader sends an empty diff; the model keeps this.  Scopes are compared as
unsigned numbers where the code does (`UnsignedGreater`).

**Rendezvous.**  `flag[h]` are the flags spun on, `outq`/`inq` as in `Dsm`.
Measured times, powers and statistics are the number of the call they were
measured in: enough to see whether hosts use values of the same round.
`ExitTimeout` is the five-second timeout of `jia_exit`; it assumes that the out
queue has been sent by then.  An ended process receives nothing.

**PageCache.**  `findposition` starts its scan at a random place (`REPSCHEME` 0,
`Setnum` 1), so it may choose any place of the best kind there is.  `status`
becomes `failed` where the code returns -1.  `SyncCall` is what a lock or
barrier call does to the cached pages as a whole.

**Alloc.**  One step is one iteration of the allocation loop.  `jia_alloc3` is
`jia_alloc4` with one block size; `jia_alloc2` and `jia_alloc2p` are the calls
of `jia_alloc3` they make.  `draws` counts the numbers taken from the C
library's generator, which `rand` and `random` share.  `AllocCall` says which calls
there are: sizes are positive, because a block of size 0 never brings the loop of
`jia_alloc3` nearer to its end, and `jia_alloc_array` has at most one size per host,
which it asserts.

**MsgBuffer.**  One step is one `sem_wait`, one compare-and-swap, one store or
one `sem_post`.  The compare-and-swap is taken as strong: the weak form the code
uses may fail spuriously on some processors, not on x86.

**MsgQueue.**  One step is one semaphore operation or one locked section of
`enqueue`/`dequeue`; copying a message is two steps, with a torn message in
between.  The consumer handles the message in the ring and posts afterwards.

**UdpLink.**  One sender, its peers and itself.  `net` and `acknet` count copies
under way, which may be lost or arrive in any order; receive buffers hold
`MaxBuf` datagrams; an edge-triggered socket reports an edge once and the listen
thread reads one datagram per edge.

**Migration.**  Programs are lists of allocation calls and phases; a phase gives
each host accesses (read, write, or `s`, the release of a lock, which sends the
diffs and keeps the notices for the barrier).  Contents of a copy are the set of
writes `<<host, phase>>` it has.  `Hit`, `FaultLocal`, `FaultRemote` are the paths of
an access; a fetch is two steps, `FaultRemote` at the sender and `getpserver` at the
home, whose answer the sender waits for.  `barrgrantserver` runs `invalidate`, `migpage` for each notice
and `migarrangehome` in one step as the server thread does; `Leave` is the return
from `jia_barrier`, with `WVec` only when all have handled the grant (the `jia_wait`
behind the barrier).  A fetch from a host that cannot answer makes `pc` "crashed",
the assertion "Home exceed" makes `Stopped` true.

**Bcast.**  Messages carry root and level; `op - BCAST` is the field `bcast`.

**Mailbox.**  Both threads look at one place of `msgbuf` per step.  `StartStore` and
`SearchPlace` are `msgrecvserver` up to the assignment of `op` that makes a place
visible, `FillPlace` the rest of it.  `ScanPlace` is one iteration of `nextpacket`;
each field it reads of a place that is being filled is the old or the new one
(`Versions`).  `TakePlace` and `CopyPlace` are an iteration of `nextmsg` before and
after it frees the place.  `TakeNothing` is its last one, which has no place: it
writes ERRMSG (`ErrmsgCode`, 16 in the code) behind the array, where `msgseqno` is
declared next (`msg/msg.c:40`), so that the next packets are numbered from there;
as the order of variables in memory is the compiler's, the step may also leave
`msgseqno` alone.  It then copies what lies there, any number of bytes up to the
length asked for.  `arrivals` and the field `arrival` of a place are history
variables: the packets stored, and how many were when `msgseqno` was last written
over.

**MsgPass.**  One packet, one level of a reduction, one iteration of `nextmsg` is a
step.  A reduced value is the number of times each host's operand is in it, the
reductions it comes from, and whether something else than the packets taken went
into it: `jia_recv` is `Tainted` when it read a place that was freed and filled
again, marked and not yet filled, or behind the array, or when it took a packet
for which its buffer had no room.
`got[h][r]` is a history variable, the numbers of root r's broadcast packets in
the order in which host h's server thread handed them to `msgrecvserver`.
`Tags` are the tags given to `jia_send`; `BCAST_TAG` is not among them
(`MsgPassAssumption`): nothing in the code keeps it from a program, but with it
a packet would pass for one of `jia_bcast`.

**RdmaConnect.**  One step per event of the connection manager and per thread:
`cli[c]` is where `sync_client_thread` of a pair stands, `srv[h]` where
`sync_server_thread` does.  The manager is external: requests reach a listening
port, one that is lost is answered by UNREACHABLE, destroying the event channel
disconnects.  `id[h][g]` is the attempt whose id `connect_array` holds.

**Rdma.**  `Client`/`Nic` are `post_send` with its wait for the completion,
`GetEvent`/`PollOne` are `post_recv` of the listen thread (one event, notification
again, one completion), `Handle` and `PostRecv` the scan of the server thread.  The
ring's indices and counters are those of the code except `post_value` and
`rcv_seq`, which only the log reads.

**Startup.**  `procs` are the processes in the order they are started, `pc` where
one stands in `jia_init`; `disk` what lies in the home directory of each machine.
One step is one command or one function.  A command may fail; what it has copied
by then stays.  An option of `.jiaconf` is the link it chooses, or unknown.

## 3. Runs: what each checks and shows

All runs are exhaustive over their bounds.  Each property of a passing run has a
mutant in `PROJECT.json`: an operator `...` of the same module with a plausible
slip, under which TLC finds the property violated.

| run | instance | properties |
|---|---|---|
| `dsm` | 3 hosts, 2 locks managed by different hosts, 3 pages, one notice per message; 130 programs of four families (below) | `TypeOK`, `MutualExclusion`, `ManagerQueues`, `ScopeConsistency`, `BarrierConsistency`, `BarrierSeparation`, `Termination` |
| `homes` | 3 hosts, 5 home pages and 2 cache places each; all pairs of 8 allocation calls, of one with a random or array call before, and 8 programs with two or three phases | `PlacementUntilBarrier`, `HomesArranged`, `HomesAgreePerBarrier`, `ReadsLatest`, `MovesToLatestCopy`, `GetpAtHome` |
| `rendezvous` | 3 hosts, 2 condition variables, load balancing twice, `jia_exit` | `WaitSeparation`, `LoadAgreement`, `GrantsAwaited`, `MasterEndsLast`, `AllEnd` |
| `msgpass` | 3 hosts, 2 places, ERRMSG 1: broadcasts from host 2, up to three reductions in a row to host 1, messages of two senders by tag and by sender, one that waits while `msgseqno` is written over | `BcastInOrder`, `BcastReachesAll`, `UnreadKept`, `WaitingNotOvertaken`, `ReduceExact` |
| `pagecache` | 4 pages, 3 places | `CacheIndexed`, `DirtyKept` |
| `slots` | 3 threads, 3 slots | `NeverNull`, `Exclusive` |
| `queue` | 3 producers, ring of 2 | `NoOverwrite`, refinement `FifoSpec` |
| `link` | 4 messages to two peers and to the host itself, 2 tries, buffers of 2 | `SuccessMeansDelivered`, refinement `WireSpec`, `QueueDrains` |
| `rdma` | 3 hosts, 2 retries, rings of 2: connecting with one loss and then a message, connecting with one failure, 3 messages to one host, 2 of a host to itself | `IdsAgree`, `EndsConnected`, `RdmaInOrder`, `RecvSlotsSafe`, `AllDelivered` |
| `startup` | 3 machines, 14 deployments, up to 2 failing commands | `Connected`, `StartedComplete`, `AllUp` |

The programs of `dsm`: two hosts run two critical sections each, one of them
nested (`LockPrograms`); race-free phases around two barriers, in which hosts
write their own words or a locked one (`BarrierPrograms`); three hosts on one
page, with a contended lock or two words written under two locks by hosts that
are not its home (`SharingPrograms`); two pages written in one section, so that
every list of notices is cut (`SplitPrograms`).

### Why the bounds are enough to be interesting

* Two hosts show every pair of roles (manager and not, home and not); three add
  a third party between writer and reader, needed for multiple writers and for a
  host that is neither home nor manager.  Three is the bound where the
  run stays in minutes (300 000 states).
* One notice per message (`MaxNotices` 1) makes every list longer than one be
  cut; the code cuts after some hundred.  The code never splits one `wtnt_t`
  node between messages, the model cuts by notices: more ways to cut.
* A ring of two is full and empty within a few steps; the consumer holds one.
* The link retries twice where `RETRYNUM` is 50: one resend is enough for a
  duplicate, the second try failing for giving up.  `MaxBuf` 2: `SO_RCVBUF` is
  set to about one message, the kernel doubles it.
* Three hosts are the least number whose broadcast tree is cut off, the root is
  not host 0, so that positions wrap around.  In a buffer of two places a packet can
  be stored behind a scan and the next one ahead of it, and either thread can find
  the other at its place; it overflows (`local_assert`) with the third packet.  An
  ERRMSG of 1 sends `msgseqno` back below the number of a packet that waits.
* In `homes` five entries of `home[]` and two cache places make pages move into
  entries that become free, a `home[]` become full and copies be replaced between
  a write and the barrier.  Two phases move a page away and back.
* A ring of two receives with three messages makes the sender wait for a posted
  receive; two retries, one loss and one failure give a retry that succeeds and one
  that is given up.  The loss is followed by one message, of which `AllDelivered`
  asks that it is handled over the connection that was tried again.  Failures and
  longer sequences of messages are scenarios of their own: together they have
  millions of states and no thread of one touches the state of the other.
* Two failing commands are a failed copy and one more; three machines are a
  master and two slaves, one of them before the other in every loop.
* `Pagesize` 4 is, like the real 4096, 1 modulo 3: `jia_alloc_array` picks the
  same wrong element.

### Disagreements found

Two runs end in a violation, each of what a comment or the README says.
`findings` in `PROJECT.json` quotes them.

* `early` - a host that has left a barrier writes under a lock; its REL reaches a
  manager that has not handled its own BARRGRANT.  `noclearlocks` is set only
  when the request's scope of the *lock* exceeds the manager's scope of the
  *barrier* (`syn/synserver.c:323`), so the new notice is cleared with the old.
* `window` - between the `mprotect` calls of `diffserver` a write of the
  application thread at the home does not fault and is never noticed.  Since
  readers send empty diffs too, even a page shared with a reader only is exposed.

The programs of `dsm` are the largest we found that stay clear of `early` and
`window`: in them no host writes under a lock whose manager may lag behind at a
barrier, and no home writes a page while another host's diff to it may be under
way.  The consistency invariants hold there with all interleavings of threads
and messages.

Further disagreements that the models reproduce, without a run of their own; the
properties of the passing runs are stated around them:

* after `RETRYNUM` failures `snd_seq` advances although `rcv_seq` of the peer does
  not; the peer acknowledges and drops everything from then on
  (`udp/udp_client.c:66`).  `WireSpec` puts up with the loss, `SuccessMeansDelivered`
  is about earlier messages.
* `jia_alloc_random` shares its generator with page replacement, so hosts may
  disagree on the home of what it allocates (`mem/memuser.c:201`).
  `HomesAgreePerBarrier` is checked with one such call.
* the last block of `jia_alloc3` is not cut to the total (`mem/memuser.c:99`);
  `CyclicPlacement`, the part of `PlacementUntilBarrier` about blocks, says where the
  allocation really ends.
* `jia_alloc_array` goes on with the wrong element and never sets `home[].addr`
  and `homei` (`mem/memuser.c:242`).  `HomesArranged` and `CyclicPlacement` leave it
  out.
* `jia_recv` never waits, misses the end of the message and reads behind `msgbuf`
  (`msg/msg.c:231`).  It goes on taking packets after its buffer is full and so
  swallows messages that follow from the same sender with the same tag: with three
  reductions in a row a host may take the first packet and swallow the second, then
  find the third in its second reduction, whose result is a sum of two rounds that
  passes the assertion on the length.  `ReduceExact` is about the values whose
  receives were not `Tainted` in this way or by a race.
* at the end of nearly every `jia_recv` there is no packet left and `i` is
  `Maxmsgbufs`: `msg/msg.c:231` then writes ERRMSG behind `msgbuf`.  In the
  repository's build, without optimisation, `msgseqno` lies there and goes back to
  16.  Packets that come later are then numbered below unread ones and overtake
  them, although the comment at `msg/msg.c:197` speaks of a strong sequence.
* `nextpacket` is not atomic: a place that it has passed may get the next packet and
  one ahead of it the packet after that, which it then takes first.  And it reads
  places that are being filled, with the number of the packet before.  What is left
  of the order is `WaitingNotOvertaken`: a packet that was stored before the scan
  began, and numbered after `msgseqno` was last written over, is not overtaken by one
  stored later, unless the scan chose a place while it was being filled.
* `findposition` returns -1 for a dirty page, although its comment says the page is
  saved and flushed; the fault handler uses the result as an index
  (`mem/memsyn.c:236`).  `PageCache` ends there (`status` "failed").
* `migcheckcache` tags the notices of pages whose copy is valid at the writer, so
  that a page moves only to where it is, but `recordwtnts` passes on the address
  instead of the tag (`syn/syn.c:592`).  What `MovesToLatestCopy` says then rests on
  the diffs having been sent.
* with a full `home[]`, `migarrangehome` leaves `homesize` one page short
  (`syn/mig.c:107`) and writes to the last page are not noticed: `ReadsLatest`
  and `MovesToLatestCopy` ask for room (`Roomy`).
* a host that has left the barrier may ask a new home for a page before that host
  has handled its grant.  The comment at `mem/memserver.c:223` says that "the page
  has already been here", but this branch sets no address and the answer copies the
  page from address 0 (`pc` "crashed").
  The `jia_wait` of write vectors closes the gap: `homes` runs with `WVec` TRUE;
  with FALSE `GetpAtHome` is violated.
* an RDMA client that has used up its retries ends silently, and
  `init_rdma_resource` then uses an id that was never set (phase "crashed" of
  `RdmaConnect`).  Errors of address resolution are ignored: that host waits for
  ever, and so do its peers.
* `copyfiles` looks at the result of the second scp only (`init/init.c:184`), and
  `jia_init` does not look at that of `init_setting` (`init/init.c:72`).  A slave
  with an old list may take another id; without its address in the list it has id
  0, acts as the master and overwrites the list of another host before it ends at the
  copying of the program, which its working directory does not have.  With an old
  list of itself alone it runs on as a program of one host.
* arguments of the program come before the program in the ssh command
  (`init/init.c:263`), although the comment says they are for the remote host: with
  arguments no slave starts.  A program started at another host of the list
  has no master; started at a machine that is not in the list, its process takes
  itself for host 0, and host 0 of the list is never started.
* the RDMA client thread copies a message to the own host into the ring without
  waiting for room (`rdma/rdma_client.c:48`), so more of them than the ring holds can
  overwrite unread ones.  For a host's messages to itself `RdmaInOrder` is therefore
  about at most as many as the ring has slots; for all others it has no such proviso.
* an unknown option in `.jiaconf` makes the last ones be skipped
  (`setting/setting.c:133`).

### Fairness

* `Dsm`, `Rendezvous`, `MsgPass`: weak fairness of each thread of each host: the
  threads are preemptively scheduled and loop for ever.  `Transfer` is weakly
  fair because the client thread resends; this assumes that no message is given
  up (`UdpLink` shows what happens otherwise).  No fairness for `ExitTimeout`.
* `Rdma`: weak fairness of the threads, of the server thread for each ring it
  scans, and of the adapter and the connection manager, which are reliable; none of
  losses and failures, nor of an event for completions that were already there.
  `AllDelivered` says that all hosts become ready and all messages are handled; it
  exempts the start-ups in which a failure is not retried or the retries are used up
  (`Broken`) and the runs in which a completion waits for such an event for ever
  (`MissedEvent`).
* `Startup`: weak fairness of each process: `system` returns.
* `Migration`, `PageCache`, `MsgBuffer`, `MsgQueue`: none, safety only.
* `UdpLink`: weak fairness of the client thread only, whose `epoll_wait` returns
  or times out.  Nothing of the network or the peers: `QueueDrains` holds even
  if every datagram is lost.

### Abstraction between modules

`Dsm` and `Rendezvous` transfer a message in one step, in order, exactly once:
`Wire`, which `UdpLink` implements (`LinkImplementsWire`), while nothing is given up.  The listen thread
acknowledges a datagram before it enqueues it, so a message counts as arrived
(`Reached`) from the acknowledgement on; since one listen thread serves all
peers of a host in turn, nothing that depends on the acknowledgement can be
enqueued before it.  Queues are unbounded in `Dsm`; see section 5.

## 4. Proofs

Checked by TLAPS for every value of the constants that satisfies the assumptions
the modules name (`HostAssumption`, `LockAssumption`, `MemoryAssumption`,
`ProgramAssumption` of `Dsm`; `CacheAssumption`; `QueueAssumption` of `MsgQueue`:
the size is a power of two, as `init_msg_queue` asks for; `LinkAssumption`;
`ConnectAssumption`, `QueueAssumption`, `ScenarioAssumption` of `Rdma`: the batch
divides the ring; `RendezvousAssumption`: at least two hosts; those of `MsgBuffer`;
`BcastAssumption`, `MailboxAssumption` and `MsgPassAssumption`; `ScenarioAssumption`
of `Startup`: the addresses of the lists lead to machines; `AllocAssumption`: the page
table has an entry for every home page, and `MigrationAssumption`: programs consist of
the calls of `AllocCall` and of phases).  None bounds the number
of hosts, threads, messages, pages, losses or retries.  Every inductive invariant was first
checked by TLC on the instance of the run (that of `MigrationProofs` with `Offset` for
`Begins`, which TLC cannot enumerate).

**Dsm.**

* `DsmProofs!TypeCorrectness`: `Spec => []TypeOK`.  `TypeOK` is not inductive:
  `SendWtnts` reads the top of the lock stack, which exists only because unlocks
  are paired with locks, and the second half of `diffserver` relies on the DIFF
  still being at the head of the in queue.  `IInv` adds `Pairing` and
  `Patching`.  There is one lemma per action; the lemmas before them say what
  kind of values the operators return (chunks of notices, grants, message lists).
* `DsmProofs!LocksExclude` and `QueuesOfManagers`: `MutualExclusion` speaks
  of holders only, while the reason for it is spread over the manager's queue,
  the flags and the messages under way.  `LockInv` places the token of each lock
  (`Token`): it is with the host at the head of `acqs`, as an ACQGRANT under way,
  a grant received, the lock held or a REL under way back, and in exactly one of
  these forms.  That `acqserver` may queue a host at all needs that its REL has
  been served first: `Order` says which messages may be ahead of which (no two
  ACQs, a REL before an ACQ), `Routing` where they go.  `Nesting` says that a
  lock is at most once on the lock stack; an application that asks for a lock it
  holds stops in `jia_lock`'s assertion.
* `DsmProofs!BarriersSeparate`: `BarrInv` says that `acqc` is the number of
  hosts that wait in `jia_barrier`, whose BARR has been served and to which no
  BARRGRANT is under way (`Counted`).  When `barrserver` has counted all, the set
  of these hosts has as many members as there are hosts, so it is all of them
  (`FiniteSetTheorems`), and every host is sent exactly one BARRGRANT
  (`BarrGrantsSendable`, about the quotients and remainders that enumerate hosts
  and pieces of the list).  `Even` then says that all hosts have equally many
  barriers still to be granted.  The theorem has the hypothesis that the programs
  have equally many barrier calls: without it a program waits for ever.

**Message slots and queues.**

* `PoolProofs!LockNeverNull` and `SlotExclusion`: the semaphore counts what
  it should only if free slots, threads that hold a permit and threads between
  store and post are counted together; and a scanning thread needs that, of the
  slots it has not passed, at least as many are free as threads may still claim
  one of them ahead of it.  This counting invariant is inductive; `NeverNull` is
  not.  The lemmas use the cardinality theorems of `FiniteSetTheorems`.
* `PoolProofs!SlotsNeverOverwritten`: the two semaphores, the slots filled and
  the threads between a semaphore and the ring always add up to the size; so a
  producer that has passed `free_count` finds a slot that is neither full nor being
  handled.  `QueueIsFifo`: the ring with its mutexes and semaphores implements
  `BoundedFifo`; the abstract queue is what the slots hold from `head` on, a step
  that copies whole is a step of it and all others stutter.
* `PoolProofs!IndexAgrees` and `ReplacementKeepsWrites`: the invariant is
  `CacheIndexed /\ DirtyKept` with the types and the fact that an empty place
  remembers no page; each part needs the others.

**Shared memory.**

* `MigrationProofs!BlocksPlaced`: the loop of an allocation call goes round hosts,
  block sizes and addresses at different speeds, with nothing but `homepid`, `blocki`
  and `globaladdr` to say where it is.  `Reached` says that after n blocks these three
  are those of block n of the reference placement: `NextQuotient` takes host and block
  size to n + 1, `Enough` says that the aligned size is used up exactly when the size
  is, so that the last block is the first that reaches it.  `BlockPages` says which
  pages a block has; they begin at `globaladdr`, so pages placed before are left as
  they are (`DonePasses`), by later calls as well.  Between the allocations the
  application may access pages and enter a barrier; only a handled grant moves a page
  (`GrantOk`), and from then on the theorem says nothing.  The addresses are the
  recursive function `Offset`; that it adds up the sizes of the blocks is
  `OffsetBegins`, by the least number for which it would not.  `jia_alloc_array` is
  part of the programs but not of the claim.

**Links.**

* `UdpLinkProofs!SuccessIsDelivery`: the acknowledgement that ends `outsend` may be
  of an earlier copy, but only of the same message, because the numbers of a
  destination do not repeat (`Numbering`).  Whoever sent it enqueued the datagram,
  holds it, or dropped it as seen or as early; early only after something was given
  up.  `DeliveryInOrder`: a peer takes messages over in the order of sending, none
  twice.
* `UdpLinkProofs!LinkImplementsWire`: `Spec => WireSpec`.  A message counts as arrived
  when the listen thread has acknowledged it (`Reached`); what the client is done with
  and has not arrived is overdue.  The listen thread acknowledges only the datagram
  with the next number, and by `Numbering` and `Delivery` all earlier messages to its
  host have then arrived (`ExpectedNext`): so it is either the current message with
  nothing overdue, a `Transfer`, or the first overdue one, a `Late`.  The client's
  step to the next message is an `Abandon` if the message has not arrived and a
  stutter if it has.  The overdue messages of a host are a set in the link and a list
  in `Wire`: that each set of messages has one ordered list, and what adding a last
  and removing a first message does to it, are the lemmas `ListExists` (from a least
  counterexample, by `WellFoundedInduction`), `ListUnique`, `ListedAppend`,
  `ListedTail`.  `LinkInv` alone does not say what a host has sent itself; `ToSelf`
  adds it.
* `RdmaProofs!ConnectedEndsAgree` and `ServersWaitForAll`: requests reach a server
  in the order of the attempts, and the count of ESTABLISHED events never runs ahead
  of the clients that are up.
* `RdmaProofs!MessagesInOrder` and `SlotsSafe`: from `head` on a ring holds the
  messages to handle, those to poll, the posted receives and the free slots, in this
  order, with the counters of the code as their lengths; the numbers of the messages
  follow from the positions.  The hard steps are those of indices modulo the ring.

**Rendezvous.**  `RInv` follows each call from its request to its answer: the
request is under way (`Asked`), or the manager has counted or queued the host, or
the answer is under way (`Granted`), or the flag has been cleared, and never two of
these (`Turns`).  That a host has at most one request and one answer of a kind under
way (`NoTwins`) is part of it, and so is what a message says (`Contents`): it was
true when the message was sent and must still be when it arrives.

* `WaitsSeparate`: `waitcounter` is the number of hosts in `Counted("wait")`, so the
  request that completes it finds all other hosts waiting, and the calls still to be
  granted drop by one for all hosts together (`Even`).  As for barriers, the
  hypothesis `EqualWaits` says that the programs call `jia_wait` equally often.
* `LoadsAgree`: the hosts that are counted in a round have been through the same
  number of rounds (`Rounds`), so the times are those of one round; a host that the
  answer has not reached yet is still in `jia_loadbalance`.
* `AnswersAwaited`: from `Turns`; the exception is a host that left `jia_exit` by its
  timeout, and it has ended.
* `MasterLeavesLast`: `Reported` are the hosts whose STAT the master has served;
  `MasterLast` says that in the master's out queue its own STATGRANT is behind those
  to the other hosts, so when it has been handled they have been delivered.

**Startup.**  `StartInv` says what the user's process and the others have done so
far; it is proved once for a step of the user's process and once for one of a slave
(`UserMoves`, `SlaveMoves`), of which each action is a case.

* `ProgramEverywhere`: the user's process comes to `startprocs` only when the copies
  up to its loop variable are all of them (`Given`).  A slave with id 0 acts as the
  master too, but it has no program to copy where it runs (`Slave`): its first copy
  ends it, and if its list is so short that there is none, it has nobody to start.
* `HostsConnected`: if the list is right, the place at which a process was started is
  the id it takes (`Placed`), so ids differ; the port is the one the user's process
  has drawn, since only a process with another id than 0 takes it from `-P`.  The
  attempt showed that `Connected` is false for a list that does not name the machine
  of the user: its process takes itself for host 0, and nobody is where the others
  expect host 0.  The property now says so, and the run has such a deployment.

**Message passing.**  `MsgPassProofs!Inv` has the types, the calls that waiting
hosts are in, and `TreeInv` about the packets of `jia_bcast` under way.

* `BroadcastsInOrder`: the packets a root sends one after the other go through all
  hosts, at each of which they are dequeued, enqueued for others and transferred
  again, and overtake and are overtaken by packets of other roots.  The argument
  follows the packets that are still to reach one host h.  A packet at level l that
  goes to position p stands for the positions from p to p + 2^l - 1 (`Carries`), and
  p is a multiple of 2^l (`Aligned`, `PlacedIn`, `PlacedOut`); so for each level
  there is only one host that packets for h go to, and only one that sends them, and
  they follow each other through the same queues (`QueuedIn`, `QueuedOut`).  Of
  different levels, the lower is the earlier one (`Ranked`).  `Pending` says that
  each number sent and not handled by h is that of a packet under way for h, and that
  no other is.  So what h handles next is the lowest of these.  `ForwardTree` is
  the step of the tree: the one or two packets `bcastserver` sends divide the hosts
  the packet stood for, also when the last subtree is cut off because the number of
  hosts is not a power of two.  That 2^(l + 1) is twice 2^l is `Doubling`, by
  counting the subsets of an interval: `^` is given by a recursive definition, which
  the provers do not expand.
* `UnreadIsKept`: the server thread marks a place it has found free and fills the one
  it has marked, at whatever time the application frees others in between; so only
  a `TakePlace` of the own host changes an unread place, and only the one the scan
  has chosen (`PlaceStep`).
* `WaitingPacketsFirst`: the invariant `MailInv` is about one buffer and its two
  threads.  `Numbered`: of the packets stored since `msgseqno` was last written over,
  later ones have higher numbers, and none a higher one than `msgseqno`; one that is
  being stored will have a number of its own.  The other packets are not spoken of:
  that is all that can be kept when `TakeNothing` sets `msgseqno` to any number.
  `Scanned`: of the places a scan has passed, none holds a packet that was waiting
  when it began with a lower number than `next`, and the place chosen still holds
  the packet with that number, since only this thread frees places and the other
  stores at free ones.  `Counted` ties both to the numbers of arrival.  Each step of
  the two threads keeps the three (`SearchMail`, `FillMail`, `ScanMail`, `TakeMail`,
  `NothingMail`, `FreshMail`); at the end of the scan they give the claim
  (`OldestOfScan`).  The property without its exceptions is false in the code.

Only model-checked:

* liveness (`Termination`, `AllEnd`, `QueueDrains`, `BcastReachesAll`,
  `AllDelivered`, `AllUp`): outside the prover's reach, as is `ENABLED`;
* `ScopeConsistency` and `BarrierConsistency` of `Dsm`: they hold for the programs
  of `dsm` and not for all (`early`, `window`), so a theorem would need the
  condition on programs that keeps clear of these, which is about all
  interleavings;
* `ReduceExact`: it holds when all hosts make the reductions in the same order and
  nobody else receives with `REDUCE_TAG`; a theorem would need these as hypotheses,
  and an invariant of the tree of receives like that of the broadcasts;
* `HomesArranged`, `HomesAgreePerBarrier`, `ReadsLatest`, `GetpAtHome` and
  `MovesToLatestCopy` of `Migration`: the handling of lists of notices is a fold over
  a sort, and what a fold computes for every input needs induction over data, which
  the provers do not do (only, by hand, through a least counterexample, as in
  `ListExists` and `SumsExist`).  They are also not true of every program: two calls
  of `jia_alloc_random` with faults between them let the hosts disagree.

## 5. Not modelled

* Options that are off by default: write vectors (except for the `jia_wait` they put
  behind a barrier), adaptive write detection, prefetching, `REPSCHEME` 1.  Home
  migration together with locks: `Migration` has barriers only.  `B_CAST`, which
  sends the grants of a barrier through the tree of `Bcast`.
* Bounded out and in queues in `Dsm`: with them the client thread's enqueue of a
  message to the own host (`udp/udp_client.c:101`) can wait for the server
  thread that waits for the out queue.
* `savediff`'s change to a new message in the middle of a page
  (`mem/memsyn.c:507`): diffs of one home fit one message.
* `jia_assert` and JIAEXIT: a failed assertion stops the host in the models.
* That `jia_init` initialises the slot pool and `msgbuf` a second time
  (`initmsg`, `init/init.c:115`) when the communication threads already run: a
  packet of a host that is up first can be wiped.  `Startup` ends where the
  threads start.
* Handlers that send, over the RDMA link: whether two hosts that both have full rings
  can wait for each other.  `free_rdma_resources`.
* Slips in code the models abstract from: the loop of `initmem` goes one host too far
  (`mem/mem.c:83`); `jia_assert` sets `topid` of the wrong message, so that the last
  host gets JIAEXIT twice (`tools/tools.c:252`).
* Redirection of output, resource limits, logging and printing, floating-point
  load formulas, the applications.

## 6. Plan

Done: `Dsm`, `MsgBuffer`, `MsgQueue`, `UdpLink`, `Rendezvous`, `PageCache`,
`Alloc` with `Migration`, `Bcast` and `Mailbox` with `MsgPass`, `RdmaConnect` with
`Rdma`, `Startup`; proofs about all of these.  Left, in
order:

1. Proofs: `HomesAgreePerBarrier` for programs with one `jia_alloc_random`;
   `ReduceExact`; `ScopeConsistency` and `BarrierConsistency` for programs
   without data races and without writes in the windows of `early` and `window`.
2. `HostThreads`: the threads of two hosts with bounded queues; is there a cycle
   of waits.
3. `Diff`: `encodediff`, `savediff`, `diffserver` on words and messages of a
   bounded size; a patched page equals the written one where it was written.
4. `WriteDetect`: `wtnt` bits of `startinterval` with adaptive detection; write
   vectors of `getpserver`.
5. `Shutdown`: `jia_assert`, JIAEXIT.
