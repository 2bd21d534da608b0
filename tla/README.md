# Verification of the lightweight thread library

This directory holds TLA+ models of the lightweight thread library (lwt): a
cooperative user-level thread package with channels, a port of it to the
Composite component OS (`scheddev/`), and the Composite scheduler library that
port runs on. TLC model-checks the models on small instances; TLAPS proves every
safety property and every refinement that holds there for instances of any size.

Paths are relative to the repository root. `lwt.c` is the root library, and
`scheddev/lwt.c` the port.

## 1. Inventory

### 1.1 Thread core: `lwt.c`, `lwt.h`, `ps_list.h`

*State.* A descriptor `struct lwt` per thread (state, flag, id, return value,
`joinedfrom`, `joiningto`, stack, saved context), a circular doubly linked list
of descriptors, `current_thread` (a position in that list), the id counter and
three of the counters of `lwt_info`: RUNNABLE, ZOMBIES, BLOCKED.

*Operations.* `lwt_init`, `lwt_create`, `lwt_join`, `lwt_die` (called by the
trampoline when the thread's function returns), `lwt_yield(t)` (directed) and
`lwt_yield(NULL)` (round robin, `__lwt_schedule`), and the readers
`lwt_current`, `lwt_id`, `lwt_info`.

*Hard.* Only one kernel thread runs, so nothing is preempted; what is hard is
the order in which cooperative threads come to their calls: a child may end
before or after its parent joins it, threads join in nested chains, a
`LWT_NOJOIN` thread removes itself while it runs, the scan for the next
RUNNABLE thread has no exit of its own, descriptors come from an allocator that
does not clear them, and the counters are stepped in many places.

*Correct means.* Every join returns, once, the value of its own child; memory
is given back only after the child's end; the scan always finds a thread; the
ring holds exactly the threads that can run or be joined; the counters account
for every thread (they do not count what they are named for, section 4).

### 1.2 Ring buffer: `rbuf.c`, `scheddev/rbuf.c`

*State.* `buf`, `head`, `tail`, `capacity` (one slot more than asked for; a
request for 0, "infinite", makes 1024). *Operations.* `rbuf_init`, `rbuf_free`,
`rbuf_write`, `rbuf_read`, `rbuf_isempty`, `rbuf_isfull`, `rbuf_size`,
`rbuf_erase`. The root version is called between context switches and is
sequential; the port's version runs on kernel threads that are preempted, and
advances `head` and `tail` with compare-and-swap.

*Hard.* The port stores into the slot before it wins the compare-and-swap, and
reads `head`, the slot and the emptiness test at three different moments.
*Correct means.* A bounded FIFO: nothing lost, duplicated or reordered.

### 1.3 Channels and groups: `channel.c`, `scheddev/channel.c`

*State.* Per channel: the receiver, a ring buffer of boxed messages, `snd_cnt`,
the group and a mark; per group: a tail queue of channels and their count; the
counters NSNDING, NRCVING, NCHAN. *Operations.* `lwt_chan`, `lwt_chan_deref`,
`lwt_snd`, `lwt_rcv` and their channel-passing forms, `lwt_create_chan`,
`lwt_cgrp`, `lwt_cgrp_free`, `lwt_cgrp_add`, `lwt_cgrp_rem`, `lwt_cgrp_wait`,
marks.

*Hard.* A full or empty buffer is waited for by yielding in a loop, so the
state tested before a yield is used after it by whoever comes first; the
reference count decides when the channel's memory goes back to the allocator;
a channel belongs to a group through two links (`cgrp` and the list).
*Correct means.* FIFO delivery, no use of a channel after it was freed, group
membership consistent on both sides.

### 1.4 Allocator: `kalloc.c`, `scheddev/kalloc.c`

*State.* A free list of runs sorted by address, each run's header stored inside
the free memory. *Operations.* `kinit`, `kalloc` (first fit, split from the
end; the root version falls back to `malloc`), `kfree` (insert and coalesce;
the caller gives the length).

*Hard.* The list is only as right as the lengths callers pass; the header must
fit into the smallest run. *Correct means.* Blocks handed out are disjoint, free
runs are disjoint, sorted and coalesced, memory is conserved, and no run is shorter
than its header.

### 1.5 Kernel-thread layer: `scheddev/lwt.c`, `scheddev/channel.c`

*State.* Each kthd has a ring of lwts of its own (linked through the same list
type), `kid` in every descriptor, and one global `current_thread` for all
kthds. *Operations.* `lwt_kthd_create`, `__kthd_entry` (the idle loop of a
kthd: schedule, count the RUNNABLE lwts of the ring, block or yield),
`lwt_snd_thd`, `lwt_rcv_thd` (migrate an lwt to another kthd), the wake-up of
the receiver's kthd in `lwt_snd`.

*Hard.* An lwt is unlinked from a ring by whoever receives or joins it, while
the kthd of that ring stands in the middle of a scan of it; a thread is
stopped before there is room for it in the channel; a kthd decides to block
from a count that others change afterwards; a kthd that goes on has to find
`current_thread` right, which another set meanwhile. *Correct means.* Each lwt
is in one ring, that of its kthd; whoever runs is RUNNABLE and at home; a kthd
with a RUNNABLE lwt is not blocked; a thread that was sent is in one place,
stopped, and RUNNABLE again when it is received.

### 1.6 Scheduler library: `scheddev/sl.c`, `sl.h`, `sl_mod_fprr.c`, `sl_timer_mod_periodic.c`, `sl_thd_static_backend.c`, `sl_thd.h`, `sl_plugins.h`, `sl_policy.h`, `sl_mod_policy.h`, `sl_consts.h`

*State.* A lock word (owner and contention bit), per thread a state (RUNNABLE,
BLOCKED, WOKEN, FREE) and a priority, a run queue per priority, the next
timeout. *Operations.* `sl_cs_enter`, `sl_cs_exit`, `sl_thd_block`,
`sl_thd_wakeup`, `sl_thd_yield`, `sl_thd_alloc`, `sl_thd_param_set`,
`sl_sched_loop`, the timeouts.

*Hard.* The lock is taken by compare-and-swap with switches to the owner on
contention; a scheduling decision is made inside the critical section and the
switch happens after it; a wake-up may come before the block it is meant for.
*Correct means.* Mutual exclusion, no lost wake-up, run queues that hold exactly
the runnable threads.

### 1.7 The rest

`main.c`, `scheddev/lwt_test.c`, `scheddev/unit_schedlib.c` and the two
`test_lmbench_compare.c` are tests and benchmarks: they show how a client calls
the library and what it asserts. `scheddev/queue.h` is the BSD queue header.
Makefiles and `.d` files build the programs.

### How the parts interact

Everything is a direct call. A test calls the core and channels; channels call
`lwt_yield`, the ring buffer and the allocator; the core calls the allocator;
in the port, `lwt_snd` and `__kthd_entry` call the scheduler library, which
switches kernel threads through the Composite kernel (not in this repository).
There are no callbacks except a thread's own function.


## 2. Plan

Order, most important first. Steps 1 to 7 are done.

1. **Thread core**: `Lwt`, with the abstract `ForkJoin` it implements;
   inductive proofs and that refinement in `LwtProofs`.
2. **Ring buffer under preemption**: `RingBuffer` (index arithmetic as
   operators), `CasRing` (the port's waiting loops around the compare-and-swap),
   with the abstract `Mailbox`; proofs in `CasRingProofs`.
3. **Channels and groups**: `Channel`, which implements the same `Mailbox` and
   takes one fact from the modules before it: a ring buffer is a queue
   (`RefinesMailbox`); proofs in `ChannelProofs`.
4. **Allocator**: `KAlloc`; proofs in `KAllocProofs`.
5. **Scheduler library and policy**: `Sl`, with the abstract `Parking`;
   proofs in `SlProofs`.
6. **Kernel threads with rings of lwts**: `Kthd` over `PsList`, the composition
   of threads, channels and the scheduler. It takes `TakeTurns` of `Sl` (a
   kthd that the timer interrupts is resumed first) and the queue of
   `RefinesMailbox`; inductive proofs in `PsListProofs`, `KthdProofs`.
7. **Timer**: the periodic timeout and its theorems: `Timeout`.
8. **Left**: groups that change and reused descriptors in `Kthd`; a bound on
   how long a wait in `Sl` and `Lwt` takes, which would say as a safety
   property, and so within the prover's reach, part of what the liveness
   properties say.

Abstract specifications: `ForkJoin` (no ring, descriptors or counters),
`Mailbox` (a bounded queue; shared by `CasRing` and `Channel`, so the two
implementations make the same promise), `Parking` (no lock, queues or timer).

## 3. The modules and the code

| Module | Code | State | Actions |
|---|---|---|---|
| `Lwt` | `lwt.c`, `ps_list.h` | `ring` is the list seen from `current_thread`; one function per field of `struct lwt`; three counters; `pc`: in its own code, in the loop of `lwt_join`, or ended | one per call, from the call to the context switch it ends in |
| `ForkJoin` | what `lwt.c` promises | phase and result of each thread id | fork, wait, finish, leave, collect, hand over |
| `RingBuffer` | `rbuf.h`, `rbuf.c` of the port | none | operators: sizes, `full`, `empty`, the next index |
| `CasRing` | `scheddev/rbuf.c`, loops of `scheddev/channel.c` | `buf`, `head`, `tail`, each lwt's place and locals | one per access to a shared field |
| `Mailbox` | what channels promise | queues, calls of `lwt_snd` in progress | offer, put, take, discard |
| `Channel` | `channel.c`, TAILQ of `queue.h` | fields of channels and groups, the links of the lists, counters, the waiting loop each thread is in, what each thread may use | one per call up to its waiting loop, one per return from a loop |
| `KAlloc` | `kalloc.c` | the free list as a sequence of runs | `kalloc` from the list, from `malloc`, `kfree` |
| `Sl` | `scheddev/sl.c`, `sl.h`, `sl_mod_fprr.c` | lock word, states, priorities, queues, processor, kernel tokens, each thread's place | one per access to the lock word, per operation on what it protects, per switch |
| `Parking` | what block and wakeup promise | who is blocked, whose wake-up was early, whose code runs | park, unpark, enter, leave |
| `PsList` | `ps_list.h` | none | operators on the pointers `n` and `p`: initialise, add, remove, walk |
| `Kthd` | `scheddev/lwt.c`, `scheddev/channel.c`, the start in `unit_schedlib.c` | pointers, `kid`, state and joins of all lwts, `current_thread`, the run queue of kthds, channels as queues, each lwt's place | one per call up to its return or switch, one per element of a scan, two per round of `__kthd_entry` |
| `Timeout` | `sl_timer_mod_periodic.c`, `sl.h`, `sl.c` | the time, the period in cycles, `timer_next` | time goes on, a scheduling looks at the timeout |

`MCLwt`, `MCCasRing`, `MCChannel`, `MCKAlloc`, `MCSl` and `MCKthd` only add
constants for TLC. A definition that its comment calls "Mutant of X" is a plausible bug of X:
with X replaced by it, the property named beside it in `PROJECT.json` fails. Mutants are
otherwise unused.

**`Lwt`.** Nothing is preempted, so everything between two `__lwt_dispatch`es is
one action. `StopsAt` is the loop of `__lwt_schedule`: the first RUNNABLE thread
of a walk that begins after the current one; if there is none the walk does not
end and `cpu` is `"hung"`. A thread that returns past its end, or memory used
after it went back, makes `cpu` `"wild"`. `ret` of a thread that has not died
is whatever the block held. With `Recycle` the allocator may return any free
block with its old contents; without it, each block is used once.
The client chooses every call. Its one discipline: a handle is joined by one
thread, its owner, and ownership is passed to a thread when it is created. With
`JoinBlocked = FALSE` the client does not join a thread that itself waits.

**`CasRing`.** A sender goes `wait`, `write`, `tail`, `store`, `swap`: the loop of
`lwt_snd`, then the fullness test, the read of `tail`, the store into the slot
and the compare-and-swap of `rbuf_write`. A receiver goes `wait`, `read`, `head`,
`fetch`, `swap`. `Current` keeps two lwts of one kthd from being inside of the
buffer together: between the loop and the end of the call there is no yield.

**`Channel`.** Channels are blocks of memory used again after they are freed.
`holds` is what the client can name: channels it made, was created with, or
received. `snd_cnt` is stepped as in the code: by each message
written to the channel, by sending the channel itself over another, and not by passing
it to `lwt_create_chan`. Only the maker of a channel receives from it and adds it
to groups, as in the tests.

The list of a group is its TAILQ, link by link (`tqe_next`, `tqe_prev`, those of the head
under the group's name), because `lwt_cgrp_rem` leaves the links of a channel, and its
`cgrp`, as they are: whatever is done with that channel later goes through stale pointers.
`Members` is what a walk from the head meets. The scan of `lwt_cgrp_wait` ends at a
channel with a message (`Found`), at the end of the list (`Passed`), or not at all or at
the NULL buffer of a freed channel (`Lost`). A freed buffer or a freed head that a
loop follows, and a scan without end, set `crashed`.

A `Careful` client keeps four rules, none of which the code tests: it does
not call `lwt_chan_deref` on a channel given to `lwt_create_chan`; nor on one in a
group; it removes a channel from a group only if the group's list has it; and
it frees no group that a thread waits on. With `Careful = FALSE` each of these calls is made
as the code makes it. `TypeOK` and `MailboxSpec` hold for any client, the rest for
a careful one. `channel_freed` shows the first rule; a second removal of a channel
lowers `chan_cnt` again and relinks its old neighbours, which breaks `CountsExact` and
`GroupLinks`.

**`KAlloc`.** Addresses are words. `First` is the search; `Cut` the split
from the end or the unlinking of a run that fits exactly; `Merge` the
insertion at its place by address, joined with the neighbours it touches. Each call
needs `HeadersIntact`: once a run is too short for its header, the client's writes into
the block behind it change `next` and `len`, and a behaviour of the model ends there.

**`Sl`.** `pc` follows a thread through `sl_cs_enter` (`sync`, `read`, `take` or
`mark`, `help`), the critical section (`body`: state, `list`: queue, `pick`),
`sl_cs_exit` (`exit`, `release`, `defer`) and the `switch`. `Timer` may give the
processor to the scheduler thread before any step; that thread runs the
same code with the operation `schedule`. A token of `cos_sched_sync` is `fresh`
until a switch with a later one is made; `later[x]` holds those taken after `x`.
A failed `assert` sets `fault`, and nothing moves after it.

**`Kthd`.** An element is an lwt, a main lwt (named as its kthd) or `Boot`, the
lwt that `cos_init` runs on. `list` holds the pointers themselves, changed as
`ps_list_ll_add` and `ps_list_ll_rem` change them, because an lwt is unlinked
by kthds that do not walk its ring: whether the rings stay rings is a question
here. `Walk` is the set that the loop of `__ps_list_nelements` meets. A scan
takes one step per element, so one that runs into the ring of another kthd, or
never ends, would show. Otherwise a step is one call of an lwt up to its
return or its switch: kthds are preempted, but none runs code of its own
before the one that was interrupted has gone on (`TakeTurns`). `runq` is the
one run queue in use; a kthd that has started and is not in it is BLOCKED.

`on` is the lwt on whose stack the processor is, `current_thread` the variable:
that they agree whenever code of an lwt runs is `RunsAtHome`. A main lwt goes
`new`, `loop`, `count`, `loop` and so on; an lwt is at `user`, or behind the
yield in `lwt_join`, `lwt_snd`, `lwt_rcv` or `lwt_cgrp_wait`, or dying.
`lwt_snd_thd` stops a thread and then does what `lwt_snd` does; `load` is what
a sender that waits for room has in its hands. `Adopt` is the end of
`lwt_rcv_thd`: a new `kid`, out of one ring and into another, RUNNABLE.

Its client: `cos_init` makes the kthds and some channels, each kthd starts one
lwt, which makes its channels and receives from its channels; who creates, yields,
joins, sends and ends, and when, is free within these rules. Three are part of the
model: a handle is not used after its thread was given back; nobody sends to a channel
whose maker has ended; and a child that is still alive is joined within its kthd.
Four more are kept by a `Careful` client, and the code tests none of them:

- a child is joined once, and not by itself;
- a child that is still alive is joined only while it is RUNNABLE (the join of a BLOCKED
  one goes round in its loop, and no other kthd gets its turn);
- only `LWT_NOJOIN` threads are sent;
- and only while they are RUNNABLE: not one that is on its way already, and not one that
  waits in `lwt_join`, which `lwt_rcv_thd` would make RUNNABLE, so that its join ends
  and gives back a live child.

`lwt_test.c` and `unit_schedlib.c` keep them. With `Careful = FALSE` the model does what
the code does, and all properties but `TypeOK` of those that are proved fail (`LinksExact`,
`RingsWhole`, `RunsAtHome`, `NoneForgotten`, `NobodyLost`); so all theorems about
`Kthd` assume `Careful`.

**`Timeout`.** `sl_timeout_period` turns the microseconds of the policy into cycles and sets
the first timeout. A scheduling that sees it has come sets the next from now, the last
one and the period (`NextTimer`). `Delays` is how long nobody looks: less than a period, or
many. `OnGrid` says that a time is a whole number of periods after another.

## 4. What each run shows

| Run | Size | Question |
|---|---|---|
| `lwt_core` | main and 3 children, 5 ids | With fresh descriptors: never stuck, ring exact, every thread accounted for in the counters, join right, `ForkJoin` implemented, every RUNNABLE thread scheduled, every join returns |
| `lwt_any_client` | the same, reuse, joins of BLOCKED threads | The ring stays exact, whatever is created, joined, ended and reused (one owner per handle, directed yields to members of the ring) |
| `lwt_recycled` | the same, reuse | *fails*: a reused descriptor wakes the wrong joiner |
| `casring_pair` | 2 senders on a kthd, 2 receivers on another, 2 messages, room for 2 | Every interleaving implements `Mailbox`; senders progress |
| `channel_safe` | 3 threads, 2 channels of room 1, a group, a plain message; 3 makes, `snd_cnt` counted up to 3 in all | A careful client: counts, links of the lists, no loop over freed memory, nothing freed that can be reached; `Mailbox` implemented |
| `channel_freed` | 2 threads, room 1, a client that is not careful | *fails*: a channel is freed under a thread |
| `kalloc_pool` | page of 14 words, header 2, sizes 2, 3, 5, two places for `malloc` | Nothing lost or given twice; list merged; `malloc` only as a last resort; only the cut off a longer run loses a header |
| `kalloc_odd` | page of 12, sizes 2, 3 | *fails*: a run shorter than its header |
| `sl_preempt` | 2 threads, priorities 5 and 10, directed yields, 3 strikes of the timer between two calls | Exclusion, exact queues, no fault, `Parking` implemented |
| `sl_turns` | 3 threads, 2 priorities, no directed yields, 1 strike | Threads take turns; a thread of the best priority is served |
| `sl_all_blocked` | 2 threads that both block | *fails*: nobody is left to run |
| `kthd` | 2 kthds, 3 lwts, a channel of room 1 for lwts to B (made by `cos_init`), one for data to A (made by the first lwt of A) | A careful client: rings whole and apart, no thread lost or doubled, no kthd asleep with a RUNNABLE lwt, `current_thread` right; waiters get out |

**Bounds and why they are enough.**

- Three children make nested joins (a chain of three), a join before and after
  the child's end, a `LWT_NOJOIN` child that leaves from the head of the ring,
  and a ring of every length from one to four. `MaxTid = 5` is one more than the
  four ids that four descriptors used once take (the counter is one ahead); with
  reuse, 6 lets a block be used twice in `lwt_any_client`. `SpinBound = 2` limits only the loop of a joiner that
  control came back to too early, which lowers the RUNNABLE count each time.
- A ring buffer asked for 2 has 3 slots: it wraps, is full and is empty, with both
  index orders. Two lwts per side are what it takes to have one waiting while
  another is inside. The proofs cover every size and any number of lwts.
- Two channels suffice for a channel in the queue of another; three threads for a
  sender, a receiver and one that gets the channel passed on. `MaxMade = 3` with
  two blocks gives one reuse. `MaxCnt = 3` ends new sends when what is counted in
  all `snd_cnt` reaches it: enough for two senders that wait while the buffer is
  full, one of them with a channel in its hands. A request for 0, which makes 1024 slots, is an
  instance of the proofs of `CasRing` (every `Requested` in `Nat`).
- Sizes 2, 3 and 5 with a header of 2 give exact fits, splits that leave 1 word, 2 and
  more, and merges on the left, the right and both; `struct lwt_cgrp` (3 words) and
  `struct lwt_channel` (9) are no multiples of the header either. The two places
  of `malloc` lie below and above the page.
- Three strikes between two calls reach every pair of places inside of one call
  (enter and exit each have four steps between which the timer matters). Three
  threads at two priorities give a queue of two, a queue of three and a thread
  that is never picked. `sl_preempt` has two: directed yields and old
  tokens make its states many.
- Two kthds and three lwts (the first one of each kthd and one that any of them
  creates) are enough for a thread that is sent while its kthd scans, a
  sender that waits for room with a thread in its hands, a kthd that blocks
  and is woken, a child that ends while its joiner waits, and a first lwt that
  is itself sent away. The safety properties are proved for every size.

`CHECK_DEADLOCK FALSE` stands where the system really stops: a client outside of the
discipline that spins or ran into undefined behaviour (`lwt_any_client`,
`lwt_recycled`), threads that all wait on channels nobody serves
(`channel_*`), a list whose header was lost (`kalloc_pool`), a scheduler whose assertion failed (`sl_all_blocked`), and kthds
that are all BLOCKED, where the same assertion fails (`kthd`). The other
runs check for deadlock.

### Findings

1. `lwt_recycled`: `lwt_create` leaves `joinedfrom` as the block held it (`lwt.c:46`). The
   new thread's `lwt_die` then wakes a thread that joins somebody else, whose
   `lwt_join` returns garbage and frees a living thread.
2. `channel_freed`: `lwt_create_chan` does not count the reference it hands over
   (`channel.c:145`), so the receiver's `lwt_chan_deref` frees the channel.
3. `kalloc_odd`: `kalloc` splits a run whatever is left (`kalloc.c:93`); one word does not
   hold `struct run`, and `struct lwt_cgrp` is three words, `struct lwt_channel` nine.
   `OnlyShortCuts` says that this is the only place where it goes wrong.
4. `sl_all_blocked`: `sl_mod_schedule` asserts that some thread can run
   (`sl_mod_fprr.c:29`) where `sl.h:200` expects NULL and runs the idle thread.

Seen while modelling, and not given a run:

- Joining a BLOCKED thread makes `lwt_join` go round its loop while it is BLOCKED
  itself, and each round lowers the RUNNABLE count (`lwt.c:91`).
- Two sender kthds on one channel can overwrite each other's slot in
  `rbuf_write` or trip the assertion at `scheddev/channel.c:97`; under the
  fprr policy without directed yields `TakeTurns` rules it out.
- The counters do not count what they are named for: ZOMBIES is all the threads in the ring
  but one, RUNNABLE the ready ones and the dead ones that were not reaped, and a
  `LWT_NOJOIN` thread that ends stays in both for ever (`lwt.c:112-122`). `IS_RESET`
  (`main.c:46`) expects them to come back to their first values; by `CountersAccount` they
  do when the main thread is the only one left and no `LWT_NOJOIN` thread has ended,
  and never again after one has.
- `snd_cnt`, "number of senders" (`channel.h:26`), is raised by each message
  (`channel.c:88`) and lowered only by `lwt_chan_deref`, so a channel that was used is
  seldom freed.
- `lwt_cgrp_rem` leaves `cgrp` set, so adding the channel to that group again
  does nothing; and a second removal passes the test that is to find that "the chan does
  not belong to this group" (`channel.c:206`), lowers `chan_cnt` again, and writes
  through the old links of the channel.
- `lwt_snd_thd` looks at nothing but whether the thread is the caller
  (`scheddev/channel.c:344`). A thread sent twice is received twice; one that waits in
  `lwt_join` is made RUNNABLE by its receiver, and gives back its child alive.
- A sender that waits on a full channel can be overtaken for ever by others.
- `lwt_die` of the port makes the joiner RUNNABLE and does not wake its kthd
  (`scheddev/lwt.c:153`). A joiner in another kthd, which is BLOCKED, stays
  asleep. Only a client that joins across kthds, or sends a thread that is
  joined, meets this, and no test does.
- The wake-up in `lwt_snd` goes to the kthd of the lwt that made the channel. For
  a channel that `cos_init` made that is the scheduler thread, so nobody is
  woken; the receivers of such channels wait in loops, which keep them RUNNABLE
  and their kthd awake.

## 5. Fairness

- **`Lwt`.** The library only runs what the client calls. Assumed: a thread that
  keeps getting the processor keeps calling `lwt_yield(NULL)`, and a child that keeps
  getting it ends. These are strong fairness conditions, per thread, on "this
  thread is current and makes that call": a thread is current again and again, not all
  the time. A thread in `lwt_join` goes on by itself (weak fairness of
  `JoinReturn`). A client that only yields to fixed threads, or never ends, is
  excluded, as any cooperative system must.
- **`CasRing`.** The timer lets every kthd run, and receivers keep asking (weak fairness of
  each lwt's step). Senders need not call.
- **`Kthd`.** The processor goes on (weak fairness of `Next`), and an lwt that runs
  does not keep it: it yields from time to time (weak fairness of its `lwt_yield`
  while it runs). Nothing is assumed of the turns of the kthds or of the scans;
  that they come round is what makes `WaitersServed` hold. A thread that
  computes for ever without a call is excluded, as in `Lwt`.
- **`Channel`** states no liveness: that receivers, waiters on groups and joiners get out
  of the waiting loops is checked in `Kthd`, where the loops run on real rings and
  the turns follow from the scheduling. What that leaves out of `channel.c` is the
  loop of `lwt_cgrp_wait` while the group changes; a sender may be overtaken for
  ever (section 4).
- **`Sl`.** Weak fairness of "some thread takes a step": there is one
  processor, and it goes on. At most `MaxStrikes` strikes between two calls: the timer's
  period (100 µs, `sl_consts.h`) is far longer than a call. The client's threads
  keep calling the library, as kthds do in `__kthd_entry`.

The client of `Sl`, by the port's own use: a thread is woken by at most one other
(`Wakes`), which sees that its last wake-up was used before it sends another
(`scheddev/channel.c:107` tests for BLOCKED first); directed yields only go to
started threads; priorities are set in `cos_init` before the loop; and some
started thread never blocks, except in `sl_all_blocked`. The three senders that
see one BLOCKED kthd and all wake it would fail the assertion at `sl.c:92`; that
needs a preemption `TakeTurns` excludes.

**Kthds are cooperative in effect.** fprr does not move a thread in its queue when the
timer strikes, and the library only yields undirected, so an interrupted kthd is
still first and is resumed first. `TakeTurns` states this; it is why one global
`current_thread`, and counters and a free list without a lock, work under this
policy. `CasRing` does not rely on it: it has the preemption at any point that the
compare-and-swap is written for.

## 6. What is proved

All with TLAPS, for every value of the constants the assumptions allow.

| Theorem | Statement | Assumes |
|---|---|---|
| `LwtProofs!TypeCorrect`, `RingCorrect` | types; the ring is exact | nothing |
| `LwtProofs!WakeupNeverLost`, `JoinSafe` | a joiner waits for a thread that will wake it; only dead threads are freed and their result is returned | `~Recycle` |
| `LwtProofs!CpuNeverStuck`, `CountersCorrect` | scans find a thread; the counters account for every thread, and when `IS_RESET` holds | `~Recycle`, `~JoinBlocked` |
| `LwtProofs!LwtIsForkJoin` | `Spec => ForkJoinSpec` | `~Recycle`, `~JoinBlocked` |
| `CasRingProofs!CasRingTypes`, `WriteSafe`, `ReadSafe`, `RefinesMailbox` | types; no failed write or read; `Spec => MailboxSpec` | `OneSide` |
| `ChannelProofs!ChannelTypes`, `ChannelRefinesMailbox` | types; `Spec => MailboxSpec` | `ChannelAssumption` |
| `ChannelProofs!ChannelCounts`, `ChannelGroupLinks`, `ChannelNoCrash`, `ChannelFreedUnshared` | exact counters; the links of each list inverse, and its members know their group; no loop meets a freed channel or group; a channel freed is nobody else's | `Careful` |
| `KAllocProofs!KAllocConserved`, `KAllocCoalesced`, `KAllocMallocLast` | each word in one place; the list merged; `malloc` last | `KAllocAssumption` |
| `KAllocProofs!KAllocOnlyShortCuts` | only a cut off a run that is longer by less than a header leaves a run without room for its own | all lengths at least a header |
| `SlProofs!SlTypes`, `SlExclusion` | types; who is inside owns the lock word | `SlAssumption` |
| `SlProofs!SlRefinesParking` | `Spec => ParkingSpec` | `SlAssumption` |
| `SlProofs!SlTakeTurns` | the one interrupted is resumed first | `~Directed` |
| `SlProofs!SlQueues` | the run queues hold who can run | `Lowest \notin Prios` |
| `SlProofs!SlNoFault` | no assertion fails | `Lowest \notin Prios`, `Blocks # Thread` |
| `KthdProofs!TypesCorrect` | types; no kthd twice in the run queue | `Careful` |
| `KthdProofs!RingsLinked`, `RingsComplete` | the pointers are inverse; each ring holds all the lwts of its kthd and no other | `Careful` |
| `KthdProofs!StaysAtHome` | whoever runs is `current_thread`, RUNNABLE, of the kthd that has the processor | `Careful` |
| `KthdProofs!NoLwtForgotten`, `NoLwtLost` | no kthd sleeps on a RUNNABLE lwt; a sent thread is in one place and stopped, any other BLOCKED one waits for a live child | `Careful` |
| `PsListProofs!WalkMeetsRing` | a walk meets exactly the ring | rings (`Rings`) |
| `Timeout!TimeoutOnGrid` | what `NextTimer` gives is ahead of now, by a period at most, and on the grid of the timeout before | a timeout at most a period ahead |
| `Timeout!NoDrift`, `TimerNeverPutOff` | every timeout is whole periods after the start; one moves only after it has come, to a time ahead | period and processor speed not 0 |

`KthdAssumption` only keeps the kinds of names apart: there may be any number of
kthds (at least one), lwts and channels, with room for any number of messages.

`OneSide`: all senders of the channel are on one kthd, and all receivers on one,
which holds for each channel of `scheddev/lwt_test.c` and `unit_schedlib.c`.

`Careful` is the client of section 3, of `Channel` and of `Kthd`. Without it the properties
are false (`channel_freed`; section 4). `Lowest` is the priority that `sl_mod_thd_create` gives, and the
model reads it as "not started yet"; no code sets it (`unit_schedlib.c`
uses 5 and 10, `scheddev/channel.c:333` uses 10). `Blocks # Thread` is the thread that never blocks;
`sl_all_blocked` is what happens without. `KAllocAssumption` says of `malloc` that
its blocks touch neither each other nor the page. What is proved of `KAlloc` holds up to
the first lost header, which `kalloc_odd` reaches.

**The ring** (`RInv == TypeOK /\ RingExact /\ OwnerOK`). The ring is only exact after a
reap if the thread reaped was in it, which needs that the owner of a handle has
a live thread to name: `OwnerOK`. Lemmas say what turning the ring to its
`k`-th element and dropping one do to its members.

**The links** (`LinkInv == FreshOK /\ BackLinkOK /\ WaitOK /\ StateOK`). A joiner is woken by
`joinedfrom` of the thread that ends. For the wake-up to be the right one, fields
of blocks not yet used are clear (`FreshOK`, where `~Recycle` is needed),
`joinedfrom` and `joiningto` point at each other (`BackLinkOK`, `WaitOK`), and a state is
BLOCKED only in a join whose child is not DEAD (`StateOK`).

**The processor** (`GoInv == MainOK /\ CpuOK /\ CountOK`, over `RInv` and `LinkInv`). A
thread ends and wakes nobody; is another RUNNABLE? If the main thread is not, it is
BLOCKED. If every BLOCKED thread waited for a BLOCKED thread, `joiningto` would map
the BLOCKED threads one to one (a thread has one owner) into themselves without
the main thread (nobody joins it), which a finite set does not allow
(`ChainEnds`); so one of them waits for a RUNNABLE thread, which is not the one that
ends (`SomebodyElse`). Without joins of BLOCKED threads the child a joiner yields to is
RUNNABLE, so control never comes back to the joiner early (`CpuOK`). `CountOK` says what
the counters count, so the test of the RUNNABLE count in `__lwt_schedule`
(`lwt.c:184`) is right (`CountNotZero`). With the threads sorted
by what they are doing (`CountedSets`) it gives `CountersAccount`; that no other
state looks reset is `ResetMeans`.

**Fork and join** (`MapInv == Base /\ GoInv /\ IdOK`). `ForkJoin` names threads by their
ids; `PhaseOf`, `AwaitsOf` and `ResultOf` look up the descriptor of an id. `IdOK` makes
that one descriptor (`Mapped`): ids are given once, and a descriptor without an id has
no result yet. `Repaint` says that a step which touches the descriptors of two
threads changes what is seen of those two ids and of no other. `Switch` of `ForkJoin`
lets only a thread that can go on have the processor; that is `CurrentCanRun`,
which is `CpuOK` again: whoever is current is at its own code, or in a join whose
child is DEAD. Then every call is one step: `JoinDead` and `JoinReturn` are both
`Collect`, both forms of yield are `Hand`, and the join loop going round does not
happen.

**The buffer** (`CInv == TypeOK /\ Solo /\ SenderOK /\ ReceiverOK`). With one kthd per side one
lwt at most is inside (`Solo`). What a sender read of `tail` is still `tail`, and the
room it saw can only grow, since receivers move `head` away from `tail`; the same
with the roles changed. The first part of the module has the arithmetic: an index
stepped modulo the size is one of two values, the contents after a store into the free
slot and a step of `tail` are the old ones and the new message, after a step
of `head` the tail of the old ones. The step of `tail` is `Put`, that of `head` is `Take`,
all else stutters.

**The lock word** (`IInv == TypeOK /\ CallOK /\ PlaceOK /\ OwnerInside`). A thread about to swap
has read a word without owner (`PlaceOK`), so if the word is still that, nobody is
inside; setting the contention bit does not change the owner; Free is
stored by the owner only. `CallOK` (who calls what) is needed for the types of
queues and switches.

**The tokens** (`KInv` of `SlProofs`: `IInv` with `OrderOK`, `TokenOK`, `StartOK`). A thread
decides whom to switch to inside of the critical section and switches after it; any
thread may run between the two. Each thread has at most two tokens, one for the lock
and one for its decision. If a token of a thread that does not have the processor is
still accepted, every accepted one of the thread that does was taken after it
(`OrderOK`). So a switch that is made uses up those of all other threads, and a
decision that is still accepted was made after the last switch: no other thread has
changed anything since.

**Block and wake-up** (`PInv`: `KInv` with `ListOK`, `ListedOnce`, `AwakeOK`, `ChosenOK`,
`HelpedOK`). While a decision is accepted, the thread chosen is not BLOCKED (`ChosenOK`)
and the owner to be helped is still inside (`HelpedOK`), since whoever changes either
is inside, got there by a switch, and that switch made the token stale. So a thread
at its own code is never BLOCKED (`AwakeOK`), which is what `Parking` asks for; each of
`Park`, `Unpark`, `Enter` and `Leave` is one action of `Sl`, the rest stutters.

**Turns** (`TurnOK`). Without directed yields, whoever is between its own code and the
queues (`InTurn`) is the first of the best queue (`First`), and so is whoever a decision that
is still accepted leads to. The queues change by the thread in its turn only, when it
leaves its turn.

**The run queues** (`Reverse`, with `ListedOnce`). `ListedOnce` says that nobody is in a queue
without reason, `Reverse` that everybody with reason is. They differ in what they need: a
thread whose priority has the value that means "not started" would be in no
queue.

**Assertions** (`FInv`: `PInv` with `Reverse`, `CallerOK`, `BlockedOK`, `KeptOne`). A thread is
woken by one other at most, so what that one saw of its state before the call still
holds at the assertion (`sl.c:92`); one started thread is never BLOCKED (`KeptOne`), so by
`Reverse` it is in a queue, and the policy finds somebody (`sl_mod_fprr.c:29`).

**Channels** (`AInv` for any client; `CInv == AInv /\ BInv` for a careful one). LWT_INFO_NRCVING
is the cardinality of the lwts in the loop of `lwt_rcv`, changed by one lwt entering or
leaving. `GroupOK` says of a group's list that there is a set of channels from the head to
NULL whose links are inverse and whose size is `chan_cnt`; inserting at the end and
removing an element keep it (`InsertList`, `RemoveList`; removing needs the element to be in
the list, which is the rule about `lwt_cgrp_rem`), and links of two lists lie apart since
each member's `cgrp` names its group (`OneGroup`). A scan of such a list ends
(`ScanEnds`). `Counted` is the heart of the rest: the
references to a live channel that was not lent, which are the threads that may use it, the waiting
senders of it as a message, and its places in queues, are at most `snd_cnt + 1`; a
channel that is not live has none. It says `<=`, as messages raise `snd_cnt` and are
never taken off again. A channel that was given to `lwt_create_chan` is lent: it has a
reference that is not counted, and a careful client never gives it up. When `lwt_chan_deref` brings `snd_cnt` to 0, one
reference was left, its caller's: nobody waits on the channel, has it, or will
receive it, so no loop meets it (`NoCrash`).

**The free list** (`KInv(M)` of `KAllocProofs`). `Coalesced` and the order of the list speak of
neighbours; `Sorted` says it of any two runs, so that no induction along the list is
needed. Splitting from the end, taking a run that fits and merging with either neighbour
each keep `Sorted` and the set of words in the list and the blocks. `M` is where the
lengths are: all the positive numbers, which sums and differences do not leave. What
`kfree` does is shown for any `M` that sums do not leave, so also for the lengths of at
least a header: no merge is too short (`FreeLong`). A cut that leaves too little hands out
a block that no one had, within the run it came from (`AllocLong`).

**The lists** (`PsListProofs`). What a walk meets is a least set, of which single
pointers say nothing. `Reaches` says it without a walk: a set that is closed
under the pointer and holds a member of a ring holds the owner of that ring. The
main lwt of a kthd is in its ring for ever, so there is an owner to be reached.
Inserting and removing keep `Reaches` along `n` and along `p` (`InsertRings`,
`RemoveRings`). From both it follows that the walk is the ring: it comes to the
owner, and what it missed, closed under `p`, would hold the owner as well
(`WalkMeetsRing`).

**The kthds** (`KInv`, for a careful client). The properties hold together only, so there is
one invariant.

- `Linkage` (every element is in the ring of its kthd, or alone) and `Kinds` (who may
  be where). A step leaves the links alone, or one lwt enters a ring, leaves one
  or moves (`LinkCases`). To enter, it must not be linked already, and to move,
  it must be; a received thread is because it is on its way (`Transit`).
- `Home`: `RunsAtHome` between two rounds of a scan, too. A scan goes from
  neighbour to neighbour and so stays in the ring; the run queue changes at its
  end, but for the turn of a main lwt. A `LWT_NOJOIN` thread that dies is RUNNABLE
  while it scans; that it never finds itself is `Passed`: the elements met so far
  hold nobody else who can run, and if the last led back to the first they would be
  the whole ring, whose main lwt can.
- `Transit` and `Calls`: a thread on its way is in one buffer or in one sender's
  hands, BLOCKED, linked and not to be joined. `Free` is what may be sent.
- `Joins`: a BLOCKED lwt that was not sent is in `lwt_join`, and its child is alive, in
  the same kthd, and knows it. `Counted`: the count of RUNNABLE lwts is never 0, so
  `__lwt_schedule` always scans.
- `NoneForgotten`: a kthd blocks when its count is 1. The count is over the whole ring
  (`WalkMeetsRing`), the main lwt is in it and RUNNABLE, so nobody else is
  (`CountForgotten`). Who becomes RUNNABLE later, by being received, created or
  woken by a child, is in the ring of the kthd that runs, which is not BLOCKED.

**The timer.** By cases on whether the timeout has come: the quotient of the delay by
the period counts the missed periods, the remainder is the place within one
(`TimeoutOnGrid`). That each timeout is on the grid of the one before is carried to the
start by the sum of the two counts (`GridSteps`), and is invariant with the types.

## 7. Only model-checked

Liveness: `Scheduled` and `JoinReturns` (`Lwt`), `SendProgress` (`CasRing`), `Served` (`Sl`) and
`WaitersServed` (`Kthd`) depend on fairness, which means on `ENABLED`, and that is beyond
the prover. Everything else that a passing run checks is a theorem of section 6, some of
them under hypotheses that the run's constants satisfy and the table names.

## 8. Not modelled

- **Contexts and stacks**: the assembly of `__lwt_dispatch` and the trampoline by what they
  do; stack overflow not at all.
- **In `Kthd`**, what other modules have: reused descriptors and ids (`Lwt`), indices
  of the buffer (`CasRing`), references, marks and the release of channels
  (`Channel`), the steps inside of `sl_thd_block` and `sl_thd_wakeup` (`Sl`). Also
  groups that change (a group is all the channels its lwt receives from), and
  `lwt_yield` to a thread other than by `lwt_join`.
- **In `Timeout`**, the kernel's conversion between cycles and its timer's units.
- **Marks, ids of channels and groups, LWT_INFO_NSNDING**: nothing reads the marks in the
  library; NSNDING is raised and lowered with no yield between.
- **`rbuf_erase`, `sl_thd_free`, `sl_mod_thd_delete`**: nothing calls them.
- **`sl_thd_comp_alloc`**, notifications of `cos_sched_rcv`, timeout values, the idle
  thread: threads made by the port have no receive end-point, the timer may strike at
  any time in the model, and the policy never lets the idle thread run.
- **The port's allocator under preemption**: its list is that of `kalloc.c`, unlocked; safe
  under `TakeTurns`, not modelled otherwise.
- **The kernel**: `cos_sched_sync` and `cos_defswitch` as `sl` uses them.
- Tests, benchmarks, vendored `queue.h`, build files.
