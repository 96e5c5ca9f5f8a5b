# A TLA+ model of BorderPatrol

BorderPatrol traces requests through programs it does not change.
`libbtrace.so` is preloaded into a program and wraps its system calls; it
recognises the protocols spoken on its sockets, cuts reads at message
boundaries, and writes a binary record for each event to `logd`, which merges
the streams of all programs into one file. An offline tool (`agg`) joins the
records into requests.

The modules here model the parts with state that is hard to get right: the
private read buffer and its select cache, the descriptor table, the record
buffers, the daemon, the lookup of ports, the framing of protocols, the page
fault monitor and the joining of records into requests. Every operator is
translated from the source, and `PROJECT.json` says which lines it stands for.

## The system

| part | state | operations | talks to |
|---|---|---|---|
| virtualised reads (`trace/vfd.c`) | `rbuf`, `rbuflen`, `rbufofs`, `rlastlen`, `tosend`, `ppwantmore` of each descriptor | `virtual_read`, `buf_shift`, `present_pp`, `buf_ret`; `read`, `readv`, `recv`, `recvfrom` | kernel, protocol processors, select cache |
| select cache (`vfd.c`) | `vsel_data`: descriptors known to be readable or writable | `select`, `poll`, `set_/clear_readable_cache` | kernel, reads, writes, connects |
| write path (`vfd.c`) | `wbuf`, `wbuflen`, `wbufofs` | `write`, `writev`, `send`, `sendto`, `vwrite_req` | protocol processors |
| protocol processors (`trace/protocol.c`) | what is left of the message, whether its header was seen; one copy per direction | `pp_read`, `pp_write` of http, PostgreSQL, MySQL, FastCGI, X, perl | read and write path, record buffers |
| protocol identification (`protocol.c`, `trace/getservice.c`) | a static `struct servent`, a lock | `pp_id_bind`, `pp_id_connect`, `getportbyname` | `accept`, `connect`, `bind` |
| descriptor table (`vfd.c`) | `vfd_tab[]`: dispatcher, `pp_data`, `in_prog`, type of each descriptor | `socket`, `open`, `pipe`, `accept`, `bind`, `connect`, `dup`, `dup2`, `close` | all of the above |
| record buffers (`logd/binlog.c`) | one buffer per thread, `ctx->logfd`, global `logfd` | `LOGBIN*`, `lb_alloc_bytes`, `lb_flush`, `logd_init`; `fork`, `exec*`, `pthread_create`, `exit`, `abort` | `logd` over TCP |
| log daemon (`logd/logd.c`) | `relay`, `b_end`, `avail`, `timediff` per descriptor | `main`'s select loop, `transfer_in`, `transfer_out`, `sig` | traced programs, the log file |
| record format, log readers (`logd/fmt.c`, `common.c`, `expand.c`) | none | `freeze`, `thaw1`, `thaw2` | binlog, logd, agg |
| aggregator (`agg/*.ml`) | designation of processes (`c_dgn`), requests of messages (`c_conn`) | `stream_join` | the log file, a database |
| page fault monitor (`pfdura/`, `trace/pf.c`) | bits of tracked pids, relay buffer, last entry of a process | `on`/`off` files, two probes, reader thread, `pfdura()` in `exit` and `fork` | traced processes, `logd` |

What is hard about them:

* *Three indices and a counter.* A read buffer has a part the program has, a
  part the processor has released and a part it has not yet recognised; every
  call moves them differently, and the buffer slides.
* *Hidden readiness.* What is in the private buffer is not in the kernel, so
  the kernel's `select()` does not know of it.
* *Reuse.* Descriptor numbers are reused by other connections, in the program
  and in the daemon, and tables are indexed by them.
* *Sharing.* Threads and forked children share descriptors, the global `logfd`
  and one connection; writes may be short.
* *Ends.* `exit`, `exec`, `abort`, threads that return, Ctrl-C at the daemon
  and broken connections come with bytes still buffered.
* *Cuts.* TCP cuts a stream anywhere, in the middle of a header too.
* *Two halves.* A wrapper calls the kernel and then updates a table; other
  threads come in between.
* *Order of records.* The joiner goes by the order of records of different
  processes, and a record is made after the deed it tells of.

`PROJECT.json` lists these as hazards, each at its line, with the properties
that would catch it going wrong, or why none does yet.

## Modules

| module | models | abstracts |
|---|---|---|
| `ByteStream` | what a program expects of the kernel: bytes of a connection, once, in order, then end of file | - |
| `VirtualRead` | the read path on one descriptor through several connections, with its select bit | a processor is any that, shown some bytes, asks for more or consumes a part; bytes are numbered |
| `SelectCache` | `select`/`poll` and all who set or clear bits of `vsel_data`, on several descriptors and threads, around the lock | a buffer is the number of reads it is good for; no except set |
| `FdTable` | entries of `vfd_tab` and the state of processors through all calls that open, duplicate, connect and close | a service is its processor; no bytes |
| `RecordLog` | what programs expect of the daemon: whole records, a connection's in order, each once | - |
| `LogD` | the daemon and its clients | a byte is its place in a record of a connection; only the size of a record matters |
| `BinLog` | record buffers of threads and processes and their connections | a record is its size |
| `Services` | the search for the protocol of a port | a services file is a sequence of (name, port) |
| `Stream` | what the models of processors have in common: a stream of messages | - |
| `Framing` | `vwrite_req` with the processors of PostgreSQL, MySQL and FastCGI | a message is its type and the size of its body |
| `Http` | the http server's processor with the buffers it scans | a header is a few bytes whose last is the empty line |
| `Join` | `stream_join`, composed with a web server, a backend and children that write its records | a process has one thread; a message is the request it is for |
| `PageFault` | kernel module, reader and traced processes | a clock of a few ticks |
| `VirtualReadProofs`, `SelectCacheProofs`, `FdTableProofs`, `LogDProofs`, `ProtocolProofs` (of `Services`, `Framing` and `Http`), `JoinProofs`, `PageFaultProofs`, `BinLogProofs` | the theorems about these modules | - |
| `MC...` | values of constants that a `.cfg` cannot write, symmetry | - |

### VirtualRead

`v` is the read half of `vfd_tab[s]`, field by field; `pp` is how far the
processor is and how much it was last shown in vain; `readable` is the bit in
`vsel_data.read`. `buf_shift`, `present_pp`, `buf_ret` and `vfd_tab_init_one`
are functions on `v` of the same names. One call of `read()` is one action, by
the way it takes through `virtual_read()`: `ReadShort1` (something is released
already), `ReadShort2` (the processor can go on), `ReadRefill` (the kernel is
asked), `ReadEof`, `ReadNothing` (no bytes: EAGAIN, EINTR). A processor may claim
any number of bytes up to `VBUFSIZE`, also more than it was shown: `Return` then
hands on what was read, or `Asserted` ends the program (`app = "aborted"`), as
the asserts of `vfd.c` decide. The program is one
thread, so a call is atomic for it; the peer sends between calls. `select()`
is several actions since the kernel's part blocks: `SelectCached`,
`SelectEnter`, `SelectWake`, `SelectTimeout`. `Accept` and `close` start and
end connections and leave in `v` what the code leaves.

### SelectCache

Several descriptors, each served by one thread, and `vsel_data` as one set for
each of the read and write words. A call of `select()` is cut where other
threads can come in: `FdClrLoad` and `FdClrStore` are the `FD_CLR` of the first
scan, which loads a word and stores it back without the lock; `SelectEnter` and
`SelectWake` surround `real_select()`; `SelectUpdate` is one `FD_SET` under the
lock, and `SelectFind` picks the first bit of the cache, asked for or not.
`connect_event` runs after the lock is released and has two halves, since it
clears `in_prog` (`vfd.c:694`) before it looks up the processor and initialises it
(`pp_id_connect`): another thread may come in between. `inits` remembers who has
initialised the processor of which descriptor. A descriptor whose processor is
not there yet is read plainly; that the dispatcher is set an instant before its
state (`vfd.c:695`, `697`), and a `close()` of the descriptor by its own thread
while another is between the halves, are not told apart. `virtual_read`, `plain_read`
(and `accept`), `write` and `Reconnect` (`close`, `socket`, `connect`) change
the kernel's state and the buffer first, and the bits in a second step
(`CacheBits`). `raced` remembers that an unlocked `FD_CLR` lost an update, or
was lost itself; the other properties are stated for runs without that.

### FdTable

`ktab` and `kfile` are the kernel's descriptors and open files, `vfd_tab` the
library's entries, `heap` what `pp_init()` has allocated. Each wrapper is two
actions, one for the system call and one for the table (`close` the other way
round), kept apart by `call[t]`. `own`, `lost` and `stray` are history: whose
state an object is, which objects were forgotten by `dup2()` or a second
`connect()`, and whether a pointer that `dup()` left behind has been freed. An
application that passes a descriptor to a call while another thread is half way
through opening or closing it is not modelled (`Usable`).

### LogD

One action is one iteration of a loop in the code: `Select` fills `ready`, then
each descriptor is served by `Accept` or `transfer_in`, which is followed by
`transfer_out_record` for each complete record and `transfer_out_done`. A read
that returns 0 or fails is `transfer_in_ends`. `SIGINT` is `sig`, at any time
between two iterations. If the buffer does not start with a header, the size
`frozen_size()` reads there is any: less than a header, as large as the buffer,
or larger (`RELAY_BUF+1` stands for all of those). `transfer_out_exits` is the end
of the daemon: its `write()` fails (only if `Stops`), or such a size makes it
assert or fault. The refinement maps an entry of the log to
the record it is, if it is that record from its first to its last byte.

### BinLog

A wrapped call is a list of library steps, kept in `todo[t]` and done one at a
time: `fork()` is "flush, fork"; a new thread is "socket, connect, dup2, close,
alloc_ctx, ..."; `exit()` is "log, flush, exit". Tasks of all processes
interleave between steps. `fdtab` is a process's descriptors, each referring to
a connection, so that `dup2()`, `close()` and the sharing after `fork()` are
what they are in the kernel. `wire` collects what each connection carries.
The traced program (`prog`) is chosen at the start from `Programs`: the sizes of
its records, whether `write()` may be short (`partial`), whether it has threads,
and whether they may start or exit at the same time (`overlap`).

### Services

`bpgetservbyname_r` is one action for each file, since `mylock` is held for its
length; using the result is another action, since the lock is free by then. The
result is the single static `serv`, shared by all callers.

### Framing

`write` appends to `wbuf`, then `vwrite_req_call` shows it to the processor
until it asks for more or `wbuf` is empty. `side` is who writes: a PostgreSQL
client or server, a MySQL or a FastCGI side; the reading direction runs through
the same functions. The processors are functions from state, length and header
to answer and state: `speak_psql`, `speak_mysql`, `speak_fcgi`. Bytes of the
stream are numbered, and a header is read at the place the processor takes for
one: if there is no header there, what it reads is any. `wbuf` has no end here;
that it has one is a matter of `Http`. `get_mysql_size` puts a length together
as the code does, with the signs of the bytes, in a byte of `BYTE` values.

### Http

`buf` is `rbuf` or `wbuf` byte by byte, with what lies behind its end, since
`strstr()` does not stop there. `ReadBuffered` and `ReadRefill` are
`virtual_read()` with and without the kernel; `Write` and `vwrite_req` append
and show the bytes; `Write` does not ask whether they fit, as the code does not.
`fate` says what has become of the program: it runs, a processor has taken more
than it was shown (`"past"`: an assertion of `read()`, a negative length in
`vwrite_req`), a request without a `VERSION` has stopped it, or `wbuf` was overrun.
A request is parsed in a copy of the `len` bytes shown: its `VERSION` is there if
the first line of a header is among them and in one piece (`LineThere`). A
response is parsed in place: if the text up to the empty line is put together
from old and new bytes, what is read in it is any message, and a response that
has neither length nor `close` (`"none"`) may be given what a later one in the
buffer has.

### Join

A step that logs a record is a step of the joiner too (`JoinPoll`, `JoinRecv`,
`JoinRead`, `JoinSend`, `JoinOpen`, `JoinFork`, `JoinExit`, one for each case of
`stream_join`). Around them are the wrappers that write those records, in the
order in which they do: `real_write()` before `PP_MSG_SEND`, `PP_MSG_RECV`
before `SYS_READ`, `SYS_FORK` by the child. `Cases` names four things that may
happen besides.

### PageFault

`track_pids`, `relay` and the probes are the kernel module; `feed`, `last_tvs`
and `log` are pf; `proc` and `pc` are the traced processes, which write their
pid to the on and off files in `fork_init` and `exit`. A fault is `sure` as long
as both of its records are in the buffer pf reads and no other entry of the
process comes between them.

## Runs

| run | question | result |
|---|---|---|
| `virtual_read` | indices, alignment of the processor, isolation of messages, readiness; is `read()` still a byte stream, and are bytes delivered in the end? | holds |
| `select_cache` | with several descriptors and threads: does any `select()` sleep on buffered bytes, is a reported event there, is the processor of a finished `connect()` there or on its way, is every event told in the end? | holds, unless the unlocked `FD_CLR` races |
| `fd_table` | whatever numbers are duplicated, closed and reused: does each connection have the processor of its service and a state of its own? | holds, with the exceptions below |
| `logd` | is the log that of `RecordLog`, is there always room to read, is all of a connection logged when it has gone, with reuse of descriptors, a break inside a record, and Ctrl-C? | holds |
| `binlog` | records over `fork`, `exec`, `exit`, `abort`, threads, short writes and records that are too large | not lost, repeated, torn or overtaken; the program goes on |
| `services` | two threads whose lookups mix: no protocol on unlisted ports; one thread: the right protocol | holds |
| `services_user` | a user file that lists only some protocols | wrong or no protocol |
| `framing` | with writes that cut and join messages: does the processor stay in step, log each message once, and keep only what is unfinished? | holds |
| `http` | over a buffer full of old messages: does the processor bring the program down, are requests logged before they are served, one per `read()`, and responses by the time `write()` returns? | holds |
| `http_stale` | a `read()` that ends inside a header, behind its `VERSION`, while an older header ends behind the end of the buffer | the assertion in `read()` fails |
| `join` | is each process designated to the request it works for, in the orders that `Cases = {}` leaves? | holds |
| `page_fault` | are faults logged with their true times, does `exit()` keep its status, does the tracking bit outlive a process? | holds, with the exceptions below |

The two runs that end in a violation are disagreements of the code with its own
README and its own assertion; `findings` in `PROJECT.json` quotes them. For every
property of a passing run, `mutants` has a plausible slip in the code that TLC
finds by it.

A passing run leaves out the cases in which its properties fail, by a constant,
or by a premise of the property that names the case. Changing the constant in
the `.cfg` or MC module, or dropping the premise, makes TLC show the case:

* `Reselect` (`VirtualRead`): a program that calls `select()` twice before it
  reads sleeps although the library holds bytes for it (`vfd.c:1350`,
  `NoLostWakeup`);
* `MaxNeed > VBUFSIZE` (`VirtualRead`): the buffer is full, `real_read()` is
  asked for 0 bytes (`vfd.c:957`), and the program sees an end of file that is
  none (`RefinesByteStream`);
* `raced` (`SelectCache`): two threads, one in the unlocked scan of
  `vfd.c:1347` and one in `set_readable_cache()`; the second sleeps on bytes it
  has, or the first reports its event twice;
* `Shared` in `ReadyIsReal` (`SelectCache`): an event that waits in the cache
  behind the reported one is stale when another process has accepted the
  connection meanwhile;
* `ConnectSeen` says only that the processor of a finished `connect()` is there or
  being initialised by another thread (`SelectCache`): `in_prog` is cleared first
  (`vfd.c:694`), so that the application may be told, and read past the processor,
  before it is there (claim `inits[f] # {}` alone), and two threads that met the
  event together both initialise it, the second over the first one's state;
* `stray` (`FdTable`): `dup()` of a connection, `close()` of the copy, a new
  `socket()` and `bind()` on its number, `close()`: the state of the original is
  freed, since `dup_vfd()` copies the pointer (`vfd.c:492`) and
  `vfd_tab_init_one()` does not clear it;
* `failed` in `NotMisfollowed` (`FdTable`): `connect_event()` after a failed
  `connect()` goes by an address left on the stack (`vfd.c:687`);
* `lost` in `Accounted` (`FdTable`): `dup2()` onto a followed connection, or a
  second `connect()`, leaks its state;
* `Breakers = {1}` (`LogD`): a connection breaks inside a record, its descriptor
  is used again, and since `b_end` is kept (`logd.c:322`) the next client's
  records are garbage (`RefinesRecordLog`); with a garbage size the buffer may fill
  up, and a healthy client is taken for gone (`RoomToRead`), or the daemon may
  assert or fault;
* two `Hosts`, with `OwnClock` as an invariant (`LogD`): a descriptor passes
  from a client on one machine to one on another, and keeps the first one's
  clock (`logd.c:79`);
* `overlap` and a third connection (`BinLog`): two threads that start at once
  connect, duplicate and close each other's socket through the global `logfd`,
  and a failed `connect()` ends the program (`vfd.c:288`, `Unharmed`);
* `threads` in `NothingLeft` (`BinLog`): `exit()` flushes the calling thread's
  buffer only (`vfd.c:84`), and other threads' records are lost;
* `partial` in `WholeRecords` (`BinLog`): the second `write()` of a short one
  (`binlog.c:180`) may come after another process's;
* `partial` and `threads` with `Conserved` (`BinLog`): `exit()` in one thread
  closes the descriptor between two `write()`s of another's `lb_flush()`, whose
  `exit(1)` then flushes the buffer from its beginning (`binlog.c:180`);
* a size above `PIPE_BUF` in `Unharmed` (`BinLog`): `exit(1)` (`binlog.c:205`);
* a user file that is not complete, or a second thread, with `Identified`
  (`Services`): `services_user`; the port is read after `mylock` is released;
* size 0 for PostgreSQL (`MCAllSizes`, `Framing`): after a message without a body (Sync,
  Terminate) `gotHeader` stays set, and the processor never takes another byte
  (`protocol.c:456`, `NothingPending`);
* a size of `BYTE / 2` or more for MySQL: `get_mysql_size` extends the sign of a
  length byte (`protocol.c:556`), and the rest of the stream is taken for one
  body (`InStep`);
* a PostgreSQL query larger than `wbuf` (not in `Framing`, where `wbuf` has no end):
  the processor asks for more until `memcpy()` leaves the buffer (`vfd.c:434`);
* `"fcgi"` in `Splits`, so that a write may end inside a body: what is taken of
  a body is subtracted from a local variable (`protocol.c:989`), and the body is
  counted twice (`InStep`);
* `Cuts` (`Http`): `http_stale`; where the bytes shown have no `VERSION`,
  `strstr()` of NULL (`protocol.c:244`) or `assert(0)` (`protocol.c:252`); and on
  the way out a negative length for `memmove()` (`Survives`);
* `ReqBodies` (`Http`): a body is taken for the next request, with the same two
  ends (`Survives`);
* `"none"` in `Kinds` (`Http`): a response without length and `close` is given the
  length of one that lies behind it in `wbuf` (`HeardResponses`);
* `LargestWrite > VBUFSIZE` (`Http`): `memcpy()` leaves `wbuf` (`vfd.c:434`,
  `Survives`);
* `Followed` in the properties of `Http`: after an HTTP/1.0 request, or a response
  without a length or with an empty body, the processor takes no more notice.
  The properties take that for what the code does, and claim nothing behind it;
* `"overtake"`, `"latefork"`, `"oldfile"` in `Cases` (`Join`): a receiver logs
  before the sender (the code sleeps 10 microseconds against it,
  `protocol.c:377`); a child logs `SYS_FORK` when its parent is already at
  another request (`vfd.c:1538`); a file is kept open from one request to the
  next (`join.ml:300`). Each violates `Attributed`;
* `"pipeline"` (`Join`): questions and answers of one connection are numbered by
  two counters in one table, and collide as soon as two questions are under way
  (`join.ml:319`, `InFlight`);
* `unsettled` in `OwnStatus` (`PageFault`): `exit()` of a process whose bit is not
  set, because the module was loaded later, an operator wrote 0, another thread
  is in `exit()` or the pid is too large, ends it with status 1 instead of its own
  (`vfd.c:129`, `pfdura-mod.c:147`); its records are still flushed, by
  `vfd_shutdown()`, which `atexit()` registers (`vfd.c:372`);
* `sure` in `TrueFaults` (`PageFault`): a fault inside another thread's gives it the
  wrong time, one whose records were lost is missing or mixed with the next;
* `killed` in `Untracked` (`PageFault`): `abort()` does not untrack (`vfd.c:102`).

### Bounds

* `VBUFSIZE` is 3 and connections have up to 5 bytes, so the buffer fills,
  slides and fills again; reads of 1 or 2 bytes end before, at and behind what
  is released; two connections reuse the entry.
* `SelectCache`: a thread with a followed connection, read and written, and a
  listening socket shared with other processes, and a second thread with a
  followed connection: enough for a lower and a higher descriptor, an event
  somebody else asked for, and two writers of one word. Two arrivals, and one
  reconnect of a descriptor, let every bit be set, forgotten and set again.
* `FdTable`: three descriptors and two threads, six calls: a number is opened,
  duplicated, closed and reused with two calls to spare; two objects, of which
  the allocator may return a freed one at once; a processor with and one
  without a state on the connecting side. Threads and objects are symmetric.
* A daemon's header is 2 bytes and a record 2 to 4, so that a read can end in a
  header, after it and in a body; the relay buffer is as large as the largest
  record, the tightest the code allows, and holds two small ones; two
  connections are open at once or one after the other on the same descriptor.
* Record buffers hold 4 bytes, records have 1, 2 or (too large) 5, so that
  a buffer fills exactly, almost, and not at all; two processes, or two threads
  and a child, are enough for two to interfere and one to stand by. The
  library's own records have 2 bytes. Programs that `exec` have a second
  connection; they are checked with whole writes, or with short ones and at most one
  record of a call that only logs.
* Services files have at most one line, the user's also one for each protocol;
  there are two protocols and another name, two ports and a third not listed.
* Headers have 2 bytes (a startup message 3), bodies 0 to 3, three messages,
  writes of 1 to 4 bytes: a write can cut and join anything, for FastCGI
  anything but a body. A byte has 8 values, so a length of 4 has its top bit set.
* `Http`: three messages of 2 to 4 bytes in a buffer of 9, so that it holds
  several and still has old ones behind its end; writes of up to the whole
  buffer. In `http_stale` a header has 3 bytes, so that its first line can be
  there without its end.
* `Join`: two clients, one child, three requests: two are in the works while a
  third reuses connection and child.
* `PageFault`: one pid in range and one beyond, two threads, two faults that may
  overlap, a relay buffer of two records, two process starts and two loads of
  the module. A fault of 2 ticks is over the threshold, one of 1 is not.

Runs with `CHECK_DEADLOCK FALSE` are of programs that may stop: the peer has
sent all, the daemon was stopped, all processes have exited.

### Fairness

`VirtualRead`: weak fairness of the program's own step, since a program that is
not blocked is scheduled, and of `SelectWake`, since the kernel wakes a
`select()` whose descriptor is readable. `Delivered` is claimed for programs that
keep selecting and reading. The peer, and the order of timeouts, are not fair.
`SelectCache`: strong fairness of a thread's steps inside a library call, since
they wait for nothing but the mutex, which comes round to each waiter; weak
fairness of the timeout of `select()`; and, of the application, that it acts on
what it was told and comes back to `select()` on all it serves. Without the last
a program can ask for one descriptor for ever, and no library could help.
`LogD`: weak fairness of the daemon (`Daemon`, one step of its loop), a process
that is runnable whenever it has input. Clients are not fair, and may stop
anywhere. The other modules state safety only.

## Proofs

A run checks a small instance; the theorems hold for every value of the
constants, on the assumptions named in the modules (sizes and bounds are natural
numbers, the ones the code divides the world by are not 0, names are distinct).
Every safety theorem is proved the same way: an invariant `IInv` that the
initial states satisfy and every action preserves (a lemma for each action), and
that implies the property. None of the properties is inductive as it stands.
TLC has checked each of these invariants on the bounds of the run.

| theorem | states | on the hypothesis |
|---|---|---|
| `VirtualReadProofs!TypeCorrect` | indices stay in the buffer, whatever the processor wants | |
| `...!PpFollowsStream`, `AssertionsHold` | the processor sees the stream in order; the assertions of `vfd.c` fail only if it claims bytes that have not arrived, and then in that call | |
| `...!Isolation` | no `read()` returns bytes from both sides of a message boundary | |
| `...!Refinement` | the wrapped `read()` implements `ByteStream` | `MaxNeed <= VBUFSIZE` |
| `...!ReadyTheorem`, `WakeupTheorem` | a reported descriptor is readable; nobody sleeps on buffered bytes | the second: `~Reselect` |
| `SelectCacheProofs!WakeupsKept`, `ReportsAreReal`, `ConnectsSeen` | the same with threads and several descriptors; a finished `connect()` is told of when its processor is there or being initialised | `~raced` is a premise of the first two properties |
| `FdTableProofs!StateIsOwn`, `ConnectionsFollowed`, `NoneMisfollowed`, `StateAccounted` | each connection has the right processor and a state of its own; no state is lost but by `dup2()` and a second `connect()` | |
| `LogDProofs!TypeCorrect` | the relay buffers never overflow | |
| `LogDProofs!AlwaysRoom`, `ClosedIsLogged`, `Implements` | there is always room to read, and no whole record waits in a buffer; all of a closed connection is logged when it is let go of; the daemon implements `RecordLog` | `LastBreaks` |
| `ProtocolProofs!UnlistedLeftAlone`, `AloneIdentifies` | no protocol on unlisted ports; a thread on its own finds the right one | |
| `...!StaysInStep`, `NothingIsPending`, `AllHeard` | the PostgreSQL, MySQL and FastCGI processors stay in step with the stream however it is cut into writes, leave nothing complete in `wbuf`, and log each message once, in order | `Regular`: the lengths the processors understand; for FastCGI, writes that do not end inside a body |
| `...!ProcessorSurvives`, `RequestsHeardFirst`, `RequestsIsolated`, `ResponsesHeard` | the http server's processor takes no more than it is shown, over a buffer full of old messages, finds each `VERSION`, and `wbuf` is not overrun; a request is logged before it is served, and ends the `read()`; responses are logged when `write()` returns | `CanFollow`: no header is cut, requests have no body, responses have a length or close the connection, no write is larger than `wbuf` |
| `JoinProofs!RightDesignation`, `NumbersApart` | a process is designated to the request it works for; numbers under way do not collide | `Plain`: `Cases = {}` |
| `PageFaultProofs!LogIsTrue`, `StatusKept`, `BitEndsWithProcess` | faults are logged with their true times; `exit()` keeps the status; no bit outlives its process | |
| `BinLogProofs!TypeCorrect`, `RecordsWhole`, `ForksInOrder`, `NothingIsLeft` | buffers stay within `PIPE_BUF`; a connection carries whole records; a child's follow its parent's; `exit()` leaves nothing in the buffer | `~partial` and `~threads` are premises of `WholeRecords` and `NothingLeft` |
| `BinLogProofs!NothingLostOrRepeated` | what a live task has logged is on its connections and in its buffer, each byte once and in order (`Conserved`), also while threads start, fork and exit at once | `~threads \/ ~partial` |
| `BinLogProofs!NeverHarmed` | the library does not end a program whose records fit the buffer | `~overlap \/ ~threads` |

The hypotheses are the ones under which the runs pass; "Runs" says what happens
without them.

### The invariants

*VirtualRead.* `IInv` is `TypeOK` and, while the descriptor is open, `Opened`:
the buffer holds the last `rbuflen` of the bytes the kernel has given (`Holds`);
what the program may have is what the processor has consumed, or all there is
while the processor asks for more (`Released`); the processor's position is that
of `rbufofs`; and what the program has received is the prefix that ends at
`rlastlen` (`Prefix`). `PpAligned` alone is not preserved, since `buf_shift`
moves bytes whose place only `Holds` knows, and `present_pp` keeps it only
because `Released` says that nothing behind the boundary is owed. There is one
lemma for each function of `vfd.c` (`ShiftLemma`, `FillLemma`, `PresentLemma`,
`RetLemma`), one for each way through `virtual_read()`, and `ReturnLemma` for
their common end. `Claimed` is the other way out: a program that was aborted had a
processor that claims more than `kread`, the bytes the kernel has given. `IInv`
does not speak of a closed descriptor beyond its types,
because `close()` leaves old values that `vfd_tab_init_one()` clears.

*SelectCache.* For each thread, `Good`: it asks for, sets and clears bits of its
own descriptors only (`Local`); a buffer that holds bytes is not about to lose
its bit (`Bytes`); `Wake` and `Real` follow a bit from the step that owes it
(`toset`), through the cache, to the thread that is on its way to report it.
`NoLostWakeup` says nothing of a thread that is half way through
`virtual_read()` or a scan, so it is not inductive. What one thread does leaves
the `Good` of another alone, but for the word that an unlocked `FD_CLR` stores
back, and there `raced` is set. For `ConnectSeen` there is `Seen`: a descriptor that
was connected again and has left `in_prog` has its processor, or a thread between
the halves of `connect_event()`, and before that nobody has initialised it.

*FdTable.* A wrapper is two halves, so the invariant says what the second may
rely on: a call under way has its descriptor to itself (`Calls`); a file is in
use as long as a descriptor refers to it (`Opened`); the state an entry owns is
the one it points to (`Entry`), nobody else's (`Distinct`), and somebody's or
lost (`Kept`); and, between calls, the entry has the processor of the file's
service (`Settled`).

*LogD.* `AInv` holds whatever breaks: `b_end` and `avail` share out the buffer,
and a buffer that starts with a whole record is the one that is being served
(`Room`), which is not yet that there is room, since garbage has any size; no
two descriptors have one connection (`Peers`); and there are descriptors for all
connections that wait (`Places`), without which `accept()` would have none to
give. `BInv` is about the bytes: what is in the buffer of a descriptor, followed
by what is in its socket, is what comes next of that connection in the log,
record after record up to the last one sent (`Stream`, `Carried`), however
`read()` has cut it. It needs `LastBreaks` (nobody connects after a connection
broke, as in the run): `b_end` of a broken connection is not reset
(`logd.c:322`), and a client that gets its descriptor would have the rest of a
record before its own. `AlwaysRoom` follows (`RoomLeft`): a buffer of `BInv`
starts with a header, so that less than a record is left in it after a round.
That every step of the daemon is one of `RecordLog`, or none, follows too: a
record that `transfer_out` writes is the next one of its connection.

*Services.* While a caller is alone (`Alone`), the protocols before the one it
looks for are not those of the port (`Search`), and what `getportbyname()` is
about to return is what the files say. With several callers only `ServListed`
is left: whatever is in the shared `serv` was in a file.

*Framing.* `FInv`: `wbuf` is the end of what was written (`Window`); the
processor, unless it is done for good, expects some message k exactly `st.todo`
bytes on, and its flags fit (`Synced`, `Expects`); it is deaf if and only if a
FastCGI output was begun (`Deaf`); between two calls `wbuf` holds less than a
header, or a query that is not complete (`Idle`); where bodies are not split, no
write ends inside one (`Cut`). `InStep` alone says where the
next header is, but not that the flags will make the processor read it as one;
`HeardAll` needs both. Each step is one of three, asking for more, taking a part
of a body, taking the header of message k (`Asks`, `TakesBody`, `TakesHeader`),
and there is one lemma that each processor's answer is of one of these forms and
one that each form preserves `FInv`. This is where `Regular` is needed: without
it an answer is of none of the forms, in the three ways "Runs" lists.

*Http.* `HInv`: the first `buflen` cells hold the last bytes given, in order
(`Numbered`), and no header is cut (`Uncut`); what is heard is 1, 2, ...
(`InOrder`), and a processor that follows stands `st.toread` bytes before the
next message, one that does not has just heard a message that blinds it
(`Place`). Behind `buflen` nothing is said: those are old bytes, into which
`strstr()` runs. That it stops before them, at the header the processor waits
for, follows from `Place` and `Uncut`: the whole of it is there. The same gives a
request its `VERSION`, and `Modes` that `wbuf` is empty between two writes, so that
one that fits into `wbuf` does not overrun it.

Both models number the bytes of a stream (`Stream`), and where message k begins
(`StartOf[k]`, in `Http` `HeaderStart[k]`) is a recursive function. The facts
about it (it exists, it is the sum of the lengths before k, and grows) are
proved for streams of every length, by induction in the form that a set of
numbers which is not empty has a least element (`Least`, `Induction`, `Sums`,
`OffsetOrder`): the counterexamples to a statement are such a set. TLC checks
that the values of the runs satisfy the hypotheses: `Regular` is an `ASSUME` of
`MCFraming`, and `CanFollow` is `Cuts = FALSE`, `ReqBodies = {0}`, no `"none"` in
`Kinds` and `LargestWrite <= VBUFSIZE`, as in `Http.cfg`.

*Join.* A request has an identity from the moment the joiner sees it arrive, and
no two have the same (`Identities`); until then it is in the server's inbox
(`Clients`). `Busy` follows a process from `PP_MSG_RECV` over `SYS_READ` to
`PP_MSG_SEND`, a child from `fork()` to its record. `Talk` is the way of a
question and its answer: nothing is under way, or there is one request at the
backend and it is asking, thinking, answering or being read (`Turn`), with
`c_conn` naming it once the message is logged. The counters of the two ends are
kept apart in it, `nBack = nFront + 1` or, while the question is out,
`nBack = nFront`; this is what makes `InFlight` true, since an answer's number
is then larger than any question's so far. `Numbers` bounds the counters by the
requests begun.

*PageFault.* `Bits` relates the bit of a process to its life; `Records` says
that pf, going on from `last_tvs` through the relay buffer, will take the right
entry for the beginning of each fault (`Chain`), and that no fault is told of
twice (`Once`).

*BinLog.* There are four invariants, each on top of the first. `AInv` says
which lists of steps a task can have: those of a call (`Plain`), of `exit()`
(`Exits`) and the rest of `logd_init()` and `alloc_ctx()` (`Starts`); that the
buffer is empty after a flush (`Listed`); and that a connection and a
descriptor are left for each thread about to make one (`Room`, `Descriptors`).
`BInv` is about the descriptor through which records leave. While a process
runs, the `ctx->fd` of each of its threads is `LOGD_FD` and leads to the daemon,
and the one thread that starts has come as far as `Phase` says (`Running`); when
it has asked to exit, some thread is on its way out (`Ending`). Since `logfd` is
one variable per process, this needs that threads do not start or exit at once
(`Tidy`), or that there are none (`Single`). `CInv` is about the bytes: buffers
and, without short writes, connections are whole records (`Whole`), and each
record a task has logged is on a connection or still to be written from its
buffer (`Logged`). So a `fork()`, which comes after a flush, finds all of them
on connections, and no later step takes a byte away.

`DInv` is about the order of the connections. `Conserved` says of a task that
its bytes ascend on each connection and from there to its buffer
(`Ascending`), that one of any two connections comes before the other
(`Earlier`), and that each record is there from its first byte to its last
(`Complete`). A `write()` appends to the connection behind `ctx->logfd`, so this
one must be the latest the task has come to use (`Newest`). Other threads change
what is behind it at any time: `LOGD_FD` is made to lead to what the global
`logfd` leads to, so that must be the same connection or one the task has never
written to (`Following`). It is, for `logfd` only comes to name a fresh socket,
`LOGD_FD` or nothing. A task in `logd_init()` has written nothing yet and may
end up on any connection, but for the one that `exec()` has left; that one has
its process to itself until it is done (`Joining`, `Alone`). Unlike
`NeverHarmed`, none of this needs threads to keep apart: where two of them spoil
each other's `logd_init()`, the program may end, but records are neither
repeated nor out of order. Without short writes an `lb_flush()` fails before
its first byte or not at all, and without threads it never does
(`FailingFlush`), so that `exit()` does not flush again what has been written.

### What is only model-checked

* Liveness (`Delivered`, `Served`, `EventuallyLogged`): fairness and `ENABLED` are
  beyond the prover.
* `TypeOK` of `SelectCache`, `FdTable`, `LogD` and `PageFault` is proved (`TypeCorrect`)
  and needs no run of its own. That of `Http` and `Join`
  is for the reader; TLC passes it when it is added to the `.cfg`.

## Not modelled

* Named pipe mode of `logd`: the library is built for sockets, and the same
  functions serve one descriptor.
* The bytes of `sendfile()`, which the code does not show to a processor (the
  call is commented out, `vfd.c:1244`), so that the next `write()` is taken for
  the body; `MSG_PEEK` and other flags, `recvmsg`, out-of-band data.
* Lengths of 0 and of 2^31 or more in `read()` (`vfd.c:898`); in `VirtualRead`, a
  processor that takes 0 bytes (`Framing` has the one that does).
* Bytes in the buffer of a descriptor that is duplicated (the copy does not have
  them) or inherited by a child (both have them); the mode of a file that
  `open()` creates, which the wrapper drops (`vfd.c:800`).
* Short writes of the daemon to its file (`logd.c:97`), and running out of
  descriptors (`logd.c:296`).
* The http client, X, perl and trivial processors: they take what they are shown
  whole and keep at most a counter.
* Identification by socket path or program name, parsing of services files.
* In the aggregator: threads, `exec`, streams of `dup` and `pipe`, resource
  usage, the parsing of records and the database; records of two machines whose
  clocks differ, or with equal time stamps (`db.ml:104`).
* `pfdura.c`, which prints what `pf.c` logs, and the relay channel itself; a pf
  that goes on with the buffer of a module that was unloaded reads nothing more.
* The legacy `trace.c`, which no Makefile builds, macros in `wrap.h`, `min.c`, a
  smaller build of the same wrappers, and the readers of the log file, which
  print it.

## Plan

Done: all modules above, the two refinements and their proofs, and every safety
property that a passing run checks, proved for every value of the constants
under the hypotheses in "Proofs". The liveness properties stay with TLC.
