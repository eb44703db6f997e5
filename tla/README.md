# Verification of the UNIX_SysProg programs

TLA+ models of the programs of this repository, the TLC configurations that
check them on small instances, and TLAPS proofs of what holds for every
instance.  The repository (`src/`) is a set of independent C programs written
for a course.  Modelled are the DHCP-like pair `mydhcp`, the FTP-like pair
`myftp`, the shell `mysh`, the simulator of a buffer cache `buffer`, and
`dijkstra`.

## 1. Inventory

| Part | Source | State | Operations | Talks to |
|---|---|---|---|---|
| mydhcp server | `mydhcp/mydhcpserver.c` | address pool, one record per client, pending alarms, stop flag, `client_ptr` | read the configuration; a pass of the loop for each kind of datagram; the two timer scans; the drain | clients by UDP, signals |
| mydhcp client | `mydhcp/mydhcpclient.c` | state, ttl and its start value, tout, address, four flags | a pass of the loop for each kind of datagram, for a signal, for a timer | server by UDP, signals |
| mydhcp messages | `mydhcp/common.h` | – | twelve bytes: type, code, ttl, address, netmask | |
| buffer cache | `buffer/buffer.c`, `blockfunc.c` | twelve buffers with flags, four hash lists, the free list | `init_buf`, `_getblk`, `_brelse`, `_set_stat`, `_reset_stat` | commands |
| buffer commands | `buffer/command.c` | – | parse a line, call the above, print | the user |
| myftp server | `myftp/myftpd.c` | the parent's place and `sigint_flag`; per connection a child with `stop`, `sigterm_flag`, `first_data` | accept and fork; quit, pwd, cd, dir, get, put; SIGINT, SIGTERM, SIGCHLD | client by TCP, signals |
| myftp client | `myftp/myftpc.c` | the prompt or the call a command waits in | the same commands, and the local ones; the receive timeout | server by TCP |
| myftp transfer | `myftp/common.c` | `first_data` | `send_msg`, `list_dir`, `send_file`, `recv_file` | both ends |
| mysh execution | `mysh/execline.c` | process groups, pipes, `fpid`, the foreground group of the terminal | fork, pipe, dup2, wait; the SIGCHLD handler | children |
| mysh command line | `mysh/parseline.c` | – | characters to tokens to the blocks of a line | |
| dijkstra | `dijkstra/dijkstra.c` | `Nprime`, `D`, `p` | check the matrix; the distances from each node | |
| mycp, getargs, tcpcli, udpcli | one file each | – | a loop each | |

What is hard about them, and what makes each part correct:

- **mydhcp server.**  One thread, but signals arrive anywhere; timers are only
  looked at in passes without a datagram; datagrams are lost, late and
  duplicated; `client_ptr` outlives a pass.  Correct: no address is lost or
  given twice; leases are bounded by the configuration; records only move
  forward; silent clients and unextended leases end; a stop signal ends it with
  the pool complete.
- **mydhcp client.**  OFFER and ACK are stored before the state is looked at.
  Correct: the lease is only prolonged by an ACK; each message is repeated once
  at most; waiting, unextended use and a signalled process end.
- **mydhcp as a system.**  The two clocks of a lease start at different moments.
  Correct: what a client uses is leased to it, except for a bounded time at the
  end of a lease, and every address comes back.
- **buffer.**  Sequential; long sequences of commands on intrusive lists with
  four pointers per buffer.  Correct: the lists are what they should be, no null
  pointer is followed, a block is in one buffer, used or dirty buffers are not
  given away, the order is least-recently-used.
- **myftp, a connection.**  The client forgets an answer after a second, the
  stream does not; nothing marks the beginning of a message; either side can
  fail in the middle of a transfer; send blocks.  Correct: an answer is read by
  its command unless something was late or failed; files are not mixed as long
  as the child has not taken a body for a header; a transfer that ended is
  complete; commands return; the child ends after its client.
- **myftp, the server processes.**  One wait per SIGCHLD while SIGCHLDs merge;
  SIGTERM against a test of a flag and a call that it may not interrupt.
  Correct: the wait does not hold up the parent; connections are served; after
  SIGINT the parent forks once more at most, and a child that SIGTERM has
  reached serves one more message at most.
- **mysh.**  The SIGCHLD handler and the foreground wait collect the same
  children; every end of every pipe has to be closed.  Correct: pipes connect
  neighbours, jobs end, the prompt comes when the foreground job is done.
- **dijkstra.**  Unreachable nodes; equal distances; arrays that are used again.
  Correct: the distances are the shortest, the predecessors lead there.

The `hazards` of `PROJECT.json` give the lines.

## 2. Modules

```
DhcpMessages ── MyDhcpServer   INSTANCE AddressLease  (what the server promises)
      │              └── MyDhcpServer_proofs
      ├── MyDhcpClient ── MyDhcpClient_proofs
      └── MyDhcp       INSTANCE MyDhcpServer, MyDhcpClient + network + time
             └── MyDhcp_proofs   INSTANCE MyDhcpServer_proofs, MyDhcpClient_proofs
BufferCache            INSTANCE BlockCache        (what the cache promises)
      └── BufferCache_proofs
FtpStream ── MyFtpc, MyFtpSession
      └── MyFtp        INSTANCE MyFtpc, MyFtpSession: the two ends of a connection
             └── MyFtp_proofs
MyFtpd ── MyFtpd_proofs
MyShLine ── MySh ── MySh_proofs
Dijkstra ── Dijkstra_proofs
MC*                    finite instances
```

**DhcpMessages** – the datagram.  Types and codes are names; a netmask is one of
three classes; a ttl keeps its 16 bits.

**MyDhcpServer** – one action per kind of pass of the loop of `main`.  A pass is
atomic because the program is single-threaded and its handlers only set a flag:
what a signal changes is `alarm_flag` and `stop_flag`, which is what
`sigalrm_handler` and `sigint_handler` do at any point between two steps.  The
iterations of the two timer scans and of the drain are steps of their own, so a
signal can fall between them.

| Action | Code of `main` |
|---|---|
| `read_config` | lines 24–27, 215–259: the ttl test, the pool |
| `InterruptedByAlarm`, `InterruptedByStop` | `recvfrom` fails, the pass goes to the scans |
| `RecvKnown` | a datagram of a client with a record: `get_event`, `FSM_func` |
| `RecvNew`, `RecvNoIp` | a DISCOVER without a record, with and without a free address |
| `RecvStranger` | any other message without a record: `client_ptr` is the list head |
| `RecvUnknown` | a datagram of another length: `client_ptr` is what it was |
| `RecvEmpty` | a datagram of length zero |
| `TtlTimeout`, `TtlScanned`, `ReqTimeout`, `ToutScanned` | lines 61–78 |
| `Drain`, `Drained` | lines 82–88 |

`FSM_func` looks its row up in `pstab`, a set of triples copied from the table
of the header; each function of the table is an operator with the parameters
`p` and `cl`, the pool and the records at the point of the call, because a pass
first counts the timers, may create a record and stores a ttl before the
function of the row runs.  `sa_restart` is chosen at the start: `signal_conf`
leaves `sa_flags` uninitialized.  Abstracted: the list of records is a function
from endpoints and its order is open; a counter stays at zero; all configured
addresses have the same netmask; printing.

**AddressLease** – the promise: an address is free, promised to one endpoint, or
leased to it; it changes hands only by being free; an endpoint has at most one.

**MyDhcpClient** – the same for `mydhcpclient.c`; the global variables are the
fields of one record per process.  `IdlePass` is the `else` branch chain of
lines 53–68 in its order: SIGHUP, SIGINT, half of the ttl, message timeout, end
of the ttl.

**MyDhcp** – server and clients with a network and time.  `net` is the set of
datagrams in flight; `Deliver` picks any one (reordering), keeps it or not
(duplication, when `Duplicates`), and `Tick` ages them and drops those that are
older than `MaxAge` (loss; one that is never delivered is lost).  `Tick` is a
second: it is enabled when every process saw its timer, in either of the two
ways a process can see it (`recvfrom` interrupted, or the flag raised while it
works).  `alarm_flag--` (`mydhcpserver.c:40`, `mydhcpclient.c:46`) is a read and a
write, and a SIGALRM between the two is lost.  In MyDhcpServer and MyDhcpClient
that is a SIGALRM that does not come, which their safety properties allow, and
their fairness asks only for those that interrupt `recvfrom`.  The times of MyDhcp
assume that none is lost: a client that lost one would use its address for a
second more.

**BufferCache** – the pointers themselves.  `hash_list` and `free_list` are
records of the functions `fp` and `bp`; `InsertTail`, `InsertHead` and `Unlink`
are the four assignments in the order of the code.  The loops of `init_buf` and
`_getblk` are one step per iteration, the other commands one step each.
`search_hash` returns a buffer among the nodes a walk from the head visits,
which are defined as the members of every set that holds the head and is closed
under `fp`.  Flag K, which nothing reads, and printing are left out.

**BlockCache** – the promise: buffers hold distinct blocks; a sequence of free
buffers; hits take a buffer out of the sequence, replacement takes its head if
it is clean, a dirty head is taken away to be written, release puts a buffer at
either end.

**FtpStream** – the messages and the two directions of a connection: sequences
of parts.  A part is a header, the body that follows a header whose length is
not zero, or FIN.  Nothing marks the beginning of a message: `recv_msg` takes the
next four bytes for a header, whatever they are.  Who takes a body for a header
is *astray*.  From then on bytes do not fall on the bounds of messages any more,
and those of a file may spell any message, so what is read is any message: the
parts become `Bytes` (`Blur`), a part may be used up or have a rest, which is
`Bytes`, too (`Rests`), and may be too short for what is wanted (`More` of the two
modules below).  A direction holds `Window` parts; `send` waits for room.

**MyFtpc** – the client.  `exec_command` and the commands that use the
connection send a message and then wait in `reply`, `text`, `data`, `block`;
`Timeout` may give up in each of them, also in the middle of a part.  `AfterReply`
has the tests each command makes of its reply, `AfterData` those of the loops of
`dir` and `recv_file`; a client that is astray goes on in any way these tests have
(`Replies`).  `WriteFails` and `ReadFails` are the failures of `recv_file` and
`send_file` that return to the prompt without a word to the server.  `here` is the
length of the local files, which `Shrink` may cut off during a put.  `watched` is
`rdfds` of `main`, which the first `select` overwrites.

**MyFtpSession** – the child: `client_handler` takes a header and calls a
command; commands with an argument read it in a step of their own, and
`HasNoArgument` has the replies for the length 0.  A child that is astray runs any
command with any argument, or none (`Undefined`); what it sends is `Bytes`, what it
writes and to which file is not followed.  `Send` is `send_msg` with its reset of
`first_data`, `send_data` adds OK_RETR before the first packet.  Failures are
actions: `PwdFails`, `DirFails`, `GetRefused`, `GetFails`, `PutRefused`, `WriteFails`,
`RecvFails`, `Sigpipe`.  `Shrink` lets somebody cut off the file that is being sent.

**MyFtp** – both ends of one connection.  `orderly` is a history variable: false
from the first timeout, unanswered or twice answered failure (a failed `write`
is one), or SIGTERM on.  `faults` counts these and the files cut off, against
`MaxFaults`.

**MyFtpd** – the parent's loop (`Test`, `wait_client`, `Fork`, `kill_children`),
the signal handlers, and children that wait for a message and serve it.  A
signal handler is a step that may fall between any two others; it may interrupt
`accept` or `recv` or come just before they are called.  `fork` may fail at any
time, which ends the parent.  `extra` and `late` are histories: the forks of the
parent after SIGINT, the messages of a child after SIGTERM.  SIGCHLD is a flag, since
pending signals merge; `sigchld_handler` is one `wait`, which blocks the parent
(`waiting`) when children live and none is dead.  `restart` stands for the
uninitialized `sa_flags` of a child.

**MyShLine** – `gettoken`, `read_command` and `parseline` as folds over
characters, tokens and blocks.  Next to each fold stands what it should yield,
said without an order of reading: `Tokens` of the characters, `Command` and
`Parsed` of the tokens.  The folds read ahead by remembering where they are
(`at`), which stands for `ungetc`.

**MySh** – the shell, the jobs, each with a leader that runs `exec_recursive`
(`Level`, `Fork`, `Shift`, `WaitStage`) on descriptors `in`, `out` and `pipe`,
and the commands with the descriptors they inherited.  A pipe is named by the
block it was made for; a command that reads a pipe ends when nobody holds its
writing end.  The handler may run at any point of the shell; it waits for `fpid`,
which is 0 at first.  Jobs are killed and stopped by the user.

**Dijkstra** – `value_check`, then for each root the initialization and one step
per iteration of the outer loop, with the scan and the relaxation as set and
function expressions.  `Unreached` is the iteration whose minimum has the index
-1; it reads before the arrays, and the model says nothing of what follows.

Definitions whose comment begins with "Mutant of" are the slips each property
must catch; no specification uses them.

## 3. What TLC checks

| Run | Instance | Shows |
|---|---|---|
| `server_safety` | 3 endpoints (symmetric), 2 addresses, every class of message | `PoolPartition`, `LeaseWithinMax`, `GrantIsBacked`, `RefusedOnlyWhenFull`, `ForwardOnly`, and `ImplementsLease`: the server implements AddressLease |
| `server_live` | 2 endpoints, 1 address | `WaitingEnds`, `LeaseEnds`, `StopDrains` |
| `client` | 1 client, 2 addresses, every class of message | `ProlongedByAckOnly`, `ReleaseEndsUse`, `ForwardOnly`, `WaitingEnds`, `UseEnds`, `StopsOnSignal` |
| `dhcp_overlap` | 2 clients, 1 address, delay of 1 s, ttl 6 | `OverlapBounded` |
| `dhcp_lag` | 1 client, 2 addresses, delay, duplication, one alarm of lag, ttl 6, timeout 5 | `UseIsBacked`, `AddressReturns` |
| `buffer_cache` | 3 buffers, blocks in 2 buckets, flags D and O | `FreeListed`, `WaitedIsLocked`, `GetblkReturns`, and `ImplementsCache`: the pointers implement BlockCache |
| `buffer_any_flag` | 3 buffers, flag L by hand | `HashListed`, `BlockOnce` |
| `myftp` | 1 connection, 2 files of 2 and 0 blocks, 3 commands, 2 faults, room for 3 parts | `InStep`, `PutUnmixed`, `TransferComplete`, `CommandReturns`, `ChildEnds` |
| `myftpd` | 3 processes, 2 waiting connections | `NeverHeldUp`, `AtMostOneMore`, `ConnectionServed` |
| `mysh` | 2 process ids; pipelines of two commands, redirections, & ; lines of up to 5 characters or 6 tokens | `ParsesGrammar`, `Wired`, `ForegroundFirst`, `JobEnds` |
| `dijkstra` | every symmetric matrix over 4 nodes and the costs 0, 1, 3, INF | `Shortest`, `Predecessors` |

`TypeOK` is checked in `server_safety` and `buffer_cache`, and proved for
MyDhcpServer, MyDhcpClient, MyDhcp, BufferCache, MyFtpd and Dijkstra; in MyFtp it
documents the types.

One run expects a violation:

| Run | What happens |
|---|---|
| `dhcp_survives` | the record times out on the server first, the late RELEASE or REQUEST of the client makes it follow a null pointer; `mydhcp/memo.txt:4` says these timeouts were confirmed to work |

Other disagreements between the code and what its documents and messages say,
which were met while modelling and which the models contain:

- RELEASE with a wrong address while in use: `pstab` has a null function there
  (`mydhcpserver.h:49`, action `Crash`); the code prints "continue" first.
- A datagram of a wrong length ends the record of another client, through a
  stale `client_ptr` (`mydhcpserver.c:58`, `RecvUnknown`); the state chart gives
  UNKNOWN MSG as an event of the client it came from.
- An OFFER that arrives while the client uses its address replaces the address
  or stops the client (`mydhcpclient.c:318`, `recv_offer`); the state chart has
  no such transition.
- Because of it a client can go on with an address that is leased to nobody.
  With two addresses and a timeout no longer than the delays, the server drops a
  record, makes another from a late DISCOVER of the same client, and the OFFER
  for it changes the address of a client that has one (`UseIsBacked` fails with
  two addresses, `MessageTimeout = 2` and `MaxAge = 1`).  `Punctual` says when
  this cannot happen; MESSAGE_TIMEOUT is 10 (`common.h:10`), which is enough for
  delays of up to 4 seconds when no process is behind its timer.
- The range test of the ttl is `> 65535 && < 1` and rejects nothing
  (`mydhcpserver.c:228`; `server_live` has a ttl that the 16 bits cut to zero),
  and the index tests of `hash` and `buf` let one index too many pass
  (`command.c:77` and `48`).
- `myftp/memo.txt:5` says that SIGINT ends the server and kills its children.  A
  child that has not come to `signal_conf_child` ignores the SIGTERM
  (`Killed`, state `new`), and one that was told between its test of the flag
  and `recv` stays until its client sends something.  `AtMostOneMore` bounds what
  the parent and the children that SIGTERM reached still do, and says no more.
- A child of myftpd that is stopped and continued, by job control, sends SIGCHLD
  (`Continue`): the parent waits in its handler and accepts nobody until a child
  ends.  `NeverHeldUp` and `ConnectionServed` exclude it by `resumed`.
- After a put that timed out or failed the server may run commands nobody typed.
  Say the first of two puts times out.  The STOR of the second ends the server's
  `recv_file` for the first, and is lost; the client takes the late OK_STOR of the
  first for its own and sends its data; the server reads the name and the file as
  headers, four bytes at a time (`myftpd.c:83`).  Bytes `06 00 00 01` in the file
  are then a STOR of whatever file the next byte names.  The same follows when a
  `write` of the server fails (`common.c:158`, the result is ignored in
  `myftpd.c:331`).  The model has it (`srv.astray`); `PutUnmixed` and the put half of
  `TransferComplete` speak of what is before, and `InStep` says that it takes
  something late or failed.
- `dir` of something that cannot be listed is answered twice (`AfterFailure`);
  the client reads the second answer as that of its next command.
- In mysh a file that cannot be opened in the middle of a pipeline leaves the
  leader waiting with the writing end of the pipe its commands read (`OpenFails`);
  `JobEnds` excludes it by `failed`.
- In mysh a background job that ends interrupts the wait for the foreground job
  (`sigchld_handler`, no SA_RESTART), which then runs on without the terminal;
  these are the jobs in `left`.
- `parseline` takes more than one might want: `a | | b` is a line, `<` at a later
  command gives the file to the first one, and of several `>` the leftmost wins.

**Bounds and why they are enough.** Server: two addresses and three endpoints
are the least in which the pool is empty while an endpoint is refused and in
which an address can change hands past another; timeouts of one and two seconds
are the least in which a tick does and does not end the waiting; one pending
alarm makes ticks fall into passes without a scan. The messages (`Paths`) are
one for each path of the functions of `pmsgtab`, with ttls at and above the
maximum and both addresses. System: the bound `Slack = MaxAge + 2 + MaxAlarm +
(MaxAlarm - 1, but not below 0)` is exact: with one less, `dhcp_overlap` and
`dhcp_lag` are both violated; ttl 6 leaves seconds of use in which the bound
says something, and 5 is the least timeout that is `Punctual` with the delay and
lag of `dhcp_lag` (with 3 `UseIsBacked` fails there). Delay and duplication
together are checked with one client only, where all states can be visited.
Buffer: three buffers are the least with an inner node in a free list, two
buckets the least between which a buffer moves, and with three buffers two
replacements follow each other. myftp: three commands and two faults are enough
for an answer that came too late to meet the next command, or a transfer, and
for what that leaves in the stream to meet one more; two blocks are the least
that can be in the wrong order or broken off in between, the other file is empty
so that a block in it is one too many; three parts are the least room in which a
packet with its OK_RETR fits, so that both sides block as often as they can.
That a part has one rest at most when it is read astray is a bound on how many
messages its bytes can spell; while the child is astray only `ChildEnds` is
checked of what it does. myftpd: three children are the least of which two are
dead while SIGCHLD is pending once and one lives. mysh: two process ids let a
job end while another is waited for, and an id be used again; the one that may
be a pipeline is fixed, since jobs share nothing; six tokens are enough for a
redirection, a pipe and & after each other, five characters for a third `>`
after `>>` and a word between operators. dijkstra: four nodes are the least in which a
distance is lowered twice; the zero makes nodes equally near, INF makes them
unreachable.
`MaxAlarm` bounds `alarm_flag`, `MaxAge` the age of a datagram, `MaxCommands`
the commands of an ftp client, `MaxFaults` what is late or fails, `MaxEntries` a
directory, `Backlog` the queue of `listen`, `MaxStopped` the jobs stopped at a
time, and `late` and `extra` are cut at 2.
`CHECK_DEADLOCK FALSE` is said where the system may really stop: a client of
`myftp` that has sent all its commands while its child waits, and a shell that
is stopped for good.

**Fairness.**  Server and client: weak fairness of the steps of the loop, which
runs whenever it is not blocked, and strong fairness of `InterruptedByAlarm`:
`ITIMER_REAL` fires every second for ever, and we assume that again and again it
does so while no datagram is queued.  Without that assumption a flood of
datagrams starves the timers, which is a property of the code (lines 60–78).
All liveness is stated for the builds in which the uninitialized `sa_flags`
lacks `SA_RESTART`.  `StopsOnSignal` and the client's `WaitingEnds` also assume
that SIGHUPs cease, since each one uses up a pass.  System: time passes, timers
fire and the scans go on; nothing is assumed of the network.  Buffer: a loop
that was entered goes on; the user need not type anything.  myftp: both
processes go on while they can; `CommandReturns` and `ChildEnds` assume nothing
of timeouts, failures or the user.  myftpd: the parent, its handler and a child
that is not waiting for its client go on; clients need not do anything.  mysh:
the shell goes on after a wait, leaders go on, and a command whose input is at
its end ends; a command need not end before, and nobody need kill it.

## 4. What is proved

| Module | Theorem | States | For every |
|---|---|---|---|
| `MyDhcp_proofs` | `UseBacked`, `OverlapsBounded` | `UseIsBacked`, `OverlapBounded` | set of clients, configuration, ttl, delay, lag; loss and duplication; if `Punctual` |
| | `TypeCorrect` | `TypeOK` | the same, `Punctual` or not |
| | `SystemImplementsLease` | `S!ImplementsLease`: the server, among its clients and their network, implements AddressLease | the same, `Punctual` or not |
| `MyDhcpServer_proofs` | `TypeCorrect`, `AddressesPartitioned`, `LeasesBounded` | `TypeOK`, `PoolPartition`, `LeaseWithinMax` | set of endpoints, configuration, timeout, set of messages |
| | `GrantsBacked`, `RefusedWhenFull`, `RecordsMoveForward` | `GrantIsBacked`, `RefusedOnlyWhenFull`, `ForwardOnly` | the same |
| | `ServerImplementsLease` | `ImplementsLease` | the same |
| `MyDhcpClient_proofs` | `TypeCorrect`, `AcksProlong`, `ReleasesEndUse`, `ClientsMoveForward` | `TypeOK`, `ProlongedByAckOnly`, `ReleaseEndsUse`, `ForwardOnly` | set of clients, timeout, lag, set of messages |
| `BufferCache_proofs` | `TypesKept`, `HashListsKept`, `BlocksOnce` | `TypeOK`, `HashListed`, `BlockOnce` | number of buffers, of hash lists, first contents, flags of the user |
| | `FreeListKept`, `CacheImplemented` | `FreeListed`, `ImplementsCache` | the same, without L among the flags |
| | `GetblkShortens` | `IterationShortens`, the safety in `GetblkReturns` | the same, without L |
| | `WaitersInUse` | `WaitedIsLocked` | the same, without L and W |
| `MyFtp_proofs` | `PutsUnmixed`, `StreamsInStep`, `TransfersWhole` | `PutUnmixed`, `InStep`, `TransferComplete` | set of files, sizes, window, number of commands |
| | `NeitherStuck` | `OneGoesOn`, the safety in `CommandReturns` | the same |
| `MyFtpd_proofs` | `HandlerReturns`, `OneMore` | `NeverHeldUp`, `AtMostOneMore` | finite set of children, backlog |
| `MySh_proofs` | `PipelineWired`, `ShellInFront` | `Wired`, `ForegroundFirst` | set of process ids, lines |
| | `GrammarParsed` | `ParsesGrammar` | the same |
| | `TokensGot`, `CommandRead`, `LinesParsed` | its three parts: `gettoken`, `read_command`, `parseline` | line of characters, of tokens |
| | `PipelineNeverStuck` | `NeverStuck`, the safety in `JobEnds` | set of process ids, lines |
| `Dijkstra_proofs` | `DistancesShortest`, `PathsFollow` | `Shortest`, `Predecessors` | number of nodes, INF, set of matrices |

All start from the named assumptions of the modules they are about; six name
a further one in their statement, which the run of the property meets, too.  The
safety in three liveness properties is a theorem: `IterationShortens`,
`OneGoesOn` and `NeverStuck` say that a loop uses something up, or that somebody
can go on, in the guards of the actions; that whoever can go on does so is
fairness, and that the property follows is left to TLC.

**MyDhcp.**  The invariant is `Contents` and `Joint`.  `Contents` says what the
parts hold by themselves: the invariant of the server (it is taken, with the
lemmas about its steps, from `MyDhcpServer_proofs`), processes whose address and
ttl come from the configuration, and datagrams that only say what the two
programs say.  `Joint` says of each client that runs what its process, its record
and its datagrams in flight have in common (`Agree`).  That an address in use is
leased (`UseTime`) is not inductive by itself: the address is leased when the
client *begins* to use it only if an ACK in flight is backed (`AckTime`), and it
stays that address only if no other can be named: neither by what is in flight
(`OneAddr`) nor by what the server makes of a late DISCOVER after it dropped the
record (`Single`).  With one address the first holds for lack of another; with
several, the record has to outlive the DISCOVERs (`DiscoverTime`) and its OFFERs
(`OfferTime`).  All times are counted in seconds that are left, less the alarms
that are pending or due, so that the order in which the two timers fire within
a second does not matter; a datagram spends `age`.  Each step is reduced to what
it does to one client's `Agree`: the record is kept, leased, made, offered again
or ended; the client goes on without an OFFER, takes one, goes on with its
address, or exits; a second passes.  `SystemImplementsLease` needs none of that: a step of the
whole is a step of the server or leaves its records alone (`ServerSteps`), and
`Contents` holds the invariant from which the server's steps map to AddressLease.
The attempt to prove `UseIsBacked` with the bound
`MaxAge + 2 + MaxAlarm` and for any timeout failed twice for good reasons: with
two alarms of lag the bound has to count those that were left to the server when
it answered, and with two addresses the timeout matters.

**MyDhcpServer.**  `TypeOK` is inductive.  `PoolPartition` is inductive together with `TypeOK`:
it needs the pool to be without repetition, no held address to be in it, no
address to be held twice and none to be missing, all four, because fetching
from the head and appending at the tail each disturb several of them.  The
records change only through `change_state` (which keeps the address) and
`terminate` (which gives it back), so there is one lemma for each of these two
and for the timers and `Noted`, which change no address, and one step for each
action that names the lemma it uses.  `LeaseWithinMax` needs a stronger
invariant: `ttlcounter` is *not* bounded, since `recv_request` stores it before
it rejects the request; the proof shows that a record becomes in use only in
steps whose REQUEST was accepted.  `GrantIsBacked` follows from the partition
after the step, since each function of `pstab` names the address of the record
it leaves in the list (`FSMGranted`); `RefusedOnlyWhenFull` from the partition
with an empty pool; both are about `sent`, which a signal leaves alone, so they
are carried as an invariant.  `ForwardOnly` goes over the rows of `pstab`; what
happens to a record before the transition function is called (a tick, `Noted`)
changes neither its state nor its address.

**Server and AddressLease.**  A step does one of four things to the records
(`Change`): none, one lease starts, one record ends, one begins.  With the
partition `HolderOf` chooses among one endpoint at most, so these are a stutter,
`Lease`, `Return` and `Promise` of one address.  The partition is what makes the
mapping work: a record that begins takes an address that nobody holds.

**MyDhcpClient.**  A pass of the loop is summed up once: what the alarm block
leaves of the process (`AfterAlarmProcess`), what the row of `pstab` for the event
then does and sends (`FSMOutcome`), and what a signal, an interrupted and a heard
datagram amount to (`NextIs`).  The three action properties are then read off
that summary.  For `ReleaseEndsUse` that is one direction (`NextReleases`: who sends
RELEASE was told to); the other starts from the flag (`HupReleases`): in both
states of use `pstab` has a row for SIGHUP, and a pass without a datagram looks
at it before all else.  `ForwardOnly` needs that a process that did not start is in state
init.

**BufferCache.**  The invariant sees a list as a ring: a set of nodes, with the
head, in which `next` and `prev` are inverse to each other and which `next` goes
around in one cycle.  That inserting at either end and unlinking keep a ring,
and leave every other alone, are the lemmas of the first part.  `HashInv` says
that the ring of a hash list is its head and the buffers of its blocks, so that
moving a buffer is unlinking it from one ring and inserting it into another,
and `search_hash` finds a block if a buffer has it; hence `BlockOnce`.  `FreeInv`
says that the ring of the free list is its head and the buffers without L,
which is why L must not be set by hand; `WaitInv`, for `WaitedIsLocked`, is about
the same flag and W.  A ring is a set; for `ImplementsCache` the order counts.
`Listed` says that a sequence of distinct buffers is the way `fp` goes through
the ring; there is one such sequence at most (`FollowsUnique`), so `Order` is
well defined, and inserting and unlinking append to it, put in front of it, or
leave one element out.  `OrderInv` adds to `FreeInv` that the free list has such
a sequence, and that no buffer is marked for delayed write while `init_buf` runs,
which `Fill` promises.  The steps of `init_buf` then map to `Clear`, its last to
`Fill`; `Hit`, `WriteBack`, `Replace` and `Release` to their namesakes; a flag that
the user sets to `Mark`; and all others to no step.  The sequence is also what the
loop of `_getblk` uses up: an iteration that does not return is a `WriteBack`,
which takes its head.

**MyFtp.**  `PutUnmixed` holds although client and server may be out of step, as
long as the server is not astray, because the stream itself is in order: `Chained`
says that what follows a STOR in it is a name, its blocks in order and perhaps
the last packet, before anything else, and `Stream` that the server's place in a
put and the client's place in its own are the two ends of such a chain.  Both
are asked for only while the server is not astray (`PutInv`): a step that takes a
body for a header ends that, and there is no way back.  `PutInv` needs no
`orderly`, and `Expected`, the part about the server, is the half of
`TransferComplete` that is about a put.  A file that is cut off while it is put
makes the client send empty packets (`CutOff`), and then no last packet comes.
`InStep` does need `orderly`: `Phase` lists the eight ways in which the two
processes and the two streams can stand to each other while every command is
answered once (`Idle`, `Unread`, `Argued`, `AnsweredAtOnce`, `FlowBegins`, `TextSent`,
`Flowing`, `Putting`), and each step leads from one to another; `Packets` is the
form of what is under way in a transfer, the same for both directions.  The
server may still read the end of a put when the client sends the next command,
so even `Idle` has packets in a stream.  For a get, `Continues` says that what is
in the stream goes on where the client stopped writing and that the server's
position is where it ends; if the file is cut off, only empty packets follow,
and then no last packet comes, except from a server that opened the file
after that.  `OneGoesOn` is read off `Phase`: in each of the eight ways either one
of the two finds a message, or the streams are short enough for the one that
sends.  It also needs that neither is beyond the end of what it sends, which
`Stream` says of the client and `Bounded` of the server.

**MyFtpd.**  `NeverHeldUp` speaks of dead children and one pending SIGCHLD, and
is inductive with `TypeOK`: a handler run takes one dead child away and the
pending signal with it, and only a death or `Continue` makes it pending again.
`AtMostOneMore` is not inductive; it needs that a child with `late = 1` is at its
test with the flag set, or dead (`Told`), and that a parent that has forked after
SIGINT is at its own test with the flag set, or beyond it (`Looks`).

**MySh.**  `Wired` is about commands that were forked at different times from a
leader whose descriptors change between the forks.  `Placed` says where the
leader is on its way from the last command to the first and which pipe its
output then is; `Connected`, that each command has what the leader had.  `FgInv`
says that a job runs in the foreground only if the shell waits for it or left it.
`NeverStuck` rests on a second invariant of the leader, `Flow`: descriptors lead
to the right only (the output of a command is a pipe of a later block), the
leader waits once for each command it started, and by then it has closed every
pipe but the one that nobody reads.  So if every command reads a pipe somebody
writes, take the leftmost that runs: its writer would run further left.

`ParsesGrammar` is about folds over lines of any length.  The library's induction
with a parameter cannot be used (see below); the proofs take the least position
at which the statement about the prefix fails (`NatSetMin`), and `FoldLoop` gives
the folds of the community modules as loops.  `gettoken` and `read_command` read
ahead, so their loop invariants (`Scanned`, `ReadTo`) speak of a prefix and of what
is remembered for `at`; `Without`, which leaves out the characters and tokens that
count for nothing, has a lemma for each way to lengthen a sequence
(`WithoutAppend`, `WithoutPrefix`).

**Dijkstra.**  The invariant has `Settled` (N' is nearer than the rest, and every
edge that leaves N' has been used) and `Reachable` (no feasible distances are
larger than `D`).  An iteration takes the nearest node m; nothing in N' is
farther than m and costs are not negative, so no node of N' can still be
lowered, which is what the code relies on when it relaxes the others only.  At
the end N' holds all nodes, or the rest is at INF: then every edge into it is
longer, and `Settled` is feasibility of `D`.

Only model-checked: liveness under fairness, which is outside the prover's
reach (`WaitingEnds`, `LeaseEnds`, `StopDrains`, `UseEnds`, `StopsOnSignal`,
`AddressReturns`, `GetblkReturns`, `CommandReturns`, `ChildEnds`,
`ConnectionServed`, `JobEnds`).  Every invariant and action property that a passing
run checks is a theorem, too; `IterationShortens`, `OneGoesOn` and `NeverStuck` are
theorems only, since the runs check the liveness they belong to.  The
library's induction theorems take an operator as a parameter and cannot be
instantiated, which is why the proofs that need induction go by least
counterexamples.

## 5. Not modelled, and the plan

Not modelled: the splitting of a token or a line into arguments (`getargs`, in
five programs), configuration lines, printing and the commands that only print,
`addr_pool`'s capacity, the tables of message names, a server that restarts
while its clients go on, a SIGALRM lost in `alarm_flag--` as far as MyDhcp counts
seconds, `read_config`'s paths, a `send` of myftp that a signal cuts short, what an
ftp client or child that is astray writes and into which file, the search of
PATH, SIGCONT and signals to single
commands in mysh, and `mycp`, `getargs`, `tcpcli` and `udpcli`, which are a loop
or less in one process.

Next would be, in the model: a server restart in `MyDhcp`, which has clients with
leases the new server knows nothing of, and the arguments of a command line.
