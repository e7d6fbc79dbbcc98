# diald-top: TLA+ models, checks and proofs

diald-top shows what the dial-on-demand daemon *diald* is doing. The repository
holds a curses client (`client/`), a server that lets clients on other machines
share one diald (`server/`), and a small library of thread and semaphore
wrappers (`client-lib/`). This directory models the three, checks them with TLC
on small instances and proves some of the results for all instances with TLAPS.

`tlc -config X.cfg M` runs a check, `tlapm M.tla` a proof. `PROJECT.json` lists
every run, the lines of source every definition models, and the hazards the
properties are for.

## 1. The system

```
  diald  --monitor FIFO-->  diald-top-server  --TCP-->  diald-top (client -r)
    ^----control FIFO-----        (one process)   <--TCP---     |
    ^---------------- control FIFO, monitor FIFO ------- diald-top (local)
```

### Server (one process, one `select()` loop, one signal handler)

| part | source | state | operations |
|---|---|---|---|
| descriptor selection | `selection.c`, `fds.h` | three `thread_fds_t`: watched set, count, maximum, ready set | `mux_fds`, `do_select`, `demux_fds`, `adjust_maxfd` |
| port daemon | `port-daemon.c` | `s_in`, `s_ident` (statics) | `port_daemon_init`, `accept`, ident query and `reap_userid`, authentication, `port_enqueue` |
| port queue | `port-queue.c`, `ports.h` | list `pq`, `fds->ps`, flags of each client | `port_enqueue`, `close_port`, `port_server`, `parse_incoming` |
| FIFO server | `fifo-server.c` | `monitorfd`, `controlfd`, `monitorcount`, `fds->fs` | `fifo_server_init`, `monitor_open`, `monitor_close`, `fifo_server` |
| authentication | `authenticate.c`, `conffile.y/.l` | list `aq` of user, address, mask | `auth_add`, `auth_check`, `read_conf`, `reread_conf` (SIGHUP), `reauthenticate_users` |
| main | `diald-top-server.c` | where the process is | `detach_process`, start, dispatch, SIGINT, SIGTERM |

The parts share state without any discipline but the order of calls: the list,
the descriptor sets and `monitorcount` are written in several files; a client
sees the parts in the order accept, ports, FIFO within one round, with a ready
set computed before the round. The SIGHUP handler runs between any two system
calls and rewrites `aq` and the flags of every client. Hard to test, therefore:
what a signal meets half way; descriptor numbers that are reused within a
round; hang-ups in the middle of the fan-out; running out of descriptors or
memory in the middle of an admission; a peer (diald at the control FIFO, an
ident host, a client that does not read) that keeps the only process waiting.

What makes it correct: the three views of the clients agree; every descriptor
belongs to whom the server thinks it belongs; the process never blocks where
`select()` was to prevent it; every ready client is served once; a message of
diald's reaches every subscriber once; commands come only from authorised
clients; rights follow the configuration; clients are admitted and reaped.

### Client (one process, a parser that reads ahead, three kinds of signal)

| part | source | state | operations |
|---|---|---|---|
| main loop, keyboard | `diald-top.c`, `screen.c` | options, `quit`, `resize_event_p`, `atexit` list | `read_command_line`, `main`, `parse_keyboard`, `helpscreen`, signal handlers |
| monitor pipe | `pipe.c` | the FIFO or socket | `init_fifo`, `validate_command`, `fifo_command`, `read_fifo`, `close_fifo` |
| scanner and parser | `monitor.l`, `monitor.y` | scanner buffer and start condition, `yacc_block`, `yacc_eof`, the parser's stack | `yy_nolog_input`, one rule per message, error recovery |
| display | `parser.c`, `screen.c` | `scrbuff`, `numbuff`, `LINES`, loads, `curr_state` | `do_state`, `do_load`, `do_queue`, `do_packet`, `screen_init`, `do_screen_resize` |
| names | `resolve.c`, `hostrec.h` | hash chains of host records with times | `resolve`, `gettab`, `probetab`, `truncate_hostname` |

Hard to test: messages read ahead and left in the scanner's buffer while main
waits for the descriptor; keys and resizes that arrive inside a queue; a resize
between two packets; the signal that falls between a test and a reset; input
that stops for half a second inside a message, or into which the server has
written a message of its own, and what the grammar makes of the rest.

### Library

`semaphores.c` has a pthread build (mutex, condition variable, counter) and a
semget build; `thread.c` and `shared_memory.c` are wrappers nothing calls.

## 2. Modules

| module | models | builds on |
|---|---|---|
| `Selection` | descriptor sets as records with sets of descriptors | |
| `PortQueue` | `pq` (a sequence, newest first), `ps`, `monitorcount`, every operation on them; `PQSpec`, the table on its own | `Selection` |
| `World` | external: descriptor table, TCP clients that send, hang up and stop reading, diald and its FIFOs | `PortQueue` |
| `Process` | program counter, `pd`, `fs`, `controlfd`, `s_in`, dispatch of main, `sigint` | `World` |
| `FifoServer` | the monitor pipe and the fan-out | `Process` |
| `Authenticate` | the configuration file, `auth_add`, `auth_check`, the reload, its race with `auth_check` | `FifoServer` |
| `PortDaemon` | admission of a client, a step per system call | `Authenticate` |
| `Server` | start, select loop, `port_server`, commands; `Next`, properties | `PortDaemon` |
| `MCServer` | instances for TLC, a later initial state for the fan-out | `Server` |
| `SequenceFacts` | lemmas about extrema, sequences and sequences in order | |
| `PortQueueProofs` | theorems about `PQSpec` | `PortQueue`, `SequenceFacts` |
| `ServerProofs` | types, descriptors, `Server` implements `PQSpec` | `Server`, `PortQueueProofs` |
| `ServiceProofs` | the loops, the reads, the rights, the fan-out | `ServerProofs` |
| `Display` | buffers, link state, loads, hash chains and names, one operator per message | |
| `DisplayProofs` | theorems about `DisplaySpec`, the display on its own | `Display`, `SequenceFacts` |
| `Client` | options, main loop, keyboard, the scanner's buffer, `read_fifo`, signals; `Next`, properties | `Display` |
| `MCClient` | instances for TLC | `Client` |
| `ClientProofs` | theorems about the loop, `Client` implements `DisplaySpec` | `Client`, `DisplayProofs` |
| `Feed` | what the display relies on: each message is shown once, as what it is, with two exceptions | |
| `Monitor` | tokens, grammar and error recovery of `monitor.l`, `monitor.y` on a line with pauses and spliced messages | instance of `Feed` |
| `MCMonitor` | instance for TLC | `Monitor` |
| `MonitorProofs` | theorems about `MonitorSpec`, `Monitor` implements `FeedSpec` | `Monitor` |
| `Semaphore` | the pthread build | |
| `MCSemaphore`, `SemaphoreProofs` | instance for TLC, theorems | `Semaphore` |

How state corresponds to code:

* A step of the server ends at a system call, since only there can a client or
  diald make a difference. A signal can come in anywhere; where it matters
  inside a function (`auth_check` walking a list the handler frees) the model
  keeps `race` and lets `auth_check` return either answer or crash.
* A descriptor set is a set. `FD_SET(-1)` after a failed `accept()` sets a bit
  no scan reaches (bit 63 on 64-bit builds); `NoFd` in the set stands for it,
  and `Fd` is the descriptors below that bit.
* The local `count` of `demux_fds` is never initialised. `CountGarbage` is the
  set of values it may start with. The loop was written for 0; the run *commands*
  takes 0 and 1 (a ready descriptor is passed over), *failures* 0 and -2. A value
  below the -1 of an interrupted `select()` makes the loop go through sets that
  still hold what `FD_SET` put there, so that descriptors nobody reported are
  read; `misled` marks these rounds, the only ones `ReadsDontBlock` excepts.
* A connection stands for its peer's address and port; `Address` gives its
  address as the set of its one bits, so that `&` is intersection and a netmask
  is a set of bits too. A user name is the class of names `strcasecmp` does not
  tell apart.
* A configuration file is a sequence of lines of tokens: user, address and mask;
  blank; or something else, which is the syntax error that ends the process. A
  history variable keeps the file in force, and `Entitled` says what it grants
  without using the server's list.
* An ident answer is the sequence of its fields between colons, as far as the
  one `read()` returned them; `reap_userid` drops three.
* `write()` to a client waits while the client is `stalled` (reads nothing and
  its buffers are full); `read()` of the ident answer and `open()` of the
  control FIFO wait for a peer. These waits are not part of `ServerStep`.
* A client's line is one of the five that `parse_incoming` tells apart; lines
  that arrive before the server reads come in one chunk, of which the code looks
  at the beginning only.
* `read()` of the monitor FIFO returns any number of the messages in it.
* A message of diald's to the client is a record; a queue is `QUEUE`, packets,
  `END`. What the window shows besides the packet list and the link state is
  left out. A row of the list is the packet and the form of each of its
  addresses: number, name, or name without the local domain. The C compiler may
  resolve either address first, and so does `do_packet`.
* The chains of the host table are sequences; `hash` is a constant, and the
  instances put both addresses into one chain.
* What DNS says of an address is one of four: a name in the local domain, one with
  the local domain somewhere else in it (`lookalike`), one without it, no name.
  `truncate_hostname` cuts the first two, since `strstr()` does.
* An index outside of `scrbuff` is undefined behaviour. `wild` records that one has
  been used; from then on the client may crash at any time (`Crash`) or go on.
  What it may do to other data is not modelled.
* `open()` of the control FIFO is a step without fairness (`OpenControl`): it waits
  until someone reads that FIFO, which may be never.
* `Monitor` takes the input as the tokens the scanner makes of it. `Halves` is
  what it makes of a token with a pause inside; the parser's stack is the list
  it is in, the rule it has begun there and how far it is, with bison's
  `yyerrstatus`. `Client` in turn takes whole messages and adds the scanner's
  buffer, end of file, keys, signals and the display.
* `NoState` stands for the empty `curr_state` that `screen_init` leaves.
* A command word is the sequence of its parts, so that being a prefix, which is
  what `validate_command` tests, is being a prefix of sequences.

Variables marked *history* in the modules (`served`, `misled`, `got`, `conf`,
`ident`, `stale`, `epipe`, `openFailed`; `listed`, `lost`, `said`, `last_state`,
`overrun`, `typed`, `told`; `seen`, `hit`, `spoilt`) are read by properties only;
`wild` is read by `Crash` as well.

## 3. What TLC checks

All passing runs end with the state space exhausted. Deadlock is not checked:
both programs may exit, and what their surroundings do is bounded.

| run | instance | shows |
|---|---|---|
| `server_commands` | 2 clients, 2 lines each out of `monitor on`, `monitor off`, `close`; 1 message; garbage 0 and 1 | `PortTable`, `FdOwnership`, `ReadsDontBlock`, `ServedOnce`, types |
| `server_failures` | 2 clients, 3 descriptors, 3 list nodes, garbage 0 and -2, ident hosts that know the user or not, 1 SIGHUP with a file that grants, grants others or does not parse, or cannot be opened | `FdOwnership`, `ReadsDontBlock`, `SubscribedHasPipe`, `RightsCurrent`, `CommandsAuthorised`; every step is one of `PQSpec` |
| `server_fanout` | 3 clients already connected, any of them subscribed, 2 messages, unsubscriptions, hang-ups, SIGTERM | `FanoutExact` |
| `server_liveness` | 2 clients, one of which may stop reading, 1 line each, 1 message, ident hosts that may never answer | `HungUpReaped`, `Admitted`, `PipeDrained` |
| `server_null_userid` | 1 client, 1 SIGHUP | violated: `ReloadKeepsRunning` |
| `server_stale_rights` | 2 clients of different hosts, 1 SIGHUP with another configuration | violated: `AllReauthenticated` |
| `server_lost_message` | 3 clients, 1 message | violated: `FarmedOut` |
| `client_listing` | terminals on which `scrbuff` is long enough and too short, queues of up to 3 packets of 2 kinds, resizes, answers of DNS, entries that expire, addresses in one chain, with and without `-l` (as a key) and `-n`, signals | `RowsContained`, `ListingFaithful`, `HostsOnce`, `NamesCurrent`, `QueriesWhenUp`, `CleanExit` |
| `client_progress` | bursts of 5 messages, keys `c h ^R` at any time, 2 command lines, 2 terminal sizes, end of file | `BufferDrained`, `ResizeNoticed`, `KeySeen`, `CommandsFaithful`, types |
| `client_help` | 2 command lines out of the help | violated: `HelpTrue` |
| `monitor` | all 10 kinds of message, packets with port 0 and without a protocol's name among them, 3 pauses or spliced messages, with and without `-q` | `MessagesShown` (`Monitor` implements `Feed`), `Resynchronised`, `QuitOnDamage`, `Released`, types |
| `semaphore` | 4 threads that take and give, spurious wake-ups | `NoLostWakeup` |

Why the bounds are enough. Two clients are the least that can get into each
other's way in the port queue (one closed while the other is ready, one
descriptor given to the other within a round), and the operations look at one
client at a time. The fan-out needs three: one that has hung up, one before and
one behind it in the list. Three descriptors run out with one client and a
leaked ident socket, or with two clients and the pipe. One SIGHUP can meet every
point of every handler; a second one meets the same states. Two bits of address
tell an entry whose address has bits outside its mask from one that has not.
One client that may stop reading (`MayStall`) is enough to stop the server; it
may do so when it is refused a command or when it is sent a message. Five
messages are one more than `read_fifo` parses in one go. In `client_listing`
`HEAD_LINES` is scaled down to 0 and `MAXBUFS` to 2, with terminals of 0 and 2
lines: the list of the lower one has one line and lies inside the array, that of
the higher one is longer than the array and its last line outside; queues of up to
3 packets are shorter than, as long as and longer than both. Three faults on the line of `Monitor` can spoil a
message, the recovery from it and the END QUEUE that was to end it.
`PressAt` says where keys are pressed: at any time in `client_progress`, before
main's loop in `client_listing`, where they only matter for the options; `ResizeAt`
says where resizes come, in `client_listing` while `select()` waits. A queue can be
on its way and half read then, so a resize does come between two packets.
Of the keys, `n` and `q` are not pressed in a passing run: `-n` and `SelectError`
lead to the same states. `KillAt` says where signals come: before main has its
handlers, and while `select()` waits.

### Fairness

*Server:* strong fairness of `ServerStep`: the process gets the processor, and a
`write()` that waits for room goes through once there is some, for however short
a time. Nothing is assumed of clients, ident hosts, diald or signals; the
waits for them are steps of their own without fairness, and the liveness
properties except behaviours in which the server is `Blocked` for good. What
they show is that nothing else stops it. What diald writes is bounded; the loop of
`fifo_server` would not end under a diald that never stops. `CountGarbage` is {0}
in this run: with a positive value in the uninitialised `count` a ready descriptor
is passed over for ever and `Admitted` does not hold.

*Client:* weak fairness of `ClientStep`; weak fairness of diald's writing (it
ends the queue it has begun); strong fairness of its `LOAD` message, which it
writes every second. The user and signals are free, and so is
whoever reads the control FIFO: `KeySeen` excepts a client that stays in `open()`
for ever, the hang of `INSTALL`, "Strange behaviours" 1.

*Monitor:* weak fairness of the scanner, strong fairness of diald's `LOAD`,
`QUEUE` and `END QUEUE`, which it sends every second.

### The feed

`Feed` is the contract between diald and the display: a message begins, is shown
once, and only then the next one begins, unless the line is damaged; and it is
shown as what it is. `Monitor` implements it with `msg <- cur`, `shown <- seen` and
`damaged <- hit \/ spoilt`: a message counts as damaged when a pause or a message
of the server fell inside it, and a queue until the next END QUEUE that arrives
whole. A pause between a `QUEUE` and the `STATUS` that takes the place of its
packets counts too: the grammar takes it for a packet, and `STATUS` is an error
then. The grammar's freedom (stray tokens, strings of several words, a STATUS in
the place of packets, pauses that count as packets or as times) thus never costs
or invents a message that arrived whole.

Two kinds of message are excepted by name, as the code does not show them as they
were sent on any line. `Misprinted`: a packet of a protocol without a name is shown
once, with the value of a pointer in the place of the protocol (`monitor.y:223`).
`Unreadable`: a packet with a port 0 is a syntax error (`monitor.l:114`); it is lost
with the rest of its queue, and ends a client with `-q`, as a damaged one would. The
manual promises "a listing of all packets" (`diald-top.8.in:10`).

### Where the code and what is said of it differ

* **A reload kills the server** (`server_null_userid`). A client whose host
  answers no ident is listed with `userid == NULL`; the next SIGHUP compares it
  with `strcasecmp()`. `INSTALL:173` promises to "reread its configuration
  without quitting".
* **A client admitted during a reload keeps old rights** (`server_stale_rights`).
  The verdict of `auth_check` is used in `port_enqueue` after a handler may have
  reauthenticated everyone in the list. `RightsCurrent` shows that this window
  is the only one.
* **A hang-up costs others a message** (`server_lost_message`). After EPIPE the
  list and `monitorcount` shrink while the loop counter does not, and the loop
  starts over at the head. `FanoutExact` shows that nothing is lost or doubled
  before the first EPIPE; what follows one is `FarmedOut`'s.
* **A command of the help is not one** (`client_help`). `screen.c:184` and the
  manual page (`diald-top.8.in:63`) list `delay-quit`; the table of `pipe.c` has
  `delayed-quit`, and the word is dropped without a message.

Seen while modelling, and without a run of their own:

* a file that does not parse ends a running server at SIGHUP through `exit(1)` in
  `yyerror` (the model has this step; it refutes `ReloadKeepsRunning` as well);
* of several lines in one `read()` the server looks at the first only, so a
  `force` behind another line is lost;
* a resize empties `curr_state` in `screen_init`: the link status is blank, and no
  address is resolved, until diald reports the next change of state
  (`QueriesWhenUp` shows that the stale value errs on the safe side);
* `resolve.c:69` adds `rxload[2]` where `txload[2]` is meant;
* a SIGWINCH between `do_screen_resize()` and `resize_event_p = 0` is lost
  (`ResizeNoticed` excepts it);
* a packet with port 0 is a syntax error, since the scanner's `PORT` wants a
  digit from 1 to 9 first, and hides the rest of its queue (`Unreadable`);
* `monitor.y:223` prints `$2`, a pointer, as the number of a protocol
  (`Misprinted`), and `monitor.y:74` gives obstack memory to `realloc()`;
* `truncate_hostname` cuts the name of a host of another domain that has the local
  one in it ("lookalike"), while the manual says of `-l` that it truncates
  "hostnames of local hosts" (`diald-top.8.in:27`);
* nothing limits `LINES`: on a terminal of `MAXBUFS - 1` lines or more a resize frees
  `scrbuff[MAXBUFS]`, and a long queue is written behind the array, while
  `README:67` expects the client to work on any terminal. `RowsContained` shows that
  these terminals are the only ones;
* a client that gives up waiting for diald after five seconds leaves its FIFO behind
  (`CleanExit` excepts a client that has not shown anything);
* an empty text after MESSAGE matches `monitor.l:136` again and again;
* `thread.c:57` takes a failed `fork()` for success; `shared_memory.c:70` swaps
  two arguments of `mmap()` in the librt build (nothing calls either);
* with two takers, or a spurious wake-up, the `if` around `pthread_cond_wait` lets
  `value` go below zero, and then `value == 0` stops nobody: the semaphore admits
  every taker until enough units have been given. `NoLostWakeup` holds all the same.

## 4. What is proved

The theorems hold for every value of the constants that the named assumptions
allow; TLC evaluates these in every run. `PortQueueAssumption`: descriptors are a
finite set of naturals, `NoConn` and `NoUser` are neither connections nor users,
`MaxPorts` is a natural. `WorldAssumption`, `ProcessAssumption`,
`AuthenticateAssumption`, `PortDaemonAssumption`: the types of the bounds, of
configuration files and of ident answers, that a connection is not also called
"ident", "pipe" or "free" (the other uses of a descriptor), and that the listening
socket and the control FIFO have descriptors of their own. `DisplayAssumption`:
types, with terminals of any height. `ClientAssumption`: types.
`MonitorAssumption`: the messages diald sends are of the kinds the grammar has, and
the bound on the faults is a natural. `SemaphoreAssumption`: finitely many threads,
naturals for the bounds.

Two theorems take a hypothesis of their own, in their statements:
`IdentHostsConform` (an ident answer of four fields is of the type USERID, as RFC
1413 says) for `RightsAlwaysCurrent` and `OnlyAuthorisedCommands`: `reap_userid`
takes whatever is behind the third colon without a look at the type. It holds in
every run. `ReadsNeverBlock` needs none: it holds for every value `count` may start
with, with the rounds that are `misled` excepted in the property.

### Server

| theorem | states | inductive invariant |
|---|---|---|
| `TableConsistent` | `PQSpec => []PortTable` | `PQTypeOK /\ PortTable` |
| `ServerTypeCorrect`, `DescriptorsOwned` | `TypeOK`, `FdOwnership` | `ServerInv` |
| `ServerImplementsPortQueue` | `Spec => PQSpec` | step by step, with `ServerInv` |
| `ServerTableConsistent` | `PortTable` of the whole server | the two above |
| `EveryPortServedOnce` | `ServedOnce` | `Walk` |
| `SubscribersHavePipe` | `SubscribedHasPipe` | itself |
| `ReadsNeverBlock` | `ReadsDontBlock` | `Separate`, `Reported` |
| `RightsAlwaysCurrent`, `OnlyAuthorisedCommands` | `RightsCurrent`, `CommandsAuthorised` | `Authorised` |
| `FanoutAlwaysExact` | `FanoutExact` | `epipe \/ Fan` |

*The table.* `PortTable` has three parts: distinct descriptors, the watched set
equal to the descriptors in the list with a bound that is attained, and
`monitorcount` equal to the number of subscribed descriptors. None of them is
inductive alone: closing a port removes *the first entry equal to it*, which is
the right one only because descriptors are distinct; `monitorcount` counts
descriptors and so needs the same; `adjust_maxfd` finds the new maximum only
because the old one bounded the set. One lemma for each operation; the ones about
`RemoveFirst`, `Cons` and `Max` come first.

*The descriptors.* `FdOwnership` speaks of the statics `s_in` and `s_ident`, which
keep their values between calls of `port_daemon`. `ServerInv` adds where in the
program they may hold a descriptor (`Admitting`), that the one in `s_in` is not
watched yet and not subscribed, and that `fds->fs` has the monitor pipe and
nothing else. Then every step of `Server` is an operation of the port queue under
its precondition (`port_enqueue` of a descriptor that is not in the list, say),
which is the refinement, and `PortTable` follows for the whole server.

*The walk.* `port_server` counts in `i` how many ready ports it has seen and goes
along a list it takes ports out of. `Walk` says that the ports seen and the ready
ports from `curr` on are all that `select()` reported, without overlap, and that
until the walk begins nothing that was reported has left the list.

*The reads.* A read does not block because nothing between `select()` and the
`read()` takes away what was there; in a round that begins with an interrupted
`select()` nothing is read unless it is misled. That needs `Separate`: a connection waits in
the listen queue or is exactly one descriptor, so no one else reads from it.

*The rights.* `Authorised` ties `aq` to the file in force, every listed client's
`WRITE` flag to what that file grants or to a reload that overtook its admission,
and the client being admitted to what its ident host said, at each place in
`port_daemon`. `CheckGrants` is the lemma behind it: `auth_check` over the list
that the grammar builds is what the file says.

*The fan-out.* `Fan`, until the first `EPIPE`: the messages of the pipe, the line in
hand and what each client got are in order and follow each other; behind `curr`
all subscribers have the line, from `curr` on none has.

### Client

| theorem | states | inductive invariant |
|---|---|---|
| `RowsAlwaysContained`, `ListingCorrect`, `HostsFiledOnce` | `RowsContained`, `ListingFaithful`, `HostsOnce` of `DisplaySpec` | `DisplayInv` |
| `NamesAlwaysCurrent`, `QueriesOnlyWhenUp` | `NamesCurrent`, `QueriesWhenUp` | `DisplayInv` |
| `ClientTypeCorrect`, `ExitsClean`, `CommandsSentFaithfully` | `ClientTypeOK`, `CleanExit`, `CommandsFaithful` | `ClientInv` |
| `ClientImplementsDisplay` | `Spec => DisplaySpec` | step by step |
| `ClientDisplays` | the five properties of the display, of the client | the refinement |

`DisplaySpec` is the display on its own: any order of its calls, with any sizes,
packets, times and answers of DNS. `DisplayInv` adds to the properties that
`numbuff` follows `LINES`, that what a resize wiped out had been read
(`lost <= count`), that `curr_state` may be forgotten but is never wrong, and
`HostTable`: a record says what DNS said last, which `NamesCurrent` needs and
`HostsOnce` does not say. Every step of the client is one such call or leaves the
display alone, so its theorems carry over. `ClientInv` says what `exit()` calls in
each place, and that nothing is displayed before main's loop.

### Scanner and parser of the monitor

| theorem | states | inductive invariant |
|---|---|---|
| `MonitorTypeCorrect` | `MonitorTypeOK` | `MTypes` |
| `AlwaysResynchronised`, `QuitsOnDamageOnly` | `Resynchronised`, `QuitOnDamage` | `MTypes /\ MInv` |
| `MonitorImplementsFeed` | `MonitorSpec => MessagesShown` | step by step, with `MInv` |

For any number of pauses and spliced messages, at any places. `Resynchronised` says
where the parser is between messages; the invariant has to say where it is inside
them, and what it can say depends on the damage. `Whole`: in a message without any
the rule begun is the message, its tokens are diald's alone, and what is left of
it is what the rule waits for. `EndWhole`: an END QUEUE without damage leads out of
whatever the parser was in, because its first token is an error in every rule and
ends every list. `TopSync`: in a damaged message that is not of a queue the parser
is at the top and stays there: a piece of such a message has no keyword, a number
or a string begins nothing there, and the rule begun is that message's own. A message
of the server's inside one is either read as one or, behind the beginning of a
line, as two lines of strings, which the rules with a string stand for one line
only (`ServerPart`). `QuitFacts` keeps the damage that ended the program from being
forgotten by the next message. `TopSync` needed a part that no small instance asks
for: a damaged rule that goes on has to be the message's own, since a QUEUE begun
before would lead into a queue.

### Semaphore

**`WakeupsKept`**, `SemSpec => []NoLostWakeup`, for any number of takers, givers
and threads that are both, and with spurious wake-ups. `NoLostWakeup` (while a
thread sleeps, the counter is at most the number of threads that are about to
take a unit or to hand on a signal) is inductive with the types: `value++` makes
the giver pending, a signal hands its place to the woken thread, `value--` takes
a unit and a pending thread away together.

### What the prover needed of the models

Guards that overlap in a `CASE` were made exclusive or became disjunctions
(`Shown`, `reread_conf`, `Halves`, `Shift`, `Errstatus`, `Called`, `Ready`): the
provers know nothing of a `CASE` of which two guards hold. `SequenceFacts` has what
more than one component needs; extrema go through the well-foundedness of `<` on
the naturals, since induction with an operator parameter is not available.

### Only model-checked

* The liveness properties `HungUpReaped`, `Admitted`, `PipeDrained`, `BufferDrained`,
  `ResizeNoticed`, `KeySeen`, `Released`: fairness is out of the prover's reach.
* The four runs that find a violation: a counterexample needs no proof.

## 5. What is not modelled

* *The inside of the SIGHUP handler*: it is one step, and none comes while a
  client is stalled; that it may interrupt `malloc`, stdio or syslog, and wait in
  `write()`, is listed as a hazard.
* *The characters of tokens*: an ident answer is its fields, a configuration line
  its tokens, a message its tokens; an ident answer without a line end, which the
  code does not terminate, is taken as terminated.
* *Half lines of a client*: a line arrives whole.
* *High load*: the runs report low loads, so the load test in `resolve` always
  passes in them.
* *The hash function* of the host table is a constant; the table is checked with
  both addresses in one chain.
* *Writes outside of `scrbuff`*, on a terminal too high for it, crash the client or do
  no harm; the damage they may do to other data is left out.
* *The SIGWINCH handler of ncurses*, in force until main installs its own.
* *Layout, wording, logging, debug mode, names of FIFO files*; `service()`, which
  keeps no state; `get_timeout` and `strtcmp`, which nothing calls.
* The semget build of `semaphores.c`, where take and give are one system call each.
* `thread.c` and `shared_memory.c`: no state of their own and no callers, so
  there is no use of them to be right or wrong; `tester.c`, a driver for use by
  hand; the build.

## 6. Plan

Done: the server with its start, its surroundings and its configuration, the
client from the tokens of its input to its display, the semaphore; every safety
property that a passing run checks has its theorem, and every refinement too.

What is left are the liveness properties, which stay with TLC, and the parts of
section 5 that are not modelled.
