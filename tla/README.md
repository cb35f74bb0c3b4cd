# A TLA+ development for ckb-standalone-debugger

ckb-standalone-debugger is a family of tools for scripts of the CKB virtual
machine: a debugger that gdb connects to, two profilers, a tool that dumps a
running machine as an ELF file, and a loader for mock transactions. This
directory models their control in TLA+, checks the models with TLC on small
instances and proves the safety properties of eight of them with TLAPS for all
instances.

## 1. Inventory

| Component | State | Operations | Interacts with |
|---|---|---|---|
| GDB packet loop (`ckb-gdb-remote-protocol/src/lib.rs`, `process_packets_from`) | buffer, `endbuf`, `parsed`, `ack_mode` | read, parse, acknowledge, handle, compact | gdb over a byte stream; hands each body to `handle_packet` |
| GDB command grammar and responses (`lib.rs`, `command`, `handle_packet`, `write_response`, `PacketWriter`) | the command and its result, what is left to write, the checksum | parse, dispatch, convert, write | called by the packet loop; calls a `Handler` and its `FileSystem`; writes to the stream |
| GDB file system (`fs.rs`, `libc_fs.rs`) | the files and the descriptors of the host | open, close, pread, pwrite, fstat; unlink, readlink and setfs refuse | called by `handle_packet`; libc |
| Debug target of `--mode gdb` (`gdbserver.rs`) | VM, breakpoints, watchpoints with the content last seen | the methods of `Handler`; `vcont` runs the VM | called by the packet loop; runs the VM |
| Debug target of `--mode gdb_gdbstub` (`gdbstub.rs`) | VM, decoder, breakpoints, watchpoints, caught calls, resume mode, recorded accesses | the methods the gdbstub crate calls; the event loop; `run_till_exited` | gdbstub crate, the connection, the VM |
| Attaching to a spawned script (`ckb-debugger/src/main.rs`, `machine_sget`) | running machine, stack of callers, data of the last spawn, count of scripts | step, exec, spawn, return | VM, spawn and exec system calls; hands a machine to a debug target |
| Profiler (`ckb-vm-pprof/src/lib.rs`) | tree of calls, current node, end of the heap | step, run | VM |
| Signal profiler (`ckb-vm-signal-profiler`) | global `PROFILER` and its mutex, timer, signal disposition | start, stop, signal handler | kernel, any number of threads |
| Profile encoding (`frames.rs`, `ckb-vm-pprof-converter`) | frames with weights, the tables of a profile | record, read a line, encode | both profilers; pprof |
| ELF dumper (`elf_dumper.rs`) | segments found so far | scan, dump | VM memory; the ELF loader |
| Mock transactions (`ckb-mock-tx-types`, `ckb-debugger-api`) | cells and headers found | check, load, resolve | transaction file; script verifier |
| Host system calls, stdio, command line, embedding, generated protobuf code | none of their own | pass-through and formatting | the host |

What is hard in it: bytes arrive in any chunks while a session switches its
acknowledgement mode; forty kinds of requests share their first characters and
are told apart by the order in which alternatives are tried; results of every
type share one text on the wire, which a stream may take in pieces; reads and
writes of files may be short; a target must stop at the right instruction although its
checks run in a fixed order with early returns; exec replaces the program under
a decoder's cache; calls are guessed from jumps; starts and stops of the signal
profiler overlap with one another and with signals; hash tables are walked in
an arbitrary order while tables are filled that refer to each other by
position; 64-bit subtractions and 21-bit offsets wrap. `PROJECT.json` lists
these places line by line under "hazards".

## 2. Modules

| Module | Models | Composed with |
|---|---|---|
| `Framing` | the frame grammar (lib.rs 47-75) as predicates on a stretch of bytes | extended by the next two |
| `CommandCursor` | abstract: a reader that looks at the whole stream and keeps one position | implemented by `PacketStream` |
| `PacketStream` | `process_packets_from`, the connection and the peer | |
| `Wire` | numbers, bytes, binary data and thread ids in packet bodies, written and read | extended by the next two |
| `CommandGrammar` | `command` and all parsers of requests | extended by `GdbCommands` |
| `HostFs` | `LibcFS` on a host with few files, few descriptors and a small disk | extended by `GdbCommands` |
| `GdbCommands` | `handle_packet`, `write_response`, `PacketWriter`, and a gdb that remembers what it was told | composes grammar, handler, files and stream |
| `DebugTarget` | abstract: what a target promises (nothing runs while it is halted; a breakpoint that is reached halts it first) | implemented by `GdbServer` and `GdbStub` |
| `GdbServer` | `GdbHandler` | |
| `GdbStub` | `GdbStubHandler`, `GdbStubHandlerEventLoop` | |
| `MachineSget` | `machine_sget` | |
| `ProfileTrie` | `Profile`, `PProfMachine` | |
| `SignalProfiler` | `start_profiler`, `stop_profiler`, `Timer`, `perf_signal_handler` | |
| `PprofTable` | `Report::record`, `Report::pprof`, the converter's `main` | |
| `ElfDumper` | `ElfDumper`, and loading and running what it writes | |
| `MockResource` | `check`, `Resource::from_both`, resolution | |
| `Sums` | the sum of a sequence, for what properties say of cycles | extended by `ProfileTrie`, `MachineSget` |
| `MC*` | constants and bounds for TLC | extends the module it is named after |
| `*Proofs` | theorems | extends the module it is named after |

Variables and actions have the names of the fields and functions they stand
for; "map" in `PROJECT.json` gives the lines of every definition. Definitions
whose names contain an underscore and are introduced as mutants are deliberately
wrong variants of the next definition: each property of a run is violated when
one of them takes its place.

How state and actions correspond to the code:

- **PacketStream.** `buf` is `buf[0..endbuf]`; `base` (a history of how much was
  compacted away) relates it to the `stream` the peer has sent. `Read(n)`
  returns any positive number of available bytes that fit; `ReadEnds` is
  `Ok(0)` or an error. Acknowledging and handling are separate steps because
  either write may fail. Commands are opaque, but for QStartNoAckMode.
- **GdbCommands.** From one packet to its answer. A row of `CommandGrammar` is a
  parser: the words it wants and, in angle brackets, the arguments it reads;
  the first row that matches wins, as in `alt!`. A parser yields a value,
  nothing, or a panic (an `unwrap`). One action per outcome of `handle_packet`
  (`HandleHere`, `RefuseWrite`, `CallHandler`, `CallFileSystem`,
  `NoFileSystem`, `Crash`); the handler is any implementation of the trait: it
  has a set of methods, the others have their defaults, and a method returns
  any value of its type. `Write` hands the stream what is left of the body and
  the stream takes a part of it; `finish` writes the checksum. Flags, modes,
  error numbers and stat are converted as the code does (`HostFs`), descriptors
  and offsets are cast to the widths of libc. Digits are of base 3, so that a
  byte has 9 values (NUL, the four characters that are escaped and what XOR
  makes of them), a u32 81 and a u64 6561: overflow, truncation, sign and
  leading zeros are all there. libc, the kernel, nom's combinators and gdb are
  external; nom's parsers are modelled as far as the grammar uses them,
  Incomplete included.
- **GdbServer.** One action per request; a `vcont` that runs is broken into one
  step per instruction. Reading a region outside memory fails, and the code's
  `?` leaves the loop there.
- **GdbStub.** `Server` is the event loop; `step` keeps the order of its checks
  (caught calls, breakpoints, writes, reads). Removing a watchpoint removes from
  the wrong list or panics, as in the code (gdbstub.rs 460).
- **MachineSget.** A machine is its script, its caller, its cycles and its
  limit. The cycles wrap modulo `Word`. `answered` records for which spawn an
  answer was due and whose data were used.
- **ProfileTrie.** The current node is its path from the root. The program's
  real activations are kept beside it; the profiler sees only jumps.
- **SignalProfiler.** The code of a thread and the handler on top of it are two
  program counters; the mutex knows which of them holds it. A start asks for any
  frequency, which `Timer::new` turns into a period by a truncating division.
  The handler may panic in the unwinder, which aborts the process. `overlapped`
  is a history: the threads whose last start had another beside it.
- **PprofTable.** Both writers share the encoder; `tool` says which one collects.
  A line of the text format is read back as it was written, which holds for
  names without "; ": the converter takes a Rust name such as `[u8; 32]` for two
  functions, so `ProfileIsFaithful` does not extend to those. Its panics on lines
  of another form (converter main.rs 58, 74) are left out.
- **ElfDumper.** Addresses count words; the load and the restoring code are
  operators on the segments that were written.
- **MockResource.** A transaction file is a record of six lists. The limit that
  resolution (external) puts on the number of dependencies after groups are
  expanded, 2048, is left out: `LoadedIsResolvable` and its theorem are about
  files below it.

## 3. Runs

| Run | Bounds | Checks |
|---|---|---|
| `packet_stream` | streams of 9 bytes, a buffer of 6, seven messages | `TypeOK`, `BufferIsWindow`, `ExecutedInOrder`, `ModeIsAnnounced`, `RepliesInOrder`, `DroppedOnlyIfUnframeable`, `ImplementsCursor`, `EverythingIsConsumed` |
| `gdb_commands` | 172 requests on the target, to a handler with all methods and to one with none but the two that have no default; 27 requests on files, 2 descriptors, a disk that is full after 2 bytes | `CalledAsAsked`, `AnswersTellResultsApart`, `OneFrame`, `PanicsOnlyAsKnown`, `FilesAsGdbBelieves`, `EveryRequestIsAnswered` |
| `gdbserver` | 2 program addresses, 2 cells, 3 regions, 2 watchpoints | `NoStepPastChange`, `BaselineMovesOnlyWithAnswer`, `ImplementsTarget` |
| `gdbstub` | 2 program addresses, one of them an ECALL, 2 call numbers, polling every 2 steps, 2 unread bytes of gdb | `CaughtBeforeExecuted`, `StaleOnlyDetached`, `ImplementsTarget`, `InterruptHonoured` |
| `gdbstub_watch` (violation) | as small as possible | `WatchStopsAreAskedFor` |
| `machine_sget` | depth 4, 12 cycles, an ECALL costs 2 | `AttachedIsNth`, `LiveWithinBudget`, `ResumesTheCaller`, `SearchEnds` |
| `machine_sget_answer` (violation) | the same | `AnswersGoToTheirSpawn` |
| `profile_trie` | 4 addresses, 5 nodes, 7 cycles, one kind of fault | `TypeOK`, `ChargesTheRunningFunction`, `HeapIsBreak`, `CyclesConserved` |
| `signal_profiler` | 3 threads, up to symmetry; 4 frequencies | `TypeOK`, `NeverKilled`, `TimerHasOwner`, `StoredIsSampled` |
| `pprof_table` | 3 stacks out of 6 | `ProfileIsWellFormed`, `ProfileIsFaithful` |
| `elf_dumper` | 4 pages of 4 words, 3 program counters | `RestoresMemory`, `RestoresExecution` |
| `mock_resource` | 3 cells, lists of up to 3 entries | `CheckedIsReady`, `LoadedIsResolvable`, `CellsAreOfTheFile` |

Why the bounds are enough for the interesting cases: nine bytes hold two
packets, so one can follow QStartNoAckMode or lie half read behind another;
six bytes are filled by one packet and part of the next, and one message is
longer. Two overlapping watch regions and one that cannot be read give a list
whose middle fails. Two program addresses are enough for a breakpoint one
stands on and one that lies ahead. Depth 4 allows a child of a child and a
return in between, and twelve cycles run out. Three threads allow two
overlapping starts and a stop; of the frequencies one is possible, one too high
for a period of a microsecond, one negative and one zero. Two unread bytes of
gdb let a ^C lie behind another byte. In `pprof_table` the stacks hold recursion, one
name in two files, one function at two lines, an empty name, and a name that
equals a unit. Four pages allow a segment that ends on the page where the next
begins, and an empty page on either side. The requests of `gdb_commands` cover
every row of the grammar with the least and the greatest number, thread ids of
every form, data with every escaped byte, conditions and commands in the
notation of the repository's tests and in gdb's, and bodies that are cut short, too long or contradict themselves; the
values cover every type of result, with pairs that differ in one field and
strings that spell an error or hold a framing character. In the
session on files a write can be short, leave a hole, meet a full disk or go
through the second descriptor of the same file. The requests on the target and
those on files share no state, so each has a session of its own.

Types are checked by the runs of `packet_stream`, `profile_trie` and
`signal_profiler`; for `GdbServer`, `GdbStub`, `MachineSget`, `MockResource`
and `ElfDumper` they are a theorem, `TypeCorrect`, on which the others of the module rest; the
`TypeOK` of the other modules documents their variables.

The signal profiler's run does not check for deadlock: a handler that
interrupts its own thread while that holds the mutex waits for itself, in the
model as in the code. Nor does `gdb_commands`, where a session ends when the
server has panicked or the connection is gone. The other specifications stutter explicitly when the
system is over, so that TLC's deadlock check holds for the rest of their states.

**Fairness.** `PacketStream`: weak fairness of the server loop, which is one
thread that waits for nothing but the peer; the peer is not fair. `GdbCommands`:
weak fairness of the same thread from a request to the end of its answer: the
methods of the handler return (for `vcont` that is the subject of `GdbServer`)
and a stream that has not failed takes at least a byte; gdb is not fair, and
the stream may fail. `GdbStub`:
weak fairness of the event loop, for the same reason; gdb is not fair and the
program may loop for ever. `MachineSget`: weak fairness of the search, a loop
without any waiting; it ends because cycles are limited.

**What `gdb_commands` excepts.** Its properties name the gaps of the code they
do not cover. `CalledAsAsked` leaves out `Shadowed` requests: "qCRC:" starts with
"qC" and is answered with the current thread (lib.rs 461; the comment at 136-139
knows of it), and "qSymbol" with a value never matches, since `eof!` stands where
the name should be (lib.rs 501): a handler that asks for a symbol is never told.
`AnswersTellResultsApart` and `OneFrame` leave out strings of the handler with
framing characters, which are written as they are (lib.rs 1576).
`AnswersTellResultsApart` also leaves out empty data, which reads like "not
implemented", and strings of the handler that spell an error: a `thread_info` of
"E01" is the same packet as error 1. `PanicsOnlyAsKnown` says what takes the
library down: a number of more than 64 bits (lib.rs 530), a list behind a
breakpoint (lib.rs 866; in gdb's notation all lists do, see below) and a read of
2^63 bytes or more (libc_fs.rs 164), which is a request like any other; no other
body does, well-formed or not. A bare "vCont" gets through the library and
panics in `GdbHandler::vcont`, as its list of actions is empty (gdbserver.rs 186).

**What the violation runs show.** Two places where the code does something
else than the repository says of it.

- `gdbstub_watch`: every load and store stops a continue, with no watchpoint
  set. `step()` reports any recorded access (gdbstub.rs 160-165) and never
  compares it with the watchpoints.
- `machine_sget_answer`: A spawns B, B spawns C, C and B exit; A is then
  updated with the data of B's spawn of C, since one variable holds the data of
  the last spawn (main.rs 612, 621).

The models reproduce further behaviour for which no run states a property:

- The mask 0xFFFFFFFFFFE00001 (elf_dumper.rs 178) accepts offsets of 21 unsigned
  bits, of which a JAL takes the top one for its sign, so a file is written whose
  jump goes astray. `RestoresExecution` is about program counters within reach.
- Conditions of breakpoints are ignored (gdbserver.rs 78).
- Removing a watchpoint removes a breakpoint or panics (gdbstub.rs 460).
- A condition or a command of a breakpoint in gdb's notation panics: the parser
  reads as many characters as the bytecode has bytes, where gdb sends two digits
  for each (lib.rs 794), and "cmds" without gdb's colon, and the `unwrap` at 866
  meets what is left. The targets of this repository do not announce the feature;
  `PanicsOnlyAsKnown` excepts lists.
- Two starts of the signal profiler that overlap both succeed, since the check
  (lib.rs 33) and the store (52) take the mutex separately; the second store drops
  the first profiler and with it the timer of both. `StoredIsSampled` is about the
  other starts.
- A start of the signal profiler with a frequency above 10^6 succeeds with the
  timer disarmed, with a negative one it leaves the timer as it was, and with 0 it
  panics after the handler has been installed (timer.rs 38). `StoredIsSampled`
  promises samples to the other frequencies.
- A spawn within 500 cycles of the limit gives its child a budget of almost 2^64
  cycles. `LiveWithinBudget` is about machines that stay within what they were
  given.

## 4. Proofs

TLAPS proves for every value of the constants (in brackets the property of a
run that the theorem states):

| Module | Theorems | Inductive invariant |
|---|---|---|
| `PacketStreamProofs` | `TypeCorrect` [`TypeOK`], `BufferIsAlwaysWindow` [`BufferIsWindow`], `PacketStreamImplementsCursor` [`ImplementsCursor`] | the types, the window, that the packet being handled lies in the buffer at the parse offset, and that nothing is parsed when the loop reads |
| | `CommandsRunInOrder` [`ExecutedInOrder`] | the property itself, over the steps of the cursor |
| | `BothEndsAgreeOnAcks` [`ModeIsAnnounced`], `RepliesAreInOrder` [`RepliesInOrder`] | both, with `RepliesToPackets` and `RepliesBehindCursor` |
| | `NoFrameIsEverDropped` [`DroppedOnlyIfUnframeable`] | with `ReadsOnlyWhenNeeded` |
| `GdbStubProofs` | `TypeCorrect`, `CallsAreCaught` [`CaughtBeforeExecuted`], `NeverStaleUnderGdb` [`StaleOnlyDetached`], `IsADebugTarget` [`ImplementsTarget`] | the types, the two properties, `NotAtBreakpoint`, `StaleIsReset` |
| `GdbServerProofs` | `TypeCorrect`, `StopsAtTheChange` [`NoStepPastChange`], `NoChangeIsForgotten` [`BaselineMovesOnlyWithAnswer`], `IsADebugTarget` [`ImplementsTarget`] | the types and `ChangeIsVisible` |
| `ProfileTrieProofs` | `TreeIsWellFormed` [`TypeOK`], `RunningFunctionIsCharged` [`ChargesTheRunningFunction`], `HeapIsAlwaysBreak` [`HeapIsBreak`] | the types, `Agrees` (the return addresses of the program sit on the profiler's path in their order, all other frames come from tail calls), what holds right after exec, and the two properties |
| | `NoCycleIsLost` [`CyclesConserved`] | the property, with the types |
| `SignalProfilerProofs` | `TypesAndMutex` [`TypeOK`], `NoThreadKillsTheProcess` [`NeverKilled`], `NoOrphanTimer` [`TimerHasOwner`] | the types with the mutex, `DefaultMeansQuiet`, `SaverHasProfiler`, and the two properties |
| | `StoredProfilerIsSampled` [`StoredIsSampled`] | with these, `CleanStart` (a start that nobody overlapped is alone past the check, finds nothing stored, and nobody else touches its timer), `CleanStored` (the property, for the profiler that is stored) and `StartedIsStored` |
| `MachineSgetProofs` | `TypeCorrect`, `AttachedToTheNth` [`AttachedIsNth`], `CallerIsResumed` [`ResumesTheCaller`], `LiveMachinesFitTheBudget` [`LiveWithinBudget`] | the types, `CountsScripts`, `CallersAreKnown`, `BudgetsAreHandedDown` |
| `MockResourceProofs` | `TypeCorrect`, `CheckedFilesAreReady` [`CheckedIsReady`], `LoadedFilesResolve` [`LoadedIsResolvable`], `ScriptsSeeTheFile` [`CellsAreOfTheFile`] | the types, the verdict of check, what each loop has loaded so far, where every cell comes from |
| `ElfDumperProofs` | `TypeCorrect`, `MemoryIsRestored` [`RestoresMemory`], `ExecutionIsRestored` [`RestoresExecution`] | the types, `ScanIsInside`, `BodyIsScanned` (segments are faithful and complete below the scan, and no two share a page), `CodeIsBelow` |

TLC agrees with each of these invariants on the bounds of section 3.

*PacketStream.* That the buffer is a window of the stream is not inductive by
itself: handling a packet moves `parsed` to the packet's end, which has to lie
in the buffer. A packet of the buffer is a packet of the stream at the cursor
(lemma `PacketInWindow`), so handling is a step of the abstract cursor, skipping
a response byte is one, and reading and compacting leave the cursor where it
is, the former because nothing is parsed when the loop reads. The order of
execution then follows from the steps of the cursor alone. For the replies one
needs that everything written is about a packet of the stream (bytes sent later
turn none of them into QStartNoAckMode) that lies behind the cursor, or is the
acknowledgement of the packet being handled. A loop that gives up on an open
connection has a full buffer and has parsed all it could, so no frame at the
cursor fits.

*GdbStub.* That a caught call is not executed rests on the order of the checks
in `step`: catching comes before breakpoints, and every return to the loop has
passed both, unless exec has just changed the program under the decoder. A
stale cache is always accompanied by the reset signal, which the next `execute`
honours before it runs an instruction. For the refinement, a target that has
moved since its resume is not at a breakpoint (`NotAtBreakpoint`); a watchpoint
removed at a position of the breakpoint list removes at most one address
(`RemovedAt`), which is a step of the abstract target too.

*GdbServer.* `dirty` is a history: an instruction has changed a watched region.
`ChangeIsVisible` says that such a change can still be seen by `at_watchpoint`
as long as `vcont` loops, whatever regions overlap and whichever of them cannot
be read; so the loop leaves before the next instruction. What is remembered of
a region moves only in `at_watchpoint`, and when it does the loop ends.

*ProfileTrie.* Charging the right function is not inductive: a return goes up
as many nodes as there are tail calls on top of the frame with the return
address, and the same address may be on the path many times. So the invariant
says where each return address of the program sits on the path, in which order,
and that every other node was left by a jump that is no call site; then the
innermost match is the right one. `MaxExists` (by well-founded induction on
sets of numbers) and three lemmas on prefixes and appended sequences carry the
sequences. That no cycle is lost is inductive with the types, given how a sum
changes when one number is raised and when a zero is appended.

*SignalProfiler.* Never being killed needs that nothing ticks, is pending or
is stored while the default action is in force, which rests on the order
handler-then-timer of a start and on stop installing "ignore" and never the
default. That the timer has an owner needs the mutual exclusion of the steps
that touch `PROFILER`: whoever is past the check of stop still finds the
profiler there. That a successful start is in force is claimed of every start that
no other one overlapped, whatever others did before and after it: it is alone
past the check, which has found no profiler, so that its store drops none, and
its timer is armed if its frequency allows; later starts are refused until a stop
or, if they have passed the check by then, would have overlapped it.

*MachineSget.* The number of scripts started and the depth that is left add up
to the depth asked for. The callers form a chain: each machine knows the script
of the one below it, which exec cannot change while that one waits. Budgets go
down the same chain: the limit of a child is what its caller had left, provided
that was not negative, for then the subtraction modulo 2^64 is exact. What the
callers have used is thus what the limit has shrunk by, by induction along the
chain (`CallersCycles`).

*MockResource.* Two lists that are equal once sorted name every dependency
equally often. How often one is needed is the number of places where it stands,
in the transaction and in the groups, so a place makes the count positive, and
what is counted at least once is on the list; so a file that
passes check has an entry for every dependency and every member of a group
(`NeededIsGiven`, `MemberIsGiven`). Lookups go by out point and may find another
entry than that, of the same content if the file is true to a chain. During the
loops, a dependency overwrites a cell only with what every other dependency
would write there, and an input's cell is overwritten by a dependency or by an
input with the same out point, which resolving refuses.

*ElfDumper.* The loader clears every page a segment touches before it copies
the data, so two segments on one page would lose the first. That they never
share one (`Apart`) is not inductive by itself. A run that begins on the last
page of the last segment is executable if that page is, and then it joins the
segment, whatever the gap; for this the invariant says that a segment is
executable if and only if its last page is (other flags of a page are not written
to the file and not restored). What is filled in between is zero in the memory as
well, because nothing below the scan has been left out (`Complete`). So after
the scan the segments hold exactly the memory, and the one segment that touches
a page, if any, decides what is loaded there (`OneTouches`, `OwnerIs`). The
restoring code fits one page, just below the first segment, and so on a page
where all words are zero (`CodePageWasEmpty`). For the registers, `After(k)` is
an explicit solution of the recursion that executes the loads one by one: as
long as the base register is not loaded, which happens last, each load finds its
slot (`LoadsOne`). For the jump, an offset reduced modulo 2^64 and then cut to
21 bits is the same number again when it is sign-extended, if it was within
reach (`DivisionIs`, `JumpIs`). Sizes of pages are parameters, so products and
quotients are not linear; `Division`, `PageBounds` and `PageOf` say once what
they are, and the rest argues from those bounds.

*Sums and recursions.* The library's induction theorems take an operator as a
parameter and cannot be used here. `IndexInduction` replaces them: a set of
indices that contains 0 and with each index the next one contains all, since
otherwise the least index outside it would have no predecessor (`WFMin`, about
sets). In `ProfileTrieProofs`, `PartialSumsExist` gives with it the existence of
the function that the recursive definition chooses, and `SumIs` that anything
that adds up like it is it; `MachineSgetProofs` needs the latter only.

The assumptions are the named ones in the modules (`WordAssumption`,
`CapacityAssumption`, `AddrAssumption`, `NoneAssumption`, `FilesAssumption` and
so on); TLC evaluates each of them in the runs.

**Only model-checked.** Liveness (`EverythingIsConsumed`, `InterruptHonoured`,
`SearchEnds`, `EveryRequestIsAnswered`), which is out of the prover's reach
here. The five invariants of `GdbCommands` and the two of `PprofTable`: what
they say is the result of folds over bodies and over tables (parsing, escaping,
the checksum, positions in a table), that is, of recursions over data whose
solutions are as long as the definitions, and the runs cover every row of the
grammar and every kind of stack instead.

## 5. Not modelled

- The table of signal numbers; `read_stat` and `HostOpenFlags::from_libc`, which
  nothing calls; the features all_stop and lldb of the protocol crate, which are
  off. The text of gdb's own features is read and dropped by the code.
- Devices and sockets in `fstat`: `HostMode::from_libc` tests bits one by one and
  calls a block device a directory; the model's host has regular files only.
- `FileOperation`, `TimeNow`, `Random`, `Stdio`: calls passed to the host.
- `StackUnwinder` and symbol lookup: interpretation of DWARF tables by libraries;
  that the unwinder may panic is in `SignalProfiler`.
- Allocations that fail below the limits of the address space, and the `unwrap`
  of a program that `Profile::new` cannot read after exec.
- In `MachineSget`, the cycles that system calls charge for the bytes they
  transfer, without a look at the limit: `LiveWithinBudget` is about ECALLs of a
  fixed cost.
- In `PacketStream`, reads that fail on an open connection (they end the loop as
  its end does), and "+d", which the code's number parser accepts as a checksum.
- Command line, the modes that run a script once, file embedding, generated code.
- Times in profiles, and with them the overflow of cycles times 10^9.

## 6. Plan

Built, in this order: the packet loop and its abstract cursor; the two debug
targets and what they have in common; the profiler; the signal profiler; the
search for a spawned script; the ELF dumper; mock transactions; the encoding of
profiles; the command grammar, the responses and the files of the host.

Next:

1. A session: packet loop, commands and debug target composed, with the
   interrupt byte that the packet loop consumes without effect while `vcont` runs.
2. `StackUnwinder` over an abstract frame table: it ends and yields the callers.
3. `FileStream` and the host's read calls; `get_script_hash_by_index`.
4. Theorems: `OneFrame` with the checksum as an uninterpreted incremental
   function; `ProfileIsWellFormed` from a `PprofTable` that adds one entry of a
   table per step.
