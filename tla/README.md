# DartEMU in TLA+

DartEMU is a RISC-V machine emulator in Dart: one hart (RV32/RV64 IMAFDC with
M, S and U modes), an interrupt controller, a timer, VirtIO devices, a
user-mode network, a 9P share, snapshots, an "agent sandbox" that drives a
guest shell, and a small agent in C that runs in the guest. This directory
holds TLA+ specifications of it, the TLC configurations that check them on
small instances, and TLAPS proofs about them.

The emulator runs on one Dart isolate. Concurrency is of four kinds, and the
models are built around them:

- the **guest** is a concurrent program of its own (drivers, interrupt
  handlers, a kernel that sleeps and masks interrupts), and its steps interleave
  with the host's at instruction boundaries;
- the **machine loop** alternates: poll the hosts, then run the CPU for a
  budget of instructions, then give the event loop a turn;
- the **event loop** runs socket callbacks, completed futures and API calls
  between two steps;
- the **programs in C** that run in the machine have processes and tasks of
  their own: the guest agent with the commands it starts and the host it calls,
  the sensor firmware with its two FreeRTOS tasks.

## 1. Inventory

| Part (under `lib/src/`) | State | Operations | What must hold |
|---|---|---|---|
| VirtIO transport, `device/virtio/virtio_device.dart` | status, per-queue cursor `lastAvailIdx`, interrupt status, line, config space | MMIO stores (notify, ack, reset), `consumeDescriptor`, `notifyConfigChange` | each published buffer is looked at once and in order; a used entry or a configuration change is always announced |
| VirtIO devices: block, console, net, 9P | a request in the rings, the fid table | `deviceReceive`, host pushes input | a whole chain is answered, a malformed one skipped |
| PLIC, `machine/plic.dart` | pending and served masks; external bits of `mip` | line level, claim, complete | `mip` is current; a line raised during service is not forgotten |
| Machine loop and WFI, `machine/riscv_machine.dart` | `powerDown`, the polled devices | `step` | the hart wakes for work; nothing polled is slept over |
| Privilege and traps, `cpu/exception.dart` | privilege, `mstatus`, `*epc`, `*cause`, `mip`, `mie` | raise, `mret`, `sret`, choice of an interrupt | a handler returns to what it interrupted; its registers are not overwritten before it saves them |
| Dispatch loop, `cpu/cpu_executor.dart` | program counter, the code page it runs in | fetch, decode, execute, interrupt check | what is executed is what memory holds |
| Predecode cache, `cpu/predecode.dart` | direct-mapped decoded pages | lookup, install, invalidate | never stale |
| TLB and MMU, `cpu/tlb.dart`, `cpu/mmu.dart` | three direct-mapped TLBs, A and D bits in memory | translate, fill, flush | a fence takes effect; permissions are checked |
| CSR file, `cpu/csr.dart` | control registers, counters, PMP | read, write with masks | views agree (`sstatus` of `mstatus`, `sip` of `mip`) |
| M, A, F, D extensions | reservation, fp registers, flags | arithmetic | SC succeeds only after its LR |
| CLINT, SBI, HTIF, `machine/*.dart` | compare register, console queue, power words | `checkTimer`, `set_timer`, console, reset | the timer fires when due and not before |
| Snapshot, `machine/machine_snapshot.dart` | a copy of the machine | capture, restore, fork | a restored machine goes on as the captured one |
| Physical memory, `machine/phys_memory_*.dart` | ranges, dirty bits | lookup, register | every write by a device is noticed |
| Configuration and device tree | - | build, parse | sequential, pure |
| User network, `net/user_net_device.dart` | frame queue, pending DNS queries, sessions | frames from the guest, `poll` | every query that resolves is answered |
| TCP sessions and back ends, `net/tcp_session.dart`, `net/backend/` | session state, two sequence numbers, socket buffers | guest segments, socket events | the byte streams arrive whole and in order |
| HTTP proxy (web) | a parser's buffer, one request in flight | data, response | every request answered once |
| 9P file system, `device/virtio/ninep/` | fid table, tree of nodes | walk, open, create, remove ... | a fid refers to the file it was walked to |
| Emulator, `emulator/emulator.dart` | the machine, running flag | start, stop, step, reset | stop stops; nothing runs after dispose |
| Agent sandbox, `sandbox/` | console buffer, marker, machine | boot, exec, snapshot, dispose | an exec returns its own output and status |
| Command line, Flutter example, tools | - | parse, draw | not modelled: I/O |
| Guest agent, commands: `agentos/src/shell.c` | the pipe, the job's process group, a deadline | `shell_run` | bounded output, nothing lost unreported, nothing left running |
| Guest agent, JSON: `agentos/src/json.c` | growing buffers, a tree of values | append, write a string, parse, free | no block lost, no half value, what is written is read |
| Guest agent, turns: `agentos/src/agent.c`, `chat.c`, `llm.c`, `http.c` | the conversation, one connection | a question, a POST, a reply, its commands | each call answered once and in order, no torn reply recorded, every turn ends |
| Sensor firmware, `tool/image_builder/freertos` | a queue of readings, statistics, HTIF's two words | sample, send, receive, print, power off | each reading shown once and in order, then power-off |

How they interact: a store by the guest to a device register runs the device's
code to completion inside the instruction; the device raises its line
(`irq_signal.dart`), the PLIC recomputes `mip`, the dispatch loop looks at
`mip & mie` before each instruction. Host input enters from
`RiscVMachine.step`, between two runs of the CPU. Device writes to memory call
back into the executor so that decoded code is dropped. The emulator and the
sandbox call `step` in a loop with an `await` between two calls; sockets and
timers run in those awaits.

What is hard: everything derived from something else and kept beside it (`mip`
from the PLIC, TLBs from page tables, decoded pages from memory, ring cursors
from ring indices), interrupts that meet a masked or a sleeping hart, nested
traps over one set of trap registers, protocols spoken with a guest that may
reset at any point, 16-bit indices, and API calls that arrive in an await.
In the C programs: allocations that fail anywhere, calls whose results are
ignored, connections that end early, processes that outlive their parent and
hold its pipe, a task switch between two stores to a device. `PROJECT.json`
lists each hazard at its line, with the properties that cover it, or the
planned module that will, or the reason why none does: mostly that the code
itself fails there, in a way section 3 lists among its limits.

## 2. Modules

| Module | Models | Uses |
|---|---|---|
| `RequestQueue` | what one virtqueue promises: abstract | - |
| `VirtioQueue` | transport, receive paths of console and net, guest driver | implements `RequestQueue` |
| `Plic` | the interrupt controller | - |
| `InterruptPath` | devices, WFI, machine loop, guest's handler | extends `Plic` |
| `Trap` | privilege, traps, timer delivery, SBI or firmware | - |
| `CodeCache` | TLBs, decoded pages, the loop's code page | - |
| `TcpSession` | one proxied connection: session, host socket, guest's TCP | - |
| `Shell` | `shell_run` with the command's processes | - |
| `Json` | buffers, writer, parser, accessors, as operators | - |
| `JsonExchange` | a value written, carried, torn, read and freed | extends `Json` |
| `HttpPost` | one POST and the host's proxy | - |
| `Agent` | questions, requests, replies, tool calls | extends `HttpPost` |
| `Sensor` | the firmware's tasks on the HTIF console | - |
| `Sandbox` | boot, exec and dispose over one console and one shell | - |
| `MC*` | definitions for TLC (symmetry) | the module they check |
| `AgentosProofs` | theorems about `Agent` and `Shell` | both, `TLAPS` |
| other `*Proofs` | theorems | the module they are about, `TLAPS` |

### VirtioQueue

State is the two rings with 16-bit indices (`IdxModulus` stands for 2^16), the
device's own cursor `lastAvailIdx` - a Dart int that is only incremented or
reset -, interrupt status and line, and the driver's private cursors. A store
to QueueNotify runs `_queueNotify` to its end before the guest runs again, so
`drain` holds the index sampled at the start and nothing but `DrainStep` and
`DrainEnd` happens while it is set. A queue the machine fills (`manualRecv`,
chosen at the start) has no loop; `HostInput` is `receivePacket` and the
console's `writeData`. `InterruptAck`, `Reset`, `ConfigChange` are the MMIO and
configuration paths. The driver (external) reads the status, acknowledges,
looks at the configuration, walks the ring, and may reset the device with
buffers in flight; host events fall between any two of its steps.

A chain is `whole` or `runt` (one the device refuses, whatever the reason);
buffers have no contents.

### Plic and InterruptPath

`Plic` keeps the pending and the served set, and one boolean for MEIP and SEIP,
which the code always sets together; each operation ends with `UpdateMip`, as
in the code. `InterruptPath` puts it between devices and a guest:
`phase` is whether the machine is inside `CpuExecutor.execute`; `PollInput`
happens outside it, `Notify` (a device answering inside the guest's own store)
and the guest's handler inside it. `EnterCpu` is the wake-up test of `step`,
`Wfi` the instruction, `TakeInterrupt` the check before an instruction, which
returns from `execute`. The guest idles with interrupts masked, as kernels do.

### Trap

One hart in the two ways the machine boots, chosen at the start: `~firmware` is
`_bootKernelDirectly` (everything delegated, SBI served by the emulator),
`firmware` a machine-mode firmware below the kernel. `TrapTo`, `XRet`,
`HasPendingInterrupt` and `PendingInterrupt` translate `exception.dart`,
the last two *as they are*: which interrupt is delivered is chosen
without regard to which one was found deliverable, and a return restores the
enable bit of the privilege returned to. The guest is a nest of
activations; `interrupted` is a history variable that remembers what each
level interrupted, and the properties compare the registers with it.
`Features` are things firmware may do beyond passing on the timer.

### CodeCache

A page holds one instruction. `Store` has the two paths of the code: a hit in
the write TLB writes memory and tells nobody; a miss translates, fills the TLB
and drops the decoded page. `InstallCodePage` purges write-TLB entries of a
page decoded for the first time, `DropDecodedPage` evicts a page and makes the
loop leave it, but only if a decode was there. `LeafSize` is the number of
virtual pages a leaf maps. `mapped` is a history variable: where each virtual
page has pointed since the last fence that covers it.

### TcpSession

One connection from the guest's SYN to its end. A segment of the guest is
handled to the end inside the store that notifies the network device, so each
sending action of the guest contains `HandleSyn` or `HandleTcp`. What goes to
the guest waits in `rxQueue`, the device's `_rxQueue` and its receive ring in
one: the device keeps order in both. `Poll` is the session's share of
`_pollTcpSessions`, once per step of the machine, when the session has data to
send or a FIN. Socket callbacks (`Connected`, `ConnectFails`, `PeerSends`,
`PeerCloses`) happen between steps. Sequence numbers count from each side's
SYN; guest bytes are named by their number, so that a sequence of bytes is in
order exactly if its k-th element is k. A new SYN opens a new host connection
whatever the table holds, as the code does; `conn` counts them, and stands for
the random number that tells the guest's TCP one from another.

The guest's TCP (external) accepts what is due and fits its window and discards
the rest, acknowledges, and as its `Features` allow sends segments again, joins
data to the end of the handshake, or closes.

### Shell

One call of `shell_run`. `place` is where the agent is: `Check` the head of the
loop with the deadline, `PollNothing`, `PollFails`, `EndOfOutput` and `Drain`
what `poll` and `read` may return, `Reap` the `waitpid` after it. The command
is the shell and one background process; `Exec` is the child from `fork` to
`exec`, so a kill may come before it. Bytes are numbered as they enter the
pipe, which keeps their order, so that counters stand for the text. `Faults`
are the calls that may fail: `ReadFails` leaves the loop as `PollFails` does, and
the append at the end of `Drain` is `Appended` or `AppendRefused`, whose result
the code does not look at; `dropped` counts the bytes lost by it.
`Behaviours` are what a command may do besides writing and ending: leave its group
(`setsid`), close its output.

### Json and JsonExchange

`Json` translates `json.c` function by function into operators; a text is a
sequence of symbols, each a character or a group the code treats as one. The
heap is a count of live blocks, so that a leak or a double free shows as a
wrong count, and a number of the allocation that is refused. `JsonExchange`
writes a value into one buffer as `chat.c` does, lets the text arrive symbol by
symbol, reads what came whenever the connection ends (`http.c` looks at no
length), and frees it. It may be any text, too.

### HttpPost and Agent

`HttpPost` is `http_post`: the request in the parts it is appended in, the
first lines of its head, Content-Length, the line with the blank line behind
it, and the body. Any of them may be missing, because no append is checked, and
what is left is sent. `Complete` is when `GuestRequestParser.take`
(`net/http_proxy.dart`) returns a request: it has found the blank line, and as
much behind it as Content-Length promised. The reply comes in pieces, read
until the connection ends. The host (external) answers with anything, at any
time, and closes when it likes. `Agent` is `agent_main`, `run_turn` and
`llm_complete` above it: `Ask`, `Judge`, `Record`, then one `RejectCall` or
`RunCall` for each call. A reply's text is abstracted to what the agent makes
of it: whether it is framed as HTTP, has status 200, holds a message, an error,
nothing or junk, and its calls with what is missing in them. That a torn body
is not taken for a message is what `JsonExchange` checks (`TornIsRefused`) and
`Parses` uses. Every place where memory may run out is an alternative with
`Refuse`, at most `MaxRefused` of them in a run. `NoId` is where a NULL id
reaches `strlen`.

### Sensor

The sensor task has the higher priority, so the logger steps only where the
sensor cannot, and is preempted between any two stores to the console.
`Process` is `_processCommand` of `machine/htif.dart`, which acts on each
store of either half; `StoreLow`, `StoreHigh` and `PowerOff` are `htif.c`. The
kernel (external) is what its calls promise; ticks come between any two steps.
The console's mutex has one user and is left out; so are the two ends of the
program before the scheduler starts. `stats` starts with `min` at `INT32_MAX`,
as in `logger_task`, and a reading is any `int32_t` that is not negative: a
negative one is the sentinel to the logger, and `sample_temperature` returns
none.

### Sandbox

One `AgentSandbox`, new or restored, with its console. `call` holds every call
in progress, boot's among them. The event loop runs one at a time; a call gives
way between a step of the machine and the next look for its marker, which is
`Again`, so `pc = "step"` is the one call that has the thread, and the guest
moves only then. `SendExec` is `exec` up to its first look: marker, queue and
sequence number change in one go, for whoever calls. `FoundPrompt`, `FoundEnd`
and `FoundIdle` are the ends of the three loops (`_drive`, `_driveExec`,
`_recover`), `Step` the way round them, `Expire` and `Down` the ways out.
`machine = "none"` is the null `_machine`, at which the next step throws.

The guest (external) is a terminal and a shell that reads a line when it has
nothing to do. A command ends, in time or not, perhaps having read the line
behind it, or ignores Ctrl-C, or shuts the guest down (`Kinds`). Any command of
a caller may leave a process in the background (`LeaveBehind`), which Ctrl-C
does not reach and which writes when it likes from then on
(`BackgroundWrites`), also into a later call's output, but not into a line the
shell is writing, which is one write to the terminal. Ctrl-C overtakes the
lines the terminal holds and may discard them. Text is a sequence of tokens:
markers with their numbers, echo (which stands for the prompts too), output of
a command, text of a process in the background (`"late"`, with the command that
left it), and the status behind an end marker, which may come in pieces.
`alone` is a history variable: was another call ever in progress with this one.

## 3. Runs

| Run | Question | Result |
|---|---|---|
| `virtio_queue` | a queue the guest notifies, with runts, or one the machine fills, with resizes; resets at any time | the rings implement `RequestQueue`, no slot is lapped, nothing lost unseen, every whole buffer returns, `canReceivePacket` tells the truth up to the wrap |
| `virtio_index_wrap` | the same past the wrap of the 16-bit index | **violated**: the first finding below |
| `interrupt_path` | used entry to driver, through polls, WFI, masking, claims | `mip` current, no work lost, all of it taken |
| `trap` | a kernel booted directly, or above firmware that passes on the timer, sends IPIs and redirects traps | returns resume, the firmware's trap registers survive; booted directly: never in machine mode, trap registers intact |
| `code_pages` | stores, device writes, remaps, fences, fence.i over aliased pages | memory is executed, decoded pages are watched, fences take effect |
| `tcp` | a guest that may send SYNs and segments again, connect again and close; sockets that connect late or fail | its program reads one peer's stream in order, the end last; until it sends something twice the host reads in order, nothing acknowledged is lost, all the peer sends arrives |
| `shell` | one command, a shell and a background process in every order; `pipe`, `fork`, `chdir`, `poll`, `read` or the output's memory failing | output bounded and the cut marked; only a failing poll, read or append loses more; nothing left running, ended by the deadline |
| `json_exchange` | values torn at every symbol, any one allocation refused, every short text | no leak, what comes whole is read as meant, torn or starved is refused |
| `agent` | two questions, hosts that answer anything and close at any time, one refused allocation, which may cost any part of a request | protocol kept, nothing torn recorded, nothing run twice, turns end unless a host waits for what the request lacks |
| `sensor` | two tasks, a full queue, a late sensor, preemption between stores | each reading once, in order; off with the summary shown |
| `sandbox` | boot with stty and mount, two calls of exec, dispose, over commands that end, eat lines, hang, shut the guest down or go on in the background | a call that was alone returns its own output once and its own status, and nothing else but echo and what processes in the background write; between calls the shell is idle |
| `sandbox_status` | a step that ends between the marker and the status | **violated**: completed without the status |

The findings, each with a counterexample TLC prints:

- `virtio_net.dart:113`, `virtio_device.dart:346`. The cursor never wraps and is
  compared with an index that does; after 65536 buffers `canReceivePacket` is
  true of an empty queue, against its comment (`virtio_net.dart:52`).
- `agent_sandbox.dart:259`. The status is read as soon as the marker has come,
  not when its line has; a step that ends in between gives a completed call
  without its status, or with the first digits of it, against line 182 ("and
  the exit status") and `exec_result.dart:32`.

More limits of the code bound what the passing runs and the theorems claim.
They have no run of their own; each shows when one constant or condition is
changed:

- `exception.dart:71`. With a delegated, masked interrupt pending beside an
  undelegated one, the masked one is delivered: above a firmware with `"ipi"` a
  kernel that has masked its interrupts is interrupted all the same. No property
  of `trap` says that it is not; booted directly every interrupt is delegated, and
  the question does not arise.
- `tcp_session.dart:124`. No sequence number is looked at, so a segment that is
  sent again is given to the host again and counted again: `HostStreamInOrder`
  fails in `tcp` without its condition `resent = 0`.
- `mmu.dart:20`. A fence on one address of a superpage drops one of the 4K
  entries it was split into: `FenceTakesEffect` fails in `code_pages` with
  `LeafSize = 2` (and page sets of even size).
- `exception.dart:30`. `mret` writes MPIE to the enable bit of the privilege
  returned to, so a trap redirected to the kernel starts with interrupts
  enabled: `EntryMasked` and `TrapRegistersIntact` fail in `trap` without
  their conjunct `~firmware`.
- `tcp_session.dart:62`. The guest's window is not looked at and nothing is
  kept for sending again: `PeerStreamDelivered` fails in `tcp` with
  `Window = 2`.
- `tcp_session.dart:131`. A FIN that comes before the host's socket is connected
  drops bytes already acknowledged: `AckedIsRelayed` fails in `tcp` without
  its conjunct `~finSent`.
- `tcp_session.dart:114`. Data joined to the last segment of the handshake is
  dropped: `HostStreamInOrder` fails in `tcp` with `"piggyback"` in `Features`.
- `shell.c:122`. `waitpid` has no deadline. A command that closes its outputs
  (or a failing `poll`) ends the loop before the kill, and the agent waits as
  long as the command likes, though its prompt says "A command is killed after
  %ld seconds" (`agent.c:33`): `EndsByDeadline` fails in `shell` without
  `[]Contained`. A process that has made a session of its own and keeps
  the pipe has the same effect, one `killed` does not reach, though
  `agentos/README.md:47` says that a timeout takes the whole group so that a
  child in the background cannot hold the pipe open.
- `shell.c:77`. A kill before the child's `setpgid` hits nothing and is not
  repeated: `JobGone` fails without `~missed`.
- `shell.c:116`. The result of the append is not looked at: a chunk that finds no
  memory is missing from an output that is not marked truncated. `OutputBounded`
  and `NothingLost` fail in `shell` without `dropped`.
- `shell.c:97`. A read that fails counts as the end of the output, as a failing
  `poll` does (`shell.c:89`): what is in the pipe is lost without a mark.
  `NothingLost` fails without `~gave_up`.
- `http.c:84-90`. The appends of the request are not checked. If the blank line
  (line 89) finds no memory, the host reads on for the end of the head
  (`http_proxy.dart:129`); if the body does, for what Content-Length promised
  (`http_proxy.dart:155`); and the agent waits for the reply, for ever:
  `TurnEnds` fails without `Starved`. Other lines may be missing and the host
  answers, or refuses, what it gets.
- `agent.c:132`, `152`, `168`. A message that finds no memory is left out and
  the conversation goes on, with calls nobody answers or answers nobody asked
  for: `WellFormed` fails without `refused = 0`.
- `main.c:16` calls `--max-steps` the tool calls allowed per question; the loop
  (`agent.c:121`) counts requests, each with any number of calls. `Agent` is
  written as the loop is.
- `json.c:106`. Overlong UTF-8 (a lead byte C0) passes the writer, which
  claims to emit nothing a strict parser rejects (`json.c:103`). The run's bytes
  leave it out: with `"C0"` in `MCBytes`, `RoundTrip` fails.
- `llm.c:162`. Where the calls find no memory, the reply's content and message
  are not freed; `Json` counts only its own blocks, so no property shows it.
- `agent_sandbox.dart:206`. Two calls of exec that overlap share one marker:
  the one that looks first returns what the other printed, with the other's
  status, and the other runs into its deadline. `OwnOutput` fails in
  `sandbox` without `call[t].alone`.
- `agent_sandbox.dart:185`. A command may leave a process in the background, and
  nothing in the code tells its text from that of the command that runs: it may be
  in the output of any later call, and Ctrl-C (line 295) does not end it. `OwnOutput`
  fails in `sandbox` without the alternative `"late"`.
- `agent_sandbox.dart:332`. If dispose comes in the turn of the event loop after
  the prompt was printed, boot still says that the sandbox is ready, and it has
  no machine, against line 74 ("... ready for [exec]"): `booted` does not imply
  `machine # "none"` in `sandbox`.
- `agent_sandbox.dart:130`. The result of the exec that quiets the shell is not
  looked at; if it was stopped and recovered from, boot returns with the echo
  on, against line 127 ("pure command output"): in `sandbox` an `echo` may be in
  the output of a call made after boot has returned.
- `agent_sandbox.dart:124`. `ready` is true while boot still quiets the shell and
  mounts, and stays true after the guest has shut down; an exec then returns
  `timedOut` at once. A boot after dispose is not refused (line 117), though
  line 216 says that the sandbox cannot be reused.
- `shell.c:64`. A command inherits the agent's standard input, and may read the
  next question; input is not in `Shell`.

### Bounds, and why they are enough

- `VirtioQueue`: two slots and two heads are the least in which a slot is reused
  and two buffers can be reordered. `IdxModulus = 8` with `MaxPosts = 5` keeps
  the passing runs short of a wrap of the available index between two resets
  (that is the finding) while the slot number wraps twice; `virtio_index_wrap`
  uses modulus 4 and the same five posts to cross it. A reset starts the count
  again, so runs are of any length.
- `InterruptPath`: two sources are enough for one to be raised while the other
  is served; `MaxEvents = 3` lets a source be raised before, during and after
  the service of one claim. The count is a bound on the environment only, so the
  system comes to rest when it is used up and a sleeping hart's `step` then
  changes nothing: `CHECK_DEADLOCK FALSE` for that reason. (The other runs with
  it are `sensor`, where the machine is powered off in the end, and those of
  `Sandbox`.)
- `Trap`: `MaxLevel` is how deep the kernel lets itself be interrupted. Depth 2
  is the first with a nested handler; the run goes to 4. The theorems hold for
  every depth.
- `CodeCache`: three virtual pages over a TLB of two entries and two physical
  pages over a cache of one: every collision and every alias happens. Two
  instructions tell old from new; they are symmetric.
- `TcpSession`: with `Mss = 2` and `MaxPeer = 3` what one poll finds may be one
  segment, exactly one, or two; two guest bytes are enough for one to be kept
  for the socket and one to follow when it is connected. `Window = 3` holds all
  the peer sends (see `tcp_session.dart:62` above). `MaxConns = 2` and
  `MaxResent = 1` let the guest send its SYN or one segment again. A connection
  is opened, used and ended once; the guest opens no other from the same port.
- `Shell`: a limit of three bytes read in chunks of two is passed by a chunk
  that half fits and by one that finds no room; six bytes written are enough to
  fill the pipe of three, pass the limit, and write on after a kill. One
  background process stands for all: they are in the job's group or not, and
  hold the pipe or not. Any call in `Faults` may fail any number of times.
- `JsonExchange`: strings of two bytes, some of three, hold each class of byte
  before and after each other; values are two levels deep, which nests each
  function of the parser in each other; junk is every text of three of the
  twelve symbols that steer the parser. `MaxRefused = 9` is more allocations
  than any of the values needs. `MinCap = 2` makes buffers grow twice.
- `Agent`: two questions of two steps each, replies with two calls, one of them
  misunderstood. A second question is needed to see what an ended turn leaves
  behind. `MaxRefused = 1`: any one allocation. `RequestParts = 4`: one line
  before Content-Length stands for the four there are, none of which decides
  whether the host takes the request for whole.
- `Sandbox`: two calls of exec behind boot's own two, two of all these at once
  (`MaxBusy = 2`), each with its `_recover` behind it: what one call leaves
  behind meets a call that overlaps it and a call that comes later. boot is
  called once. A call may run into its deadline at any point, before its command
  ends or after, so `"ends"` stands for commands that hang too; one that ignores
  Ctrl-C (`"deaf"`, left out) would add only a way for the recovery to fail,
  which it may do by time alone. A process in the background writes once between
  two waits (a second time would add text of the same kind), and `JobsMixed =
  FALSE` leaves out calls that overlap while there is one: what `OwnOutput` says
  is of calls that were alone, and such a process feeds no line and takes none,
  so `ReadyIsIdle` does not depend on it; the theorems hold for either value. A
  status comes in two pieces only behind the marker that is waited for. After
  the last call nothing need happen: `CHECK_DEADLOCK FALSE`.
- `Sensor`: four samples over a queue of two fill it; `MaxTick = 9` is one more
  than the samples need, so the sensor may be late by as much.

### Fairness

`VirtioQueue`: the drain loop is a Dart `while` loop, so it runs; the guest
notifies what it published and services a line that stays high, which is what
`InterruptPath` shows the machine delivers. `QueueNotify` needs strong fairness
because interrupts can take the driver away from it again and again, but a run
of the CPU has many instructions and host events fall only between two runs.
Nothing makes the host produce input or the driver post or reset.

`InterruptPath`: the embedder calls `step` again and again (weak fairness of
`EnterCpu`, `LeaveCpu`). A call executes at least one instruction, so a guest
that can take a step infinitely often takes it: strong fairness of the handler,
of the interrupt check, and of the kernel's unmasking - a kernel does not keep
interrupts masked for ever. Masking, sleeping, notifying and input have none.

`TcpSession`: the machine polls once per step; the guest's network stack takes
what is in its ring and acknowledges it, and its program reads (weak fairness of
`Poll`, `Receive`, `Ack`, `Read`). The guest need not write or close, the
socket need not connect, and the peer need not send.

`Shell`: the agent's loop runs, the child gets as far as `exec`, and time
passes (`Expire`); the command need never do anything, not even end. A killed
process ends at once, as SIGKILL makes it.

`Agent`: the agent goes on, and a host that has been sent a request it can take
for whole (`Complete`) closes in the end (the proxy answers `Connection:
close`). Nothing makes the user type, a starved host give up, or the host
answer before it closes.

`Sensor`: the clock ticks, and the processor runs a task that is ready.

`Trap`, `CodeCache`, `JsonExchange` and `Sandbox` are checked for safety only.
That a call of exec ends follows from its deadline, which no guest can move.

## 4. Proofs

All theorems are checked by TLAPS for every value of the constants that the
named assumptions admit (`QueueAssumption`, `SourcesAssumption`,
`EventsAssumption`, `TrapAssumption`, `CacheAssumption`, `TcpAssumption`,
`ShellAssumption`, `HttpAssumption`, `AgentAssumption`, `KindsAssumption`,
`CallsAssumption`, `SensorAssumption`). Each follows the same
argument: an inductive invariant holds initially, each action preserves it, and
it implies the property; the last step is temporal.

- `VirtioQueueProofs`. `TypeCorrect` is the type invariant. `InterruptsKept` and
  `ConfigChangesKept` need no strengthening: whatever makes an entry or a change
  unseen raises the bit and the line in the same step, and the driver drops no
  bit it has not copied first. The other three assume that the posts between two
  resets do not reach `IdxModulus` (`MaxPosts < IdxModulus`), which is the
  finding seen from the other side. `CursorsOrdered` gives `NeverAhead` and
  `CanReceiveHasDescriptor`, and `NeitherLaps` gives `NoLap`, from an invariant
  that chains the five cursors of the two sides and the index a running drain
  goes to (`Cursors`). `RingsImplementQueue` is the refinement,
  `ImplementsRequestQueue`: every step is one of `RequestQueue`'s or a stutter.
  The mapping reads the abstract queue's two sequences off windows of the rings,
  and that takes two invariants more. `Rings`: a head lies in at most one place
  of the two windows and is in flight wherever it lies, so that no chain is
  built anew under a published buffer and no window holds a head twice.
  `Mapped`: each sequence is its window entry by entry; from there a step that
  moves one end of a window appends an element or drops the first, and one that
  writes a slot outside leaves it alone.
- `InterruptPathProofs`. `PathSafe`: `mip` is current, no work is lost, and one
  activation per source, for any set of sources. The strengthening ties a
  source's line to its device's status (`LineIsStatus`) and the handler's place
  to the claim it holds (`HandlerState`). `MipNeverStale` is its part about
  `mip`.
- `TrapProofs`. Two invariants, as the machine boots in two ways. For a direct
  boot, which no step changes (`Direct`): the whole nest, what runs at which
  level (`Nest`), that each level's interrupted context is that of the level
  below (`Stack`), and that the saved frames are those contexts (`Frames`);
  without the last two a return from level n says nothing about level n - 1. It
  gives `DirectBootSupervisor` (`NeverMachine`), `DirectBootSafe`
  (`TrapRegistersIntact` and `EntryMasked`). Above a firmware the kernel's trap
  registers may be overwritten (section 3), and yet `FirmwareSafe`
  (`MachineRegistersIntact`) and `ReturnsResume` (`ReturnsToInterrupted`, of
  both boots) hold. Their invariant (`EInv`) says that whatever a level holds as
  its way back, in its registers or its frame, is either exactly the context it
  interrupted, one level down, or a place of its own level (`Held`): a handler
  that was overwritten goes round for ever, and so never returns to a wrong
  place. Nothing interrupts the firmware itself.
- `CodeCacheProofs`. `MemoryExecuted`: with the type invariant, that each cache
  and TLB entry lies where its number indexes (`Placed`) and that the loop's
  page is in the cache as the loop holds it (`CodeIsCached`), what is executed
  is what memory holds, for every size of TLBs and cache, with no use of
  fence.i. `DecodedPagesWatched` is the part it rests on: no write-TLB entry,
  under any alias, covers a decoded page. `FencesTakeEffect` assumes 4K leaves
  (`LeafSize = 1`), as the limit at `mmu.dart:20` in section 3 says it must.
- `TcpSessionProofs`. `GuestReadsInOrder`, for every `Features`: the proxy's
  number is that of the first byte not yet taken from the handle (`ProxyInv`),
  so every data segment in flight, old or new, of this connection or an earlier
  one, carries the bytes its number says, and the guest takes only what is due
  (`GuestInv`). `GuestSeesTheEnd` (`FinAfterData`), for every `Features` too: a
  FIN in flight, old or new, belongs to a connection whose peer has closed and
  carries the number behind all that peer sent (`Ending`), and a closed peer
  sends no more. `HostReadsInOrder` and `AckedIsWithTheHost` (`AckedIsRelayed`),
  for a guest without `"piggyback"`, whose data with the end of the handshake
  the session drops: until something is sent twice (the limit at
  `tcp_session.dart:124`), what the socket has and what waits for it is together
  all that the guest has written, and what is acknowledged is no more than that
  (`RelayInv`). Its part about a session that has ended is needed because the
  proxy may end it and leave the socket open.
- `AgentosProofs`, about `Shell`. `ShellTypes`, and `ShellSafe`:
  `OutputBounded`, `NothingLost` and `JobGone` together, for every limit, chunk,
  pipe and set of faults; what a refused append loses is `dropped`, and told by
  nothing. The strengthening relates the counters (what is taken was written,
  what is kept or dropped was taken, `truncated` exactly where they differ),
  says that the loop is left only with the pipe empty and nobody to write into
  it (or a failed `poll` or `read`), and that after a kill that found its group
  no process of the group runs. `ShellOutputBounded` and `ShellJobGone` are two
  of the three, by name.
- `AgentosProofs`, about `Agent`. `AgentTypes`; `AgentKeepsProtocol`:
  `WellFormed`, from an invariant that says how far the answers of the last
  message have come (`Owed`); `AgentSafe`: `RecordedWasGiven`, from where the
  calls being dealt with came from (`Provenance`; by itself
  `AgentRecordsGiven`), and `RunOnce`, from `ran` lying behind the call that is
  next (`Spent`). Any set of replies, with lists of calls of any length, any
  number of steps, questions and refused allocations.
- `SandboxProofs`. `SandboxTypes`; `SandboxReadyIsIdle`: `ReadyIsIdle`, for any
  number of calls that overlap without bound and any kinds of commands
  (`KindsAssumption`, `CallsAssumption`). Whoever starts to wait also feeds the
  line that ends the wait, so that line is the last in the queue
  (`MarkerIsLast`); the guest reads in order, and so has read all of it when the
  marker is out (`FoundIsIdle`), whichever call finds it. Commands that eat
  lines and a Ctrl-C that discards them only thin the queue (`Cut`).
  `SandboxOwnOutput` (`OwnOutput`) follows one call that is alone: it found an
  idle shell, so its two lines are the only ones fed, and from then on the world
  is in one of six conditions (`Undisturbed`) - both lines unread, the command
  running, the command over, the end marker printed, the guest shut down, or no
  machine - in each of which the text is known up to echoes, what processes in
  the background write, and what is left of the status before. `LateIsLeft`:
  such text is always of a command that has left one. Ctrl-C and a second call
  cannot come between, as only a call in progress sends either. `Numbered` keeps
  the next command's number unused.

- `SensorProofs`. `SensorLogFaithful` (`LogIsFaithful`), `SensorOffWhenDone`
  (`OffWhenDone`) and `SensorTypes`, for any number of samples, period, depth of the
  queue and set of temperatures. Neither property is inductive: what the
  console may show next depends on where each reading is. The invariant follows
  a reading on its way. `Place`: the one being sent is the last sampled.
  `Queued`: the queue holds, in order, exactly the readings sent and not yet
  counted, and behind the last of them the sentinel. `Statistics`: the four
  numbers are those of the readings counted. `Shown`: what the device has shown
  and what is left to print are together the log of the readings counted, and
  with the summary the whole log. `Device`: which word of `tohost` holds what
  after which half of a character, so that no pair of halves of two characters
  is taken for a third, or for power-off. `SummaryIsWhole` joins the last two:
  the summary printed is that of the readings sampled.
  The log and the sum are recursive functions of a sequence (`FlattenSeq`,
  `SumOf`), and what they give for a longer sequence is an induction. The
  library's induction theorems take a predicate as a parameter and cannot be
  instantiated here, so `SetInduction` proves the induction for a set, from the
  well-foundedness of `<` on the naturals; with it each recursive function is
  shown to exist (`AddsExist`, `JoinsExist`) and to agree with any other on
  what two sequences share (`AddsAgree`, `JoinsAgree`), which makes it grow by one
  element at a time (`SumAppend`, `FlatAppend`).

Every safety invariant and action property of the passing runs is stated by a
theorem, but for those of `JsonExchange`. Only model-checked are:

- liveness (`BufferReturns`, `UsedEntrySeen`, `WorkIsTaken`,
  `PeerStreamDelivered`, `EndsByDeadline`, `TurnEnds`, `PowersOff`): it
  speaks of fairness and `ENABLED`, which the provers do not know;
- `JsonExchange` (`NoBlockLost`, `RoundTrip`, `TornIsRefused`,
  `NeverPartial`): the parser, the writer and the trees they work on are
  mutually recursive and translated as `RECURSIVE` operators, in whose presence
  the provers have no arithmetic.

## 5. Not modelled

Soft float and the arithmetic of single instructions, decoding of instruction
words, device tree and configuration parsing, the command line, the Flutter
example with its generated desktop runners, and the tools: sequential data
transformations or pure I/O, for which the repository's tests are the better
means. Of the guest agent: its options and environment (`main.c`), the wording
of its prompt and of a result, and numbers as values (`strtod`). Of the
sandbox: a snapshot taken while a call is in progress, and the file helpers,
which are calls of exec. Of the firmware: the kernel itself (an external
library), its hooks, the C library shim and the hello application. Parts
planned below are listed in `PROJECT.json` as not yet modelled.

## 6. Plan

In this order; the first three blocks exist.

1. Core: `VirtioQueue`, `InterruptPath`, `Trap`, `CodeCache`, `TcpSession`,
   with their proofs.
2. The programs in C: `Shell`, `Json`, `JsonExchange`, `HttpPost`, `Agent`,
   `Sensor`, with the proofs of `Shell`, `Agent` and `Sensor`.
3. `Sandbox`, with the proofs that a ready sandbox is idle and that a call which
   is alone returns its own output.
4. `Snapshot`: capture, run on, restore and fork, with the derived state
   (`mip`, TLBs, decoded pages, timer) recomputed. Abstract specification: a
   machine whose state is a value; restoring must refine assignment.
   Runs: one with a guest that uses every register, one per omitted register.
5. `Timer`: the compare register in two halves, `checkTimer`, `set_timer`,
   `stimecmp`-less delivery as STIP or MTIP. Theorem: the timer is pending
   only when due.
6. `UserNet`: frame queue, pending DNS with its poll bound, composing
   `TcpSession`s in a table. `HttpProxy`: one request in flight.
7. `Emulator`: API calls interleaved at awaits. For `Sandbox`: an abstract
   specification in which exec calls are answered with their own output.
8. `NineP`: fid table over a tree; `Reservation`: LR/SC with traps between;
   `PageWalk`: the walk as a function over small tables, permissions, A and D
   bits, against a reference definition.
9. Proofs: the safety of each new module; `NoBlockLost`, once the parser is a
   recursive function of how deep a text nests.
