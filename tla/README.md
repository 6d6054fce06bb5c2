# A TLA+ model of the Trusty hwcrypto application for i.MX

The repository holds the board support for running the Trusty TEE on NXP
i.MX6UL and i.MX7D: the `hwcrypto` trusted application (`src/app/hwcrypto`), which
serves random numbers and keys to other trusted applications out of the CAAM
crypto engine, and the platform code (`src/platform/imx`): memory map, TZASC,
UART, secondary boot. The application is where most of the state, the concurrency
and the failure handling are; the platform code is modelled next to it.

## The system

| Part | State | Operations | Talks to |
|---|---|---|---|
| Event loop, `main.c` | the event being handled | `main`, `dispatch_event`, `tipc_handle_*_errors`, `tipc_send_*`, `tipc_recv_*` | kernel IPC; calls the handlers of both services |
| HWRNG service, `hwrng_srv.c`, `hwrng_srv_provider.c` | a context per channel (`req_size`, `send_blocked`), the list of pending requests | start, port handler, channel handler, the queue walk | clients by IPC, `caam_hwrng` |
| HWKEY service, `hwkey_srv.c`, `hwkey_srv_provider.c` | a context per channel (`uuid`), static buffers `key_data` and `req_data`, the RPMB key blob, the KDF root key, the key box in secure RAM | start-up from the key box, port handler, get key slot, derive key | clients by IPC, `caam_decap_blob`, `caam_gen_kdfv1_root_key`, HKDF |
| CAAM driver, `caam.c` | `g_rings`, `g_job`, the device's registers | `init_caam_env`, `caam_open`, `run_job`, six crypto calls, self tests | the CAAM (DMA, one-entry job ring), the clock controller, which the normal world also uses |
| UART, `imx_uart.c`, `debug.c` | FIFO flags | `uart_putc`, `uart_getc`, `uart_flush_tx`, console output | the device |
| TZASC, `tzasc.c` | region registers | `initial_tzasc` | the device |
| Platform, `platform.c`, `secondary_*`, `vtimer.S` | mappings, boot address of CPU 1, timer offset | hooks at init levels | the LK kernel |

The application is one thread. What makes it hard is what happens around it.
Clients connect, send, take replies and hang up between any two of its steps.
A channel holds one message per direction, so a send can fail. A pending
request must then be resumed by the right event. The static buffers hold keys
and are shared by all clients. Handles are reused. Any call may fail in the
middle of a handler. The CAAM works on shared memory while the driver polls,
without a timeout, in the only thread. The application is not restarted by its
manifest and keeps nothing on disk, so there is no crash recovery to model:
a failed assertion is the end of the process.

What has to be right, by part (the hazards in `PROJECT.json` give the lines):

* HWRNG: no freed context in the list or under the walk; no request blocked
  without an event to come; no byte lost or invented when requests are merged
  and served in parts; slow clients hold up nobody and are not dropped; every
  request is served.
* HWKEY: a reply answers its own request, with its own client's key and nothing
  left over from other requests; no key material stays in the buffers; every
  request is answered or its channel closed.
* CAAM: a job's status is its own; memory is not touched under the device; a
  success means the whole buffer was produced and is visible; the generator is
  instantiated before use; the clocks run; calls return.
* The application: the two services, on one thread and in one process, do not
  disturb, starve or see into each other; nobody is served before start-up is over.
* UART: what is printed is sent, once and in order, next to other writers;
  `uart_putc` returns; `uart_getc` returns what was received.
* TZASC and platform: the memory of Trusty, and nothing else, is closed to the
  normal world before that runs, and no write on the way opens what was sealed;
  registers are mapped before they are used; every processor gets to the normal
  world with a defined timer.
* Self tests: PASS means that the device did the work.

## Modules

| Module | Models | Extends |
|---|---|---|
| `TipcChannel` | kernel IPC (external): port, channels, one buffer per direction, events | |
| `EventLoop` | `main.c` | `TipcChannel` |
| `HwrngServer` | `hwrng_srv.c`, `hwrng_srv_provider.c` | `EventLoop` |
| `RngService` | abstract: what an HWRNG client is promised | |
| `HwkeyServer` | `hwkey_srv.c`, `hwkey_srv_provider.c` | `EventLoop` |
| `KeyService` | abstract: what an HWKEY client is promised | |
| `HwcryptoApp` | `main`: start-up and both services on one loop | instances of `HwrngServer` and `HwkeyServer` |
| `CaamDriver` | `caam.c` and the CAAM | |
| `CaamSelfTest` | the self tests of `caam.c` | |
| `ImxUart` | `imx_uart.c`, `debug.c` and the UART | |
| `Tzasc` | `tzasc.c`, `tzasc.h`, `tzasc_regions.h` and the TZASC | |
| `ImxPlatform` | `platform.c`, `imx-regs.h`, `vtimer.S`, `secondary_*` | `Tzasc` |
| `HwrngServerProofs`, `HwkeyServerProofs`, `HwcryptoAppProofs`, `CaamDriverProofs`, `CaamSelfTestProofs`, `ImxUartProofs`, `ImxPlatformProofs` | theorems about the module of that name | that module |
| `SeqLemmas` | lemmas on sequences that `HwkeyServerProofs` and `ImxUartProofs` share | |
| `MCHwrng`, `MCHwkey`, `MCApp`, `MCCaam`, `MCSelfTest`, `MCUart`, `MCPlatform` | constants and symmetry for TLC | |

### TipcChannel and EventLoop

A member of `Chan` is a connection slot that is reused once both ends of the
old connection are closed, as the kernel reuses handles. `inbox` and `outbox`
are the one receive buffer each end has (`port_create(..., 1, ...)`). `Poll`
gives the pending event bits. HUP and MSG are levels. SEND_UNBLOCKED is raised
once by the client's receive after a send met a full buffer and is cleared when
`wait_any` reports it. The kernel is not in the repository; this module states
what the services' code relies on.

`pc` says what the service thread does next: `"start"`, `"wait"`, `"dispatch"` (an
event was returned, its handler not yet run: clients may act in between, so the
event may be stale), service-specific steps, `"exited"`. `dispatch_event`'s
branch for an empty event has no step, since `wait_any` with no timeout does not
report one. The constant `Faults` selects the calls that may fail.

### HwrngServer

`ctx`, `req_size`, `send_blocked`, `hwrng_req_list` are the C state; `next` is the
position of `list_for_every_entry_safe`. One action is one handler, up to the
queue walk, which is one step per entry, because a client may take its reply or
hang up between two sends of the same walk. `req_size` counts modulo `SizeMod`.
`owed` is a ghost: what a client asked for and was not sent, counted without wrap.
A request is a number of bytes and a reply is its length.

### HwkeyServer

Buffers are kept cell by cell. A payload is a sequence of symbols and `"0"` is
the zero byte; a cell of key material is a term naming the key (RPMB, unittest,
or derived for a uuid from an input). Receiving overwrites only the cells of
the message, as `read_msg` does. A request takes three steps: receive and
compute, send, clear the buffers and close on error. Clients act between them.
`asked` is a ghost: the requests of a channel whose replies were not taken.
The name of the RPMB slot is a prefix of that of the unittest slot in the
model, so that leftover symbols can turn one name into the other.

### CaamDriver

Driver, device and normal world as three actors. A call checks the size it is
given (`SizeAsserted`; a failed assertion aborts), prepares its buffers
for DMA one by one (each may fail), runs a job and
goes on (`caam_hwrng` may need several jobs, since `prepare_dma` may cover a part of
the buffer). `run_job` is four steps, between which the device and the normal world
act: write the rings, `caam_clk_get`, start the job, and take the result once it is
there, which aborts if `out[0]` is not the job's address (an entry that was zeroed and not
written again; every job has the address of `g_job`). The
job writes as many cells as the descriptor's 16 bits say (`seg % LenMod`), a digest as many
as it has. The descriptor of the root key has room for 0x30 bytes; that the engine
fills the 32 bytes of the key is an assumption about it. `mem` is what the device wrote, `seen` what the CPU sees after
`finish_dma`. The clock gate register is modelled field by field, with the
code's expression for i.MX6; its read and its write are one step. The normal world gates clocks while the driver is
idle, and with the fault `"gate"` between any two steps of a job; `gated` records that it did so
after `caam_clk_get` of the current job. `g_rings` is where
`memalign` put the rings and `dirty` the words of them that `prepare_dma`, told of 4
bytes, left in the cache.

### HwcryptoApp

Both services are instances of the modules above, over disjoint handles and
memory. The module adds the thread: a handler of one runs only while no handler
of the other does (`RngBusy`, `KeyBusy`). It adds the order of `main`, where the HWRNG port is
open before the key box is unpacked, and the end: whatever ends the process
closes all handles and frees all memory of both. To the other service this looks
like a failed `wait_any`, which is why each instance has that fault. Every step is thus
a step of each service or leaves it alone, so that what is checked and proved of the
services carries over to the application. The CAAM calls inside a handler are one step here; `CaamDriver` has their
steps.

### CaamSelfTest

A test is the sequence of its statements: declare, set, call, compare. Contents are
symbolic terms in the `Cells` cells of a buffer. A call may fail with any part of its
output written, since the device may have got that far. A declared buffer holds
zero or what was on the stack.

### ImxUart

Several processors and the normal world write to one FIFO. A write to a full
FIFO is lost and a read of an empty one is undefined, which is what the device
does. `uart_putc` is one step per register access. `line`, `put` and `crowded` are ghosts;
`crowded` has the processors that wrote to a full FIFO in which the normal world had a byte.

### Tzasc and ImxPlatform

Memory is counted in blocks of 4 MB and registers in pages. `initial_tzasc` is one
step per register write. The registers of the three regions start with what a
boot loader may have left: as after reset, open, or sealed. The region with the
highest number that covers an address decides.
`ImxPlatform` takes the hooks in the order of their levels: the arena and the initial
mappings, the reset of the timer offset (two steps, in between in monitor mode
with the NS bit set), the mapping of the GIC, which may fail, its use, the TZASC,
the boot address of processor 1, the normal world. Every register access is
translated by the mappings that exist at that point and recorded (`hits`). On
i.MX7 the normal world then fills SRC_GPR4 and releases processor 1, in any order: Trusty
can check neither. It is taken not to write SRC_GPR3, which holds Trusty's entry.
`MEMSIZE` and `KERNEL_LOAD_OFFSET` are parameters of the build, `GENTIMER_EXT` is what
`virt_timer_init` reads from ID_PFR1. In the runs the offset is 0, since nothing in the repository
sets it, and the timer is there, as in the Cortex-A7 of both SoCs. Hooks at the
last level are taken to run before the normal world, as the kernel does with its
own.

## Runs

| Run | Instance | Shows |
|---|---|---|
| `HwrngSafety` | 2 clients, requests 0, 1, 3, replies up to 2, size_t modulo 4, debts up to 5, failing `accept` and `calloc` | `TypeOK`, `ListSound`, `NoLostWakeup`, `DropsOnlyForCause`; the service implements `RngService` |
| `HwrngLive` | 2 clients, requests that fit one reply, every call may fail, fairness | `DebtExact`, `NeverIdleWithWork`, `RequestServed`, `HangupFreed` |
| `HwrngStall` | 1 client, a request above one reply | violation: `RequestServed` |
| `HwkeySafety` | 1 slot used in turn by two kinds of client, pipelined requests of every kind, failing calls | `TypeOK`, `BuffersClean`, `ReplyMatchesRequest` |
| `HwkeyLive` | 2 pipelining clients at once, `accept` and `wait_any` may fail, fairness | `DropsOnlyForCause`, `AnsweredOrClosed`; the service implements `KeyService` |
| `App` | 1 client per service, every call may fail, fairness | `NoKeysUnderRng`, `WipedBeforeService`, `ConnectAnswered`, `NoStarvation` |
| `Caam` | i.MX7, 2 calls, sizes up to 3 cells, asserted or not, every failure, clocks gated at any time, fairness | `TypeOK`, `OwnResult`, `DeviceUndisturbed`, `SuccessMeansFilled`, `RngInstantiated`, `RingCoherent`, `ClockOn`, `CallReturns` |
| `CaamClockImx6` | i.MX6 | violation: `ClockOn` |
| `SelfTest` | all five tests, buffers of 3 cells, failing calls | `PassIsEarned`, `NoFalseAlarm` |
| `Uart` | 2 processors that print 2 line feeds each and read, 1 character of the normal world, FIFO of 2, fairness | `NothingLost`, `SentOnReturn`, `PutcReturns` |
| `UartGetc` | 1 processor | violation: `GetcFaithful` |
| `Platform` | both SoCs, 3 earlier contents per region, 2 dynamic mappings | `SealedExactly`, `SealKept`, `RegistersReached`, `TimerReset` |

Bounds. Two clients are what it takes for one to be in the list before the
other, for a walk to remove an entry in front of the next, and for one to leave
something in a shared buffer that the other could get. `MaxOwed` and `MaxPending`
bound what a client has outstanding and are above one reply, and in
`HwrngSafety` above `SizeMod`, so that partial replies, merged requests and the
wrap all occur. A payload of two cells is enough for a name, its extension and a
missing terminator. Two CAAM calls are enough for one to find what the other
left, and three cells for a buffer to be split unevenly, or written in part. A cache line of 8 words
leaves room for rings in any aligned place, in one line or the next. In `HwcryptoApp` one
client per service suffices: within a service clients are covered by its own
runs, and what the composition adds is between the services. A UART FIFO of two
holds a byte of each processor, and one of the normal world then makes it full for the second; a
line feed is two bytes and the longest thing `uart_putc` writes. The addresses of the
platform are the real ones.
`CHECK_DEADLOCK FALSE` is set where the process may end (a bad key box, a failed
assertion) or the number of calls, tests or characters is bounded, and for the platform, which ends
in the normal world.

Fairness. The service thread is weakly fair: it runs or blocks in `wait_any`.
`wait_any` is strongly fair per handle: the kernel reports every handle that is
ready again and again, since it goes through its handles in turn. This is an
assumption about the kernel. Nothing is assumed of clients, except that
`RequestServed` speaks only of a client that takes its replies: the assumption is
in the property, per client, so that others may stall forever. The CAAM finishes
a job if its clocks run again and again. The UART
sends what is in its FIFO, and the normal world prints a bounded number of
characters: one that never stops printing would hold `uart_putc` forever.

### What the code does not do

Three runs end in a violation:

* `HwrngStall`: `hwrng_handle_req_queue` returns `need_more` when a request was
  served in part, and `hwrng_kick_req_queue` drops it. A request of more than 4096
  bytes gets one reply; the rest waits for an unrelated event. `HwrngLive` and
  theorem `NeverIdle` show that this is the only case: requests that fit one
  reply are always served.
* `CaamClockImx6`: `(3 < 10)` in `caam_clk_get` leaves one of the three CAAM clock
  gates of i.MX6 as it was. On i.MX7 the clocks are on (`Caam`).
* `UartGetc`: `uart_getc` without wait has its test the wrong way round. The console
  does not call it. The trace shows an empty FIFO, on which it reads instead of returning -1.

Five more limits show in how a property or its instance is stated:

* `req_size += req.len` wraps: bytes are lost when a client has 2^32 bytes
  outstanding. `RngService` therefore counts modulo the width of size_t, and
  `DebtExact` needs `MaxOwed < SizeMod`.
* The descriptor of `caam_hwrng` holds 16 bits of the size of a segment, and unlike the
  other calls it asserts nothing. `SuccessMeansFilled` is true as long as no call asks for
  64 KB (`MaxLen < LenMod`); the callers ask for at most 4096 bytes.
* `uart_putc` does not look at UTS_TXFULL. When the normal world has filled the FIFO the
  character is dropped, and "wait until sent" ends when the others' bytes are out. Among
  processors this cannot happen, since each has at most one byte in the FIFO. `NothingLost`
  therefore excepts a processor that wrote to a full FIFO in which the normal world had a
  byte (`crowded`), and no other.
* The region that closes the memory of Trusty is 32 MB long whatever `MEMSIZE` is. A board that sets a
  larger one, or a `platform_reset` that moves the RAM, would leave a part of Trusty's memory
  open. `SealedExactly` speaks of the default 32 MB.
* The random number test passes when `caam_hwrng` fails, as its buffers are not
  reset and the results not looked at; the root key test may. `PassIsEarned` speaks
  of the other tests only.

## Proofs

TLAPS checks the theorems below. They hold for every value of the constants
that satisfies the named assumptions (`ASSUME`) of the modules, which TLC evaluates on
every instance: any number of clients or processors, any sizes and payloads, any
set of failing calls. A further hypothesis is in the table. Each module proves
`Inductive`, `Spec => []IndInv`, first, and the others from it.

| Module | Theorem | Statement |
|---|---|---|
| `HwrngServerProofs` | `TypeCorrect` | `Spec => []TypeOK` |
| | `ListIsSound` | `Spec => []ListSound` |
| | `WakeupsAreKept` | `Spec => []NoLostWakeup` |
| | `DropsHaveCause` | `Spec => DropsOnlyForCause` |
| | `NeverIdle` | if `MaxOwed <= MAX_HWRNG_MSG_SIZE`: `Spec => []NeverIdleWithWork` |
| | `DebtIsExact` | if `MaxOwed < SizeMod`: `Spec => []DebtExact` |
| | `RngServiceImplemented` | `Spec => ImplementsService` (refinement of `RngService`) |
| `HwkeyServerProofs` | `TypeCorrect` | `Spec => []TypeOK` |
| | `BuffersAreClean` | `Spec => []BuffersClean` |
| | `RepliesMatch` | `Spec => []ReplyMatchesRequest` |
| | `DropsHaveCause` | `Spec => DropsOnlyForCause` |
| | `KeyServiceImplemented` | `Spec => ImplementsKeyService` (refinement of `KeyService`) |
| `HwcryptoAppProofs` | `WipedFirst` | `Spec => []WipedBeforeService` |
| | `RngSeesNoKeys` | `Spec => []NoKeysUnderRng` |
| `CaamDriverProofs` | `TypeCorrect` | `Spec => []TypeOK` |
| | `ResultIsOwn` | `Spec => []OwnResult` |
| | `DeviceIsUndisturbed` | `Spec => []DeviceUndisturbed` |
| | `SuccessIsFilled` | if `MaxLen < LenMod`: `Spec => []SuccessMeansFilled` |
| | `GeneratorInstantiated` | `Spec => []RngInstantiated` |
| | `RingIsCoherent` | `Spec => []RingCoherent` |
| | `ClockIsOn` | on i.MX7: `Spec => []ClockOn` |
| `CaamSelfTestProofs` | `PassesAreEarned` | `Spec => []PassIsEarned` |
| | `AlarmsAreTrue` | `Spec => []NoFalseAlarm` |
| `ImxUartProofs` | `PutcSends` | `Spec => []SentOnReturn` |
| | `NothingIsLost` | if `RoomForEach`: `Spec => []NothingLost` |
| `ImxPlatformProofs` | `TimerIsReset` | `Spec => []TimerReset` |
| | `RegistersAreReached` | `Spec => []RegistersReached` |
| | `MemoryIsSealed` | if `MEMBASE % 8 = 0`: `Spec => []SealedExactly` |
| | `SealIsKept` | if `MEMBASE % 8 = 0`: `Spec => SealKept` |

### Why the invariants are what they are

*HWRNG.* `IndInv` adds four facts to `TypeOK`, `ListSound` and `NoLostWakeup`. A blocked
context is live (`BlockedIsLive`): a reused slot would otherwise start blocked. A
connection not yet accepted has no server end (`ConnectingIsFresh`): accepting it
creates a context that is not in the list. A hang-up being dispatched still holds
(`HangupIsFinal`): closing for it has its cause. The counter of a listed request does
not exceed the debt (`DebtBounded`): the debt cannot become negative by a reply, even
after a wrap. `StepCases` names every way a handler can go. There is one lemma per
part of the invariant, with one case per way; the list steps rest on lemmas about
`RemoveAt` and `Append` on lists without duplicates. `NeverIdle` needs in addition that
every entry the walk has passed is blocked (`WalkInv`). The refinement maps the
opening, asking, sending and closing of a channel to the abstract steps (`ReadAsks`,
`SendAnswers`, `CloseDrops`) and the rest to stutters.

*HWKEY.* Neither property is inductive. `Pipeline` says which of a client's outstanding
requests the reply buffer, the handler and the receive buffer hold: in that order, with
none in between. `BuffersBounded` says which cells may hold secrets while a request is
handled: exactly those `hwkey_sanitize` will zero. `HandlerLeaves` is what each of the
three request handlers guarantees; `CString` of what was received is the name that was
sent, whatever an earlier request left behind it, because of the forced terminator.
`JobSound` says that a response that was not sent met a full buffer or a client that
is gone, which is the cause `DropsOnlyForCause` asks for. A symbol is input key material
(`IkmSymbol`) if only derive payloads have it and it is not the zero byte, since zero is
what the buffers are cleared to.

*Application.* `Stages` says where the two services are while `main` starts up, loops and
has ended, and that one handler runs at a time. Every step of the application is a
step of each service or leaves it alone (`ServicesRun`). The prover cannot cite a theorem through an `INSTANCE`, so
`RngSeesNoKeys` proves the part of `BuffersClean` that it needs again, for the instance `K`:
`KeyBuffers` says that outside the handlers of the HWKEY service the static buffers
hold neither a key nor input key material, and inside them only in the cells that
`hwkey_sanitize` will zero. A handler of the HWRNG service runs only when none of
the HWKEY service does (`Stages`).

*CAAM.* A result is a call's own because the rings are empty whenever a job is posted and
no other job is under way (`OneJob`); the assertion on `out[0]` never fails for the same
reason. A success is a
filled buffer because `out + len = total` throughout the call (`Split`) and each job wrote
its part (`Produced`). The rings are coherent because `memalign` keeps them in one
cache line (`RingsInOneLine`). The clocks run while a job is in the ring because
`caam_clk_get` opened every gate and nothing but the normal world closes one (`ClockKept`). `ClockOn` is not true on i.MX6 (run `CaamClockImx6`).

*Self tests.* Before each statement the invariant says what the buffers of the test hold.
For the tests that reset their outputs it says so whatever calls failed: a cell of an output
holds the result if the last call wrote it, and what it was reset to if not
(`BlobKnown`, `AesKnown`, `HashKnown`). An output is reset to a
value that nothing else in the comparison has, so that cells are equal only if the device
wrote them. Without a failure every cell was written (`RngKnown` and `RootKnown` know only
that), and the comparisons come out as expected. `Text` says which statement is at which line of
`caam_test`; one lemma per kind of statement says what it does to the buffers, and one per
test applies them.

*UART.* A processor has a byte in the transmit FIFO only while it polls (`PollsForIts`), and
never two (`OneEach`). `RoomForEach` says that the FIFO has a place for each processor. One that
writes then finds room, unless the normal world has a byte in the full FIFO: its places would
otherwise be taken by fewer processors than there are places (`RoomToWrite`). That the bytes on the line are the text rests on `FlattenAppend` of `SeqLemmas`.
It unfolds the recursive function inside `FlattenSeq`. The library's induction theorems cannot be
used, so `SeqLemmas` argues with the least length at which a claim fails (`MinOf`).

*Platform.* `StageInv`, `MapStages` and `TzStages` say what has been done at each stage.
`Programmed` says which registers of the TZASC already hold what the table says. The seal is
then computed for an arbitrary base. `MEMBASE % 8 = 0` says that the 32 MB of Trusty are
aligned to their size: the TZASC ignores the lower bits of a region's base. Trusty is
linked at block 632 = 79 * 8. A prior content of the
regions is any value of the registers' fields (`RegionType`).

### Only model-checked

Liveness (`RequestServed`, `HangupFreed`, `ConnectAnswered`, `AnsweredOrClosed`, `NoStarvation`,
`CallReturns`, `PutcReturns`), which is out of the prover's reach. Every other property of a
passing run is also a theorem.

## Not modelled

HKDF, AES, hashes and blobs (symbolic or abstracted); descriptor words; the
programming of the TRNG's delays; what `finish_dma` does to memory that shares a cache line with the
rings; TZASC regions above 2; `arm_generic_timer_init`; logging and hexdumps; build
files, manifest and constants. DMA masters that work for the normal world while
`initial_tzasc` runs are not actors: between the opening of region 0 and the closing of
region 2 memory that only a lower region had sealed is open to them. What the kernel does is
modelled only where the code calls it.

Two readers of the UART may both see a character and only one get it; the other's read is
undefined, in the code as in the model, and nothing in the repository reads the UART. What
processor 1 does if it is released before SRC_GPR4 is filled, or after SRC_GPR3 was changed, is up to
the normal world.

## Plan

1. Done: `TipcChannel`, `EventLoop`, `HwrngServer` with its abstract service and
   proofs, `HwkeyServer` with its abstract service, `HwcryptoApp`, `CaamDriver`, `CaamSelfTest`,
   `ImxUart`, `Tzasc`, `ImxPlatform`.
2. Done: the proofs of the previous section.
