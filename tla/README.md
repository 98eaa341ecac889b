# TLA+ models of br2-efinix

This directory models the parts of br2-efinix, the Buildroot external tree for
Linux on Efinix RISC-V SoCs, that carry logic of their own: the drivers in
`kernel_modules/` and in the Linux 6.6 patches that share state with interrupts,
other harts, DMA engines or firmware, and the programs in `package/` that use
them. TLC checks the models on small instances; TLAPS proves most of the safety
properties for every instance.

## Inventory

| Component | State | Operations | What is hard |
|---|---|---|---|
| remoteproc driver (`efinix_ti375_remoteproc.c`) | flags and counters of `struct efinix_rproc`, shared-memory words, hrtimer, work item | probe, remove, prepare, parse_fw, start, stop, kick; doorbell, poll timer, notify work | interrupts of every Linux hart against stop and remove; firmware that is late; restarts over shared memory |
| AMP IPI hook (Linux patch 0012) | the registered hook | set hook, call hook from `riscv_intc_irq` | the hook runs before SSIP is cleared and is removed without a barrier |
| TSEMAC transmit (patch 0006) | descriptor ring, `tx_bd_ci`, `tx_bd_tail`, queue state | start_xmit, tx interrupt, tx poll, open, stop | DMA, NAPI poll and start_xmit share the ring with one small lock |
| TSEMAC receive (patch 0006) | descriptor ring, `rx_bd_ci` | rx interrupt, rx poll | skipped descriptors, failed refills |
| EVSoC module (`evsoc_main.c`, `evsoc_init.c`, `my_imp.c`) | frame-buffer indices, text buffers, `capture_mode`, `is_open`, module references | load, unload, open, release, ioctl, mmap, receive thread, display and key interrupts | thread, interrupt and processes share state without a lock; the display outlives the module |
| camera sensor drivers (`PiCamDriver.c`, `PiCamV3Driver.c`, `i2c.h`) | none; registers of three I2C chips | initialisation, binning, stream on and off | transfers are byte by byte, without a lock and without checking acknowledges |
| I2C bus driver (`kernel_modules/i2c`) | adapter, slave pointer, slave state | probe, remove, master transfer, slave interrupt, reg/unreg slave | late acknowledges; filter and data interrupts served together; the interrupt outlives unreg_slave |
| APB3 module and `apb3app` | `is_open`, module references | load, unload, open, release, read, ioctl | open races |
| GPIO module, `gpio_app`, `gpiod` program, `gpio_irq` | sysfs devices, line owners, devm allocations | probe, remove, sysfs attributes, light shows, interrupt | failures part-way; users while the driver goes |
| camera web server (`package/evsoc_camera`) | connections, timers, files, photo list | Mongoose's poll loop, request handlers, frame timer, settings | partial requests, peers that go away, files sent in blocks, descriptors that leak |
| EVSoC application (`package/evsoc_app`) | `cap_vid_len`, key queue, frames, title delay; line, history, terminal | commands, signal handler, two workers, line editor | three threads without locks; buffer boundaries of the editor |
| `spi_app` | options; the flash | identify, write, read | latch, busy and protection of the flash; transfers that fail, waits that give up |
| `openamp_app` | counters | write, read, compare | echoes late, duplicated, lost |
| `socket_hello_world`, `tcp` | the connection | send, receive | segmentation, loss, peers that die |
| `c-ray` | scene, bands, start flag | load, split, render | threads waiting on a condition; rounded band limits |
| watchdog (patch 0007) | limits, lock register | start, stop, ping, set (pre)timeout, restart, pretimeout interrupt | unlock/write/lock is not atomic against the interrupt |
| dmaengine driver (patch 0009) | head_desc, descriptor chain | prep, issue_pending, terminate_all, interrupt | the handler reads head_desc outside the lock |
| framebuffer, eMMC, SD, UART, SPI | registers | framework callbacks | little of their own |
| board support, scripts, computation demos | none | | |

Interactions. The remoteproc core calls the driver under `rproc->lock`; the
driver starts the remote hart through SBI, shares two vrings, two kick counters,
a ready flag and a control word with the firmware, and installs a hook that the
interrupt entry of every Linux hart calls; `openamp_app` talks to the firmware
through the resulting rpmsg device. The Ethernet driver is called by the network
stack (start_xmit), by its DMA interrupt and by the NAPI softirq, and shares
descriptors with the DMA engine. The EVSoC module fills one frame buffer from the
camera in a kernel thread and swaps it with the one its interrupt keeps starting
the display on; `evsoc_app` and the web server request captures and text by
ioctl, and are told of keys and pictures by signals. `gpio_app` and `gpiod`
compete for lines; `apb3app` and `spi_app` use one device each. The drivers do
not interact with each other.

What makes each part correct: no message or packet is lost or stuck while the
device is up; nothing of a session outlives its stop; what is read from memory
shared with firmware, a DMA engine or another thread is fresh and whole;
descriptors and buffers are never reused while they are in flight; success is
reported only for what was done completely; failures and timeouts leave a state
the next operation can start from.

## Modules

| Module | Models |
|---|---|
| `EfxRproc` | remoteproc driver, AMP hook, poll timer, notify work, kick callers, and (external) remoteproc core, workqueue, SBI and firmware |
| `MCEfxRproc`, `EfxRprocProofs` | instances for TLC; theorems |
| `TseTx`, `MCTseTx` | transmit ring of the Ethernet driver, and (external) the DMA channel and the network stack; instances |
| `Evsoc` | load and unload, receive thread, display interrupt and device file of the EVSoC module, and (external) camera and display DMA |
| `MCEvsoc`, `EvsocProofs` | instances for TLC; theorems |
| `EvsocOverlay` | the module's text, title and capture pixels, and the application's conversion of a capture into a picture |
| `SensorBus` | camera register drivers on the polled I2C controller |
| `SensorFile` | abstract specification of `SensorBus`: whole register writes |
| `EfxI2c` | I2C bus driver as master and slave |
| `EfxGpio` | GPIO consumer driver, `gpio_app`, `gpiod`, the interrupt example |
| `Apb3` | APB3 module and its program |
| `EvsocCamera`, `MCEvsocCamera` | web server with the Mongoose code it runs; instance |
| `EvsocApp` | threads, commands and signal handler of the EVSoC application |
| `EmbeddedCli` | its line editor, history and terminal |
| `SpiFlash` | `spi_app` and (external) the serial flash |
| `OpenampEcho` | echo test and (external) firmware and rpmsg queue |
| `SocketApps` | the TCP and UDP programs and (external) the network |
| `CRay` | both ray tracers without their geometry |
| `TseTxProofs`, `CameraProofs`, `EmbeddedCliProofs` | theorems about `TseTx`, `EvsocCamera`, `EmbeddedCli` |
| `I2cProofs` | theorems about `EfxI2c`, `SensorBus` |
| `CharDevProofs` | theorems about `Apb3`, `EfxGpio`, `EvsocOverlay` |
| `ProgramProofs` | theorems about `EvsocApp`, `OpenampEcho`, `SpiFlash`, `CRay` |
| `MCDevices` | side by side: `EfxI2c`, `EfxGpio`, `Apb3`, `SpiFlash`, `OpenampEcho`, `EmbeddedCli`, `EvsocOverlay` |
| `MCApps` | side by side: `EvsocApp`, `SocketApps`, `CRay`, `SensorBus` |

The components in `MCDevices` and `MCApps` do not interact. The variable `unit`
chooses one of them at the start and the others keep an initial state, so a run
explores the union of their state graphs, not the product.

### EfxRproc

`core` is the point the remoteproc core has reached in the driver's callbacks;
one variable suffices because `rproc->lock` serialises them. A callback is split
at every access to state that an interrupt, the timer, the worker or the
firmware also touches: parse_fw is `LoadSegments`, `ClearShm`,
`ParseHartStart`, `ParseWait`; inbound_start is `InboundSnapshot` and
`InboundActivate`; stop is `StopSend`, `StopPoll`, `InboundOff`,
`InboundCancel`, `StopFinish`; remove ends in `RemoveHook` and `RemoveFree`.
The doorbell has one action per shared access for every hart, so that two harts
can interleave inside it; `IrqAck` is the generic dispatch that clears SSIP
after the hook. `efinix_rproc_kick` is split into its read, write and IPI for
each caller. Threads run only while some Linux hart is outside its handler
(`ThreadRuns`); with one hart the handler is atomic for them.

Memory safety is modelled by where it ends: freeing private data that a timer,
work item or doorbell still uses (`PrivReferenced`), or calling a hook left by a
removed driver, leads to the state "corrupted".

The firmware is external. It publishes its table and then READY, waits for
DRIVER_OK, sends messages as buffer, counter, IPI, and obeys a stop message when
an IPI wakes it. Loading an ELF over a running hart leaves it anywhere.

Data is abstracted: a message is a count in its vring, a kick counter is modulo
`KickMod`, the resource table is the flag `driverOk`. A local variable that is
dead is reset, which changes no behaviour and keeps the state space small.

### TseTx

Descriptors are functions on `0 .. N-1`: the byte count minus one (`bytes`), the
END_OF_PACKET bit (`eop`), the COMPLETED status (`done`) and the attached buffer
(`skb`); `control != 0` in the code is `InUse`. start_xmit is one action per
step that the DMA or the poll can observe; the locked publication is one.
`tsemac_free_tx_chain` is `PollFree` in the poll and `XmitUndo` in start_xmit's
error paths, one descriptor per step in both, including what it does to
`tx_bd_ci` (the update of the index itself, two plain assignments, is not split).
Looking for room and stopping or waking the queue are two steps on both sides
(`XmitSpace` and `XmitStop`, `PollLook` and `PollWake`).

The DMA channel is external: it starts at the head it is given, transfers
descriptors that are not COMPLETED, marks them and stops at the first one that
is. `SlowEnd` lets it read BUSY for a while after it met the end. With
`Smp = FALSE` start_xmit and the poll exclude each other, as a softirq and a
caller with bottom halves disabled do on one CPU.

### Evsoc

`mod` is the point evsoc_init or evsoc_exit has reached, and "oops" stands for an
access to memory that is not there: the display interrupt after my_exit, an
overlay command before my_init. The receive thread has one action for every
shared access: the test of init_tx_buf and the reset of tx_buf_idx, the camera
transfer, the capture as copy, signal and clear, the two assignments of the swap.
dma_tx_irq takes the buffer and starts the display in two steps. Opens and
releases test and set `is_open` in two steps. An open after rmmod has begun gets
no reference and succeeds all the same; its process is then on its own
(`UseStale`), and `held` are the processes that did get one. `asked`, `shot` and
`sig` record which capture was requested, copied and announced; captures are
requested at any moment, and `late` marks one that came between a copy and the
assignment `capture_mode = 0` that ends it.

Pixels are left out, and with them the overlay and title flags, the demo mode and
the hardware accelerator (not compiled: EXAMPLE_AXI4_SLV is commented out in
`axi4_hw_accel.h`). msleep(50) outlasts a hard interrupt handler that was running
when it began (`ThreadSleep`); `StartsOnWholeFrame` rests on it, as the mutant
without the sleep shows.

### EvsocOverlay

The two text buffers, the frame and the capture are functions from pixel offset
to a colour, 0 (transparent) or `Cam`. The ioctls print a glyph or clear, one
action each; the receive thread merges overlay, title and rule line into the
frame and copies it whole or at half size, one action per pass over a buffer
(the interleaving inside a pass is not modelled; `Evsoc` has the
synchronisation). `text` and `ttext` remember what was printed where.

### SensorBus and SensorFile

Module load and the binning ioctl each work through a list of register writes;
one action gives one byte to the controller, which is shared and has no lock.
Acknowledges do not matter to the code (`assert` is defined as its argument).
The long register tables are represented by their leading entries. The controller
gives up a frame that rests for the millisecond mipi_i2c_init sets (`Drop`), as
it does when the caller is preempted between two bytes; what it does with the
bytes it is given after that is not in the repository, and the model lets them go
nowhere (`Swallow`) or the caller wait for ever.
`SensorFile` has the callers' lists and the registers only and carries out, or
loses, one whole write per step; `SensorBus` implements it under the mapping
`File`, in which a write leaves the list as its last byte is shifted out.

### EfxI2c

The master transfer waits for the bus, sends the address and moves one byte per
action. The controller answers each byte later, refuses it or drops the frame;
RX_ACK keeps its old value until then, and a wait may end first. The slave side
is the handler's state machine under an interrupt that may find both the filter
and the data flag raised. `moved` and `event` record what the other end saw. The
adapter's `retries` is left out: the I2C core repeats a transfer only after
-EAGAIN, which this driver never returns.
Probe computes the divisor from clock and rate with the code's defaults.

### EfxGpio and Apb3

A probe takes one child per action and can fail at each allocation, line or
device. devm allocations are freed after a failed probe and after remove.
`gpio_app` is a list of sysfs writes and sleeps, `gpiod` requests its lines in
turn. `gpio_irq` keeps the list of what devm holds (`devres`) and gives it up in
reverse order, with the interrupt firing in between. The allocation of the table
of devices is not checked by the code, and the first device written into it is
then a crash (`TableFault`). `Apb3` splits open where it tests, sets and counts,
and an unload into `ApbRmmod`, after which try_module_get fails, and `apb3_exit`,
which frees the code: an open in between succeeds without a reference, and its
program goes on in a module that is gone (`UseStaleApb`).

### EvsocCamera

One poll of the server is a walk: sample the sockets, run the timer, and for
every connection the POLL event, read, write and close, each an action. Requests
arrive whole or in two pieces; a reply is a sequence of parts, a file a number of
blocks that `static_cb` feeds into the send buffer as it drains. Client sockets,
files, and the I2C devices a camera setting leaves open share `MaxFds`
descriptors. The two setup threads, Ctrl-C and browsers that go at any time
interleave with the walk. The list of connections is a sequence, and
`LIST_DELETE` takes one of them out. Three faults end the server where the code
has them: /dev/evsoc that cannot be opened (no module, another user, no
descriptor) and a copy from the mapping that failed ("nodev"); a timer that is a
local variable of a thread that has returned ("notimer"); a body cut short in
which get_json_value looks for a colon past the end ("wild").

### EvsocApp and EmbeddedCli

`EvsocApp` has one action per access to `cap_vid_len`, the queue or the title
delay for each thread; capture_video tests and sets in separate steps; a
video is a number of frames. Every open of /dev/evsoc may fail (`open_evsoc`): a
command then does nothing, a title is not cleared and nobody tries again
(`missed`), and a copy ends the process (`CopyFault`). `EmbeddedCli` takes one character per action
through the escape states, editing keys, history ring and search, with the
history as the array it is in memory, and writes what the code writes to a
terminal (`term`: the line and the column). SIGINT puts a Ctrl-C into the line
(`intHandler`), between two keys.

### SpiFlash, OpenampEcho, SocketApps, CRay

`SpiFlash` sends one command per action to a flash with write latch, busy state,
protection and pages that wrap; with `SpiFaults` opens, transfers and polls
fail. A message longer than the program's buffer is cut there and the stack behind
it written for the rest (`Message`); the lengths of write and read are options of
their own. `OpenampEcho` writes, waits and compares while the firmware answers late,
twice, damaged or never. `SocketApps` has both ends of three programs over a
network that splits streams, drops datagrams and reports closed ports; the message
of socket_hello_world may be empty. `CRay` has scene loading, the band computation with its rounding, the threads at their
condition variable and the sequential renderer; an image of height 0 leaves the
threaded program without threads and with a write before its array ("corrupt").
`RenderedOnce` is an invariant
(`AtMostOnce`, `WrittenWhole`) and a liveness part.

## Runs

Every run starts in the state after boot, module load or `open`. Each property of
each passing run has a mutant, an operator in the module with a plausible bug of
the code, under which TLC finds the property violated.

| Run | Instance | Shows |
|---|---|---|
| `rproc_ipi_up` | doorbell mode, one Linux hart, handled failures, counter modulo 8 | `KickNotLost`, `BootHandshake` (hart state, fresh READY, lasting DRIVER_OK), `NoUseAfterFree`, `InboundQuiet` |
| `rproc_live` | poll mode, two Linux harts, two kick callers, fairness | messages in both directions are consumed (`KickDrained`, `SendReceived`), stops complete (`StopCompletes`) |
| `rproc_adverse` | one Linux hart, every failure, timeouts, recovery, rproc_use_ipi rewritten at any time | the inductive invariant `KickInv` and `VringsInCarveouts` |
| `rproc_ipi_lost` | doorbell mode, fairness | violated: `KickDrained` |
| `tse_tx_ring` | two CPUs, DMA slow to end, 6 descriptors, up to 2 fragments | `NoOverwrite`, `PacketsWhole`, `StoppedNeedsReason` |
| `tse_tx_live` | one CPU, fairness | `NeverUnexpectedlyFull`, `QueuedIsSent`, `QueueWakes`, `Reclaimed` |
| `tse_tx_faults` | two CPUs, mapping errors, restarts | `TailTerminates` |
| `tse_tx_stall` | two CPUs, fairness | violated: `QueuedIsSent` |
| `evsoc` | two processes, requests and opens at any time, fairness | `StartsOnWholeFrame`, `PinnedWhileOpen`, `CaptureKept`, `CaptureServed`, `DisplayActive`, `ThreadStops` |
| `camera` | a browser connection, every endpoint, files of several sizes, fairness | `NothingLeftOpen`, `PagesPartition`, `RequestsAnswered` |
| `devices` | the seven modules of `MCDevices` | I2C: `SuccessIsComplete`, `BusIsReleased`, `EventsFitFrame`; GPIO: `GpioClean`; APB3: `ApbPinned`; flash: `WriteLands`; echo: `EchoPass`; editor: `CliCorrect`; overlay: `OverlayCorrect` |
| `apps` | the four modules of `MCApps`, fairness | `VideoWhole`, `AppServes`; `SocketsFinish`; `RenderedOnce`; the refinement `WholeWrites` |

`CliCorrect` is four statements: line, length and cursor agree
(`LineConsistent`); what the history returns is what was entered
(`HistoryKept`); arguments are the words of the line (`ArgsAreWords`); the
terminal shows the line and the cursor (`ScreenShowsLine`).

The two violated runs are disagreements between the code and what its comments
or parameter descriptions say:

* `rproc_ipi_lost`: the hook reads kick_r2l, then the dispatch clears SSIP. A
  ring in between is cleared with the first one and its message stays in the
  vring until some later ring. Poll mode does not have the problem
  (`rproc_live`).
* `tse_tx_stall`: start_xmit scans for the first unfinished descriptor from an
  unlocked `tx_bd_ci`. If the poll frees that descriptor meanwhile, its control
  is 0, the scan stops on it and the idle DMA is started on a COMPLETED
  descriptor. The packet waits for the next start_xmit; if it filled the ring,
  the queue is stopped and the driver is stuck, which is why deadlock is not
  checked in `tse_tx_ring` and `tse_tx_stall`.

Two more instances of `TseTx` fail and are not kept as runs. With `N = 5`,
`MaxFrags = 1`, `Smp = TRUE` and `SlowEnd = FALSE`, `NeverUnexpectedlyFull`
fails: the poll looks for room and then wakes the queue, start_xmit on another
CPU can fill the ring and stop the queue in between, and the next start_xmit
takes the branch its comment rules out. That branch stops the queue without a
second look, so `StoppedNeedsReason` speaks of the other stop only (`busy`
records NETDEV_TX_BUSY). With `N = 4`, `Reopen = TRUE` and `Smp = FALSE`,
`StoppedNeedsReason` fails: neither stop nor open touches the queue state.

### Bounds

`Depth` 1 or 2 lets a message arrive while another is being delivered.
`KickMod` replaces 2^32. Between two looks at the counter the remote can kick
about three times per buffer (a message consumed by work already under way
frees the vring for another), so with wrap-around allowed the modulus must exceed
`3 * Depth + 1`; smaller ones produce the aliasing that the code would meet only
after 2^32 kicks. `rproc_ipi_up` uses 8 with `Depth` 2 and wraps. With `MayWrap`
FALSE the remote stops at the modulus and 3 is enough. Two harts and two kick
callers are the smallest numbers that race. A ring of `MaxFrags + 3` descriptors
or more is assumed where the room checks matter; TLC refutes
`NeverUnexpectedlyFull` for `MaxFrags + 1` (the code's TX_BD_NUM_MIN) and
`MaxFrags + 2`. `Budget` 2 makes the poll stop and continue. Two
processes are the smallest number that races for `is_open`; `MaxRefs` bounds the
references that a race leaks. Fragments have two
bytes: a one-byte fragment refutes `Reclaimed` (its control is 0).

`camera`: three photos on pages of two give a full and a partial page; files of
one and more blocks against a send buffer of `MaxOut` 2 parts make a file end at,
before and after the moment the buffer is full; `MaxFds` 3 is used up by leaked
descriptors within a run. `devices`: two children let a probe fail after a
success, three programs let a third open meet a flag that two others have left
wrong; a flash of two sectors with two pages each has a neighbour for everything
that is written; seven packets over three letters and two sizes repeat one
combination; a line of 4 characters and a history of 5 are filled and
overflow; messages of fewer, as many and more characters than the buffer of
`MsgSize` 3 holds, and reads of one byte and of a page and more (`ReadLens`);
`MaxIoctls` 4 prints twice, captures and clears. `apps`: one key press
besides two typed lengths, one of them beyond the maximum; up to 4 scanlines over
up to 3 threads include more lines than threads, fewer, and uneven bands; all
three chips and the four binnings, with one frame given up (`MaxDrops`) at any
byte of any write.

Deadlock is not checked where the system may stop: `evsoc` ("oops" is final),
`camera`, `devices` and `apps` (programs end).

### Where a property is not checked

`BootHandshake` needs a firmware that answers within its timeouts (a timed-out
boot leaves the hart running) and no recovery, which restarts the firmware
without waiting for its table. `NoUseAfterFree` and `InboundQuiet` need one Linux
hart and a constant rproc_use_ipi. `NeverUnexpectedlyFull` needs one CPU,
`QueuedIsSent` one CPU and a channel whose BUSY falls with the end of the list.
`CaptureServed` and `CaptureKept` say nothing of a request that came while the
thread served another (`late`): it may be erased, or be answered by the other
kind of picture. `PinnedWhileOpen` and `ApbPinned` are about the processes that
got a reference (`held`, `aheld`); one that opens while the module is going gets
none, and the module is freed under it.

`GpioClean` speaks of loads with no disabled child and no failed probe,
`OverlayCorrect` of text within the edges of the screen, `WriteLands` of writes
that fit the message buffer and one page (`Fits`) and whose transfers and waits
all succeeded, `SocketsFinish` of messages that are not empty and exchanges
without a lost datagram (the programs have no timeout; an empty message sends no
byte over TCP and leaves both ends waiting), `AppServes` of titles whose device
was free when their time had passed and of a process that a failed open has not
ended, `RequestsAnswered` of a server that none of the three faults above has
ended, `RenderedOnce` of images with at least one scanline for the threaded
program, `ScreenShowsLine` of lines shorter
than the terminal is wide and not after an arrow key inside a search or an Enter
inside an escape sequence (`torn`). `WholeWrites` is checked with no ioctl during
load and unload (`QuietLoad`); without that two lists share the controller and
mix. The page after a capture goes to the first connection of the list; the model
records it (`misled`) and ends the browsers' part there. These limits are the hazards of
`PROJECT.json`, each with its line.

### Fairness

Interrupt handlers, the timer, the firmware and the DMA channel make progress
(weak fairness). Driver operations once entered, the worker and kick callers get
strong fairness: they run on a hart that interrupts preempt again and again, and
the scheduler returns to them; so does the receive thread of EVSoC. In `apps`
each thread of a program, each end of a connection and each direction of the
network has weak fairness (`Process`); in `camera` the server, its setup threads,
and the rest of a request whose first piece has arrived. Users, senders, Linux's
own IPIs and the network stack are not assumed to act, so no liveness property
leans on a later message, packet, key or request.

## Proofs

Thirty-one theorems, for every value of the constants. An invariant that a run
checks is proved from an inductive one: it holds at the start, every action keeps
it, and it implies the property. The inductive invariants were checked with TLC
on the instances of the runs before they were proved. A theorem whose property
fails on some instances has a hypothesis that excludes them; each of those is
refuted by TLC without it (see "Where a property is not checked" and "Runs"),
and the instance of the run satisfies it.

### EfxRprocProofs

For every set of harts and kick callers, every vring depth and modulus and both
inbound modes:

| Theorem | Statement | Hypothesis |
|---|---|---|
| `TypeCorrect` | `TypeOK` | |
| `KickAccounting`, `KicksAreNotLost` | `KickInv`, `KickNotLost` | `~MayWrap`: the counter does not wrap |
| `VringsAreShared` | `VringsInCarveouts` | |
| `SessionsEndQuiet` | `InboundQuiet` | one Linux hart, `~ParamWrites` |
| `NothingFreedInUse` | `NoUseAfterFree` | one Linux hart, `~ParamWrites` |
| `BootsShakeHands` | `BootHandshake` | `Prompt` |

`KickNotLost` is not inductive: a doorbell may hold a value read long ago, and
the counter is reset while handlers run. `KickInv` adds what makes it so. In a
session last_r2l_seen is never ahead of kick_r2l (`SeenBehind`) nor is a value a
doorbell holds (`NowBehind`); so if the two counters are equal after a write,
nothing was skipped. The virtio device exists only while the core is "running"
(`VdevNeedsRunning`), carveouts are held from prepare to release
(`CarveoutsHeld`), a stop message is only out while the device is down
(`StopNeedsDown`, `HaltingIdle`), and no doorbell runs when a driver is probed
(`UnboundSettled`). `rproc_adverse` checks `KickInv` with TLC.
`DoorbellsSettled` in `ClearShm` is an assumption on time: a hard interrupt
handler does not outlast a firmware file load.

The end of a session rests on `HookInv` (there is a hook only in doorbell mode,
and it is gone before the private data is) and `InboundInv` (doorbells go past
their test, the timer runs and work is queued only while the session listens by
the method the parameter names, or while inbound_stop is about to cancel that
work). With one hart no thread runs inside a handler, so a handler that passed
the test of ipi_active has scheduled its work before the cancel; with two harts
that is false, and with a parameter write the wrong mechanism is switched off.

`Prompt` says that the firmware answers within the timeouts, nothing is
recovered and the table READY announces is valid: in each other case the boot
fails or is repeated over a running hart. `StartInv` and `HartInv` follow the
hart and the firmware through one boot.

### TseTxProofs

For every ring size, number of fragments and budget:

| Theorem | Statement | Hypothesis |
|---|---|---|
| `TypeCorrect` | `TypeOK` | |
| `ListEnds` | `TailTerminates` | |
| `StopsHaveReason` | `StoppedNeedsReason` | `~Reopen` |
| `NothingIsOverwritten` | `NoOverwrite` | `Regular` |
| `PacketsAreWhole` | `PacketsWhole` | `Regular` |
| `RingIsNeverFull` | `NeverUnexpectedlyFull` | `Regular`, one CPU |

`Regular`: no mapping fails, no fragment has one byte (its control word is 0,
that of a free descriptor) and `N >= MaxFrags + 3`. The code's minimum,
TX_BD_NUM_MIN, is `MaxFrags + 1`; with it, and with one more, the descriptor
start_xmit looks at for room lies behind or on the tail itself and tells nothing.

`RingInv` has four parts. Positions are compared by their distance around the
ring (`Dist`). `TailInv`: while a packet is put together the tail stays at its
head. `FitInv`: the packet fits before tx_bd_ci. `SlotInv`: exactly the
descriptors between tx_bd_ci and the tail, and the fragments under construction,
are in use; the others are free and COMPLETED; what follows an unsent descriptor
inside a packet is unsent. `DmaInv`: the channel, and the scan for its next
start, are at the first descriptor not sent or at one reclaimed meanwhile. The
last alternative is the one `tse_tx_stall` shows. For the queue, `WakeInv` says
who is about to look at a stopped queue with room, and `FullInv` that the queue
runs only while the largest packet fits (`Ample`).

### EvsocProofs

For every set of processes:

| Theorem | Statement | Hypothesis |
|---|---|---|
| `TypeCorrect` | `TypeOK` | |
| `FramesAreWhole` | the action property `StartsOnWholeFrame` | |
| `OpenPinsEvsoc` | `PinnedWhileOpen` | |
| `CapturesAreKept` | `CaptureKept` | |

`FramesAreWhole` follows from `IdxInv`: outside the swap the two indices
differ; while init_tx_buf is set or a pattern is drawn no swap has happened, so
the reset to 0 changes nothing; and a buffer the interrupt has taken is still
tx_buf_idx unless the thread is in its swap or its sleep, which waits for the
handler. `PinInv` counts: there are at least as many references as processes that
took one and have the device open, since a release that finds is_open clear keeps
its own; and rmmod begins only without references.
`CaptureInv` relates what was asked, copied and signalled through the thread's
steps: capture_mode is what was copied until it is withdrawn, unless a request
came in between, and only such a request is late.

### I2cProofs

`TransfersAreWholeWrites`: with `QuietLoad`, `SensorSpec => WholeWrites`, the
refinement of `SensorFile`. The initial states correspond, and every step of a
byte is a stutter but the last of a write, which is `FileWrite`, or `FileLose` in
a frame the controller gave up. The invariant is `TurnInv` (one caller at a time
has the controller) and `BusInv` (the bytes sent so far are the first bytes of the
write at the head of the list, the last of them perhaps still in TX_DATA, as long
as the frame was not given up). The proof uses of the register tables only that they
are lists of well-formed writes; lemmas say that the two bytes of a 16-bit
address make up the address again.

`TransfersAreComplete` (`SuccessIsComplete`), `BusIsAlwaysReleased`
(`BusIsReleased`), `EventsAreInFrame` (`EventsFitFrame`), for any messages of any
length. `MasterInv` counts the bytes accepted against the position in the
message; `ReleaseInv` adds that a transfer still looking at the bus has not
touched it; `SlaveInv` keeps the handler's state machine to the frame that was
announced to the client, until the filter's flag says that another has begun.

### CharDevProofs

`OpenPinsApb3` (`ApbPinned`) for any number of programs and unloads at any time,
by counting as above.
`GpioStaysClean` (`GpioClean`, under `GpioSpec`: the sysfs module with its
programs, and the interrupt example) for any number of lines and rounds of
light shows. `DriverInv` says what exists at each child of a probe, `LineInv`
whose the lines are, `IrqInv` that the data is the oldest thing devm holds and so
the last to go, and `LedInv` that gpio_app is somewhere in its show and that the
lines it has come past in the last round of turning off are dark (`Dark`),
whatever appears or goes meanwhile.

`TextIsShown` (`OverlayCorrect`, under `OverlaySpec`) for every size of frame and
characters, every font and any number of ioctls. The lemmas carry it: the module
finds in the argument the bytes the program put there (`ArgBytes`), the pixels
counted from a character's first one are the square at its place (`CellPixels`,
`CellOf`), hence drawing changes what is shown by that character only
(`DrawShows`). `FrameInv` adds what the frame holds between two passes: the
camera's picture, then the picture with the text as it was merged.

### CameraProofs

`CameraLeavesNothing` (`NothingLeftOpen`) for any browsers, endpoints and
descriptors: the list has no repetitions and what is left of a walk is still
listed (`ListInv`), a socket is connected exactly while listed (`SockInv`), a
file belongs to a connection under static_cb (`FileInv`), and in the last walk
everything listed still has its turn (`LastInv`). `PagesShowEveryPhoto`
(`PagesPartition`) for any number of photos: the page of photo k is
`k \div` page size, the only one that holds it.

### ProgramProofs

`VideosAreWhole` (`VideoWhole`): the recorder's own copy of the length does not
change under it. `EchoesAreOwn` (`EchoPass`), for any number of packets, letters
and sizes: whatever the queue holds was sent by an earlier write, and equal text
means equal letter and size. `WritesLand` (`WriteLands`), for any page size,
sector size and capacity of which the boot area is an address: `FlashInv` follows
one write through unlock, erase, program and lock; unless something failed
(`fbad`) or the message does not fit (`Fits`), cells and chip are what each step left. `LinesAreRenderedOnce`
(the invariant of `RenderedOnce`), for any height and number of
threads: bands made follow one another without gap or overlap (`BandInv`,
`ShareInv`), their rounded limits grow because there are no more threads than
scanlines, and a scanline is rendered exactly if its thread has passed it
(`DrawInv`).

### EmbeddedCliProofs

`EditorIsCorrect` (`CliCorrect`), for any alphabet, line and history length and
number of arguments, put together from three theorems.

`EditorKeepsLine` (`LineConsistent` and `HistoryKept`): `CliInv` adds to the two
that every key leaves a line that fits (`Edited`, one lemma per key and per
operation) and that in the history a terminator follows every place within the
length of a line (`Histories`), cut-off entries included. So every recalled or
found entry fits too, and the move that makes room for a line ends no entry too
late. That a string ends at its first terminator needs the least element of a set
of naturals (`LeastNatural`, from the well-foundedness of the naturals).

`EditorWords` (`ArgsAreWords`): `Parses` relates the parser's state after k
characters to the words that have started there: the arguments are as many, each
is its word so far, the last one open while no blank has come; a parser that
stopped at a full argv has met one word more (`ParseStep`). Induction along the
line is again by least element, also for the existence of the recursive function
(`RunExists`).

`ScreenIsLine` (`ScreenShowsLine`): `Showing` says that the terminal holds the
prompt and a line, without trailing blanks, and the cursor. Trimmed texts are
equal if they agree in every cell (`TrimSame`), so what a write does is followed
cell by cell (`PutsShows`), and one lemma per key shows that what is written
changes the screen as the key changes the line: `RuboutShows`, `InsertShows`,
`MovedShows`, `CutShows`, `RecallShows`, `FoundShows`. `ScreenInv` says it of the
line as the next key finds it (`Fresh`), whose entered predecessor is gone.

### Only model-checked

* Liveness: `SendReceived`, `StopCompletes`, `KickDrained`, `QueuedIsSent`,
  `QueueWakes`, `Reclaimed`, `CaptureServed`, `DisplayActive`, `ThreadStops`,
  `RequestsAnswered`, `AppServes`, `SocketsFinish` and the second part of
  `RenderedOnce`. Fairness and ENABLED are out of the prover's reach.
* `KickNotLost` with a counter that wraps.

## Plan

1. Done: the modules above and their runs; the theorems of the eight proof
   modules, which cover every invariant a run checks, the action property and the
   refinement.
2. `TseRx`: the receive ring, its skipped descriptors and refill failures,
   composed with the open/stop of `TseTx`.
3. `EfxDma`: chains, completion and terminate_all; `EfxWdt`: the lock register
   against the pretimeout interrupt.

## Not modelled

* TSEMAC receive, the watchdog and the dmaengine driver: planned, above. MDIO,
  ethtool and statistics: register access under the framework's locks.
* Framebuffer, eMMC, SD, UART and SPI kernel drivers: register sequences under
  their frameworks' locks, mostly ports of existing drivers.
* In the EVSoC module, the demo mode, the hardware accelerator (not compiled) and
  the font's data; sensor functions that no code calls (gain, exposure, test
  patterns, reads).
* In the web server, the image filters and the protocols of Mongoose that the
  program does not use (MQTT, DNS, SNTP, WebSocket, TLS, JSON, client side).
* Functions that are never called: tab completion and the timing test of
  `evsoc_app`, tsemac_dma_err_handler.
* Geometry and colours of `c-ray`; raystone, TEA, FIR, the OpenCV programs and
  games: sequential numerical or third-party code.
* Board support, device trees, OpenSBI platform files, setup scripts, and the
  older patches (Linux 5.10, U-Boot).
* Inside a component: the update of tx_bd_ci by two CPUs at once; SIGINT in the
  middle of a key or a command of the editor; a length for capvideo of letters A
  to F only, which get_int takes for a number and leaves unset; an IPI to the
  firmware that gets lost; the I2C controller of the sensors after it gave up a
  frame, but for what the driver sees.
* Memory ordering beyond program order (the drivers use barriers where a flag
  publishes data), cache maintenance, register timing, the resource table's
  contents.
