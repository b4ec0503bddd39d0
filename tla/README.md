# A verification development for the Movidius PCIe host drivers

The repository holds the Linux kernel modules by which a host talks to a
Myriad X device over PCIe: `mxlk`, a serial link; `mxbl`, which boots a device;
`mxvp`, a library of commands for the VPU, and `mxtf`, its test driver. This directory
holds TLA+ models of them, TLC configurations that check the models on small
instances, and proofs that the TLA+ proof system checks for every instance.

## Inventory

| Part | State it keeps | Operations | Talks to |
|---|---|---|---|
| **mxlk transmit** (`serial/mxlk/mxlk_core.c`, `mxlk_char.c`) | `tx_pool`, the write list, `tx.ddr[]`, `tx.pipe.old`; head, tail and descriptors in device memory | `write()`, `poll()` for POLLOUT, `tx_event` | workqueue, device (registers, DMA, doorbell, MSI) |
| **mxlk receive** (same files) | `rx_pool`, `rx.ddr[]`, per interface the read list and `partial_read` | `read()`, `poll()` for POLLIN, `rx_event` | same |
| **mxlk lifecycle** (same, `mxlk_main.c`) | `opened`, which of events, communications, character devices are set up, the mode of the device | load, probe, remove, unload, open, close, reset and boot ioctls | boot transfer, reset, PCI |
| **mxlk capabilities** (`mxlk_capabilities.c`) | none: a list in device memory | find a capability, at most 32 steps | lifecycle |
| **boot transfer** (`common/mx_boot.c`) | `MF_START`, `MF_LENGTH`, `MF_READY` in device registers; `transfer_lock` | load an image, whole or in chunks | lifecycle, mxbl |
| **reset and mode** (`common/mx_reset.c`, `mx_utils.c`) | PCI context | reset, restore, read the mode | lifecycle, mxbl |
| **PCI helpers** (`common/mx_pci.c`) | resources held | wrappers of kernel calls | all drivers |
| **mxbl** (`boot/mxbl/`) | `chrdev_added`, one work item, `units_found` | probe, remove, interrupt, status update, open, read, write an image | boot transfer, reset |
| **mxvp commands** (`vpu/mxvp/mxvp_bspec.c`, `mxvp_cmd.c`) | the two command lists, request, done and pending bits in registers | build and send a command or DMA, async commands, replies, flush, cleanup | queues, device |
| **mxvp queues** (`mxvp_queue.c`) | head, tail and memory in device registers | push, pull | device |
| **mxvp memory** (`mxvp_mem.c`) | free list | alloc, free, translate, usage, cleanup | clients |
| **mxtf** (`vpu/mxtf/`) | one work item and one semaphore per test | five tests with memory and queues, six with async commands, one for throughput | mxvp |
| **demo** (`examples/PcieSerialDrvDemo/`) | sequence numbers, what is left of a chunk, which tasks run | a program on the host and an application on the device that send each other numbered chunks and check them | mxlk |

What makes each of them correct:

* *transmit*: fragments leave in the order in which the write list got them, once, unaltered,
  although the writer, the work item and the device share buffers without a
  common lock; every buffer has one owner; full and empty rings are told apart;
  no doorbell, interrupt or wake-up that matters is lost.
* *receive*: each reader gets the byte stream of its interface in order, across
  short reads and fragments of any length; the device never writes into a
  buffer that the host has handed on; a shortage of buffers delays data and
  never loses it.
* *lifecycle*: nothing uses rings, pools or interrupts that are torn down; each
  set-up is undone once; the driver works again after every call.
* *boot*: what counts as loaded was read; the device boots only what was
  transferred; the image outlives its transfer; every call ends.
* *mxbl*: a device in boot mode can be booted; one that is gone leaves nothing behind.
* *mxvp*: a reply reaches the command it answers, and it alone; every command
  gets its callback; the queues are FIFOs of whole elements; a block has one user.
* *demo*: chunks that calls move in parts stay whole and in step at both ends, and neither
  end waits for the other for ever.

What is hard about them is in `PROJECT.json` under `hazards`: each at its line,
with the properties that cover it.

## Modules

| Module | What it is |
|---|---|
| `MxlkFifo` | abstract: a sequence that grows at one end and is delivered from the other. One direction of the link, and a queue of the VPU |
| `MxlkTx`, `MxlkRx` | the two data paths of mxlk |
| `MxlkLink` | both paths at once, over what they share; implements each of them |
| `MxlkLifecycle` | reset, boot and removal of mxlk against interrupts, work items and `write()` |
| `MxlkDriver` | extends `MxlkLifecycle` with load, probe, character device, open files, version and capability list, unload |
| `MxBoot` | sending an image, with the device |
| `Mxbl` | the boot loader driver |
| `MxvpQueue` | a queue, push against pull; implements `MxlkFifo` |
| `MxvpCommand` | the commands: codes, sizes and builders; gives `MC_MxvpQueue` its lengths |
| `MxvpChannel` | abstract: an accepted command gets its callback once |
| `MxvpCmd` | command lists, interrupt, replies, async commands, flush, cleanup; implements `MxvpChannel` until the first flush |
| `MxvpPool` | abstract: blocks with at most one user each |
| `MxvpMem` | the memory manager; implements `MxvpPool` |
| `Mxtf` | the tests; extends `MxvpMem` and uses `MxvpChannel` for the commands |
| `SerialDemo` | the two programs of the demonstration, over links that move any part of a chunk |
| `MC_...` | the instances TLC checks |
| `MxlkTxProofs`, `MxlkRxProofs`, `MxlkDriverProofs`, `MxBootProofs`, `MxblProofs`, `MxvpProofs`, `MxvpCmdProofs`, `SerialProofs` | theorems about the modules they are named for; `MxlkDriverProofs` has those of `MxlkLifecycle`, `MxvpProofs` those of the queue, the memory and the tests, `SerialProofs` those of `MxlkLink` and `SerialDemo`. See *Proofs* |

A property has the name of what it says; an operator `Bug_...` stands beside the definition
it alters and is a plausible slip in the code that the property's run catches (the pairs
are in `PROJECT.json` under `mutants`).

### MxlkTx

| In the code | In the model |
|---|---|
| `cap.tx.head`, `cap.tx.tail` | `regHead` (moved by the device), `regTail` (moved by the host) |
| transfer descriptors | `td`: the buffer whose address the descriptor has |
| `tx.ddr[].bd`, `tx.pipe.old` | `ddr`, `old` |
| `tx_pool`, write list | `txPool` (a set: which buffer comes out does not matter), `writeList` |
| `bd->data`, `bd->interface` | `data`: a fragment, named by its interface and its number in the order of copying |
| locals of `mxlk_tx_event_handler()` | `pc`, `hHead`, `hTail`, `freed` |
| `tx_event`, `send_doorbell` queued | `txPending`, `dbPending`; `queue_work()` of a queued item does nothing |
| `mxlk_core_write()` in progress | `wpc`, `left`, `chain` |
| `wr_waitq` | `asleep` |
| "device is down" (`0xFFFFFFFF`) | `~up` |
| what the receive path does to the same work item and interrupt | `OtherDirection`, if `BothWays` |

The handler is one action per register access or list operation: begin
(read tail and head), recycle a slot, fill a slot, fail to map, publish the tail,
queue the doorbell, wake the sleepers. `write()` is split where it takes a
buffer, copies, puts the chain and queues the work; `wlock` makes these
sequential for one interface, and two interfaces interleave. A write with
nothing to copy, or one from a bad address, queues a buffer that was never filled, as
the code does (`Junk`). The work queue runs an item at most once at a time,
and different items side by side.

The device is external. It is modelled by what the driver relies on: a
doorbell makes it work the ring off up to the tail; it may interrupt after any
descriptor and does so at the end; it may fall silent for good. Reading the
head and tail registers is one step: only the device moves the head, only
the handler the tail.

`queued`, `delivered` and `mapErrors` are history. A fragment whose DMA mapping
failed is struck from `queued`.

### MxlkRx

| In the code | In the model |
|---|---|
| `cap.rx.head`, `cap.rx.tail` | `regHead` (moved by the host), `regTail` (moved by the device) |
| transfer descriptors | `tdAddr` (set by the host), `tdHdr` (status, interface, length: set by the device) |
| `rx_pool`, `rx.ddr[].bd` | `rxPool`, `ddr` |
| `bd->data`, `bd->length` and the bytes | `bd`: the fragment in the buffer, offset and remaining length |
| `inf->read`, `inf->partial_read` | `readList`, `partial` |
| locals of `mxlk_rx_event_handler()` | `pc`, `hHead`, `hTail`, `restart` |
| `mxlk_core_read()` in progress | `rpc`, `want`, `cur` |
| `rd_waitq` | `asleep` |

Taking a filled buffer off its slot and putting the replacement in is one
action: between its lines the handler touches only the slot it owns and lists under
their locks. `read()` is split at each access to a list or to `partial_read`.
`partial_read` keeps its old value while a `read()` runs, as in the code.
`PollWhileReading` says whether one thread polls an interface that another one reads.

The device is external: it fills the buffer the descriptor names, writes the
descriptor, moves the tail, keeps a slot empty, interrupts then or later, and once it
has found the ring full it looks again only after a doorbell.

### MxlkLink

The paths share `up`, the work item `send_doorbell` (`dbPending`) and the interrupt (`msi`), and nothing else: each has its ring,
pool, lists and handler. One run of the work item makes the device look at both rings (`mxlk_send_doorbell_handler`), and one
interrupt queues both handlers (`mxlk_interrupt`); either may have been asked for by one direction only. `MxlkLink` has two
instances, `Tx` and `Rx`, of the modules of the paths. A step of a handler, of a call or of the device moves one of them and leaves the other's
variables alone; the doorbell, the interrupt and the loss of the device are steps of both. `OtherDirection` in
`MxlkTx` and `MxlkRx` is all that one sees of the other: the item is queued, or an interrupt raised, for reasons of
the other's. That this is all is `LinkIsBoth`, so what is proved or checked of a path with `BothWays` is true with the other path at work.

### MxlkLifecycle and MxlkDriver

| In the code | In the model |
|---|---|
| main magic of the device (`mx_get_opmode`) | `mode` |
| the device has an image that it is yet to boot (`DeviceBoots`) | `booting` |
| `tx.ddr`, `rx.ddr` (freed but not cleared) | `rings`: none, live or freed |
| host status register | `run` |
| interrupt requested, MSI on its way, `MX_INT_ENABLE` | `irq`, `msi`, `update` |
| `rx_event`, `tx_event`, `send_doorbell` | `queued`, `running` |
| where a call of `mxlk_core_reset_dev`, `_boot_dev`, `_cleanup`, `_init` stands | `pc`, `op` |
| `mxlk_core_write()` with buffers in hand | `writing` |
| `struct mxlk_mmio`: version, status, capability list | `layout` |
| `mxlk_class`, the reserved numbers, `mx_pci_init`, the character device | `class`, `region`, `mapped`, `chrdev` |
| `inf->opened`, between its test and its setting | `opened`, `opening` |
| open files, which processes may share | `files` |

`twice`, `astray`, `struck` note what must not happen (freed twice, a handler on freed
rings outside a tear-down, a work item initialised while in use). `met`, `failed`,
`other`, `overtaken`, `missed`, `late`, `raced`, `renewed`, `bound`, `astrayRemoval` note the circumstances
in which the code does let it happen; the properties name them as exceptions, and each can be read
as a limit of the code:

* two ioctls that meet (no lock keeps them apart) or one that fails midway leave
  things to be freed twice or the driver down (`met`, `failed`);
* a boot that ends without communications leaves freed rings that look allocated (`other`). It does
  so after an image with an application the link is not for, and whenever it looks too early:
  `mx_boot_load_image` returns when the last chunk is transferred, and `mxlk_core_boot_dev` looks at the
  mode once, so that the device may be in any (`LoadsImage`, `CheckMode`). The call returns 0 all the same;
* a device that comes to its application after that is left without communications, as nothing looks
  again (`missed`: until it is reset, fails, or is booted anew), and its status update makes the
  interrupt handler queue the handlers although there are no rings (`late`);
* `mxlk_chrdev_add` returns `IS_ERR()`, which is 1, when `device_create()` fails: the probe takes all back, frees the driver's
  structure and returns 1, which the kernel takes for success. The driver stays bound (`bound`), and a
  removal frees its interrupt again. When `cdev_add()` fails the probe returns -1, and the driver is gone.
  The removal reads the freed structure; the model has it read what the probe left there, which is what
  memory that was not used again holds, and says nothing of other contents;
* a `write()` that goes on during a reset queues `tx_event` after its cancellation (`overtaken`);
* two `open()` calls may both find `opened` clear (`raced`), and a reset or boot clears
  it under an open file (`renewed`);
* a removal from a device in another mode leaves the rings allocated (`astrayRemoval`);
* the doorbell item is cancelled first and may be queued again by the handlers
  cancelled after it: `WorkCancelled` and `GoneLeavesNothing` allow `"db"` alone.

A removal and the reset of the PCI device exclude each other: the kernel has the device locked
throughout a removal, and `mx_reset_device` takes the same lock (`PciLocked`).

### MxBoot

`mode`, `ready` (`MF_READY`), `start` (`MF_START`: whose chunk), `booting`, `received` are the
device and its registers; `mapped`, `lock` the DMA mapping and `transfer_lock`; `pc`, `chunk`, `curr`,
`tries`, `error`, `result` the locals of `mx_boot_load_image`, `boot_image_transfer` and
`wait_for_transfer_completion`. A chunk is 4 MB as in the code, so that lengths are in bytes
and the number of chunks is computed; the embedded second stage image must fit one chunk
(`SecondStageAssumption`, which is all that is used of that file). `read`, `rushed`,
`mixed`, `failed`, `fault`, `stray`, `partial` are history. On its own the device may lose its mode or reset
itself (`DeviceFault`, `DeviceReset`), once in a behaviour; after a reset it is in boot mode and answers READY,
whatever a call is waiting for.

The exceptions say what the code allows: a change of mode passes for the end of a
transfer, so that a lost or booting device makes an image count as loaded (`fault`,
`rushed`); after a timeout the image is unmapped while the device may still read
(`StrayReadOnlyAfterTimeout`); the lock covers one chunk, so two images may mix
(`mixed`); the boot command is given even if the last transfer failed. And `wait_for_transfer_completion`
polls a device that is ready in the mode in which the transfer began without a sleep or a limit, with the lock
held: a call that meets such a device does not return, nor does one that waits for the lock. `EveryLoadReturns`
excepts behaviours in which a call polls so for ever (`Spins`), and says that every load returns in all others; without that exception
TLC finds the device that resets itself after a transfer has begun. The exception is for a device that failed:
nothing else makes a call spin.

### Mxbl

One instance of every variable per device: `mode`, `enabled`, `identity`, `msi` the device;
`mapped`, `irq`, `unit`, `added`, `chrdev`, `cdev` the driver's structure, which is zeroed by a
probe; `bus` whether the device is bus master (without which no MSI leaves it, and which a reset takes
away until the saved context is restored); `queued` the work item; `nodes`, `cdevs`, `opened` what the kernel has;
`thread[d]` where probe or remove stands, `work[d]` where the work item does; `module`, `class`,
`region` the module. Built without an embedded image; a `write()` is one step here.

Exceptions, in `crossed`, `yanked`, `limited`, `half`, `lost`, `refused`, `wiped`:
the flag `chrdev_added` is tested first and set last, so the probe and the work item may both add;
the minor is made from unit 0 until the probe takes its unit; a device one too many is torn down
and the probe returns 0, so a removal tears down again; a failed second request of the interrupt is
ignored; a failed reset keeps what the work item had added; an error pointer stays in
`chrdev`; the interrupt handler clears all of `MX_INT_IDENTITY` some time after reading it.

### MxvpQueue and MxvpCommand

`head`, `tail`, `mem` are the control words and the ring of 32-bit words; `ppc`, `item`,
`pHead` the push, `cpc`, `got` the pull. The lock keeps the two pushers of one queue apart but
not the host from the VPU, so a push and a pull interleave between each read and write of a
shared word. `accepted` and `taken` are history and what `MxlkFifo` sees. `MxvpCommand` has the
layout of the commands (packed sizes, lengths in the header) as their builders make them.

### MxvpCmd

`lists` are the arrays with `command`, `next` and `free`; `pc`, `pos` each send; `subq`, `repq` the
queues, as sequences that refuse only when not empty, as `RefusalHasReason` proves of `MxvpQueue`
for commands shorter than half of the queue; `bell`, `msi`, `pending`, `isr` the two interrupts; `queued`, `wpc`, `left`,
`reply` the work items; `request`, `done`, `doing`, `apc`, `todo` async commands and flushes;
`life` probe and cleanup. An id carries the position of its entry in the lower 16 bits. Only the
position counts: `mxvp_cmd.h:58` calls the upper half a "sequence number to match in reply", and
the host never looks at it. So a reply that is late, after a flush, frees the entry and calls the
callback of whoever has it by then; `IsChannel` and `OneEntryEach` therefore hold until the first flush of a list, and
`FirstFlushReachesAll` says what that flush does. `HandlersMeetLists` excepts an interrupt that was
under way as interrupts were disabled: it is freed after the work items are cancelled
(`late`). A probe that fails undoes nothing (`life = "dead"`).

`Throughput` are the commands of mxtf's throughput test, `nth` how many it has sent, `gaveUp` that one was refused:
it then returns without ringing for those before it. Their callback sends them again from within whoever
calls it, a handler or a flush (`by`), which goes on once the command is pushed and the doorbell rung (`owing`, `Busy`). The
code sends its two structures twice each; here each send is of a command of its own (`CmdAssumption`), as
nothing in the driver compares commands.

### MxvpMem and Mxtf

`list` and `free` are the free chain, `up` that the manager lives, `held` which blocks each user
has. `OnList` is the chain without recursion: the blocks in every set that is closed under it. In
`Mxtf` a test is a work item: `pc`, `cmd`, `vp` (its cookies), `sema`; `inflight` and `calls` are
`MxvpChannel`'s; `remover` is `mxtf_remove`, which waits for no test. `kept` are tests that
returned at once when their command was refused and left their blocks allocated
(`mxtf_test_mem_fill`).

### SerialDemo

Both ends have the same reader and writer, `e \in {"host", "leon"}`: `toRead`, `toWrite` are the `remaining` of `readStream` and
`writeStream`, `first` the first word of `readBuffer`, `expect`, `seqno`, `rx_error` as in the code, `reading` and
`writing` that `rx_running` and `tx_running` are set. `running`, `calculating` and `pc` are the application on the
device, whose main thread (`POSIX_Init`) waits for all tasks to end and starts again; tasks run ahead of it, having the higher
priority, and one that has ended may be refused when it is started again. The counts of bytes are left out. Where the
calls fail the two ends differ: the application's tasks end, and `running` with them; the host takes what it has
for a chunk. `link` is what `MxlkFifo` promises of a direction of mxlk. After a wrong number both readers go on from the one they
got (`leon/main.c:101`), though `Readme.txt:44` has the reader on the device "report the error and exit the loop".

## Runs

| Run | Instance | Question |
|---|---|---|
| `tx` | ring of 2, 2 buffers, 2 interfaces, 2 writes of one fragment, 1 mapping failure, device may fail, the other direction in use | owners, order, what the device may read, doorbells, wake-ups; does `MxlkTx` implement `MxlkFifo`; is everything sent |
| `rx_safety` | ring of 2, 3 buffers, 2 interfaces, 3 fragments of 4 kinds, reads up to 2 bytes, 1 mapping failure, device may fail | owners, stream, stalls, sleepers |
| `rx_liveness` | ring of 2, 3 buffers, 1 interface, 3 fragments longer than a read, the other direction in use | is everything read |
| `rx_poll` | 1 interface without the other direction, one thread polls while another reads | *violated*: see below |
| `driver` | 2 processes, 1 reset or boot and a removal, 5 layouts, TTL 3, any step may fail, the device may fault, or boot later than the call that loads it | what is freed, up, cancelled, open and left behind at any point between load and unload |
| `boot` | 2 callers, images of 4 MB + 1 and 4 MB, 3 loads, one retry, device may stop, fail, lose its mode or reset itself | what was read, what is booted, does every call return that does not poll a ready device for ever |
| `mxbl` | 1 device, 2 probes, at most 1 device served, 2 changes of mode, any step may fail | use after release, leftovers, is boot mode served |
| `demo` | chunks of 2 parts, links of 3, 2 sequence numbers, 1 failed call | are numbers wrong only after an error, do chunks keep arriving |
| `queue` | 21 words, elements of 4, 7, 8 and 10 words, 7 pushes | are elements whole, found, in order |
| `cmd_flush` | 3 commands, 2 entries, 3 sends, one reset of the queue | entries, callbacks, flush |
| `cmd_clean` | a command, a DMA and 2 of the throughput test, 2 entries each, one send besides those of the test, budget 1, removal | handlers against lists, is every command answered |
| `mxtf` | 3 of the tests (`multi_dma`, `mem_fill`, `fence`), 3 blocks, 2 fragments, 4 starts, removal | blocks lost or shared; does the free list implement `MxvpPool` |

Why the bounds are enough:

* *Rings and pools* fill up, wrap and run empty, between writes and in the middle of a receive run;
  in *rx_safety* the initial position is arbitrary, in *tx* and *rx_liveness* it is slot 0, as with the other direction there are more states
  (and the ring goes round; from every slot both pass, too, in twice and twelve times the states). There are more buffers than usable slots, so
  that the write list and the ring hold something at the same time, and two interfaces write at once. The safety
  properties of *tx* were checked on a ring of 3 with 3 buffers and writes of two fragments, too.
* *The other direction* is left out of *rx_safety*, for its size; the theorems cover it, and on one interface, with the fragments of *rx_liveness*,
  a mapping failure and a device that may fail, the same invariants were checked with it (4 million states). `MxlkLink`, which has no run of its own, was
  checked with one write of one fragment, one fragment sent, rings of 2, 1 and 2 buffers and a device that may fail: both
  refinements and the invariants of both paths (857 thousand states).
* *queue*: the lengths are those of real commands with at most one descriptor and of replies. Their sums
  do not divide the size, so that in seven pushes elements wrap at many places, with room
  to spare, exactly enough, and one word short; the longest may be refused by an empty queue.
* *cmd_flush*: three commands for two entries, so one waits for an entry that
  comes back; a third send meets a list that has been flushed. One interleaved reset suffices
  to break every promise that it can break: after it, the properties stop.
  *cmd_clean* has replies beyond the budget and both lists; the test finds its second command refused
  by a list or a queue that is full, or sends one again; the VPU need not report at all before the cleanup.
  With two sends besides those of the test, the safety properties of both runs were checked on it, too (25 million states).
* *demo*: a part of a chunk is left over at either end of a call, the link holds less than two chunks, so
  that both writers wait, and a number comes again after one chunk.
* *mxtf*: the three tests want 3, 1 and 0 blocks of 3, so that they compete; `dma_loopback` and `exebuf`
  differ from these in the number of blocks only. 13 bytes for blocks of 4: the last is no block.
* *boot*: one image with the second stage and two chunks, one that the boot ROM takes whole; three loads
  are one more than callers, so a load follows one that failed.
* *driver*: two processes are what it takes for calls to meet, and for a file to be shared; one ioctl
  and a removal follow each other or meet, after a probe that succeeded or not. With two and with three ioctls,
  one layout, and only behaviours in which no calls meet and none fails, it also passes (2.9 and 9.4 million states). The layouts are a list
  as long as the limit, one with something behind its end, a circle, another version, and a device not ready.
* *mxbl*: the second probe is of a device the driver has no room for, or follows a removal. Two devices
  with one change of mode were checked without the module's own load and unload (13 million states).

The bounds on writes, fragments, sends, probes, calls and failures are the only ones. They let the system
stop, as do a device that falls silent and a driver that is gone; so deadlock is not
checked. Buffers, commands and processes are symmetric in the safety runs: nothing singles one out.

### Properties

* `OneOwner` (both paths): a buffer is free, with a caller, on a list or in a slot,
  in one of these only and once; on the receive side never in none.
* `DeviceWindowFilled`, `DeviceWindowMapped`: what the device may access next
  is described by a descriptor that names the buffer the host keeps there.
* `DeviceWindowStable`: no step changes what the device may be reading.
* `RingInOrder`: the marks on the transmit ring never lap each other.
* `PipelineInOrder`, `IsFifo`: delivered, then in flight, is what was queued.
* `StreamInOrder`: what was read, then what waits, then what is on the ring, is
  what the device sent, byte by byte.
* `DoorbellNotLost`, `StallNotForgotten`, `DescriptorsNotForgotten`: whoever has
  work that depends on another's signal has that signal coming.
* `SleeperWillBeWoken`, `NoSleepWithData`: nobody sleeps over what he waits for.
* `EveryFragmentDelivered`, `EveryByteRead`: the same over time. The first makes an exception for a fragment whose
  mapping failed.
* `ReleasedOnce`, `UpAfterCalls`, `WorkCancelled`, `OneFile`, `GoneLeavesNothing`: the driver's resources,
  whatever calls, handlers and faults do in between. The first two are `FreedOnce` and `UpWhenIdle` of `MxlkLifecycle`, but for
  a driver that is bound although its probe failed. `CapFindIsReachability`: the bounded walk over the
  capability list finds what can be reached in it, in any list no longer than the limit.
* `LoadedMeansRead`, `StrayReadOnlyAfterTimeout`, `PartialBootOnlyAfterError`, `EveryLoadReturns`.
* `ReleasedIsNotUsed`, `AbsentLeavesNothing`, `BootModeIsServed` (mxbl).
* `ElementsInPlace`, `IsFifo` (queue); `OneEntryEach`, `FirstFlushReachesAll`,
  `IsChannel`, `HandlersMeetLists`, `EveryCommandAnswered` (commands).
* `NoBlockLost`, `IsPool` (memory).
* `MismatchOnlyAfterError`, `ChunksKeepArriving` (demo).

### Fairness

*mxlk paths*: weak fairness for each work item once queued (the kernel's workqueue), for
the interrupt handler once the MSI is raised, for a system call in progress,
and for the device as long as it is up. Nothing makes a user call `write()` or
`poll()`. `EveryByteRead` needs a user who reads: strong fairness for a `read()` of
at least a byte and for its copying, as a `read()` is not always enabled and may
end in a bad address. Nothing is assumed of a device that went down.

*MxvpCmd*: weak fairness for a send that is under way, for an async call or the cleanup once what it waits for
has happened, for the throughput test once it has begun, for each flush, for the interrupt and the work items, and for the VPU's answer to a
command it has. *SerialDemo*: weak fairness for the readers, writers, the main thread and the throughput task of the
application, which their kernels run; a call that can move something does, as `EveryByteRead` has it. The VPU need never accept or finish an async command, and the code waits for that without a
limit. *MxBoot*: weak fairness for the callers only (the kernel runs them, the mutex is fair enough for two);
nothing of the device, not even that it ever answers. `Mxbl`, `MxlkLifecycle`, `MxlkDriver`, `MxvpQueue`, `MxvpMem`, `Mxtf` are checked for safety only.

### What the runs show of the code

All runs pass but `rx_poll`. While a `read()` holds the only buffer of its interface,
`partial_read` is NULL and the read list empty; a thread that polls meanwhile
goes to sleep; the `read()` ends with data left, puts the buffer into `partial_read`
and wakes nobody. The comment at `mxlk_core.c:431` promises a wake-up "in case
someone is waiting for RX data". With one thread per interface this does not arise, which
`rx_safety` shows.

Two consequences of a failed DMA mapping are modelled as they are and stated as
limits of the properties: on the transmit side the fragment and its buffer are lost
(`LeakOnlyByMapError`), on the receive side the slot is offered to the device with
an address of nothing, and the stream is void from there (`StreamInOrder`). The exceptions of
the other components are listed with their modules above.

## Proofs

The theorems are about the `Spec` of each module, without fairness (those of `MxlkDriver` about its `DriverSpec`), and assume
only its named `ASSUME` (those about `MxlkLink` the two of the paths, `LinkAssumption`): sizes and bounds are natural numbers, a ring has a slot, NULL is no buffer, `None` no process, a
capability list in device memory is finite and its links stay in it, an embedded second stage fits a chunk. They
hold for rings, pools, queues, memories, images, and sets of users, commands and devices of any size. Every invariant
and action property a passing run checks is the subject of one.

| Theorem | States | Module |
|---|---|---|
| `RingStaysInOrder`, `DeviceReadsFilledSlots`, `DoorbellRings`, `SleeperIsWoken` | `RingInOrder`, `DeviceWindowFilled`, `DoorbellNotLost`, `SleeperWillBeWoken` | `MxlkTxProofs` |
| `BuffersHaveOneOwner`, `DeviceWindowUntouched`, `OnlyMapErrorsLeak` | `OneOwner`, `DeviceWindowStable`, `LeakOnlyByMapError` (finite sets of buffers) | `MxlkTxProofs` |
| `FragmentsStayInOrder`, `TypesHold`, `TransmitIsFifo` | `PipelineInOrder`, `TypeOK`, `IsFifo` | `MxlkTxProofs` |
| `ReceiveTypes`, `WindowStaysMapped`, `BuffersHaveOneOwner`, `NobodySleepsOverData`, `StallIsRungOff`, `DescriptorsAreSeen` | `TypeOK`, `DeviceWindowMapped`, `OneOwner`, `NoSleepWithData` (one thread per interface), `StallNotForgotten`, `DescriptorsNotForgotten` | `MxlkRxProofs` |
| `BytesStayInOrder` | `StreamInOrder` | `MxlkRxProofs` |
| `FreedAtMostOnce`, `UpBetweenCalls`, `HandlersAreCancelled` | `FreedOnce`, `UpWhenIdle`, `WorkCancelled` under the `Spec` of `MxlkLifecycle` | `MxlkDriverProofs` |
| `DriverFreesOnce`, `DriverIsUp`, `DriverCancels`, `DriverLeavesNothing`, `OneFileAtATime` | `ReleasedOnce`, `UpAfterCalls`, `WorkCancelled`, from load to unload; `GoneLeavesNothing`, `OneFile` | `MxlkDriverProofs` |
| `CapabilitiesAreFound` | `CapFindIsReachability` | `MxlkDriverProofs` |
| `StrayReads`, `LoadedIsRead`, `WholeImagesAreBooted` | `StrayReadOnlyAfterTimeout`, `LoadedMeansRead`, `PartialBootOnlyAfterError` | `MxBootProofs` |
| `NothingReleasedIsUsed`, `NothingIsLeftBehind`, `BootModeGetsChrdev` | `ReleasedIsNotUsed`, `AbsentLeavesNothing`, `BootModeIsServed` | `MxblProofs` |
| `EntriesAreOwned`, `HandlersStop`, `FirstFlushIsComplete`, `AnsweredOnce` | `OneEntryEach`, `HandlersMeetLists`, `FirstFlushReachesAll`, `IsChannel` | `MxvpCmdProofs` |
| `ElementsStayInPlace`, `PullNeverFindsNothing`, `RefusalHasReason`, `QueueIsFifo` | `ElementsInPlace`, `PullFindsElement`, `RefusedOnlyWhenFull`, `IsFifo` | `MxvpProofs` |
| `MemOneHolder`, `MemNoBlockLost`, `MemIsPool` | `OneHolder`, `NoBlockLost`, `IsPool` under `MemSpec` | `MxvpProofs` |
| `MxtfTypeCorrect`, `MxtfNoBlockLost`, `MxtfBlocksInUse`, `MxtfLeak`, `MxtfIsPool` | `TypeOK`, `NoBlockLost`, `BlocksInUseAreHeld`, `LeakOnlyByRefusedSend`, `IsPool` under the `Spec` of `Mxtf` | `MxvpProofs` |
| `LinkIsBoth` | `LinkSpec` implements the `Spec` of `MxlkTx` and that of `MxlkRx` | `SerialProofs` |
| `LinkKeepsOrder`, `LinkLosesNoSignal`, `LinkSharesNoBuffer` | with both directions in use, the theorems of both about order, signals and buffers | `SerialProofs` |
| `NumbersAgree` | `MismatchOnlyAfterError` | `SerialProofs` |

### Transmit

The argument goes up in layers, each an invariant that rests on those below:

1. `Ranges`, the type invariant but for `queued`.
2. `RingInv` = `RingInOrder` and two facts that make it inductive. `RingInOrder`
   alone is not: a run of the handler starts from the tail it reads back from the device,
   so that between runs the published tail must be where the last run stopped
   filling (while the device is up: `hTail = regTail`); and a slot that is filled but not yet
   published must already be described by `td`, or publishing it would break
   `DeviceWindowFilled`. Once the device is down it ignores writes of `td`, so this
   second fact reaches only to the published tail then (`FilledUpTo`).
3. `OneOwner`, inductive together with `Ranges`.
4. `CopyInv` (a `write()` about to copy holds a buffer); with 1 to 3 it is `BufferInv`.
   From it, no step writes into a buffer on the list or on the ring (`DataStable`), and the
   slot the handler recycles or fills is never one the device may read
   (`WindowSlots`): hence `DeviceWindowStable`.
5. `FlightInv` says what `InFlight` is place by place, and the `Flight...` and
   `Pipe...` lemmas what each step does to it: filling a slot moves a buffer from the list to the
   ring in its place, consuming one takes the head, a chain joins at the end, a
   mapping failure removes one place. With lemmas about sequences
   (`HeadMovesOver`, `RemoveAtConcat`) this makes `PipelineInOrder` inductive over `BufferInv`.
6. `PipelineInOrder` gives `queued` its type, and each step its image in `MxlkFifo`
   (`FifoStep`): `WritePut` is `Accept`, or a stutter if the chain is empty;
   `DeviceConsume` is `Deliver`; `TxMapError` is `GiveUp`; no other step shows.

`DoorbellNotLost` is inductive with `Ranges`, `SleeperWillBeWoken` by itself. `LeakOnlyByMapError`
counts buffers: a mapping failure leaves the buffer it met in the slot at `hTail`, from where the next fill drops it.
`LeakInv` says that no other slot outside the window holds a buffer, and that those lost and the one about to be
(`OnBrink`) are no more than the failures.

### Receive

`ReceiveTypes` first. `RingInv` is about `Mark`, the slot up to which the host has gone: the head it is about to
publish while the handler runs and the device is up, the published head otherwise. `DeviceWindowMapped` alone is
not inductive: slots that the handler has refilled and not yet published must already be mapped; `RingInv`
says so of every slot not between `Mark` and the device's tail, and that the marks go round in order. `OwnerInv` (where each buffer may be, and that a buffer is in one place) rests on both and gives `OneOwner`.
`SleepInv` is stronger than `NoSleepWithData`: who sleeps has nothing to read and no `read()` under way, which
needs one thread per interface. `SignalInv` ties a stall of the device and a restart of the handler to the work items that answer them.

`StreamInv` is about bytes: what an interface has read, then what waits for it, then some `rest` is what the device sent to it,
and while the device is up that rest is what lies on the ring. `StreamInOrder` is weaker and not inductive: once the device is down
it speaks only of what has been read, so that nothing would keep a `read()` of what still waits in order. It
needs two facts more: between its runs the handler's head is the published one (`HeadInv`), or the ring would lose or repeat
slots as a run begins; and a buffer that is in a slot starts at its first byte (`RewoundInv`), or a fragment taken from the ring
would lack what the last reader of that buffer had. `OnRing`, `Unread` and `SentTo` flatten sequences of byte
sequences; the lemmas `FlattenAppend` and `FlattenInFront` say what one more at either end adds, and `RingGrows`, `RingShrinks`,
`SentGrows`, `ListGrows`, `ListInFront`, `CutBuf` apply them to what the device, the handler and `read()` do.
Flattening is defined by a recursive function; what is true of it for each length is shown by way of the least length for
which it would not be (`HasLeast`, `SetInduction`), from the well-foundedness of the natural numbers.

### Both directions

In `MxlkTxProofs` and `MxlkRxProofs` every invariant has a case for `OtherDirection`. `LinkIsBoth` then has one step for each
kind of step of the link (`LinkNext`): one of a single direction is its own action there and, for the other, an `OtherDirection` if it queued the
work item or raised an interrupt, and a stutter otherwise; the three joint steps are steps of both. It needs the
types of what is shared (`SharedTypes`): a step that sets a flag already set is a stutter. The theorems of the two modules
are then cited through their instances.

### Lifecycle and driver

The invariant of `MxlkLifecycle` is `Types`, `DownInv` and `WorkInv`. The properties make exceptions for calls that met (`Calm`), and so must the
invariants: while calm, the calls are `Alone`, and what is up or down follows from where the only one stands:
`UpBetween` when there is none, `DownAt` the place of the call otherwise. `WorkInv` does the same for the work items: at each place
in a tear-down it says which of them may still be queued or run. A device that is yet to boot runs no application
(`YetToBoot`), and left the boot that loaded it without communications: that is why one that comes to its application
between calls is `missed`, and why no ring is live when it does.

`DriverInv` carries this over to `MxlkDriver`, from load to unload. While calm, one of four things is the case: the driver is gone and
has left nothing (`GoneInv`); a probe is under way, alone, and has set up just what its place says (`ProbeAt`); the driver is bound though
its probe failed, has nothing, and can only be removed (`BoundInv`); or the driver is up, the invariant of
the lifecycle holds, and a removal has taken away just what it should have (`RemovalAt`). So the steps of the lifecycle are not
proved again: what is new are probe and removal and the passage between the four. `OpenInv` is about open files:
unless `raced` or `renewed`, all files are one, `opened` says whether there is one, and while it is set no `open()` is past its test.

`CapabilitiesAreFound` is about a function, not about steps. The walk of so many steps is a sequence of headers (`WalkExists`,
`WalksAgree`, by least elements as above). What it finds is reachable (`FoundIsReachable`); conversely the
headers an endless walk meets up to the end of the list are closed under `next`, so they are all that can be reached (`ReachableIsMet`). Before the
first time a header is met no other is met twice, or it would have been met sooner; so a walk over no more than `MXLK_CAP_TTL` headers
meets it within the limit (`FirstMeeting`, a pigeonhole). `LayoutInv` says that the list is one a device may have.

### Boot

`TypeInv` has types, the range of `chunk`, and who holds the lock. `TransferInv`: a caller that waits finds the transfer of its
own chunk still to be done, in the mode in which it began, or over. `MappedInv`: what the device has still to read is mapped, and
somebody waits for it, unless a transfer has timed out. `ReadInv` says for each caller how far `read` has come, at each place
of the loop over chunks (`HasRead`). `StageInv` is about what the device would boot: while no loads have met, none has failed and the device kept its
mode (`Clean`), there is one call, what was received is the second stage alone or the image as far as the call has come, and
a device that boots has a whole one. Each rests on the ones before it and makes the exceptions its property makes.

### mxbl

The invariant is about one device at a time, `DeviceInv(d)`: `OpOf` and `MappedOf` (where a thread may be in which operation, and whether the
registers are mapped there), `IrqOf` and `BusOf`, `WorkOf` (without an interrupt no work item is on the way), `ChrdevOf`
(flag, numbers and character device agree), `ServedOf` (a device in boot mode has it, or an update is due) and `NodeOf` (what the kernel has of the device). With it go `TypeInv`,
`ModuleInv` (an unloaded module has nothing), `UsedInv` and `UserInv` (what was used after its release has a named cause). A step of
one device leaves the others' part alone, which `Elsewhere...` and `Other...` say once for all steps. `BootModeIsServed` holds because
an interrupt of the device is answered by a work item that reads the mode after it: `Due` follows the one to the other.

### Commands

Until its first flush a list is like the memory of `Mxtf`, a chain of free entries, and `EntriesInv` uses the same closed sets
(`Chain`): an entry is on the chain or belongs to one command, which it holds once filled in. To each step applies one of `SameKept`, `TakeKept`, `FillKept`,
`RemoveKept` (`EveryMove`). `OneEntryEach` alone is not inductive: a reply frees the entry that its id names. So `MessagesInv` says that every message in a queue
or in a handler's hands names a command in flight and its entry, and none is named twice. `SendInv`, `CommandInv` and `QuietInv` say where commands
may be before that, `TodoInv` that what a flush has before it are lists that count as flushed, where the rest stops holding; `HandlerInv` gives `HandlersMeetLists`.
`IsChannel` follows step by step, as
a reply that answers the right command is the one callback that command gets. After the flush has begun
the entries are not safe any more; `DueInv` says what is left: a command that was in flight as the first flush
started, and has had no callback yet, still has an entry of its own, and the flush is still to come to it. That is `FirstFlushReachesAll`.

### Queue

`QueueInv` is the conjunction of `Types`, `InOrder` (what was pulled is what was pushed, as far as it goes), `Layout` (the elements
still to be pulled lie in the ring in one piece, in at most two runs of words that do not overlap, chained from head to tail by adjacency or a marker),
`RoomKnown` (the head the pusher read may be old, and yet there is at least the room it computes from it), `ItemPlaced` (the element being pushed lies in that room) and `Puller` (what it copied is the
oldest element). The stale head is the point of it.

### Memory and tests

`MemInv` says what a free list is without following it: what nobody has is linked to what nobody has, no two links are
the same, none leads to the first block, and every set that has the first block and, with a block, the next has all of them. The last part
makes `OnList`, which is defined by closed sets, what nobody has (`OnListIs`); that the first
chain goes through all blocks follows from the least block that it would miss (`ChainOfAll`). `MxtfInv` adds that a test frees only
cookies it has, and that a command under way has a sleeping test.

### Demonstration

`DemoInv` says of each direction, while no call has failed, that it is `InStep`. Parts are counted from the start of the chunk the reader
is in: what it has of it (`Moved`), then what is on the link, then what the writer has left of its own chunk. A chunk starts on
the link wherever that count is a multiple of the length of a chunk, and the part there has the number due to it, the number the reader expects and as many more as chunks lie
before it (`ChunksInLink`); all three together are whole chunks, and the writer's next number is the one due to the chunk after them
(`WriterAhead`). Neither holds of a run alone: how a call cuts the chunks is left open at both ends. `Started` keeps an end that has not
begun at number 0. Numbers come round again, so the lemmas are about remainders (`ModSum`, `Numbering`).

### Only model-checked

The liveness properties (`EveryFragmentDelivered`, `EveryByteRead`, `EveryLoadReturns`, `EveryCommandAnswered`,
`ChunksKeepArriving`): liveness under fairness, and `ENABLED`, are out of the prover's reach. Of `MxlkLink` no liveness is stated: `tx` and `rx_liveness` each check that of
one path with the other's `OtherDirection`, which owes it nothing. What recursive functions compute for every input
cannot be had from the library's induction theorems, which take operators as parameters; where it is needed (the byte
streams, the capability walk, the free lists) it is proved of sets of natural numbers, by their least element.

## Not modelled

* Byte counts and statistics, the debug attribute, the status ioctl (`get_dev_status`), logging.
  Nothing in the drivers reads what they keep.
* What images, payloads and the embedded second stage loader contain. The header that embeds it is
  about half of the lines of the repository's code; only its size is used. A failed copy from the user in a boot
  is reported by the code and changes nothing else.
* mxbl with an embedded image (a build option).
* What mxtf's async tests report; of its throughput test the statistics, the blocks it never frees, and a flush that meets
  one of its commands in the middle of a send; `mxvp_queue_reset`,
  which nothing calls; reading the temperature; work items without a body.
* A reply handler without memory: it uses the reply it could not allocate.
* The order in which pools hand out buffers. Caches and write buffers between host and device: a
  register write takes effect at once, and the code's `wmb()` is taken to order it.
* An `rx_pool` no bigger than the ring (a setting in the headers rules it out); images of no bytes.
* Replies an earlier driver left in the VPU's queues, which no probe resets.
* Memory the kernel would keep: `mxlk_wq` is never destroyed; `mx_pci_init` unmaps a wrong
  address when the DMA mask is refused.

## Plan

1. *(done)* The paths of mxlk, their runs and proofs.
2. *(done)* Lifecycle, driver, boot transfer, mxbl.
3. *(done)* Queue, memory, commands, tests; refinements of `MxlkFifo`, `MxvpPool`, `MxvpChannel`.
4. *(done)* Proofs about the driver from load to unload, the receive stream, the capability walk, boot transfer, mxbl and commands.
5. *(done)* The two directions of mxlk over their one doorbell work item and one interrupt; the demonstration's numbers.
6. Left: `MxlkDriver` as an implementation of `MxlkLifecycle` from the end of its probe.
