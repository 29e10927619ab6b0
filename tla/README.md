# NES-FPGA: TLA+ models, checks and proofs

NES-FPGA is a Nintendo Entertainment System in SystemVerilog on an Intel MAX 10
FPGA, with a Nios II processor beside it whose firmware (C) reads a USB keyboard
through a MAX3421E and hands four key codes to the console. The repository has
no tests; the code, its comments and `README.md` are all there is to read. This
directory models the parts of it whose correctness depends on *when* things
happen, checks them with TLC on small instances, and proves the most important
results with TLAPS for every value of the constants.

`PROJECT.json` lists the components, the runs, the faults each property is
tested against, the lines of code each definition stands for, the hazards and
the theorems. Below, line numbers are of the files in `src/src/`,
`src/qsys/software/usb_controller/` and, for the console and the alarms,
`src/qsys/software/usb_controller_bsp/`.

## 1. The system

### Components, their state, and who calls whom

| part | code | state | operations | talks to |
|---|---|---|---|---|
| CPU core (T65, vendored) | `t65/` | registers, microcode, NMI detector | one bus cycle at each `cpu_clk` edge while enabled | RAM, PPU registers, controller, by address; stalled by the DMA; NMI from the PPU |
| RAM, databus, OAM DMA | `top.sv` | 64 kB RAM, `dma`, `dma_finish`, `dma_count`, `dma_reg`, two addresses | trigger on `$4014`, copy 256 bytes at `nes_clk`, finish | takes the RAM and the OAM port, stops the CPU |
| PPU registers | `ppu.sv` 49-150 | `PPUCTRL`, latch, `PPUADDR`, `addr_final`, `inc_addr`, `ppu_wren`, `OAMADDR`, `OAMDATA`, status | accesses of `$2000`-`$2007` | the video memory pipeline, OAM, background, sprites |
| video memory port | `ppu.sv` 152-232 | two memories' registered ports, `ppu_databus`, `read_done`, `readdata`, palette | read and write at `nes_clk` | PPU registers |
| background | `ppu.sv` 234-451 | `next_*`, `curr_*` | fetch, shift at a tile's end | beam, video memory's second ports |
| sprites | `ppu.sv` 303-317, 385-406, 453-536, 604-733 | two lists, two counts, pattern bytes, overflow | evaluate, hand over, fetch, show | beam, OAM's second port, pixel multiplexer |
| beam | `VGA_Controller.sv` | `hc`, `vc`, `hs`, `vs` | one pixel | everything above reads `DrawX`, `DrawY` |
| frame synchronisation | `ppu.sv` 133-137, 775-781, `T65.vhd` 503-510, 696-699 | `nmi`, `PPUSTATUS[7]`, `NMI_n_o` | pulse, flag, edge detection | three clock domains read the line counter |
| controller port | `controller.sv` | shift register, `dout` | load, shift | `keycode` register of the firmware |
| firmware main loop | `main.c` | `runningdebugflag`, `device` | report, poll, restart | USB host, keycode register |
| USB host | `MAX3421E.c`, `transfer.c` 246-385 | `usb_task_state`, `usb_delay`, device table | interrupt handler, enumeration | the chip, the HID probes |
| USB transfers | `transfer.c` 77-227, `HID.c` | toggles, counters, chip's buffer | dispatch, IN, control transfers, poll | the chip, the device |
| HID probes | `HID.c` 19-201 | endpoint table, `hid_device` | requests, walk over the descriptors | USB transfers |
| firmware clock | `transfer.c` 144-163, 277-284, `alt_tick.c`, `alt_alarm_start.c` | tick counter, deadlines, alarms | begin a wait, start an alarm, tick | the two waits, the console's alarm |
| console | `altera_avalon_jtag_uart_*.c`, `NIOSIIe_jtag_uart_0.v` | two rings, interrupt enables, `host_inactive`, two FIFOs, `ac`, `pause_irq` | write, read, close, ioctl, interrupt routine, alarm | `printf` of the main loop, a debugger |
| the rest | wrappers, `HexDriver.sv`, `sync.sv`, BSP, `parse.py` | | | not modelled, see section 8 |

Four clocks drive the console: `cpu_clk` 1.79 MHz, `ppu_clk` 5.37 MHz, `nes_clk`
21.48 MHz and `vga_clk` 25.18 MHz. Signals cross between them without
synchronisers. A line of the picture takes 56 to 57 CPU cycles and a CPU cycle
11 to 13 `nes_clk` edges, counting both ways an edge can fall.

### What is hard, and what makes each part correct

- **OAM DMA.** Two clocks, a multiplexed port, a registered RAM read, a page
  register that lags by an edge, a reset that stops the CPU but not the engine.
  Correct: to a game the copy is one step, of the right page, that loses no
  `$2004` write and always ends.
- **Frame synchronisation.** The CPU's detector is blind during a DMA and in
  one cycle of each branch; the flag is set and cleared from two sides. Correct: every
  frame is noticed, once, by both means.
- **PPU port.** A write pulse, an increment and a three-stage read share one
  address. Correct: the port behaves as if each access took effect at once, with
  the usual buffered read.
- **Background and sprites.** Fetches a tile or a line ahead, addresses that
  cross nametables, a list handed over while it is read, registers and OAM
  written at any time. Correct: each pixel shows what the position names.
- **Controller.** The register changes in another clock domain and reads come one
  bit late. Correct: eight reads return one snapshot.
- **USB host.** Devices come and go between any two steps of a polled loop, the
  handler increments a state it has just set, the table keeps stale entries.
  Correct: no packet during a bus reset; the state follows the wire; the device
  polled is the one enumerated last; an enumeration ends, unless the settle delay never
  does.
- **USB transfers.** Packets and acknowledgements are lost, a request fails half
  way through a probe, the device is pulled out and another put in, toggles and
  tables outlive their device. Correct: a descriptor is stored as the device has
  it; what is polled has been configured; every report reaches the console once,
  in order; every poll and every enumeration returns.
- **Clock.** A 32 bit product wraps, and so does the tick counter with the alarms
  on it. Correct: no wait ends early, each ends; an alarm is called on its tick.
- **Console.** Two rings without a lock between the main program and an interrupt
  routine, interrupt enables that both sides turn on and off, a host that may not
  be there. Correct: characters leave in the order they came, no wake-up is lost,
  and a `printf` does not hold up the keyboard for ever.

`PROJECT.json` lists the hazards behind these at their lines, each with the
properties that would catch it or the reason why none does.

## 2. Modules

| module | what it is |
|---|---|
| `OamDma` | DMA engine, RAM, OAM port and OAM registers at the two clocks |
| `OamCopy` | abstract: a `$4014` cycle copies a page in one step |
| `FrameSync` | line counter, NMI level, flag, detector, in three clock domains |
| `PpuRegs` | `$2000`, `$2002`, `$2005`-`$2007` and the pipeline behind them |
| `PpuPort` | abstract: the port a game may rely on |
| `VgaTiming` | the beam; extended by the next two |
| `PpuBackground` | composes the beam with the background's fetches |
| `PpuSprites` | composes the beam with evaluation, fetches and the multiplexer |
| `Controller` | keycode register, shift register, a game's reads |
| `UsbHost` | main loop, interrupt handler, enumeration |
| `UsbPoll` | keyboard polling over a lossy wire |
| `UsbKeyboard` | extends it: a device from its reset on, control transfers, probes, unplugging |
| `ReportStream` | abstract: reports of a keyboard in service reach the register one by one |
| `UsbTimer` | the millisecond clock with its width |
| `FirmwareClock` | extends it: the timer interrupt with its alarms |
| `JtagUart` | the console's driver, its interrupt routine and the UART |
| `ByteStream` | abstract: one direction of a serial line |
| `MCGame` | `FrameSync` and `Controller` side by side, with values of their constants |
| `MC*` | values of the constants for TLC |
| `*Proofs` | theorems about the module of that name; `GameProofs` about `FrameSync` and `Controller`, `PpuBackgroundProofs` about `VgaTiming` and `PpuBackground`, `UsbKeyboardProofs` about `UsbPoll` and `UsbKeyboard`, `FirmwareProofs` about `UsbTimer`, `FirmwareClock` and `UsbHost` |

Correspondence with the code:

- **`OamDma`.** `NesEdge` is the `always_ff` at `top.sv:248` with the RAM and OAM
  ports (`RamEdge`, `OamEdge`); its four alternatives are the branches of that
  block. `CpuEdge` is `dma = ~dma_finish` (246), the CPU's enable (340) and the
  PPU's OAM registers (`OamRegsEdge`, `ppu.sv` 50-82). A byte has `N` values, an
  address is a pair. `CpuReset` is KEY0. One thing is known of the CPU: after a
  cycle on `$4014` comes an opcode fetch or the second write of a
  read-modify-write, not an access of `$2003` or `$2004` (`CpuMayIssue`).
- **`FrameSync`.** `NextLine`, `PpuEdge` and `CpuEdge` are the clocks. The only
  lines kept are those the code compares with and their neighbours. The CPU is
  any program: plain cycles, branches (`BranchCycle`: cycle 1 of a branch, the only
  one with `Jump = "01"`, holds the detector, `T65_MCode.vhd:814`), accesses of `$2000` and `$2002`, and DMAs.
- **`PpuRegs`.** One action for each register access at its `cpu_clk` edge,
  `NesEdge` for the pipeline. `MayFollow` says which bus cycles an instruction
  stream can put together. An access comes two reads or more after the one before,
  but an indexed store reads the register before it writes it, and a
  read-modify-write instruction reads it and writes it twice; the model lets it write
  any number of times. Two shapes are left out: an indexed access that crosses
  a page with the registers on either side of the crossing (a base of `$20F8` or
  more, so that the read at the address not yet corrected falls on one register and
  the access on another), and an indexed read-modify-write, which reads the
  register twice in a row.
- **`PpuBackground`.** One pixel clock is one step. Bytes stand for the addresses
  they were read from, so "shows the right tile" is an equation between
  addresses. `WriteRegs` is a CPU write between two pixels.
- **`PpuSprites`.** The same for sprites; `Solid` gives the pattern bits. What the list
  should be (`Wanted`) is stated by ranks: the entries of OAM on the line with fewer than
  `Slots` such entries before them.
  `Write` is a CPU or DMA write of one byte of OAM or of `PPUCTRL`.
- **`Controller`.** A sample of `keycode` taken while it changes may mix both
  values bit by bit (`Torn`).
- **`UsbHost`.** One pass of the main loop is: handler (probe, then
  acknowledgement, as two steps), `USB_Task` (one action for each state), main's
  reaction. `Change` (plug, unplug, glitch), `ResetDone` and `Elapse` happen
  between any two steps; the chip raises `CONDETIRQ` for a bus reset at its
  beginning, at its end or not at all. A transfer may always fail.
- **`UsbPoll`.** `Poll`, `Relaunch`, `Fail`, `Receive` are the firmware; `NoData`
  and `Data` the wire, which may lose the token, the data or the acknowledgement;
  `OtherTransfer` leaves another endpoint's toggle in the chip.
- **`UsbKeyboard`.** The control transfer under way is `request` with its `stage`;
  `Following` is the order of the requests in `USB_Task`, the probes and
  `GetDriverandReport`, `GiveUp` what the code does when one fails. `HearSetup`,
  `SendPacket`, `StatusOut` and `StatusIn` are the device's side, with every
  acknowledgement free to be lost. A device is a sequence of descriptor parts; the
  walk over them is `Matches` and `HasEndpoint`. `Unplug` happens between any two
  steps, `Detach` where the handler runs. `UsbHost` has the states before the
  reset, the handler and the table, `UsbKeyboard` the packets: a request of
  the one is a transfer of the other.
- **`UsbTimer`.** The product wraps at `2^W`; a tick, then the polling loops look.
- **`FirmwareClock`.** `Tick` composes that with `alt_tick`; `answer` is what the
  callbacks return. The list is a set, for an alarm's turn does not depend on the
  others'.
- **`JtagUart`.** An action is one stretch of a driver call, or of the interrupt
  routine, between two looks at something that another party may change;
  interrupts may come between any two of the main program's. `Visit` is the
  debugger at the JTAG side. The indices and buffers that are not `volatile` in
  `altera_avalon_jtag_uart.h:110-114` are read and written in the order of the
  source: `memcpy` is a call, and all the interrupt routine is owed is that they
  are written before interrupts come back on. `host_inactive` (line 99) is not
  `volatile` either, though the alarm changes it and the loops that wait spin on it. That
  each turn of such a loop reads it again is a fact of the build, not of the language:
  both makefiles compile with `-O0` (`usb_controller/Makefile:168`,
  `usb_controller_bsp/Makefile:141`). An optimising compiler may read it once, and then
  `CallsReturn` would not hold. The alarm is taken as granted
  (`init.c:89-96`).

Definitions commented as *faults* stand next to the definition they change. No
specification uses them; a property is worth keeping if one of them breaks it.

## 3. Runs

Ten runs pass; two end in a violation and are the findings of section 5.

| run | states | shows |
|---|---|---|
| `oam_dma` | 51 k | any RAM and any bus traffic with 2-valued bytes: the engine implements `OamCopy`; copies the prefix below its address; starts at the page on the bus; writes a wrong byte at most on its first edge, into `OAM[0]`; never overlaps a `$2004` write |
| `dma_reset` | 293 k | with 3-valued bytes and a CPU reset at any moment: it ends, with one whole page copied (perhaps of the transfer before) |
| `game` | 63 k | of the frame (51 k): any program, with a line of 9 or 10 CPU cycles and DMAs of up to 7: no frame missed while NMI stays on; one NMI for each rise of its condition; the flag follows the reads. Of the buttons (12 k): the real key codes, torn samples, up to ten reads: one snapshot in the right order; a key held across a report is never lost; at rest no button without a key |
| `ppu_port` | 3.4 M | any mix of register accesses, indexed stores and read-modify-writes included: `readdata` is ready in time, a write lands in one cell, and registers and pipeline implement `PpuPort` |
| `background` | 201 k | whole 800-pixel lines, ten scrolls, a write at five points of a line: which pixels are right, and what the wrong ones show |
| `sprites` | 243 k | five OAM layouts, two slots, one write at a bad moment: list, overflow flag and pixel |
| `usb_host` | 168 k | two addresses, four changes on the wire, any transfer failing: the four safety properties, and that an enumeration ends or waits for ever in the settle delay |
| `usb_keyboard` | 198 k | two devices of four kinds, packets lost, devices pulled out at any moment: descriptors stored whole, only what is configured is polled, toggles agree from the first poll on, implements `ReportStream` with its liveness; every poll and every enumeration returns |
| `usb_clock` | 196 k | 5 bit counter, waits and an alarm begun at any tick: none ends early, the alarm is on time across every wrap |
| `jtag_uart` | 722 k | a writing and a reading program, interrupts between any two steps, a debugger that visits or not: no wake-up lost, no FIFO overrun, both directions implement `ByteStream`, every call comes back |
| `usb_timer_settle` | | violation: a settle that never ends |
| `vsync_lines` | | violation: the vertical sync pulse is not on lines 490 and 491 |

### Bounds, and why they are enough

- `OamDma`: `N` is 2 (all RAMs, all bus cycles) and 3 (a byte with neighbours on
  both sides, so that an address off by one shows); the engine treats all bytes
  but the first and last alike. 2 or 3 `nes_clk` edges to a CPU cycle instead of
  11 to 13: two is the least for which the trigger works, so the run is on the
  tight side. The theorems hold for every `N >= 2` and every ratio from 2 on.
- `MCGame`: `FrameSync` and `Controller` share no variable, and each property speaks
  of one of them, so that it is enough to let one move while the other rests; the
  product of the two would show nothing more.
- `FrameSync`: the times are scaled by about six, keeping the pulse of two lines
  longer than a DMA with the branches around it. `MaxRaises` bounds how often a
  game toggles `PPUCTRL[7]` during one pulse. `Tearing` is off in the run, see
  section 6.
- `PpuRegs`: 12 addresses, with pattern ROM, a nametable seen twice, a palette
  with its shared entry, and a hole; 3 `nes_clk` edges to a CPU cycle, the depth
  of the pipeline.
- `PpuBackground`: the real line of 800 pixels, but 4 lines, one of which is
  followed by line 0. A write is possible at 5 pixels: early, in the middle, in the
  blank, in the prefetch and one pixel before the line's end. `BackgroundShown`
  speaks of lines without a write, so it covers recovery after one.
- `PpuSprites`: 4 entries of OAM and 2 slots in place of 64 and 8, in the same
  arrangement: evaluation ends on a multiple of a fetch turn, and the fetches go
  round twice at least. Sprites have their real size. One write, at one of four
  positions.
- `UsbHost`: two addresses, so that the table fills up; four changes, enough for
  plug, replace, pull and plug again. A `CONDETIRQ` at the end of a bus reset counts
  as one of them.
- `UsbKeyboard`: limits of 3 and 2 instead of 200 and 3, so that both are met;
  packets of 2 bytes and descriptors of 1 to 4, so that a transfer has one packet,
  ends with a short one, or ends with a full one. Two devices: the second meets
  what the first has left behind. Deadlock is not checked: with nothing plugged in
  and no device left, nothing happens.
- `FirmwareClock`: 5 bits, the product wrapping every 8 ticks, a settle of 2 and a
  transfer timeout of 4; alarms of 0 (once), 3 and 30 ticks, the last nearly a
  whole turn. `UsbTimer` alone, for the violation, has 7 bits.
- `JtagUart`: rings of 3 slots, so that the free slot, the wrapped and the unwrapped
  case occur, FIFOs of 2 with thresholds of 1 and 0 (half empty; full, or paused),
  calls of up to 2 characters, a timeout of 2 with `INT_MAX` 4. Characters are
  numbered modulo 2, which with three slots never puts the same one twice in a slot
  in a row. `Timeouts` has only the default, as more would multiply the states; the
  theorems do not depend on it.

### Fairness

- `OamDma`: both clocks run for ever (weak fairness of each edge).
- `UsbHost`: the main loop goes round; a bus reset ends (the chip ends it by
  itself). Nothing is assumed of devices: no transfer must succeed. And nothing is
  assumed of the settle delay: `transfer.c:281` does not guarantee that it runs
  out, as the finding `usb_timer_settle` shows, so `EnumerationEnds` says that
  an enumeration ends *or* stays in the settle delay for ever. The timeouts of a
  transfer (`transfer.c:144-163`) compare with the same product; they do not bear on
  this module, where a transfer is one step, and in `UsbPoll` and `UsbKeyboard` it
  is the chip ending each transaction that brings a transfer back.
- `UsbPoll`, `UsbKeyboard`: weak fairness of the firmware and of the chip, which
  ends each transaction; strong fairness of a report that goes through whole, for a
  wire that loses every packet for ever delivers nothing. `PollReturns` and
  `EnumerationReturns` would hold without the last. Nobody has to plug in or pull out
  anything.
- `UsbTimer`, `FirmwareClock`: the timer interrupt comes again.
- `JtagUart`: weak fairness of the main program's steps, of the interrupt
  routine and of the alarm. The debugger owes nothing: it may never come.

`FrameSync`, `PpuRegs`, `VgaTiming`, `PpuBackground`, `PpuSprites` and `Controller` are checked
for safety only: their steps are clock edges, and their properties say when
something must be true, not that it will be some day.

## 4. Theorems

All are checked by `tlapm` from the assumptions named in the modules
(`ByteAssumption`, `ClockAssumption`, ... which TLC evaluates in each run). An
invariant that a proof rests on is defined next to the property it explains, so
that TLC can evaluate it too; each was checked by TLC before it was proved.

- **`OamDmaProofs`**: `TypeCorrect`, `CopiesPage`, `KeepsPokes`, `StartsRight`,
  `WritesPageOnly`, `Implements` (the engine implements `OamCopy`; under the
  mapping OAM holds the page from the moment the engine starts) and `WholePage`, for
  every `N >= 2` and every clock ratio from two on. Inductive invariant of the
  first six: `EngineInv` with the two safety invariants, for `CopiedPrefix` alone does
  not know what the read port holds: `EngineInv` ties both addresses and `ram_dout`
  to `dma_count`, and says that on the `$4014` cycle the registers fill in two
  edges. `WholePage` is about the specification with resets, where that is not true:
  its `ResetInv` only says that the engine starts at the beginning of *some*
  page and that, once it runs, it stands in that page where the count says.
- **`GameProofs`**, what a game needs once a frame. `NmiSeen`, for any line and
  DMA length, and with torn samples: inductive invariant `DetectInv`, which counts
  the cycles the level has been high against those the detector was blind.
  `NoFrameMissed`, `OncePerRaise` and `FlagSeenOnce` for samples that are not torn
  (section 6). `EveryFrame` needs both ends of the pulse: `PulseInv` and `HeldInv`,
  that the level is up for the two lines but for an edge at each end, and `LowInv`,
  that the detector sees it low again before the next frame, so that
  `FirstEdgeInv`, the first high sample of a frame is an edge. `RaiseInv` says
  that an edge still to be seen has been counted; `FlagInv` is the state of the
  flag on line 480 itself. `LineAssumption` is that the lines are those of a counter
  and have the four the code compares with. `SnapshotRead` rests on `ShiftInv`
  (what is left of the snapshot after each read); `HeldKeysShow` needs no more than
  that a sample between two equal words is that word.
- **`PpuRegsProofs`**: `ReadsReady`, `EveryWriteLands` and `Implements` (registers,
  pending increment and pipeline implement `PpuPort`), for every address map,
  memory size and clock ratio from three on. `PortInv` says where in an instruction
  the write pulse and the increment can be (in the opcode fetch after an access of
  `$2007`, or in a write of `$2007` that follows at once, which is what `MayFollow`
  is for), and how far the pipeline has come in each phase of a read.
- **`PpuBackgroundProofs`**: `SyncWindows`, for any frame geometry (the horizontal
  pulse is where the code means it to be, the vertical one where section 5 says), and, for lines of
  800 pixels (the positions 512, 768 and 799 at which the code stops and starts
  fetching only fit those), `BackgroundTypes`, `BackgroundIsShown` and
  `SecondTileIsFirst`: for every scroll, every number of lines and a write at any
  pixel. What is shown depends on fetches of up to 48 pixels before, across the end of
  a line. `Place` counts pixels from where the fetches for a line begin, so that tiles
  begin where it is a multiple of 16 (`Phase`). `FetchInv` says what both read
  ports and the four registers for the next tile hold at each of a tile's sixteen
  pixels, and `ShownInv` that the first sixteen pixels of a line come from the fetches
  in the blank, the next, if the fine scroll has taken the name's slot out of
  the line, from the same name again, and all others from the tile that the position
  names. The lemma behind it is `AfterIsNext`: the code's address of the next tile is
  never zero in the thirty rows of tiles, and is right in both nametables up
  to the last column of the second.
- **`PpuSpritesProofs`**: `SpriteTypes`, `ListIsOam`, `OverflowIsRight`,
  `SpritesAreShown`, for any number of slots and up to 64 entries, any contents of OAM,
  any patterns, and writes at any pixel. `CollectInv` says that there is an increasing
  sequence `f` of entries on the line, all of those the beam has passed or as many
  as there are slots, whose bytes the list holds, and how much of the next one has
  been copied; the flag is up if an entry on the line comes after all of them.
  At the hand-over `f` turns into ranks: the k-th member of an increasing
  enumeration has k members below it (`Numbered`, `Ranks`). `DueInv` carries the list
  to the next line; `PatternInv` says that each slot the fetch unit has come to
  since then holds the two bytes of its own sprite, for which `Turn` has to be
  counted from the end of the evaluation and every slot gets a turn before the
  fetches end, as there are at least two rounds of them. The multiplexer then picks
  the least solid slot, which is the least solid entry (`LeastOf`). The existence of a
  least element of a set of numbers (`Least`) is taken from the well-foundedness of
  `<`, as the induction rules themselves cannot be instantiated here.
- **`FirmwareProofs`**, the host: `QuietReset`, `NewestPolled`, `SessionsEnd`, `StateInStep`, for
  any number of addresses and of changes on the wire. The invariant has one part for
  each: `ResetInv` (a bus event pending in the wait for the reset is that reset's
  own), `WireInv` and `SessionInv` (where a session that has ended may stand),
  `TableInv` (entries are taken in order, so the last in use is the newest).
- **`FirmwareProofs`**, the clock: `WaitsInFull` (`NeverEarly`) and `AlarmsAreOnTime`
  (`AlarmsOnTime`), for any width, rate, waits and alarms. The first needs `WaitInv`:
  the clock's distance from the beginning of a wait is at most the ticks that
  have gone by, however the product wrapped in between (its wraps only set the clock
  back, and a wait begun before one has its deadline beyond it). The second needs
  `AlarmInv`: the alarm's time is the counter plus the ticks left, and the flag
  is set exactly when that sum has wrapped.
- **`UsbKeyboardProofs`**: `TogglesAgree` for any reports, limits and losses, and
  `StreamSafety`: the initial state and every step of `UsbPoll` map to
  `ReportStream`; `ToggleInv` is inductive with the types. For the whole session,
  with any number of devices of any description: `KeyboardTypes`, `DescriptorArrives`,
  `PolledIsReady`, `SessionsAgree` and `SessionsShow` (the initial state and every step
  map to `ReportStream` again). Their invariant `KeyboardInv` has four parts
  beside the types. `TransferInv` (what has been stored and what is in the chip is
  a beginning of the descriptor, and the two toggles of endpoint 0 say whether the
  device has heard of the last acknowledgement), `RequestInv` (which requests
  belong to which state), `ReadyInv` (what the device has been told after which
  request, or it is not the device that was told) and `TogglesInv` (both toggles of
  endpoint 1 are zero from the request that sets the configuration to the first poll).
- **`JtagUartProofs`**: `NoLostWakeup` (`Wakeups`), `NeverOverruns` (`NoOverrun`) and
  `Streams` (`ImplementsStreams`), for rings, FIFOs and calls of any size. The
  invariant of the first two adds to `Wakeups` what each side has in hand: a piece of
  a ring that does not pass its end (`CallInv`), and interrupts that have called the
  routine and room that it has seen (`IsrInv`). A step that waits or returns is one
  lemma: it leaves on every interrupt that it was to turn on (`Rouses`). `Streams`
  is a refinement of `ByteStream` by each direction: ring and FIFO end to end are
  the stream. `StreamInv` says why no character is overwritten or read twice without
  a lock: the piece a program copies in lies in free slots, and the one it copies
  out stays until the index has passed it, as the other side moves the other index
  only. The lemmas on rings (`RingPuts`, `RingTakes`, ...) say which sequence a ring
  is after a piece has been put in at one end or taken out at the other.

Every invariant of a passing run, and the safety part of every refinement, is
stated by one of these theorems. Only model-checked, as the prover does not reason
about fairness and `ENABLED`: liveness, that is `DmaEnds`, `EnumerationEnds`,
`PollReturns`, `EnumerationReturns`, `CallsReturn` and the liveness of `ReportStream`.

## 5. Findings

- **A settle delay that never ends** (`usb_timer_settle`, `transfer.c:281`).
  `alt_nticks()*1000` wraps after 71.6 minutes; a `usb_delay` set in the last
  200 ms before lies beyond every value the clock takes.
- **The vertical sync pulse is a line early** (`vsync_lines`, `VGA_Controller.sv:93`).
  The comment at line 86 puts it "at line 490-491"; it is low from the second pixel of
  line 489 to the first of line 491. Adding one before the comparison makes up for the
  register in the horizontal pulse, where one is a pixel; here it is a line.
  `VsyncWindow` states where the pulse is, and `SyncWindows` proves it. The
  pulse has its length of two lines.

Seen while modelling, and not made a run because no line of the repository says
otherwise, or because it is harmless:

- `transfer.c:298`: `| bmFRAMEIRQ` is always true, the first start of frame is not
  waited for.
- `MAX3421E.c:226-227`: the handler reads the bus at its beginning and acknowledges
  `CONDETIRQ` in its last line. A change in between is acknowledged unseen; a device
  plugged in there stays unnoticed until it is pulled out. `UsbHost` has the window
  and loses the change there; `StateFollowsWire` speaks of what the probe saw, and no
  property says that the change is noticed.
- `main.c:22`, `main.c:42`: the two requests of `GetDriverandReport` go to address 1
  and their results are only printed. The poll goes to endpoint 1 (`HID.c:211, 219`),
  whatever number the endpoint's descriptor gives, although `HID.c:172` saves it.
- `USB_STATE_ERROR` is left only when the device is pulled out: an enumeration that
  fails on a bad moment of the wire is not tried again.
- `altera_avalon_jtag_uart_write.c:187`: a write that has waited gives up at any
  `host_inactive` but 0, a second without activity, while `TIOCGCONNECTED`
  (`ioctl.c:74`) says "connected" for ten; what it has not put into the ring is lost to
  the caller that does not look at the count.
- `NIOSIIe_jtag_uart_0.v:437, 447`: characters left in the UART because the ring was
  full bring no interrupt when `RE` comes back on, if fewer than the threshold asks for:
  reading has cleared `pause_irq`.
- `MAX3421E.c:223`: a bus event served after the probe turns `ATTACHED` into
  `SETTLE` with `usb_delay` unset, and `INITIALIZE` into a state without a case, so
  that the table is not cleared; from `RUNNING` main makes up for it, from `ERROR`
  an address is lost for each failed device.
- `ppu.sv:342`: the wrong second tile of `README.md:51` is the first tile again
  (`SecondTileRepeats` says exactly which), because its fetch would fall before the
  line begins. The first tile of the first line shows the row of line 525, and a
  first tile at address 0 of the second nametable is taken from the first, as the
  address is tested for zero (`ppu.sv:410`).
- `ppu.sv:470`: the overflow flag is cleared at each line's end.

## 6. Tearing

`DrawY` is a binary counter read in two other clock domains. A sample taken while it
changes may mix old and new bits; from 447 to 448, 255 to 256 and 511 to 512 a mixture
can be 480. `FrameSync` models this (`Tearing`, `Samples`), and `NmiSeen` is proved
with it. With it on, `OneNmiPerRaise` and `FlagTracksReads` do not hold: a torn
sample is a spurious pulse. The run has it off, the theorems about them and about
`EveryFrame` assume `~Tearing`, and these results are about a synthesised circuit
whose counter bits arrive together.

## 7. Plan

Done: the modules and theorems above. Next, in order of what matters most to the
system: `T65.vhd` interrupt entry (575-595, 669-706) composed with `FrameSync` (an
edge detected becomes one interrupt); a composed CPU bus with DMA and PPU port;
`UsbHost`'s table composed with `UsbKeyboard`'s packets; `parse.py` over bounded headers.

## 8. Not modelled

- The CPU core but for its NMI detector: vendored, and taken as an arbitrary source
  of the bus cycles a 6502 can make.
- Colours, palettes and the bit of a background pixel: combinational.
- `PPUSTATUS[6]`: a constant beam position chosen for one game; `sprite_zero_*` is
  never read. `PPUMASK` and 8x16 patterns have no effect beyond what is modelled
  (`README.md` lists both as missing).
- String descriptors, descriptor parts of length 0 and configurations longer than the
  256 bytes of `bigbuf`, OUT transfers (no caller), the polling of the mouse (the same
  calls as the keyboard's, with nothing behind them but LEDs and hex digits).
- The wait for the oscillator, LEDs, hex digits, formatting.
- Most of `usb_controller_bsp` and `NIOSIIe`: register maps, start-up and exception
  code, file descriptors, logging, profiling, drivers of the PIO and SPI blocks, the
  processor and its buses. They are generated or the vendor's, keep no state that the
  firmware's behaviour hangs on, and are most of the repository's lines; the two parts
  that do, the timer's alarms and the JTAG UART, are modelled. The `small` and the
  operating system variants of the UART's driver are not built.
- Memory wrappers, PLL, build files: generated or vendor blocks; their configuration
  is in the modules that use them.
- `parse.py`: runs before synthesis.
