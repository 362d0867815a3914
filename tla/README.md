# BytePipe SDK: TLA+ models, checks and proofs

The BytePipe SDK turns an ADRV9001/9002 transceiver and a Zynq UltraScale+ into
a radio that is operated from a command line: programmable logic moves samples
and drives the transceiver's SPI bus and enable pins, a FreeRTOS application
(RFLAN) on one processor core controls it. This directory holds formal models of
the parts of that system whose correctness depends on order, timing or failure,
TLC configurations that check them on small instances, and TLAPS proofs of the
most important properties for all instances. Paths below are relative to the
repository's `src/` directory.

Contents: [components](#1-the-system-and-its-components),
[modules](#2-the-modules), [runs and bounds](#3-the-runs),
[fairness](#4-fairness), [proofs](#5-what-is-proved),
[findings](#6-what-the-models-showed), [limits](#7-what-is-not-modelled),
[plan](#8-plan).

## 1. The system and its components

    operator --UART irq--+                                    rflan_cli.c
    operator --Ethernet--+-> queue -> line editor -> command  adrv9001_cli.c, pib.c
    script   ------------+   (cli.c)                 |
                                      +--------------+-----------------+
                                      v                                v
                            radio control (adrv9001.c)     streaming (rflan_stream.c)
                                      |                                |
                         transceiver library (vendor)            DMA driver (axi_dma.c)
                                      |                                |
                            SPI master (axi_adrv9001.c)          DMA engines
                                      |                                |
    - - - - - - - - - - - - - - - - - | - - - - - - - - - - - - - - - -| - - - logic
                  register block (adrv9001_regs.v)                     |
                    |           |             |                        |
             SPI engine     enable pins    counters -> SSI pipelines (adrv9001_tx.v, _rx.v)
           (adrv9001_mspi.v)    |                          |
    - - - - - - - - | - - - - - | - - - - - - - - - - - - -|- - - - - - - - - - - - -
                    +-----------+--- transceiver ----------+

Everything on the processor runs in a handful of tasks and interrupt handlers:
the command task (which makes every call of the radio and streaming layers), a
transmit task for its output, the Ethernet tasks, the event task of idle priority
that prints `Stream Done`, and the interrupt handlers of the UART, the SPI and
the DMA engines. After initialisation the radio layer is used by one task only;
what runs beside it is the hardware.

| component | state | operations | hard behaviour | what makes it correct |
|---|---|---|---|---|
| SPI master: `adrv9001/sw/axi_adrv9001.c:60-147`, `adrv9001/hdl/adrv9001_mspi.v` | two FIFOs, `SpiDone`, the interrupt's enable, the engine | transfer a buffer | the driver spins without a timeout on a flag that an interrupt sets; the interrupt line is a level that outlives the interrupt; a transfer may not fit the FIFO | every transfer returns; nothing of it reaches the next; each reply is to its request |
| Register block: `adrv9001/hdl/adrv9001_regs.v` | the registers, handshake flip-flops, strobes | AXI4-Lite write and read | pipelined writes, late answers; one-clock strobes made of multi-clock accesses; a read with a side effect | each access takes effect once |
| Radio control: `adrv9001/sw/adrv9001.c` | per channel: state and enable mode (in the transceiver), enable-pin register, PA/LNA pin and its direction, SSI test mode, data source | state commands, some thirty setters, DPD, profile load, SSI sweep | a setter is a sequence of up to seven library calls, each of which may fail; in PIN mode the channel changes its state on its own | settings are applied only where the device takes them; success means everything is as before; the amplifier is on whenever the pin keys the channel and the amplifier's own pin is an output |
| SSI delay calibration: `adrv9001.c:1925-2125` | 8 x 8 results | sweep, choose | scores added up in the table that is being read | the middle of the longest run of passes is chosen |
| SSI data path: `adrv9001/hdl/adrv9001_tx.v`, `adrv9001_rx.v` | pipelines, strobes, a counter, serialiser resets | every clock | enable, data source and stream change at any clock; the receive strobe stands at any of sixteen bits | no torn word, none lost or doubled, the counter's window is the device's |
| Streaming: `rflan/sw/rflan_stream.c`, `axi_dma/sw/axi_dma.c` | DMA engines, pending interrupts, the driver's request, the event queue, sample buffers behind the cache | `RflanStreamStart`, `RflanStreamStop`, samples put and read | completions race commands; the handler reports one cause of several; the queue has four places and the slowest consumer | nothing is reported that did not happen; nothing that happened is lost unless the queue was full; engine and processor see the same samples |
| Command line: `rflan/sw/lib/cli.c`, `rflan_uart.c`, `rflan_lwip.c` | character queue, line buffer, history | a character arrives; the task takes one | three sources, one queue and one line; scripts are queued, not called; bounded buffers, one of them unchecked; the echo goes through a format string | what the operator meant is run, once and in order |
| Application commands: `rflan/sw/rflan_cli.c`, `rflan/sw/adrv9001/adrv9001_cli.c` | none of their own | parse, call, print | `Reboot` rewrites the boot image in pieces, in place | a known-good image is not lost |
| Parameter tables: `rflan/sw/adrv9001/adrv9001_params.c`, setters of `adrv9001.c` | the processor's copies of some parameters; the rest lives in the transceiver or the logic | `SetParam`, `GetParam` | numbers that do not fit, texts that are none, statuses that are dropped; copy and device are two writes; a profile reload forgets the device's half; enabling a transmitter sends two copies again | what was set with `Success` is held and shown; a set changes nothing else but what a copy brings back |
| Frequency hopping: `adrv9001/hdl/axi_adrv9001.v:355-470` | hop tables, trigger, interrupt | hop | optional logic that RFLAN does not build in | a hop per trigger |
| Start-up: `rflan/sw/rflan.c:291-543` | the boot image on the card | power up, initialise | commands are accepted before the radio exists; power may fail while the image is rewritten | a board that could boot still can, unless a call failed or power was cut |
| Board support, boot loader, MATLAB toolbox, Linux image, profiles | | | I/O, vendor or generated code, host scripts | |

The hazards of each are listed, at their lines, in `PROJECT.json`.

## 2. The modules

| module | models | notes |
|---|---|---|
| `SpiExchange` | what the callers of an SPI transfer rely on | abstract |
| `Mspi` | the driver, its interrupt, the FIFOs and the engine | implements `SpiExchange` |
| `MspiProofs` | | theorems |
| `RegisterFile` | what software relies on in the registers | abstract |
| `AxiRegs` | the register block, clock by clock | implements `RegisterFile` |
| `AxiRegsProofs` | | theorems |
| `Radio`, `RadioProofs` | the radio control layer, the sweep, and theorems | `RadioProofs` also holds those of `SsiCal` |
| `Params` | the parameters: text to value, places and copies, reloads | |
| `Boot`, `BootProofs` | power-up, start-up, commands, `Reboot` | composes `Params` with the boot image; theorems about both |
| `SsiCal` | the choice of a delay | theorems in `RadioProofs` |
| `SsiTx`, `SsiTxProofs` | the transmit sample interface, clock by clock, and theorems | |
| `SsiRx`, `SsiRxProofs` | the receive sample interface and the monitor of the ramp, and theorems | |
| `Stream`, `StreamProofs` | stream commands, DMA, events, buffers, and theorems | |
| `Shell` | what a lone operator may expect | abstract |
| `Cli`, `CliProofs` | queue, editor, scripts, and theorems | implements `Shell` |
| `MC...` | instances for TLC | |

In every module the definitions named `<definition>_<what is wrong>` are
variants with a bug a programmer might make. No specification uses them; they
serve to see that a property can tell the code from such a variant.

**SPI: `SpiExchange`, `Mspi`.** The program points `enable`, `fill`, `wait` and
`drain` are those of `AxiAdrv9001_MspiTransfer`; `spiDone` is the flag that
`SpiIrq` (the handler) sets when the level `done` is up and `irqEnabled`. The
engine's steps are states of `adrv9001_mspi.v`: chip select, a byte shifted, its
reply pushed, the end of the frame when the request FIFO is empty. A reply is
named after the byte it answers, so "the reply to this buffer" is the buffer.
What the abstraction leaves out: bits, clock polarity, the bus clock divider.

**Registers: `RegisterFile`, `AxiRegs`.** All of the slave's flip-flops that take
part in the handshakes are variables and change together in `Clock`; the master
raises its signals between clocks as late as it likes, may call a write before
the last is answered, and reads one register at a time (as the bus converter in
front of it does). Registers are of four kinds: held, strobes, the SPI register
(a write pushes, a read pops) and read-only. The refinement mapping counts a
strobe as soon as it is high (`PushedSoon`, `PulsedSoon`), because the FIFO takes
the byte in the clock after.

**Radio control: `Radio`.** `radio[c]` is what a channel is: state, mode,
enable-pin register (`ps`), front end, test mode, data source. State commands are
single steps with a set of outcomes, one for every place where a library call may
fail; calls made of several of them have a program counter. The setters differ
only in what a failure of the setting itself does, and are modelled by three
kinds of bracket: `checked`, `ignored`, `reported`. `Load`, `Prepare`, `Tune` and
`SetModes` are the profile load and `ConfigureProfile`, which boot and
`SetTxDpdEnable` run; the sweep (`SetDelay` ... `SetBest`) is one, shared by both.
`PinFollow` is the transceiver: a channel in PIN mode follows its pin at any time,
also between the state being read and the mode being set.

`radio[c].front` is the level written to the pin of a channel's PA or LNA, and
`pins[c]` is what that pin is: an input until `ConfigurePins` (the end of
`Rflan_Initialize`, `rflan.c:456-474`) makes it an output, and an input again
(`lost`) after a load of a profile, which resets the transceiver (`ResetPins`).
`SetPaEnable` writes the level whatever the direction is, as the code does; only
on an output does it do anything (`Powered`). Board version 2 has its amplifiers
on pins that `Adrv9001_ResetbPinSet` sets to output with every reset, version 3
has not. `ConfigurePins` also takes some pins low. By then `ConfigureProfile` has
put the transmitters in PIN mode, and one whose calibration failed in its last
`ToPrimed` may have its enable pin up: its amplifier pin is then `parked`.

**Parameters: `Params`.** A parameter is a name of the table, `<<kind, channel>>`;
kinds that the code treats alike are one kind (`Samples` and `Power` stand for
the settings of the DPD, `SsiEnable` and `Disable` for the counts, `Rssi` for
what can only be read). `held` is what the transceiver or a register of the logic
holds, `cache` the copies of `Adrv9001Init` that `GetParam` prints in place of the
device's value. A command is one step, since one task makes every call; its
outcomes are those of the setter in `adrv9001_params.c` and `adrv9001.c` with each
library call failing or not, in the order in which copy and device are written.
`Scan`, `Narrow` and `AttnWord` are the conversions with their widths: eight bits
for ports and indices, 16 bits for an attenuation in thousandths, a text that is
no number for whatever the variable held; `SetState` scans one byte of four.
`SetDpdEnable` is the reload of a profile (`SetTxDpdEnable` in `Radio`): it rewrites
the device, not the copies, and with DPD on not the registers of the logic.
Enabling a transmitter sends its attenuation and boost again from the copies,
whatever it is enabled for (`adrv9001.c:1712-1716`): that is `Resent`, in the action
`Enable` (the command of that name, a sweep, a stream), in `SetState`, in the
setters of carrier, delay and DPD, which enable a transmitter they found enabled,
and in the calibration at start-up and after a reload. Nobody looks at whether it
worked, so each of the two may be sent or not. `believed` is history: the number last set with `Success`.

**Power-up and reboot: `Boot`.** `pc` goes from the boot ROM to start-up (where
`Rflan_Initialize` has the command line up and the radio not), to commands, and
into `Reboot`, one point per call on the file system: `f_unlink`, open, create,
copy, close, reset. Each may fail, a write may be cut short, and power may be cut
between any two. `bootBin` is what the card holds as `boot.bin`. The bodies of
`Initialize` and `SetParam` are those of `Params`.

**Delay choice: `SsiCal`.** The table is scored in place: `Visit` adds to one
point what its neighbours to the right and to the left bring (`Gain` of `ToRight`
and `ToLeft`, halving weights as long as the run of passes lasts), reading the
points before it as they have become. `Choose` takes the first highest score.
`MiddleOfLongest` is the reference definition.

**Sample interface: `SsiTx`, `SsiRx`.** Each `Clock` is one edge of `ssi_clk_div`
and changes every flip-flop of the path as the always-blocks do; between edges the
processor and the stream act. I and Q travel together, and the bits of a half of
a word are one value on the transmit side (where nothing is cut) and separate
bits on the receive side (where alignment is the question). The transmit
serialiser is taken to come out of reset in the clock in which its reset falls,
the receive one to start at any bit. `due`, `got`, `calm` and `last` are history:
what should have been sent, what the device got, how long the device has been
steady, what was delivered last; `run` and `late` count how many samples have
continued the ramp and how long ago enough had. `early` on the transmit side says
that the sample on offer was there a clock before it is taken: the logic latches
the bus a clock early, so a sample that becomes valid in the clock that takes it
is lost (`Junk` in `due`). `Monitor` is the pipeline of the ramp's monitor, its
blocking assignment included; a sample that is not whole is no number and
continues no ramp. The counter's clock enable `ce` and `iq_ready`
(`packed_valid` on the receive side) are the same flip-flop twice and are one
variable. The count registers keep their values during a behaviour, any values.

**Streaming: `Stream`.** The commands' program points are the driver's calls:
`SetCyclic`, `SetSampleCnt`, `StartTransfer`, then the radio is keyed; a stop
unkeys it first and halts the engine after. A `Handler` reads the pending causes
of one channel, reports one and clears them. A buffer is described by where its
newest samples are: in memory, in the cache, or lost; lines are evicted at any
time. Priorities are guards: a task moves only when no interrupt is pending, the
event task only when the command task waits.

**Command line: `Shell`, `Cli`.** Characters are taken one at a time through
`Key`, which is the chain of tests of the receive task: erase, end of line, tab
completion, escape sequences, ordinary characters. `ed.screen` is what the
echo has made of the terminal's line. In `Shell` there are no characters: a line
is entered and run. `Future` maps one to the other: the lines that the characters
on their way (`Pending`) will turn out to be once the editor has read them
(`Reading`, which goes through `Read`, the editor without its screen). The
promise of `Shell` has a condition, `WellMeant`, on what is entered: lines are not
empty and leave two places of the line buffer free; keys spell their line, with
corrections or completion, or are arrows that lead to a line of the history and
an end of line; a line fits the history; a script's last line is ended; nothing is
typed behind a script's name before the script has run; scripts do not call
scripts. `polite` chooses at the start of a session between one operator who waits
for his commands, recalls only what the history holds whole (`Holds`) and has a
card that is read without error, to whom `Shell` is promised, and operators on
both interfaces at once, who overfill the queue, the line and the history.

The history is `HistoryBuf` of `HistorySize` characters (256 in the code): the
lines run, latest first, each with its zero, cut where the buffer ends.
`HistoryHead` is the entry it points to (`head`) and where that begins (`at`).
`Older` moves it back while the zero it looks for is within the buffer, `Newer`
forth, and `Remembered` is what the buffer has of that line, so that a line that
was cut is recalled cut. The byte behind the buffer is taken to be the
allocator's padding, and zero. `Submit` copies the line into the buffer whatever
its length: one of `HistorySize` characters or more is written over what follows
(`Overrun`). What the program does then is undefined, so the behaviour ends there,
and no property says anything of what comes after.

The text typed, completed or recalled is the format string of `Cli_Printf`. A `%`
is held and not shown, and in a line drawn whole it consumes what follows it.
`echo` records that a `%` has come into the line since it was begun or drawn
whole; what the screen then shows depends on arguments that nobody passed, and
`SeenIsHeld` is claimed of lines without.

`ReadFails` is a script that ends part way, because a read failed, or before its
first character, because the file did not open.

## 3. The runs

All runs finish within three minutes on two workers.

| run | instance | what it shows |
|---|---|---|
| `mspi` | FIFOs of 2, transfers of 1 to 3 bytes over two byte values | the overflow of the FIFO, and every interleaving of processor, interrupt and engine over any number of transfers; `FrameInsideWait`, `NoResidue`, `Returns`, and that `SpiExchange` is implemented |
| `radio` | a transmitter and a receiver of the same number on a version 3 board, two sweep points | boot with the set-up of the pins, and any sequence of any calls and profile loads with any failures |
| `radio_lna`, `radio_pa` | the same | findings, see below |
| `board` | two channels, a profile without the second transmitter, eleven groups of parameters and commands an operator may work with, one to four numbers for each kind and a text that is none, an image of 2 chunks | power-up, start-up with any call failing, any sequence of sets, reloads and enables, `Reboot` with a good, a missing and its own file, power cuts at every step |
| `stream` | one channel each way, two sample counts, an event queue of 2, 3 commands | a second start over a running transfer, a stop racing a completion, a full queue |
| `regs` | a register of each kind, 2 writes, 2 reads, 1 received byte | a write called before the last is answered, a read meeting a waiting answer |
| `cli` | a history of 4 characters. One operator: 6 inputs (typed, corrected, completed, recalled) on two interfaces used in turn, 3 lines, a script. Several at once: 2 lines, both interfaces, a `%`, a line longer than line buffer and history, failing reads of the script | `Shell` is implemented; the task always comes to rest unless the history is overrun; what is on the screen is what will run, also when the queue or the line overflows and when what is recalled has been cut |
| `cli_cut` | a script without a final end of line | a finding |
| `ssi_tx` | counter to 3, all pairs of counts, 5 words per enable, 2 synchroniser stages, samples that come before or as they are taken | the window opens and closes, closes before it opens, never closes; disable and enable within and beyond the synchroniser's depth |
| `ssi_rx` | samples of 4 bits in chunks of 2, three sample numbers, counter to 7, 2 predictions raise the flag | all four phases of the strobe, the device starting, stopping and starting again at another phase; the flag rises, falls, and rises again |
| `ssi_cal` | every table of two rows of eight | the choice against its definition |

Why the bounds are enough, and what they are named. `Depth` and `MaxLength`
(`mspi`): behaviour changes where a transfer reaches the FIFO's depth, and the
proofs hold for any. `LastPoint` (`radio`): 1 instead of 63; a sweep's points
differ only in first, further and last, and the proofs hold for any. `MaxCalls`
(`stream`): three commands are a start, one that meets it and one that meets the
result. `QueueSize`: small in `stream`, so that
it fills; in `cli` that of the longest line and the script, which several
operators overfill. `MaxWrites`,
`MaxReads`, `MaxBytes` (`regs`): a write can meet only the one before and the one
after; the proofs hold for any. `MaxInputs` (`cli`): three lines are needed to
recall the last but one after a script. `HistorySize` (`cli`): 4 instead of
256, so that it holds one line of the longest that fits, or two short ones, and cuts the
third; the proofs hold for any. `BusyInputs`, `MaxBusy` (`cli`): what
operators who do not wait enter, two lines at most: two meet in one line, one is
longer than the line buffer and the history, one has a `%`, one recalls two lines
back. `Plans`, `Typed` (`board`): the groups of
parameters do not touch each other, so an operator works with one of them; each
has the parameter that may be disturbed, the one that disturbs it, and the
reloads; the numbers are in range, beyond the device, beyond their width, and
equal to the default. `Chunks` (`board`): 2, a first and a last; the proofs hold
for any of these. `Top` (`ssi_rx`): the number of predictions that raise the
flag, 2 instead of 255, so that there is a first, a further and one too many.
`CountMax`, `MaxWords`, `SyncStages`
(`ssi_tx`, `ssi_rx`): the pipeline is four stages deep, a word takes two clocks,
so an error of one or two in a count shows within three words; stages only decide
how long a disabled channel goes on. `HalfBits` (`ssi_rx`): the chunk size enters
only through the strobe's position; 2 gives positions within a chunk, at its
edge, and across two. `Settling` and `Lead` are not bounds of the instance but
part of what is claimed: after how many clocks, and how many samples, delivery is
right; both are the smallest for which it holds. `Rows` (`ssi_cal`): rows are
compared only by their best scores, two show every tie.

`CHECK_DEADLOCK FALSE` stands where a session ends: `stream`, `cli`, `regs`
(bounded numbers of commands), `ssi_cal` (the function returns), `ssi_tx` (the
bound on words stops the clock). `mspi`, `radio`, `board` and `ssi_rx` run for
ever, and deadlock is checked there.

## 4. Fairness

* `Mspi`: the processor goes on, an interrupt that is enabled and pending is
  taken, the engine is clocked: weak fairness of each. Nobody has to call, so
  calls have none.
* `AxiRegs`: the clock runs, and a master that has started an access raises the
  signals that complete it, as AXI4-Lite demands (the processor stalls on it).
* `Stream`: interrupts are taken, a command that has begun runs to its end, the
  event task runs when nothing above it does: weak fairness of `Handler(c)`,
  `Call` and `Report`, whose guards hold the priorities. The engines have none:
  a transfer stalls as long as the radio gives or takes no samples. Commands have
  none: the operator may stop typing.
* `Cli`: the command task runs, since what has priority over it does not run for
  ever, and what has been typed arrives. `Settles` is of scripts that call no
  script: one that calls itself keeps the task busy for ever, and does in the code.
* `Boot`: a `Reboot` that has begun goes on, since the command task runs and the
  calls of the file system return: weak fairness of `RebootStep`. Power may be cut
  at any time and need not be; commands have none.
* `Radio`, `SsiTx`, `SsiRx`, `SsiCal`: safety only. The calls of `Radio` run
  straight through; whether the library returns is not this code's to say.

## 5. What is proved

Proofs are in modules of their own, and every safety property of every passing
run is a theorem. Every step is checked by TLAPS; the assumptions are those of
the components' modules: `MspiAssumption`, `RegistersAssumption`,
`NoneAssumption`, `RadioAssumption`, `StreamAssumption`, `TxAssumption`,
`RxAssumption`, `CliAssumption`, `CalAssumption`, `ChunksAssumption`, and those of
`Params`. They say that the constants are sets, numbers, functions and subsets,
that the marks for "nothing" are none of the values, and of sizes only what the
code fixes: rows of at most eight delays (`CalAssumption`), a line buffer, and
samples that are whole chunks. TLC evaluates each on its instance. Two theorems
about `Cli` have the hypothesis `WellMeant`, which says what the operator and the
authors of scripts keep to; TLC evaluates it on the instance of the run `cli`
(`FileWellMeant`), and `cli_cut` shows what happens without it.

**`MspiProofs`**, for FIFOs of any depth and buffers of any length. The
invariant follows the bytes: the caller's receive buffer, the reply FIFO, the
byte being shifted and the request FIFO hold, in this order, consecutive bytes
of the caller's buffer (`InOrder`); how many are where is fixed by the driver's
program point (`Conserved`); the handshake signals agree with driver and engine
(`Handshake`). `NoResidue` alone is not inductive: that both FIFOs are empty at
the end follows from what was pushed and popped since the beginning. Theorems:
`TypeCorrect`, `FramesInsideWait`, `LeavesNoResidue`, and `ExchangeImplemented`,
the safety part of the refinement, in which every step but call and return is a
stutter. What makes every transfer return is proved short of the fairness:
`NoWakeUpLost` (whenever the driver waits, what will wake it is under way, so that
processor, interrupt or engine always has a step), `ReturnCloser` (each such step
lowers `StepsLeft`) and `StepsBounded`. The step that needed the invariant is the
interrupt: that it comes once per transfer, and only while the driver waits, is
`Handshake`.

**`AxiRegsProofs`**, for any registers, values and delays. `Write` says what
follows from a write being in progress (the valid signals come only from a
called write, and an accepted one goes to its own address), `Read` the same of
reads. `OneAtATime` is inductive together with them. Theorems: `TypeCorrect`,
`AccessesKeptApart` and, by a refinement mapping that counts a strobe as soon as
it is high, `RegisterFileImplemented`. `AccessesInTime` bounds the answer: a
write takes at most three clocks from when it has been handed over and the last
answer taken, a read two, and nothing puts an access back. It needs that the slave
is never shut for good (`NeverShut`): the write enable is low only while a write is
in hand or its answer waits.

**`RadioProofs`**, for any set of channels, profile mask, board version and
number of sweep points. `PinSafe` (a channel in PIN mode is `PRIMED` or
`RF_ENABLED`, and if its pin is up its amplifier is on, unless start-up has parked
it or a load of a profile has made it an input) implies two of the properties, but to keep it one must know what a call has done to the channel
since it took it from its pin. `Bracketed`, `Swept` and `Configured` say that for
setters, sweeps and `ConfigureProfile`, per program point. Lemmas named
`...Outcome` say what each library-level call may leave of a channel, and each
step is then one lemma of the form `IInv /\ Action => IInv'`. Theorems:
`TypeCorrect`, `AppliedCalibrated`, `PinMeansSomething`, `PinKeysFrontEnd`,
`SuccessRestores`.

The same module, on top of it: that a sweep leaves no trace is a statement about
its end; `Tidy` says, for every place in it, where the data source that will be
put back is kept (still in the channel, or in `prevDataSrc`), which test modes may
be on, and from when on the channel has its mode again. Every library call's
outcome is shown to leave these alone or to change them as named (`...Ssi`
lemmas). Theorem: `SweepLeavesNoTrace`.

And for the choice of a delay, for tables of any number of rows. `CalTable` says
what the table that is rewritten while it is read holds: a point is positive just
if it passed, scored or not, so that runs can still be read from it, and a point
that has been visited holds its score. That the middle of a run scores more than
its other points (`MiddleIsBest`), that a longer run scores more than a shorter one
(`LongerIsBetter`), and that the first highest is the middle of the first longest
(`FirstOfHighest`) are lemmas about rows of at most eight, which is why `Columns`
is bounded: the weights halve down to nothing, so in a run of twenty many points
score alike. Theorems: `DelayTypeCorrect`, `DelayInMiddle`.

**`StreamProofs`**, for any channels, queue length and number of commands. That
completions are neither lost nor invented rests on counting (`Counted`): what is
done is what has been told, what is queued, what is pending and, if the queue
once was full, what it lost; it needs that a channel whose engine runs has no
completion pending. The number of a channel's events in the queue under `Append`
and `Tail` is a lemma of its own. `Asking` says what each step of a command has
told the driver, `Clean` what the flush leaves of a line nobody used since.
Theorems: `TypeCorrect`, `NoneInvented`, `NoneLost`, `StatusIsKept`,
`SamplesAgree`.

**`SsiTxProofs`**, for any counter width, counts, stream and synchroniser depth.
The properties speak of what has left the pipeline, the invariant of what is in
it: `Paired` (in every stage the second half of a word follows its first) and
`InStep` (which word each stage carries, how many words begun have been received,
and whether the serialiser runs, all as functions of how many have been begun).
The case of a re-enable within the depth of the synchroniser, when the counter
goes on where it was, is `Live`. TLC checked the whole invariant before it was
proved. Theorems: `TypeCorrect`, `NeverTorn`, `NoneSkipped`, `WindowKept`.

**`SsiRxProofs`**, for samples of any width, any number of samples, counts and
depth of the synchroniser. Bits are numbered by their place in the stream: `Here`
is the place the window starts at, and a chunk, a window or a sample that stands
at a place is shown to hold the bits from there on (`ChunkIs`, `SampleCut`), for
each position of the strobe. `Control` ties strobe, counter and serialiser
together, `Pipeline` says how old each stage is and that, once the device has been
steady for that long, it holds what its age says; `Flag` does the same for the
monitor's stages and its count. Theorems: `TypeCorrect`, `EachDelivered`,
`FlagTold`.

**`CliProofs`**, for any characters, commands, inputs, scripts and buffer sizes.
`Fits` (line and history entries fit the line buffer, and `HistoryHead` is where an
entry begins, `Placed`) and `Agree` (the screen is the line, unless a `%` came into
it) hold for any number of operators, a history of any size and what it has cut.
That `Shell` is implemented, for one who waits, rests on two facts about reading.
A line's characters are read alike whatever the history is (`PlainRead`), and
arrows reach the line they are meant to (`ArrowRead`, `RecallGives`), by the
least-number principle over how many have been read. That needs the lines on
their way to stand whole in the history buffer (`HeldWhole`, `Among`): an operator
who recalls no further back than that has it from `Holds`. `Orderly` is the invariant:
read to the end from where the editor stands, what is on its way makes lines that
were meant and leaves none half entered (`Told`); the history is the lines that
have run (`Kept`); one source at most has characters left and none while a script
is read (`Alone`); and all of it fits the queue (`Room`).
Each step of the task then leaves that future as it
is (`Same`, a stutter of `Shell`), takes its first line off (`Sh!Run`) or adds one
(`Sh!Enter`). Theorems: `TypeCorrect`, `SeenHeld`, `ShellImplemented`, and
`RunsWhatWasSent`, the property that `cli_cut` violates.

**`BootProofs`**, for any channels, profiles, numbers and images.
`BeliefIsHeld` is inductive with the types, because whatever writes the place of
a parameter writes its copy too, or is not relied on, or takes the belief away,
and what enabling a transmitter sends again is what the copy has (`AndEnabled`);
each way of setting a parameter is shown to be such a `Step`, and the two action
properties come with it. `Copying` says which part of a new image is there at
each point of `Reboot`. Theorems: `TypeCorrect`, `SuccessIsHeld`,
`CopiesPartOnlyBy`, `SetsChangeOnly`, `RebootIsSafe`, and `RebootCloser`, that every
step of a `Reboot` lowers the number it has left.

Only model-checked are the liveness properties: `Returns`, `EveryAccessEnds`,
`RebootEnds`, `DoneIsReported`, `Settles` and the fairness part of
`ImplementsExchange`. They rest on fairness, thus on ENABLED, which is beyond this
prover. For the first three what is proved is the other half, a measure that the
steps lower (`ReturnComesCloser`, `AnsweredInTime`, `RebootComesCloser`; like
`WakeUpComes` they are no properties of a run, whose liveness property says more
of its instance); that a fair system with such a measure comes to its end is the
part left to TLC. `DoneIsReported` and `Settles` have no such measure: completions
and characters may arrive at any time.

## 6. What the models showed

Three runs end in a violation, on purpose: each property is a statement of the
repository about itself.

* `radio_lna`: `Adrv9001_ToCalibrated` (`adrv9001.c:1671`) tells the front-end
  callback `RF_ENABLED`, and unlike `ToPrimed` never turns the amplifier off.
  A receiver taken to `CALIBRATED` keeps its LNA on.
* `radio_pa`: `Adrv9001_ToRfEnabled` (`adrv9001.c:1706`, "Set PA/LNA Enable") writes
  the level of a pin that start-up made an output (`rflan.c:456-474`) and a load of
  a profile makes an input again. On board version 3 nothing makes it an output
  after that: once DPD has been switched, as the shipped script
  `rflan/resources/tx_dpd_enabled.txt` does in its line 7, transmitters are enabled with
  `Success` and their amplifiers stay off.
* `cli_cut`: `ExecuteScript` (`rflan_cli.c:788-826`) passes on a file's characters
  and nothing else. Two scripts of the repository do not end with an end of line:
  their last line waits in the line buffer and becomes the beginning of whatever
  is typed next. After `tx_dpd_enabled.txt`, whose last line is a comment, the
  command that is to stop the transmitter is swallowed.

Seen on the way, and not a violation of anything the repository states:
the characters typed, and a line completed or recalled, are the format string of
`Cli_Printf` (`cli.c:459-559`), so that a `%` is in the line and not on the screen;
`Adrv9001_SetTxAttn` takes dB and multiplies by 1000 (`adrv9001.c:1219-1229`), while
the documentation (`rflan_dpd/README.md:93`) has the operator multiply, and the
product is cut to 16 bits: 6000 for 6 dB sets 36.2 dB and prints `Success`;
a line of 256 characters or more overruns the history (`cli.c:367`), and the line
that the history has cut is recalled and run as it was cut (`cli.c:509-512`);
start-up takes the amplifier of a channel low that a failed calibration left keyed
(`rflan.c:471`); the state of `SetParam`'s radio-state parameters is scanned into
one byte of an uninitialised four (`adrv9001_params.c:204-205`); what the device refused as
attenuation, or a reload discarded, comes back when the transmitter is next
enabled (`adrv9001.c:1714`);
`ToCalibrated` on a channel in PIN mode takes it out of PIN mode
(`adrv9001.c:1673`); two interfaces typing at once mix their characters within a
line (`cli.c:651`); a `ToRfEnabled` that fails inside a transmit sweep leaves the
test pattern on (`adrv9001.c:1906`); the first `ssiEnableCnt` samples taken from
a stream are dropped, since the pipeline runs while the serialiser is in reset,
and with a finite window the last word is cut (`adrv9001_tx.v:302-307`); the
transmitter latches the bus one clock before it tells the stream that the sample
is taken and does not look at `tvalid` (`adrv9001_tx.v:171-181`), so a sample that
becomes valid in that very clock is lost; a name without a branch in `SetParam`
prints a status nobody has written, and a text that is no number sets what the
stack held (`adrv9001_params.c:94`); switching DPD forgets the carrier set before
it, while the copies of attenuation, boost, port and loop back go on showing what
was set (`adrv9001.c:742`); `Reboot` deletes the old image before it looks for
the new one, closes a file it may never have opened, and ignores a write cut short
by a full card (`rflan_cli.c:226-310`);
`rx_ssi_disable_cnt` is written by software and drives nothing; a transmitter
disabled for less than the depth of its synchroniser goes on counting where it was.

## 7. What is not modelled

* Radio control: accessors of one device register (gain, attenuation, RSSI, other
  GPIO than the amplifiers', hop tables), which keep no state of the driver's; what the
  settable ones do to their values is in `Params`.
* Streaming: `RflanStream_Transfer` and `RflanStream_Disable`, which have no
  callers; the reading of IQ files; sizes (a sample count of 0 asks for 2^32 bytes).
* Command line: parsing of parameters; what follows an overrun of the history; the
  transmit queue, which delays output and drops it if it stays full for a tick; keys
  other than up and down once a recall has begun; scripts that call scripts, in
  `Shell` and `Settles`.
* Parameters: those of the board (`rflan_pib.c`) and the conversions of `pib.c`
  that only they use; `TestMode`, `SsiDelay`, `VcTcxo` and the GPIO ones, each a
  write of one device register.
* Start-up: clocks, EEPROM and network; commands other than `Reboot` before the
  radio is initialised, which use objects that nobody has written yet; the set-up
  scripts, which are ordinary commands.
* Registers: reset; register 23, which is half strobe and half held.
* SSI: the values of test patterns, the PRBS and fixed-pattern monitors (the same
  pipeline with another predictor), `swap_iq`, the synchronisers of the count
  registers, vendor serialisers.
* Hopping (not built into RFLAN), DMA trigger (generated logic, not
  instantiated), board support (one-shot I/O), the boot loader, profiles, the
  MATLAB toolbox and the Linux image.

By lines, most of the implementation is not control: of some 32,000, about 18,000
are profiles and tables that the vendor's tool generates, of which the system has
no behaviour of its own to model. What is modelled is about a third of the rest.

## 8. Plan

Done, in the order of importance: the SPI exchange that everything else goes
through; the radio layer and the sweep; streaming; the command line; the register
block; the SSI pipelines; the choice of delays; parameters, start-up and `Reboot`.
All of them have proofs.

Left:

1. `Stream` over `Radio` instead of its own two-valued radio: a profile reload
   under a stream, and a channel that an earlier failure left elsewhere.
2. The sweep over the monitor: `RxSsiTest` waits a fixed time after a change of
   delay and then reads the flag. `FlagTellsRamp` says that the flag is two samples
   late at most, which is far less than that wait; the composition would say it of
   the sweep's table.
3. The invariants behind `DoneIsReported` and `Settles`: what is on its way always
   has a task or a handler that may move it.
4. `Hop`, should an application build it in: request, table handshake, interrupt.
