# TLA+ models and proofs of SEI

SEI (`src/Sei`) is an emulator for bare-metal firmware written in Lean 4. It runs
a firmware image on a machine described by a JSON descriptor, fails closed on
what it does not know, and records every access it cannot explain as a
*frontier* event. This directory holds TLA+ models of its stateful parts, the TLC
configurations that check them on small instances, and TLAPS proofs for every
value of the constants. `PROJECT.json` ties every definition to the source lines
it models.

## 1. Inventory of the system

| Component | Source | State | Operations |
|---|---|---|---|
| Bus and memory | `Core.lean` 72-266, 456-606; `Api.lean` 32-46 | `Machine.regions`, `devices`, `trace`, `hasUnknown`, policies | `resolve`, `memRead`, `memWrite`, `busRead`, `busWrite`, `emitM`, `busWellFormed`; host: `addRegion`, `addDevice`, `removeDevice` |
| UART | `Core.lean` 300-303, 356-379, 436-454 | `rx`, `tx`, `sr`, `cr`, `Device.irq` | `readReg`, `writeReg`, `uartRxPush` |
| Other device behaviours | `Core.lean` 270-435 | the payload of each `DevBehavior` | `readReg`, `writeReg` of status model, register file, trace replay, external counter, flash, watchdog, DDR controller, stub |
| MIPS32/MIPS16e core | `Isa/Mips.lean` | `pc`/`npc`, GPRs, HI/LO, CP0, TLB, LL bit, FPU | `step`, `step16`, `execute`, `enterException`, `timerAndIrq`, `translate` |
| ARM/Thumb core | `Isa/Arm.lean` | GPRs, CPSR, banked registers, CP15, IT state, exclusive monitor, VFP/SIMD | `step`, `stepThumb`, `stepThumb32`, `takeException`, `translateArm` |
| SIMD and floating point | `Simd.lean`, `Float.lean` | none (pure) | arithmetic on 32 to 128-bit words |
| Toy ISA, IR, alternative interpreter | `Isa/Toy.lean`, `Isa/ToyAlt.lean`, `IR.lean`, `Equiv.lean`, `Hw/Pcode.lean` | `pc`, registers, `icount`, `halted` | direct step, lowering, IR step, the agreement of the two |
| Runner and frontier export | `Hw/Runner.lean`, `Hw/Frontier.lean` | the result of a run: stop reason, frontier | `runMachine`, `frontierTasks` |
| Checkpoints and CLI | `Hw/Checkpoint.lean`, `Drivers/SeiCli.lean` | a JSON document | save, restore, resume |
| Descriptor, intake, topology, adapters | `Hw/Descriptor.lean`, `Hw/Intake.lean`, `Hw/Topology.lean`, `Hw/Adapter.lean`, `Hw/RegisterIR.lean` | none once loaded | parse, validate, lower |
| Fidelity and promotion | `Fidelity.lean`, `Hw/Promotion.lean` | none (pure) | semantic-class predicates |
| Test drivers, oracles and vectors | `tools/mipsgen`, `tools/armgen`, `Drivers/*VecCheck.lean` | the scripts' lists of register values, the corpora of vectors | ask an oracle, write a vector, replay a vector and compare |
| Stand-alone Lean proofs | `Bus.lean`, `Device.lean`, `Endian.lean`, `CoreProofs.lean` | none | theorems about small copies of the functions above |

**Interactions.** A runner loads a machine from a descriptor and steps one CPU
core. Each step makes a few bus accesses (fetch, then at most a few loads and
stores). An access goes to the device window that holds its address, else to the
memory region that does, else to the unknown-MMIO frontier, where the policy says
whether it answers a default or a fault. A device access may change another
component: the write that makes a DDR controller ready enables the region it
gates. Between two steps the host may read and write memory, push received bytes
to a UART, and add or remove regions and devices. The runner derives a stop
reason from flags left behind in the machine and the core. `sei_cli` writes the ARM state to a
checkpoint and another process goes on from it. Apart from all this, Python scripts ask an
emulator (the oracle) what single instructions do and write golden vectors, and Lean drivers
replay them on the step functions.

**What is hard here.** The program is single-threaded, so the difficulty is
not in threads but in *sequences*: firmware accesses, host operations and
controller side effects in every order; asynchronous events between any two
instructions (interrupts, received bytes); state cached next to the state it
summarises (`hasUnknown` and the log, RXNE and the queue, `npc` and the delay slot);
errors in the middle of an operation that has already changed something; numeric
edges (widths, wrap-around, window ends). `PROJECT.json` lists the hazards with
their lines and the properties that cover them.

**What makes each component correct.**

- *Bus*: an address means one thing and keeps meaning it; a refused access has no
  effect; gates open only by their controller; the frontier flag agrees with the log.
- *UART*: a serial port - no byte lost or reordered, the interrupt line a function
  of the queue and the enable bit.
- *Devices*: every answer is determined by the accesses that came before.
- *CPU cores*: exceptions are precise (a handler can return to exactly the
  instruction that was interrupted, delay slot and IT state included), a
  conditional store succeeds only if nothing came between, the timer interrupt is
  not lost.
- *Toy/IR*: lowering an instruction and executing its block leaves what interpreting it leaves,
  whatever the program stores, loads or faults on; the independent interpreter agrees.
- *Runner, checkpoints*: a resumed run continues the run that was saved; the stop
  reason is why the run stopped.
- *Vectors*: an entry's outputs were computed from the inputs it names, a correct core passes,
  and a fault in an instruction makes a check fail.

## 2. Modules

| Module | Models | Abstract specification |
|---|---|---|
| `SeiBus` | bus, memory, gates, event classes, host operations | `AddressSpace` |
| `SeiUart` | UART registers and host byte delivery | `SerialPort` |
| `SeiDevice` | the other register behaviours | contracts over the history of accesses |
| `SeiMips` | MIPS32 and MIPS16e control flow, exceptions, timer, LL/SC | `PreciseFlow` |
| `SeiMipsTlb` | the MIPS TLB and its CP0 registers | `PageTable` |
| `SeiArm` | ARM and Thumb exceptions, modes, IT blocks, runs, stop reasons, checkpoints | the stack of interrupted contexts and ITSTATE as the architecture has it (history variables) |
| `ToyMachine`, `SeiToyIR` | the toy ISA by way of lowered, type-checked blocks | |
| `SeiToyPair` | both executions of one program, as `IRExp.lean` runs them | `SeiToy`, the direct interpreter |
| `SeiToyAlt` | the independent interpreter, beside `SeiToyIR` | |
| `MipsCorpus`, `ArmCorpus`, `ThumbCorpus`, `T32Corpus`, `NarrowCorpus` (over `VectorWords`) | what five generator scripts ask, call by call | |
| `SeiVectors` | the scripts' lists, the oracle's answers, the corpora, the drivers' comparison | |
| `MCSei...` | instances for TLC | |
| `Sei...Proofs` | theorems | |

### SeiBus

Variables are the fields of `Machine` that accesses depend on; `resp` is what the
last access returned. A word is a sequence of bytes, least significant first, so
that byte order and width are modelled without arithmetic. `trace` keeps the
classes of the events in the log: those fast mode drops (`isVerbose`), frontier
events, and the rest. `busRead` and `busWrite` are each one of five actions, which
exclude each other by the order of the code's tests: device window
(`DeviceRead`/`DeviceWrite`, or `DeviceCross` when the access runs past the window),
memory (`MemoryRead`/`MemoryWrite`, or `MemoryFault` for permission and crossing),
unknown. The write that makes a controller ready opens its gates in the same
action (`OpenGates`), as `busWrite` does. `AddRegion` and `AddDevice` keep the
code's check (`busWellFormed` of the result, refused otherwise).

`Backings` follows `resolve` exactly: an enabled window is found by position, an
alias's target by name, the first of that name, with no check that the target is
enabled. That is why `GatedBytesFrozen` has the proviso "no alias of the region": a store
through an alias changes a gated region before its controller is ready, although `Sei/README.md:81`
says that "a region is off the bus until its controller is ready".

Accesses are measured against the data that backs them (`accessOk` with `r.data.size`, `Core.lean`
227 and 256), not against the window they enter by. An access that starts in an alias shorter than its
target and runs past the alias's end is therefore served, although `Core.lean:195` says that `cross`
"starts in a region but runs past its end". `AddressSpace` promises what the code does: `Fits` looks
at the bank.

`AddressSpace` is what the bus promises: a map from addresses to nothing, to a
device or to a cell of a bank of bytes, where loads and stores agree byte by byte
and the map only grows. The refinement takes a region's bytes as a bank, and an
address's place to be what `resolve` computes.

### SeiUart

One action per register read or write and `UartRxPush`. A register is the set of its
bits that are 1; writes also carry a reserved bit, which must not stick.
`SerialPort` has an inbox, sent bytes, an overrun flag, an enable flag and the line;
registers and flag bits exist only in the detailed module.

### SeiDevice

`readReg` and `writeReg` are functions from a device and an access to an answer and
the device afterwards; a behaviour drives one device of any kind by every
sequence of accesses, from power-on states that include counts begun, a trace partly replayed and a
stream under way. `past` keeps what was asked and answered. Each contract says
what the last answer must be from `past` and the power-on state alone, in terms of
what a driver writer thinks of (polls since the last service, words streamed since
the last address, the policy of each bit) and not in terms of the device's state.
The DDR controller and the one-register stub are in `SeiBus`, where the bus depends
on them. `MCSeiDevice` puts the UART beside such a device (`BoardSpec`), one of the two in use at a
time, as they share no state.

### SeiMips

The core runs the most general firmware. `step` decides by the instruction, its operands,
translation and the bus which of a few ways control leaves it; each way is one action
(`Plain`, `Trap`, `Halt`, `Branch`, `Annul`, the writes of CP0 registers the core itself
reads, `Eret`, and the same for MIPS16e), enabled whenever the mode allows. `timerAndIrq` is
part of every MIPS32 action: the tick, the raised line and the test for an interrupt come
before the instruction, and an action of an instruction is enabled only if no interrupt
`Fires`. MIPS16e steps do none of it, as in the code. STATUS and CAUSE keep the fields the
core reads (IE, EXL, mask, pending lines) and BD; an odd address is MIPS16e code.

Three history variables serve the properties; no guard depends on `since` or
`timerSet`. `slotOf` says whose delay slot `pc` is; it restricts the firmware once: no jump
is placed in another jump's slot, which the architecture declares unpredictable.

`PreciseFlow` has neither a second program counter nor a way to recognise slots: a branch
and its slot are an instruction in two stages, a trap undoes the first stage, a return goes
on where the last trap recorded. In the refinement the current instruction is the branch
while its slot is next, so a trap must record `pc - 4` there and `pc` elsewhere. The code
decides that by `npc # pc + 4`. A branch to the instruction behind its slot makes the two
coincide, and then neither answer is wrong, because resuming at the slot and resuming at
the branch lead to the same instructions; the abstract `Decide` leaves that case out
and the refinement shows it is harmless. At odd addresses the abstract flow promises
only the entry into the handler, because there the code promises no more: npc is `pc + 2`,
so every exception looks like one in a slot (run `mips16_epc`), and `ERET` goes on with
`npc = EPC + 4`.

### SeiMipsTlb

Addresses, EntryLo and Index are words that wrap, so page rounding, the wide frame number and
the probe mask do what they do in the code. `tlb` is a list, newest entry first; nothing is ever
removed, and TLBWI ignores Index. `installed` is a history variable: the frame last written for
each page. `PageTable` has only that map, and answers accesses from it.

### SeiArm

One action per kind of instruction that touches modes, SP, LR, CPSR, SPSR, the IT state, the
exclusive monitor or the flags of a stop, and one for the rest (`Straight`); the firmware is any
sequence of them. `Cpu` is the record of `Arm.lean` without r0 to r12, CP15 and VFP, and with Z
for the flags. `bank` and `spsr` are total: a mode never written has zero there, as the code's lookups give, and
`"zero"` is the mode such an SPSR restores. `TakeException`, `SwitchMode`, `PackCpsr` and
`UnpackCpsr` are the functions of those names. An instruction in an IT block moves the IT state
on in the same action (`Advanced`), as `step` does around `stepThumb`, an exception included.
`End` computes the stop reason as the runner and the CLI do; `Rerun` is a driver that runs the
machine it holds again (as the test drivers do); `Save` and `Resume` are `--checkpoint-out` and
`--checkpoint-in`, `Resume` in a process of its own, with an empty trace.

History variables state what the code should do and guard nothing but the firmware's sanity.
`frames` is the stack of what exceptions interrupted; a frame is *intact* until something
overwrites the registers that hold it, *still* until Thumb code runs under it, *masked* until a
CPS unmasks IRQ. `arch` is ITSTATE as the architecture defines it, `astray` says that the code's
IT state has left it for one of the reasons below, `kept` is the state a checkpoint was taken in
and `prior` the verdict last given of it.

What the model makes visible, beside its finding:

- The code shifts the mask and leaves the condition (`Arm.lean` 1269-1271), where the architecture
  shifts the mask into the condition. For ITT EQ its first instruction runs under NE; for ITE EQ
  the second runs under EQ. Only blocks of one instruction, and all-"then" blocks under a
  condition with its low bit set, agree (`Faithful`). `docs/isa.md:144` lists IT blocks
  under what is not covered yet, so this is a limit and not a finding;
  `ITFollowsArchitecture` says that nothing else makes the two differ.
- An exception leaves the IT state in place and an exception return does not restore it: a handler
  in Thumb state runs under the block it interrupted.
- A data abort of Thumb leaves the next instruction's address in LR (`Arm.lean` 313 and 882), so
  a handler returning with the usual offset resumes too early; one in a block advances the IT state first.
- LDM and STM of A32 write the base back before they abort, and T16 block transfers ignore their
  errors.
- An MRC of A32 from a coprocessor the core does not have is noted as unsupported and does nothing else
  (`CoprocessorRead`, `Arm.lean` 2281-2284): the run goes on to its end and is then called `unsupportedInstr`.
- An unsupported instruction stops a run as `unsupportedInstr`; resumed from its checkpoint the
  same state stops as `halted`, because the trace is not saved.
- The code banks r13 and r14 by mode number, so USR and SYS have copies of their own although the
  architecture shares them, and FIQ does not bank r8 to r12. STREX of A32 always fails; that of T32
  follows a flag which no exception clears.

### SeiToy, SeiToyIR, SeiToyPair, SeiToyAlt

`ToyMachine` is the machine the interpreters share: the bus as `SeiBus` has it without aliases, gates
and host, but with values in words, so that events carry what was read and written and their order
counts. Traces are full. `SeiToy` is `step` and `runToy`, one action per instruction and outcome;
`SeiToyIR` is `stepIR`: `Lower` gives the statement of an instruction, `StmtOk` checks its types,
`ExecStmt` executes it. Every lowering is one statement, so a block is a statement; `ended`
is a history variable, which the proof of `SameRun` splits on.

`SeiToyPair` runs both, each on a machine of its own, as `IRExp.lean` does with one program. What they
agree on is `SameRun`, state by state and with nothing mapped or mended: registers, memory, device reads, the
halted flag; the events, while no opcode is undefined; pc and `icount`, while also no access is
refused. In the rest they differ:

- the direct interpreter records an undefined opcode as `unsupported` (`Toy.lean:85`), the IR emits
  nothing for it (`IR.lean:120`), so `IR.lean:6-7`, "direct and IR execution produce identical event
  logs", is false of a program with one. The run `toy_logs` shows it; `IRExp.lean` has no such program;
- after an abort or an undefined opcode the IR's pc has moved on (`IR.lean:171`), the direct one's not;
- a load that aborts and an undefined opcode are counted in `icount` by the IR only (`IR.lean:172`).

No document speaks of pc and `icount` after an abort, so the last two are stated here and checked by nothing.
The runs have all three interpreters on each program (`ThreeSpec`, which joins `BothSpec` and `PairSpec`).

`SeiToyAlt` runs the interpreter of `ToyAlt.lean` beside the IR, one instruction each at a time, and
compares their canonical lines as `ToyEquiv.lean` does with one fixed program. That interpreter works
on natural numbers, does not wrap its pc, stops at every load, and fetches zero, a HALT, outside its
program; `SameLog` claims agreement of runs that load nothing and touch no device. `FlatAssumption`
states the layout that claim depends on: code is not written, and it ends so far below the top of the
address space that no branch wraps. It is a named assumption, which the module's run evaluates.

### SeiVectors and the corpora

An instruction is the pair of its halfwords, so every word the scripts pack is packed and read
back by arithmetic. A corpus module has one operator per generator function or loop and gives the
set of vectors it asks for: instruction, named registers, flags, memory, and what the vector
stores. Registers drawn at random are a named file of unknown content (`Known`), and random
choices among operands are their extremes; apart from those, the words and inputs of the model were compared
with those the scripts emit, and are the same. The T32 corpus of the model, after the oracle's
refusals, is that of `tests/armvec/t32-vectors.json`, vector by vector.

`SeiVectors` runs a script one call at a time. A script's list of register values is an
object (`lists`) that a call may replace or change in place; an entry of the corpus holds a copy or
the list itself, as the script does. `Answers` is the oracle: it refuses traps taken, memory
that is not mapped, words that are no T32 instruction and whole groups (`dropped`), and the script drops the vector. `Check` replays the corpus
with one fault out of `FaultsOf`; `Altered` says in which locations the result then differs and
`Compared` which ones the driver looks at. `FaultsFound` is exact: it names the faults that
no vector shows (`Unseen`), so a generator change that loses or gains coverage breaks it.
Those are:

- MIPS: SW and LW (no generator asks for them), a trap that is taken (the oracle refuses it), BEQL's slot (PCs are not stored).
- A32: for MI, PL (condition 3 is "not C"), and most of VS to LE, the two flag settings tried are both taken
  or both not taken (`gen_vectors.py` 84-85 and 453-456 label settings "taken" that are not:
  "HI: taken (1,0,0,0)", "LT: taken (1,0,0,1)"), so a condition that never or always holds passes;
  LDMDA, although `docs/isa.md:20` lists all four modes; the T bit of BX is not stored.
- T16: CBNZ is never generated, because `thumb_gen.py:332` sets bit 3 of the halfword and not bit
  11; PUSH stores outside the captured bytes; LDR (literal) reads zeros only.
- SIMD narrowing: shifts of 32-bit lanes by less than 9, although the script's comment says 1 to 16.

- T32: the encoders of MUL (one of two), SDIV, UDIV and CLZ leave out or misplace fixed bits, so the oracle refuses
  all their vectors; a list that names its own base is refused too, although `t32_gen.py:365` says
  that none does. The bits exchanged in `bcond_w` do not matter for the one distance tried. Stores at
  256 and more fall beside the captured bytes. All bytes loaded are below 128, so signed loads need no sign.
  Offsets are never negative, shift types never come with a shift of zero, and lists never name LR.

Three of these hide faults of the core itself (`OwnFaults`), which the run `vectors_t32` shows against
`README.md:73` ("Every implemented instruction is covered by Unicorn-generated test vectors that SEI
replays byte-for-byte"):

- `Arm.lean:808` says that SDIV truncates toward zero; line 811 divides as Lean does, which leaves no
  negative remainder: -10 / 3 is -4. `Mips.lean:122` avoids just this; A32 has it also (2484).
- `Arm.lean:535-539` keeps LR among r0 to r14 of a list and counts it again: PUSH.W {.., LR} moves SP by
  a word too many, so that a function that pushes LR and pops PC returns with SP a word
  too low, and LDM with LR reads it from the next word.
- LDRSB and LDRSH with a register or a short offset take the sign from bit 6 of the first halfword (642 and 676),
  which is always clear there, and so never extend it.

## 3. Runs

| Run | Shows | Bounds |
|---|---|---|
| `bus` | type, single decode, stable decode, silent failures, gates, frontier flag, refinement of `AddressSpace` | two-byte words, seven addresses, a RAM and a gated big-endian DRAM, a controller; the host adds up to two of five regions and one of two devices |
| `toy` | type, direct and IR execution agree state by state on what `SameRun` lists, the independent interpreter prints the log of the IR | bytes of three bits, so words of 12: 16 opcodes, two registers, six-bit immediates; 46,656 pairs of a four-word program and a policy, six steps |
| `toy_logs` (violation) | the event logs of direct and IR execution differ after an undefined opcode, while the documentation calls them identical | the same |
| `device` | types, the five contracts; the UART's flags against its queue and its refinement of `SerialPort` | two-bit registers, data modulo 4, four to six accesses by kind; two bytes, three unread, two sent |
| `mips` | type, refinement of `PreciseFlow`, links broken by exceptions, the timer line | 16 addresses, vector 0, reset at 8, jumps to 4 and 13 (an odd address), COUNT modulo 3, one interrupt line |
| `mips16_epc` (violation) | an exception in MIPS16e code outside a slot sets BD and an EPC four bytes early, while the documentation says that mode has no slots and the code that BD means one | the same |
| `tlb` | type, refinement of `PageTable`, probes of even pages | eight pages of four addresses, two pages and two frames written (one frame number wraps), three entries |
| `tlb_probe` (violation) | a probe of an odd page misses its entry | the same |
| `vectors` | lists not aliased, no false alarm, exactly the named faults unseen, defined results, captured accesses | the five scripts whole; an oracle that answers all groups and two that refuse some; 128 faults |
| `vectors_t32` (violation) | the T32 corpus passes with each of three faults that `stepThumb32` has, while `README.md` says every implemented instruction is covered | the T32 script; those faults |
| `arm` | type, returns restore, IRQ nesting, IT blocks, verdicts, resumption | 32 addresses, four instructions over up to three runs, two nested exceptions, two IT blocks (one, two instructions) |
| `checkpoint_resume` (violation) | a checkpoint taken inside an IT block resumes outside it, while the documentation says it resumes where the run left off | the same |

*Why the bounds are enough.* Two-byte words already distinguish byte order,
width, crossing and the lanes. The five host regions are one of each case that
decode distinguishes: alias of a gated (and, once the gate is open, of an enabled)
region, duplicate of a name, a new target, an alias whose target comes later or
never, an overlap. Two
additions suffice for an alias and its target to come in either order. An overrun
needs two unread bytes, a second overrun after an acknowledgement three. The
device contracts depend on the relative order of at most three kinds of access
(set, mode change, read), and the bound allows each twice or more; the mode changes
of the flash controller also start in the middle of a stream.

Four aligned words of address space let a slot, a jump target and the
vector fall on each other in every way (a target behind the slot, a vector that is a
target, a wrap-around in a slot), and one odd target mixes the modes at both halfword
positions. COUNT modulo 3 has a match, a miss and a wrap with COMPARE 0 disabled. Three TLB entries
for two pages give a page an old entry before, between and after the other page's.

The shortest violations of the ARM properties take three or four instructions (an exception, one
in its handler, the return), in every mutant and in the finding, and an IRQ within an IRQ
two exceptions. Interrupts are free to come before each instruction and each run; random
simulation with 14 instructions, four runs and four nested exceptions found nothing more. 32
addresses hold all vectors; the other constants of `MCSeiArm.tla` are the values an action tells apart.

The first word of a toy program makes a register point at RAM, at the device, at nothing or at one,
the next three are any of 18 instructions: the other opcodes, two undefined ones, offsets and branches
of both signs, accesses that cross an end, stores into ROM; a loop of a decrement and a backward
branch fits.

`Fuel`, `MaxRuns` and `MaxDepth` bound the ARM model; `MaxFuel` is the toy interpreters' own argument; `MaxRegions`, `MaxDevices`, `MaxRx`, `MaxTx`, `MaxPast` and `MaxTlb` bound the models and appear only
as guards of the actions they bound. The device run has no deadlock check because
a behaviour ends when `past` is full; nor do the `mips` and `toy` runs, because a halted core stops.

*Fairness.* The bus and the devices state no liveness: they act only when accessed, and
nothing in the code obliges firmware or host to access them. `SeiMips` assumes `WF_vars(Next)`:
`runMips` calls `step` again until the core halts, so a core that can step does (a run out of
fuel is an interrupted behaviour). `SeiArm`, `SeiToyAlt`, `SeiToyPair` and `SeiVectors` state safety only: a run of `SeiArm` may end at
any instruction, as the user's fuel decides. No fairness is assumed of any single instruction. `TimerFires`
is therefore conditional on what the firmware does: that it eventually stays in MIPS32 code,
leaves COUNT, COMPARE and CAUSE alone and does not halt. The condition excludes MIPS16e
code since nothing ticks there, so the property would be false without it.

*Mutants.* Beside the definitions, a comment "Mutant:" marks a variant with a
plausible bug; each property is checked to be violated when a variant replaces
its definition. Nothing else refers to them.

## 4. Theorems

All from the named assumptions of the modules (`BusAssumption`, `UartAssumption`,
`DeviceAssumption`, `BoundsAssumption`, ...), which say that inputs are well typed and that a loader hands over
a well-formed machine (`loadMachine` refuses others); no bound is used beyond being a
natural number.

- `TypeCorrect`: `Spec => []TypeOK` for the bus. The one non-obvious fact is that a
  register or memory read returns bytes: the lanes of an access that `AccessOk`
  admits are cells of the region (`LaneRange`, `OffsetNatural`, `MemReadType`).
- `StaysWellFormed`: the inductive invariant `WellFormed`. Decode windows never
  change (`SameWindows`), additions are refused unless the result is well formed,
  and removal keeps a subsequence of the devices (`WellFormedDevices`).
  `DecodeIsSingle` follows from it, since two windows with a common address overlap.
- `DecodeNeverMoves`: stores and gates keep windows and names, and gates only
  open; opening one could move an address only if two windows shared it,
  which `WellFormed` excludes, so the invariant is needed here. An
  addition is appended, so the first region of a name stays the first.
- `FrontierFlag`, `GatesOpenOnce`, `GatedBytes`, `FailuresAreSilent`: one step per
  action, from the type invariant.
- `FlagsAlwaysFollow`, `UartIsSerialPort`: the UART implements the serial port; every
  register action maps to one abstract action, given that RXNE follows the queue,
  which is why `FlagsFollowQueue` is proved first.
- `BusIsAddressSpace`: the bus implements `AddressSpace`. An access that succeeds maps to a `Load` or `Store` of
  the cells `resolve` finds, through an alias or a byte order, or to `Register`; one that fails to `Refuse` or
  `LeadNowhere`; an addition to `Extend`, a removal to `Unplug`, and a write that opens gates to `Register`, where `map` may grow.
  It needs `WellFormed` before and after: with two windows at one address, `map` could change under it.
- `DevicesKeepType`, `EveryBitByPolicy`: for every word width and every overlap of the
  four masks, one access to a register file changes each bit as its policy says.
- `PollsAreCounted`, `WatchdogCountsSinceService`, `ReplayIsInOrder`, `FlashStreamsConsecutively`,
  `RegistersFollowHistory`: the contracts of the devices, over histories of every length. No contract is
  inductive alone; `HistoryInv` says for every kind that the device is what its power-on state and `past` make it:
  the count is the reads in `past`, the position in a trace is the responses given, the flash address is the last one
  set and the words streamed since, each register is its bits after all accesses. Lemmas say what one
  more access does to each quantity of a history (how many, the last before, how many between). `BitsOver` is
  recursive over the history; its existence is not cited from the library but carried in the invariant, which says
  that a function with those values exists.
- `ExceptionsArePrecise`: `SeiMips` implements `PreciseFlow` for every address space and set of
  targets. The inductive invariant is `TypeOK /\ Counters /\ Linked` in `SeiMipsProofs`. `Counters`
  says that in MIPS32 code `npc # pc + 4` holds in a slot and only there, and that the branch
  is four bytes before it; type correctness alone would let the code's test misfire, so the step for
  `Trap` and `Interrupt` needs it. Each action then maps to a stage, a trap, a return or a stutter
  (`FlowTrap`, `FlowBranch`, ...).
- `LinksBreak`: a link is alive only if the load-linked came last (`Linked`), so no
  store-conditional succeeds after an exception. `MipsTypeCorrect` follows from the same invariant.
- `TlbIsPageTable`: the newest entry of each page is the one written last (`Latest`). The lemma
  `InstallFrame` is its core: a new entry in front becomes its page's newest, and moves the newest of
  every other page one place back. `ProbeOfEvenPage` and `TlbTypeCorrect` need `Room` besides: Index
  can name every entry.

- `ReturnsRestore`, `IrqsNestOnlyUnmasked`: the inductive invariant is `TypeOK` and `FramesHold` (with its
  counterpart for the frames in the checkpoint). `FramesHold` says that the frames are nested (each handler's
  mode is the one the exception below it entered), that the registers of an intact frame
  hold, in the live copy or the bank, what its return needs (`Holding`), and that a masked IRQ
  frame has IRQ masked in every context above it. One instruction either keeps mode, bank and
  SPSR and marks the frames it touches (`Marks`, `FramesMarked`), or pushes a frame
  (`FramesPushed`), or pops one (`FramesPopped`). Mode switches move values between live
  registers and bank and change none (`SwitchModeKeeps`).
- `VerdictsStand`: from the invariant that a halted processor stays halted and blocked, and that
  an unknown access is remembered in `unknown`, which checkpoints carry and traces need not.
- `ResumeIsTransparent`: what a checkpoint leaves out is the IT state and the monitor, nothing else.
- `BlocksFollowArchitecture`: while nothing has gone `astray`, the code's IT state is none or one whose conditions
  it reads as the architecture does (`Sound`), and the architecture's is the same, or none in a handler
  (`Linked`). `ITInv` says so of the current states, of every frame's and of the checkpoint's (`Aligned`): a
  return or a resumption makes a stored pair current, so the property alone is not inductive.
- `TypeCorrect` of `SeiArm`, `SeiUart`, `SeiDevice`: every register, banked copy, saved file, queue and answer
  keeps its type.
- `IRFollowsDirect`: from `ToyAssumption` alone. Its invariant `PairInv` has two parts. `IInv` (`IRTypesKept`) says that
  registers, memory and events of the IR are typed and that its run has ended exactly when it has halted; types are
  needed because the two agree only on words: a constant in a block is reduced to its width (`ConstTerm`,
  `SextTerm`). `Alike` compares the two states by how the run ended, since `SameRun` speaks of the events
  recorded and does not say where. `DirectAction` gives the direct action that a step of the IR goes with,
  `Outcomes` what each instruction's block comes to, `SameLoad` and `SameStore` say that both use one bus, and
  `ExecuteAlike` puts each outcome beside its action.

- `TwoBackendsAgree`, `BothKeepTypes`: from `ToyAssumption` and `FlatAssumption`, which says of the code regions what
  holds of the ROM in `ToyEquiv.lean`: not writable, and more than `2 * ImmMod` below the top of memory. Without
  it `SameLog` is false: a program that rewrites itself, or one at the top of memory, runs differently in an
  interpreter that holds the program apart and whose subtraction stops at zero. The invariant
  `AltInv` says that code bytes are the program's (`Holds`), and, while the run is plain, that registers,
  fuel and lines agree (`Agree`) and that the two are at one place unless the word interpreter is where nothing can be
  fetched: a jump below zero takes it to the top of memory and the other to zero, and the next
  fetch ends the run's being plain. `Recombine` (a word is made of its bytes), `SameOffset`, `SameDifference` and
  `SameTarget` are the arithmetic; `LoadAfter` and `StoreAfter` say what an access adds to a trace.

- Of `SeiVectors`, for every set of scripts and every refusal of the oracle (`Dropped` is any set of sets of groups):
  `InputsStayFrozen`, `SoundPasses`, `ChecksAreExact`, `NothingLeftOpen`, `NoByteUnseen`, `TypeCorrect`.
  The scripts are tables, and the steps only walk through them, so there are two layers. The upper one is the
  inductive invariant `IInv`: an entry is a vector asked for and answered (`EntriesAsked`), every vector asked for
  and answered so far has an entry (`AnswersKept`), and an entry that names a list names one that holds its inputs,
  *and if that list is in use the next call makes a new one* (`EntriesKept`). The last clause is what a call that
  changes the list in place needs, and no table may break it: `PlansSettled` shows that of every script,
  where only BL in `thumb_gen.py` keeps the caller's list and every call after it makes a new one.
  The lower layer goes through the groups: MIPS emitters translate a link or save no address (`Quiet`), and the
  `...Good`, `...Defined` and `Settles...` lemmas read the fields of every encoding back, bound how many registers a list names
  and place the bytes within the window. `ChecksAreExact` joins the two: whether a fault is found depends on the
  table and the oracle only, which reduces `FaultsFound` to reading the tables.

*Only model-checked:* `FaultsFound`, which by `ChecksAreExact` is an enumeration, fault by fault, of
tables that do not depend on any constant: the run goes through all of it, and a proof would do no
more; and `TimerFires`, a liveness property, which is out of the proof system's reach.

## 5. Not modelled

- Of the MIPS core: general registers, memory contents and the FPU; an instruction is the way it
  leaves the step. In particular stores of two words that fault half-way need the core and the
  bus together.
- Of the ARM core: r0 to r12, the flags but Z, memory, CP15 and the page-table walk, VFP and SIMD. An access is
  one that succeeds, aborts or is unknown.
- Of checkpoints: regions and devices, which are written and read whole. `deserDevice` gives every device
  the class "unknown". MIPS runs have no checkpoints.
- Of the vector tools: `neon_gen.py`, the fuzzers, the soft-float sources and
  `completeness.py`. They work as the modelled scripts do, on larger tables.
- SIMD and floating point: pure arithmetic at widths that TLC cannot enumerate,
  covered by the repository's vector corpora.
- P-code lowering, fidelity, promotion: functions from data to data, without state. P-code blocks have
  several statements and a branch in one does not end it, so `SeiToyIR`'s "a block is a statement"
  does not carry over.
- Of the toy machine: endianness (memory is little-endian), traces that drop events, and 16-bit accesses,
  which no lowering makes.
- Parsing of descriptors, CSV and adapters: pure text processing; its result is
  the `Boot` assumption of `SeiBus`.
- The stand-alone Lean proofs: nothing executes them.

## 6. Plan

Done: bus, UART, devices, MIPS core, MIPS TLB, ARM exceptions with runs and checkpoints, the
vector tools, the toy interpreters. Left, in this order:

1. **Core and bus together** (`SeiMipsBus`): instructions of several accesses that fault half-way
   and are restarted, for both cores.
2. **The NEON script** as a further corpus, and block transfers of T32 with memory, so that calls and returns
   are checked and not only the vectors of them.
