# Mojo-V in TLA+

Mojo-V is a RISC-V extension for computing on secrets that the software of the
machine cannot see. This repository implements it in the Spike simulator
(`riscv-isa-sim/`), with a tool for making data contracts (`dc-tool/`), a C++
library (`exo/`) and benchmarks and tests (`bringup-bench/`). The modules here
model the parts that make it correct, check them with TLC on small instances
and prove the main results with TLAPS for all sizes.

Source paths below are relative to `riscv-isa-sim/riscv/` unless they start
with another top-level directory.

## 1. The system

| Part | State | Operations | Talks to |
|---|---|---|---|
| Contract control and KMSM (`processor.h`, `processor.cc`, `csrs.cc`) | `mojov_en`, `secreg_mode`, `mojov_dcvalid`, `mojov_dc`, `simon_state`, the KMSM bytes, address, high-water marks, status, busy | writes of `mojov_cfg`, `kmsm_addr`, `kmsm_data`, `kmsm_ctrl`; reset | cryptography (open); every instruction's checks read `secreg_mode` |
| Contract cryptography (`mojov_crypto.cc`, `simon.cc`) | none | decapsulate, derive, decrypt, decode, compare the header | called by the open |
| Target driver (`bringup-bench/target/mojov-utils.c`) | a program counter and a text | upload, open, poll, verify, enable | the KMSM, by CSR accesses |
| Register checks (`decode_macros.h`, `insns/`) | the two register files, datagrant marks, softfloat's flags, plain memory, CSRs | every instruction | control state, memory |
| Encrypted memory (`insns/lde.h`, `sde.h`, `flde.h`, `fsde.h`) | packets in memory | encrypted loads and stores in three formats | contract (key, signature, format), MMU (faults) |
| Dataflow hashes and disclosure (`processor.h`, `execute.cc`, `insns/disc.h`, `fdisc.h`, `certrng.h`) | a hash per register, datagrant marks | hash on every write, `lde` of a datagrant, `disc` | contract, registers |
| Contract tool and spike's start-up (`dc-tool/dc-tool.c`, `spike_main/spike.cc`) | key and contract files, the options and the configuration they make | `keygen`, `dcgen`, `dcchk`; reading key and contract at start-up | the KMSM re-reads the private key by its path at every open |
| Debug module (`debug_module.cc`, `debug_rom/debug_rom.S`) | what it believes of each hart, the flags parked harts poll, the abstract command, the system bus registers | DMI reads and writes, Run-Test/Idle cycles, the ROM's stores | harts (halt, resume, reset), memory; the JTAG transport in front |
| JTAG transport (`jtag_dtm.cc`) | TAP state, instruction and data register, sticky busy | `set_pins` | the debug module's DMI |
| Interrupt controller and serial port (`plic.cc`, `ns16550.cc`) | lines, enables, claims, thresholds; receive queue and registers | register accesses of software, the device tick | the hart's `mip`; the host's terminal |
| EXO library and kernels (`exo/`, `bringup-bench/`) | encrypted strings and arrays | data-oblivious operations | instructions in secret mode |

What is hard here. A hart is sequential, but a debugger resets and halts it
between any two instructions, and its safety is a matter of long sequences of
legal instructions: contracts opened one after another over the residue of
earlier uploads, modes entered and left, faults between the two blocks of a
packet, ciphertext that untrusted software moves at will, checks that run before
or after side effects, and metadata that must travel with the value it describes.
Around the hart there is real concurrency: tool processes share files, DMI
accesses fall between the instructions of the debug ROM, bus accesses finish
cycles after they were asked for, bytes arrive while a driver services the line.
And code that may not branch on secrets has no early exit a test could miss: all
depends on masks at indices that are not in use.
`PROJECT.json` lists these hazards by line, with the properties aimed at each.

What makes each part correct:

* control: key, contract and mode agree; a contract is never exchanged under a
  running computation; an enabled CSR means active checks;
* driver: it ends, and a program that gets through runs under its own contract;
* instructions: what depends on a secret stays in secret registers or encrypted;
* memory: a packet's hash describes its value, packets remain readable, and one
  owner's secrets are never encrypted for another;
* disclosure: what becomes public has the hash of a computation an owner granted,
  and no value profits from the hash of another;
* tool: spike never installs a contract mixed from two runs of the tool, and
  dcchk accepts what spike accepts;
* debug: what the debugger is told of harts and commands is true, requests are
  carried out, bus accesses are the ones asked for;
* transport: it can always be reset, and drops a request only after showing busy;
* platform: software is interrupted for what it asked to be interrupted for, input
  is neither lost nor reordered;
* EXO: the oblivious operations compute what the plain ones do.

## 2. Modules

```
ContractOpen ── MojoVControl ── MojoVBoot            ContractLifecycle
                     │  implements ─────────────────────┘
                     │  implements
                 SecretMode ──┬── MojoVHart
                              ├── MojoVPacket
                              └── MojoVDisclose

ContractOpen ── DcTool      DebugModule   JtagDtm, DebugBus (MCTransport)
Plic ── Uart (MCPlatform)   ExoString implements BoundedString
Kernels ── GraphKernels     (MCExo: ExoString and the kernels)
```

* **ContractOpen** – pure operators: which fields of a contract an upload
  decodes to (`Decrypts`, `FieldOf`, `Decodings`) and which status the open
  reports (`OpenStatus`, `CtrlField`). Ciphertext is abstracted to whose it is,
  window by window. Decapsulating anything but a whole genuine key succeeds with
  a useless secret (ML-KEM's implicit rejection), so a mixed upload fails at the
  header check, or passes it with junk in later fields, as in the code: the KMSM
  passes no expected hash. Host failures are a nondeterministic choice.
* **MojoVControl** – the control state, one action per CSR write and exit.
  `WriteKmsmData` is split by the early returns of `mojov_kmsm_write_data`,
  `OpenContract` by those of `mojov_kmsm_open_contract`. The open is one CSR
  write, hence one step; `busy` is set and cleared within it. The re-check of
  key_valid after a successful open (`processor.cc:184`) can only succeed,
  because the CSR's read computes the bit from `mojov_dcvalid`, and has no
  action. `Reset` leaves `secreg_mode` and the cipher core alone, as the code does.
* **ContractLifecycle** – the abstract promise to a contract's owner: load,
  start, stop, drop. `MojoVControl!ImplementsLifecycle` is the refinement, with
  `phase` and `key` read off the control state.
* **SecretMode** – the control state as instructions see it. `MojoVControl`
  implements it (`ImplementsView`), so the modules about instructions extend it
  and leave the KMSM out.
* **MojoVBoot** – `MojoVControl` composed with the driver, one action per CSR
  access, and with debug resets that restart the program. Texts may be short,
  long, or end in an incomplete word.
* **MojoVHart** – taint. Each action is a class of instructions with the same
  checks; a value is abstracted to whether it depends on secrets. An instruction
  that traps before a side effect stutters; the two cases where side effects
  precede the check, `FpTrapped` and `CsrMojovCfg`, are explicit. Secret inputs
  are decrypted packets and certified random numbers.
* **MojoVPacket** – packets as blocks of a history of everything encrypted.
  Software moves blocks (`Move`) and stores to their 8-byte halves (`Edit`), stores
  fault half-way, contracts of three formats come and go. The second block of a
  packet is xored with the first: one half of the first reaches the signature, the
  other the hash. `Authentic` compares the signature alone, as `lde.h:74` does, so an
  edit of the other half passes: the hash is then any other (`LoadedLabels`) and the
  value what nobody encrypted (`Junk`). The values carry an identity (what a hash
  describes) and the contracts whose secrets are in them. `lde` and `sde` are the
  code modelled; datagrants are left to MojoVDisclose.
* **MojoVDisclose** – terms as values and sets as hashes: the hash of the code
  is an exclusive-or of mixed words, and a set of the things xored an odd number
  of times cancels exactly where the code cancels and collides nowhere else. Each
  value carries the hash its owner computes for it, apart from the hash the
  registers carry; the properties compare the two. A public operand enters the hash
  as its own value (`Operands`, `decode_macros.h:59`), a plain load with its address
  (`LoadPublic`). The mixing of a word (`processor.h:690`) can be inverted, so a public
  operand can be fitted to the hash wanted of the result (`ComputeFitted`), and an
  edit of a packet likewise (`LoadEdited`). Such a value is `Fitted`, and so is what is
  computed from it.
* **DcTool** – runs of dc-tool as processes with one action per file operation,
  each of which may be the last (`Die`); stdio flushes at close, unchecked, so
  that short writes over longer files happen. `SpikeArgs`, `SpikePk`, `SpikeText`
  and `SpikeOpen` are the stages of `main()` with their exits; `KmsmOpen` re-reads
  the private key later. A text file is the sequence of its windows, each named
  for its contract.
* **DebugModule** – run control and abstract commands with the debug ROM. Every
  memory access of the ROM is a step. `Polite` says that the debugger leaves
  selection and reset alone while a command runs and gives no command to a hart
  it has told to resume. `abstract_command_completed` has no initial value in the
  code and is nondeterministic here.
* **DebugBus** – system bus access with its delay, errors, auto-increment over
  four limbs and streaming by reads. A write of `sbcs` clears the bits of `sberror` and
  `sbbusyerror` each on its own, by ones. History variables record what was asked.
* **JtagDtm** – one action per call of `set_pins`; uninitialised registers start
  with any content.
* **Plic**, **Uart** – the interrupt controller, and the serial port that extends
  it and drives its line: every handler of the port ends in `update_interrupt`,
  which is `set_interrupt_level` of the controller. `pin` is the bit of `mip` that
  the controller drives by the backdoor; software's own SEIP bit is another one
  (`csrs.cc:802`). `hart_reset` is the debugger's: the hart has a new `mip`
  (`csr_init.cc:109`) and the controller is not told; `undriven` are the contexts it has
  not updated since. `Routed` says that software enables an id in one context only,
  `Settled` that it does not write the priority of a pending id.
* **BoundedString**, **ExoString** – the promise of `stringe_t` (a bounded
  sequence and a sticky flag for lost characters) and its oblivious
  implementation, index by index; `ActsAsString` is the refinement. Searches and
  comparisons are operators compared with plain definitions.
* **Kernels**, **GraphKernels** – sixteen kernels of bringup-bench as operators,
  loops as folds, compared with reference definitions that share nothing with them
  (permutations, subsets, subsequences, paths, spanning trees, tours). The masked
  scans are the code's: a cell of the knapsack, a character of a text under the
  `process` mask, the slots of an adjacency list with their valid bits, the parents
  that the printed tour is read from.
* **MC…** – instances for TLC. `MCTransport`, `MCExo` and `MCPlatform` hold parts
  that do not need each other's states; a variable that never changes says which
  part a behaviour is about, so that the state spaces add up and do not multiply.
* **MojoVControlProofs** (control and driver), **MojoVHartProofs,
  MojoVPacketProofs, MojoVDiscloseProofs**, **ToolProofs** (DcTool, then
  DebugModule), **DeviceProofs** (JtagDtm and DebugBus, then Plic and Uart),
  **ExoProofs** (the strings) and **KernelProofs** (the sequence kernels) – the
  theorems.

Definitions named `X_Something` that a comment introduces as a mutant or a bug
are plausible bugs; replacing `X` by one makes the run it is listed for fail.

## 3. Runs

| Run | Distinct states | What it shows |
|---|---|---|
| `control` | 136,570 | Any sequence of CSR writes, host failures and resets: a valid contract is keyed with its own key (`ValidContractIsKeyed`), had a complete upload (`ValidNeedsUpload`), nothing changes under a running computation (`ContractFrozenWhileEnabled`), and both refinements hold. |
| `control_reset` | violation | The finding of section 5 (`NoContractOpenedInSecretMode`). |
| `boot` | 612,644 | The driver's two cannot-happen branches never happen (`DriverNeverSurprised`), a ready program has exactly its own contract (`ReadyMeansOwnContract`), and the driver always reaches an outcome (`DriverTerminates`). |
| `hart` | 46,940 | Nothing that depends on secrets reaches a public place before one of two residues exists (`LeaksOnlyByResidue`); marks are on secret registers (`GrantsAreSecret`). |
| `packet` | 2,984,607 | No value that somebody encrypted gets the hash of another (`LabelsDescribeValues`); packets stay readable (`PacketsStayReadable`); until a reset, one owner's secrets are never encrypted for another (`SecretsStayWithOwner`). |
| `disclose` | 469,198 | Disclosures other than of fitted values have a granted hash (`DisclosuresAreGranted`); marks are on datagrants or noise (`GrantsAreMarked`). |
| `dctool` | 781,803 | Two tool processes that interleave and die: spike never installs a mixed contract (`InstalledIsWhole`); dcchk and spike agree on every file (`CheckAgreesWithSpike`); so do the two copies of the memory format (`FormatsAgree`). |
| `debug` | 675,788 | A hart shown as halted is parked (`HaltedMeansParked`); busy reads 0 only when no hart is at a command (`IdleMeansDone`); the summary bits are true (`StatusIsTrue`). |
| `debug_live` | 43,212 | Halt requests, also of a group (`RequestsHalt`), commands (`CommandsEnd`) and resume requests (`ResumesAcknowledged`) are carried out. |
| `transport` | 286,171 | Five ones reset the TAP from any state (`FiveOnesReset`); a request is dropped exactly when its scan showed busy (`BusyIsShown`) and requests are spaced (`RequestsAreSpaced`). Bus accesses are the ones asked for (`AccessAsRequested`), the address advances like one number (`AddressAdvances`), an overrun stops a stream (`OverrunStopsStream`), every access ends (`AccessEnds`). |
| `platform` | 44,008 | A pin is up only for an enabled, unclaimed line above the threshold, and for every one but after a reset of the hart; no claim outlives its interrupt (`PinsFollowLines`); the port's line is true (`LineIsTrue`); input is queued in order within the queue (`InputInOrder`) and polling goes on (`InputIsRead`). |
| `exo` | 8,549 | `stringe_t` implements a bounded string (`ActsAsString`); its searches and comparisons (`AnswersAgree`) and the kernels (`SequenceKernelsAgree`, `GraphKernelsAgree`) compute what their reference definitions say. |

Deadlock is checked in all runs; only the driver ends, with an explicit
stuttering step `Finished`.

### Bounds

* `MCControl`: two genuine contracts, a key of two windows and a contract of two
  blocks. Mixing needs two contracts; gaps, overruns and wrapping need two
  windows per area. `AddrInputs` has the start of each area, an unaligned
  address and one past the end. The real sizes (100, 96 and 8 windows) differ
  only in number; the proofs are for all.
* `MCBoot`: three blocks, with the layout of the real contract in small (the key
  spans the end of one block and the next); texts one word short to one long,
  with or without an incomplete word; one reset and two further configurations
  (`MaxResets`, `MaxRuns`) let every residue of one run meet the next.
* `MCHart`: two secret and one public register per file, one of the
  floating-point secrets missed by `FP_SECREG_RESET` as in the code (`FpZeroed`);
  one cell and one CSR, since taint does not depend on how many there are.
* `MCPacket`: a contract of each two-block format, and the fast one of a hart whose
  contract was reset; two packets (`MaxPackets`), because a load reads at most two
  blocks and a wrong result needs blocks of two packets; two locations, the extent of
  the longest packet; two hashes, which are symmetric, so that a hash can be another's.
* `MCDisclose`: two secret registers, a public one, and two granted terms: the
  difference of two inputs, and of an input and a constant. One computed operation
  (`MaxOps`) reaches each granted value, something else with the operands exchanged or
  destroyed, and a fitted value for either hash. `OwnerTerms` are the granted terms and
  their operands. Grants of several operations are covered by the proof.
* `MCDcTool`: two processes, two key pairs, two contracts of different formats, a
  key of one window and a contract of two. Mixing needs two writers; more windows
  only cut the same file at more places. Processes and key pairs are symmetric.
* `MCDebug`: two harts, the second so that a command, a report or a group halt can
  concern the wrong one; the dmcontrol writes of a session (`Session`), one reset.
  `debug_live` uses halt groups and one cycle of delay, without resets, which
  would end a command by force.
* `MCTransport`: two idle cycles per access, limbs of base 2 so that carries reach
  every limb, accesses of one and two bytes, one faulty address.
* `MCPlatform`: two contexts of one hart, two lines and three priorities for the
  controller, `Routed` and `Settled` software; a queue of two, a back-off of three and three bytes for the port: full, empty and
  one in between, and a back-off that is begun, under way and over.
* `MCExo`: two strings of capacity up to three over two characters and every
  position up to one past the end; kernel inputs of up to six values in 0..3 (four
  vertices and all weights, so all graphs of that size, connected or not) and eight
  bits; room for texts of nine characters (`kMaxTextLen`), one more than any has.

### Fairness

Weak fairness only, and only where the code's own loops give it.
`DriverTerminates`: a hart that is not halted executes its next instruction;
resets are not fair and are bounded. `debug_live`: a simulated hart executes the
next instruction of the debug ROM, and the JTAG clock runs on through
Run-Test/Idle, as a debugger that waits polls; no DMI access is fair. `AccessEnds`:
the same of Run-Test/Idle. `InputIsRead`: `sim_t::step` ticks every device each
time all harts have run their share; software need not read.

## 4. What is proved

For every value of the constants under the named assumptions
(`ContractsAssumption`, `SizesAssumption`, `ControlAssumption`, `BootAssumption`,
`HartAssumption`, `PacketAssumption`, `OwnerAssumption`, `DcToolAssumption`,
`LayoutAssumption`, `DebugAssumption`, `JtagAssumption`, `BusAssumption`,
`PlicAssumption`, `UartAssumption`, `StringAssumption`, `KernelAssumption`, all
evaluated by TLC on the instances).
Most are types and sizes. Three kinds say more:

* the public key takes up at least one window and every field of a contract at
  least one block (`ControlAssumption`, `SizesAssumption`, `LayoutAssumption`);
  the real key has 800 bytes and no field is empty. The first is needed: the
  upload address wraps to 0, and without a public key there an upload that is too
  long would overwrite the encrypted key;
* an owner grants computations from its inputs, certified random numbers and
  constants in which the operands of an instruction are one register or have different hashes
  (`OwnerAssumption`). Equal hashes cancel in the exclusive-or (`processor.h:719`),
  so that a grant of such a computation also fits others: TLC finds
  `DisclosuresAreGranted` violated when the assumption is dropped, by registers
  that keep their values while a mode change zeroes their hashes;
* an input of the kernels has at most four different values, the character classes
  of the automata, no text is longer than the room for it (`kMaxTextLen`), and half its total fits `MAX_SUM`, the size of the partition's
  table (`KernelAssumption`), as it does in all cases the program lists
  (`partition-equal.cc:28`).

The inductive invariants were checked by TLC on the instances of section 3 before
they were proved.

* `ControlSafety` – type correctness, `ValidContractIsKeyed`,
  `EnabledIsProtected`, `ValidNeedsUpload` (also `ControlTypes`,
  `UploadsComplete`). The invariant is their conjunction
  `ControlInv`: re-enabling re-expands the contract's key, which changes nothing
  only because a valid contract is already keyed; and a valid contract implies a
  full upload because the marks never fall and DECAP_SIZE rejects a short key.
* `ContractFrozen`, `ControlImplementsLifecycle`, `ControlImplementsView` – step
  by step from `ControlInv`.
* `DriverUnsurprised`, `ReadyIsOwn` – `DriverNeverSurprised` and
  `ReadyMeansOwnContract`, over the whole composition of driver, KMSM and resets.
  `BootInv` adds to `ControlInv` where the upload stands (`UploadInv`: the address
  is that of the next word, or, past the end of the text, in the public key or out
  of reach; the words before it are this text's), what the driver's position says
  of mode, status and validity (`OutcomeInv`), and that a valid contract after the
  open is the uploaded one in every field (`OwnInv`). With the
  whole key and all blocks in place the open can decode nothing else.
* `HartSafety` – `LeaksOnlyByResidue`, `GrantsAreSecret` (also
  `GrantsStaySecret`), `CipherKeyed`. The
  invariant adds what is known of the mode (`ModeInv`): enabled implies secret
  mode and a valid contract, a valid contract implies a keyed cipher core. The
  case of each instruction rests on two lemmas: an unblocked write keeps taint in
  the secret registers, and a source that passes the checks is public.
* `PacketSafety` – `PacketTypeOK`, `LabelsDescribeValues`, `PacketsStayReadable`
  (also `PacketsReadable`).
  The invariant says of every packet encrypted while enabled that it carries the
  signature and format of the contract its key belongs to; `OnePacket` shows that
  an authentic load reads two blocks of one packet, by the chaining, so that value and
  hash are that packet's or, where an edit of the first block passed, the value is
  noise: the block whose half is xored to the hash is the block the value is in.
  What the hash of noise says is not promised.
* `OwnersSeparated` – `SecretsStayWithOwner`, under the assumptions that the hart
  is not reset and that all secret registers are zeroed on leaving secret mode.
  The second holds of the integer file (`SECREG_RESET`); of the floating-point
  file it does not (section 5).
  The invariant: in secret mode the registers hold secrets of the contract in
  use only, and with it off of none.

* `DisclosuresSafe`, `MarksSafe` – `DisclosuresAreGranted`, `GrantsAreMarked`. The
  invariant `DiscInv` says that a register whose hash is an owner's (of a granted
  computation or of one of its operands) holds a value with that reference hash, or a
  fitted one (`Honest`); a public word that is not fitted has its own hash (`WordHash`).
  The exception is the code's: software can choose the hash of a result that depends on
  a word of its choice, and disc then makes the value public. What is proved is that
  nothing else makes a value public under the hash of another.
  It need not hold of other hashes, and does not: metadata is destroyed while
  values stay. The step of an instruction whose hash is an owner's decomposes the
  two exclusive-ors (`GenElements`) and finds the operands' hashes among the
  owner's too.
* `InstalledWhole`, `FormatsSafe` – `InstalledIsWhole`, `FormatsAgree`. The
  invariant `ToolInv` follows the stages of `main()`: the text that passed the
  parser has all its windows, and a contract in the configuration is whole. It is
  made whole by PT_SHA256: a decryption that mixes two contracts, or is junk in a
  block, matches the hash of neither.
* `CheckersAgree` – `CheckAgreesWithSpike`, from the same lemma about the status of
  an opened file (`StatusOK`); it holds of every file content, reachable or not.
* `TapResets`, `BusyShown`, `RequestsSpaced` – `FiveOnesReset`, `BusyIsShown`,
  `RequestsAreSpaced` (and `OncePerScan`). The invariant `JtagInv` bounds the
  distance of each TAP state to reset by the ones seen (`NearReset`) and relates
  what a scan has captured to the sticky bit and to the idle cycles still due. The
  last theorem assumes `EdgesOnly`, a client that changes TCK with every call; the
  code passes a request on again when it does not (section 5).
* `StreamAdvances`, `OverrunsStop`, `AccessesAsRequested` – `AddressAdvances`,
  `OverrunStopsStream`, `AccessAsRequested`. The first rests on a lemma that the
  carries over four limbs are addition modulo the size of the address space, for
  every base; the last on `WaitingInv`, that the registers still describe the
  access that waits, and so on `Polite`: the code does not stop a debugger from
  rewriting `sbcs` under a waiting access.
* `DebugSafety`, `StatusSafety` – `DebugTypeOK`, `HaltedMeansParked`,
  `StatusIsTrue`, for every debugger. With the types, `HaltedMeansParked` is
  inductive as it stands: the ROM's reports and the resets move what the module
  believes together with where the hart is.
* `CommandSafety` – `IdleMeansDone`, if `Polite`. The invariant `CommandInv` says
  that a hart that was told to execute a command and has not finished it is the
  selected one, that busy is set and the command is not marked completed. The last
  is what makes clearing busy safe; without politeness the selected hart changes
  under the command, and the report of another hart completes it.
* `PinsSafe` – `PinsFollowLines`, for `Routed` and `Settled` software; without either
  the code does not keep it (section 5). The invariant `PlicInv` relates the pin to the
  ids that ask for attention by the priorities the context has copied, whatever
  software does, but for contexts whose hart was reset; if `Settled`, the copies to the
  priorities as programmed (`CopiesCurrent`); and if `Routed`, what is pending to the
  lines. `BestPending` shows
  that the scan reports an id exactly when one asks, from the existence of a best
  candidate, by least elements of sets of natural numbers.
* `LineSafe` – `LineIsTrue` and `UartTypeOK`, with the bound on the queue. One
  lemma (`LineUpdated`) for all handlers, as all end in `update_interrupt`.
* `InputOrdered` – `InputInOrder`. The property says of every typed byte in the
  queue that it is the newest or that its successor follows with only looped-back
  bytes in between; appending, removing the head and clearing keep that.

* `StringsActAsStrings` – `ActsAsString`, the refinement of BoundedString, for every
  number of strings, capacity and alphabet. It assumes that no string is appended to
  itself (`~Aliasing`) and that no position comes within a capacity of `npos`
  (`NoWrap`); where either fails the code does not keep the promise (section 5).
* `StringAnswersAgree` – `AnswersAgree`, under `NoWrap` alone: after self-appends too
  every search and comparison answers what its definition over the texts says.
* `StringsAreWell` – the invariant `StringInv` both rest on: sizes within capacities,
  and no character in use is the fill. The second part is what makes the masked loops
  right: an index beyond the size must be told from a character. A self-append keeps
  it because it repeats the text and nothing else (`SelfAppendedIs`); a `substr` whose
  positions wrap does not, hence `NoWrap`.

The loops of the string operations are recursive functions. The proofs give the value
after every turn in closed form (`AppendedUpTo`, `SubStringUpTo`, …), show that the
closed form starts and steps as the loop does, and conclude by `LoopsEqual` that it is
the loop: an induction over the turns, by the least turn at which the two differ.

* `KernelsAgree` – `SequenceKernelsAgree`, for inputs of any length, any capacity of
  the knapsack and any table of the partition. `Given`, the bound on length and
  values, is the inductive invariant; the rest is a theorem about each kernel, which
  says more than the property needs:
  * `BubblesortSorts` (any integers, every value as often as before): a turn exchanges neighbours out of order and
    so removes one inversion (`InversionsFall` and the lemmas before it), a row
    settles one more place;
  * `BitonicSorts` (any integers, sizes 1, 2, 4 and 8): a pass is a comparator on
    each pair of places (`PassIs`), the strides used pair the places off, and the
    merges are arithmetic on four and eight values (`MergeFour`, `HalfCleaner`).
    That the network sorts every power of two is not proved;
  * `GreatestRun`, `LongestPalindrome`, `LongestCommonSubstring`,
    `LongestCommonSubsequence`, `CheapestAlignment`: the invariant says of each cell
    that it holds the optimum over the prefixes read so far. For the last two it is
    an optimum over pairs of index sets, which the step splits by whether the last
    characters are among those kept; earlier starts win ties as in
    `is_better_choice`;
  * `BestPacking` (positive weights: column 0 of the table is 0 whatever the items,
    so an item without weight would be lost there), `EqualPartition`: what a row of
    the table says of every subset, and that the walk from the last row back finds
    one that attains it;
  * `PatternsMatch`: the one state each automaton is in after a prefix, and that it
    stays there beyond the end of the text, for texts that fit `kMaxTextLen`. `ScanIs`
    says of a masked scan, here and in the knapsack, that it reads the cell or gives
    the default.

A kernel's loop is a function that TLA+ only chooses; to use it one must first show
that it exists. `LoopRuns` and `StagedLoopRuns` do so for loops that stay in a set of
states, or go from one set of states to the next.

The instruction-level theorems are about `SecretMode`, which
`ControlImplementsView` connects to the full control state.

Only model-checked:

* everything under fairness (`DriverTerminates`, `RequestsHalt`, `CommandsEnd`,
  `ResumesAcknowledged`, `AccessEnds`, `InputIsRead`): liveness and ENABLED are out
  of the prover's reach;
* `GraphKernelsAgree`: the graphs have four vertices in the model as well as in the
  instance, and TLC checks all of them with all weights that `KernelAssumption`
  allows. A proof of the property as it stands would add larger images only; one for
  any number of vertices needs an argument of its own for each of the six kernels,
  which has not been made here.

## 5. Where code and documents disagree

**Reset leaves secret mode on** (run `control_reset`). `mojov_reset`
(`processor.h:543`) clears the contract and the CSR but not `secreg_mode`;
"Contracts must not be opened while secret computation is active."
(`processor.cc:137`) then fails, because the guard reads the CSR. As a consequence
values loaded under one contract could be stored under the next, so
`SecretsStayWithOwner` is stated up to a reset. The registers themselves are
zeroed by the reset.

The following are stated as properties and are not part of a run; TLC shows each
when it is added to the configuration named.

| Property (configuration) | What the code does | What is said |
|---|---|---|
| `SecretFpsCleared` (MCHart) | `FP_SECREG_RESET` writes `X_FP0` four times (`decode_macros.h:55`) | `mojov-sectests.c:26` |
| `FlagsStayPublic` (MCHart) | `WRITE_FREG` computes before it checks, and the pending exceptions of a trapped operation accrue later (`decode_macros.h:106`) | `insns/fadd_d.h:7,9` |
| `DisclosuresAreExact` (MCDisclose) | operands commute in the hash (`processor.h:719`), and a public operand, or half of an encrypted block, can be fitted to a hash (`decode_macros.h:59`, `lde.h:70`) | "names the exact expected computation", `blind-audit/README.md:6` |
| `StrongOptionIsUsed` (MCDcTool) | the contract's format overrides the option (`csrs.cc:2303`) | `spike.cc:97` |
| `ResumeOnlyIfHalted` (MCDebug, as a PROPERTY) | a resume request to a running hart is kept until it halts (`debug_module.cc:891`) | "if they are halted when the write occurs", `debug_defines.h:2127` |
| `OncePerScan` (MCTransport, `EdgesOnly = FALSE`) | updates happen whenever TCK is low (`jtag_dtm.cc:97`) | the comment at `jtag_dtm.cc:98` |
| `PendingFollowsLines` (MCPlatform, `Routed = FALSE`) | a level change reaches the first context that enables the id and stops (`plic.cc:325`) | "level-triggered", `plic.cc:307` |
| `ThresholdMasks` (MCPlatform, `Settled = FALSE`) | `priority_write` does not refresh the priority a pending id carries in the contexts; the threshold applies to the old one until the line falls or the id is disabled (`plic.cc:168`) | "will mask all PLIC interrupts of a priority less than or equal to threshold", `plic.cc:118` |
| `SpansEveryComponent` (MCExo) | only the piece of the first vertex gets a tree, a minimum one (`SpanningTreeAgrees`); then `minVal` returns -1 and nothing more is linked | "works on graphs with multiple components that are not connected", `minspan.cc:15` |
| `ActsAsString` (MCExo, `Aliasing = TRUE`) | appending a string to itself reads what it writes | `exo/mojov-string.h` |
| `SubstrPastEndIsEmpty` (MCExo, `Positions` with `Npos`) | `substr` past the end wraps | `mojov-stringtests.cc:173` |

Also seen while reading: a hart that the debugger resets loses its external interrupt
bits, and the controller drives them again only at the next access to the context or
change of one of its lines (`csr_init.cc:109`; in `PinsFollowLines` this is `undriven`);
a datagrant moved by disc into a secret register loses its mark and keeps its value, so
that ordinary instructions may read it, against the comment of `disc.h:3`;
`lsr.TEMT` is never cleared, so the transmit interrupt is always asserted when
enabled; `gcd-list.cc`'s `gcd` is not the greatest common divisor of its inputs
(9 and 14 give 2) and is not modelled; `knapSack` needs weights of at least 1;
`floodfill` also spreads from pixels that already have the new colour;
`displayTree` of `minspan` indexes with -1 for a disconnected graph; the
configuration's `mojov_dc` and `mojov_dcvalid` are set by `--mojov-dc` and not read
by the hart; `dcchk` exits with 0 when validation fails;
`bringup-bench/Makefile:210` passes `--mojov-sk` without `--mojov-pk`, which spike
refuses.

## 6. Abstractions to keep in mind

* Cryptography is ideal: a wrong key, place or chain never yields a valid
  signature, and a block with an edited half decrypts to a value nobody encrypted.
  What the chaining does in the clear is modelled: an edit of the first block reaches
  the signature and the hash of the second by an amount software chooses. Truncation of the signature to 32 bits in the fast format is not
  distinguished.
* MojoVPacket assumes that contracts with the same key are the same contract
  (`PacketAssumption`): dc-tool draws a random key per contract.
* Timing, power and the simulator's own log and console are outside the model.
* One hart: the control state, registers and hashes are per hart; harts share
  memory only, which is under software's control already (`Move`, `Provide`).
* MojoVHart treats a computed value as tainted whenever an operand is, and a
  granted disclosure to a public register as public.

* DebugModule leaves out the content of data and program buffers and which
  instructions a command is compiled to; a command is what the hart executes
  between two reports.
* Encrypted values in EXO are their plaintexts: that they are encrypted is the
  business of MojoVHart and MojoVPacket.

## 7. Not modelled

* **Floating point**: `exo/mojov-math.h`, the floating-point kernels, Berkeley
  softfloat, the arithmetic of the floating-point instructions. What they compute
  is a matter of rounding, which neither TLC nor the installed provers evaluate.
  Their taint is in MojoVHart.
* **Cryptographic arithmetic**: SIMON, ML-KEM, HKDF, SHA-256 are ideal.
* **Tables and generated code**: `encoding.h`, `debug_defines.h`, the disassembler,
  the device tree library, CSR numbering; nothing in them has a state. With the
  next two points this is most of the repository's lines: about nine tenths are
  upstream Spike or vendored code, so the share of lines the models cover is small
  although the Mojo-V code itself is largely covered.
* **Instruction semantics of upstream Spike**: some thousand one-line files whose
  effect beyond their register checks is arithmetic; the vector unit, hypervisor,
  Zfinx, Zacas and Zcmp, outside the documented `rv64gc_zicond_zkmojov_zicntr`.
* **MMU, HTIF, triggers, the timer**: unchanged by Mojo-V. Page faults and trigger
  halts enter as nondeterministic choices.
* **remote_bitbang.cc**: socket I/O around `set_pins`.
* **Kernels that print as they compute**, and the test programs, which are read as
  statements of intent. The bound on hash inputs (`MAX_INPUTS`,
  `decode_macros.h:59`) is an assertion about macro expansions, not about states.

## 8. Plan

Done: control, lifecycle, boot, taint, packets, disclosure, tool, debug module,
transport, interrupts and serial port, strings and kernels, and the proofs of
section 4. What is left:

1. Proofs: the graph kernels, for any number of vertices; bitonic sort for every
   power of two; the composition of MojoVHart, MojoVPacket and MojoVDisclose with
   MojoVControl through `ControlImplementsView`, as theorems about one
   specification.
2. `MojoVPacket` and `MojoVDisclose` for the floating-point file and for datagrants
   in packets, so that grants come from memory.
3. The timer and the hart's choice among pending interrupts, composed with Plic.
