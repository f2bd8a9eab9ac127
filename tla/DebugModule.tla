----------------------------- MODULE DebugModule -----------------------------
(***************************************************************************)
(* Run control and abstract commands of the debug module                   *)
(* (riscv/debug_module.cc) together with the debug ROM its harts park in   *)
(* (debug_rom/debug_rom.S).  The debugger acts through DMI accesses and    *)
(* Run-Test/Idle cycles; a halted hart polls its flags and reports by      *)
(* stores to the module.  Every memory access of the ROM is a step, since  *)
(* DMI accesses fall between any two instructions.                         *)
(*                                                                         *)
(* cmderr is the set of its bits that are one.  Data and program buffer    *)
(* contents are left out, system bus access is module DebugBus, and        *)
(* hart IDs are the indices of the harts.                                  *)
(***************************************************************************)
EXTENDS Naturals

CONSTANTS
  NHarts,            \* sim->get_cfg().nprocs()
  Groups,            \* halt groups; 0 is no group
  AbstractRti,       \* config.abstract_rti
  RequireAuth,       \* config.require_authentication
  ControlInputs,     \* values the debugger may write to dmcontrol
  AvailInputs,       \* ... and to dmcustom: the harts that are available
  MaskInputs,        \* ... and to hawindow
  AutoInputs,        \* ... and to abstractauto
  MaxResets,         \* bound on writes that reset a hart
  Polite             \* the debugger waits for a command, and for a resume, to finish

Harts == 0 .. NHarts - 1

Controls == [dmactive : BOOLEAN, haltreq : BOOLEAN, resumereq : BOOLEAN, hartreset : BOOLEAN,
             ndmreset : BOOLEAN, ackhavereset : BOOLEAN, hasel : BOOLEAN, hartsel : Nat]

ASSUME DebugAssumption ==
  /\ NHarts \in Nat \ {0}
  /\ Groups \subseteq Nat /\ 0 \in Groups
  /\ AbstractRti \in Nat
  /\ RequireAuth \in BOOLEAN
  /\ ControlInputs \subseteq Controls
  /\ AvailInputs \subseteq SUBSET Harts
  /\ MaskInputs \subseteq SUBSET Harts
  /\ AutoInputs \subseteq SUBSET {"data", "progbuf"}
  /\ MaxResets \in Nat
  /\ Polite \in BOOLEAN

VARIABLES
  hart_state,     \* what the module believes of each hart
  flags,          \* debug_rom_flags: the bytes a parked hart polls
  halt_request,   \* processor_t::halt_request
  rom,            \* where each hart is: running, or a step of the debug ROM
  dmcontrol,      \* dmactive, hasel, hartsel
  hart_array_mask,
  available,      \* hart_available_state
  authenticated,
  abstractcs,     \* busy and cmderr
  abstract_command_completed,
  rti_remaining,
  abstractauto,
  resets

hartVars == <<hart_state, flags, halt_request, rom>>
commandVars == <<abstractcs, abstract_command_completed, rti_remaining, abstractauto>>
selectVars == <<dmcontrol, hart_array_mask, available, authenticated>>
debugVars == <<hartVars, commandVars, selectVars, resets>>

RomSteps == {"entry", "check_go", "check_resume", "going", "abstract", "exception",
             "resuming", "dret"}
CMDERR_NONE == {}
CMDERR_BUSY == {0}
CMDERR_NOTSUP == {1}
CMDERR_EXCEPTION == {0, 1}
CMDERR_HALTRESUME == {2}

DebugTypeOK ==
  /\ hart_state \in [Harts -> [halted : BOOLEAN, resumeack : BOOLEAN,
                               havereset : BOOLEAN, haltgroup : Groups]]
  /\ flags \in [Harts -> SUBSET {"go", "resume"}]
  /\ halt_request \in [Harts -> {"HR_NONE", "HR_REGULAR", "HR_GROUP"}]
  /\ rom \in [Harts -> RomSteps \cup {"running"}]
  /\ dmcontrol \in [dmactive : BOOLEAN, hasel : BOOLEAN, hartsel : Harts]
  /\ hart_array_mask \in SUBSET Harts
  /\ available \in SUBSET Harts
  /\ authenticated \in BOOLEAN
  /\ abstractcs \in [busy : BOOLEAN, cmderr : SUBSET {0, 1, 2}]
  /\ abstract_command_completed \in BOOLEAN
  /\ rti_remaining \in 0 .. AbstractRti
  /\ abstractauto \in SUBSET {"data", "progbuf"}
  /\ resets \in 0 .. MaxResets

NoControl == [dmactive |-> FALSE, hasel |-> FALSE, hartsel |-> 0]

DebugInit ==
  /\ hart_state = [h \in Harts |-> [halted |-> FALSE, resumeack |-> FALSE,
                                    havereset |-> FALSE, haltgroup |-> 0]]
  /\ flags = [h \in Harts |-> {}]
  /\ halt_request = [h \in Harts |-> "HR_NONE"]
  /\ rom = [h \in Harts |-> "running"]
  /\ dmcontrol = NoControl
  /\ hart_array_mask = {}
  /\ available = Harts
  /\ authenticated = ~RequireAuth
  /\ abstractcs = [busy |-> FALSE, cmderr |-> CMDERR_NONE]
  /\ abstract_command_completed \in BOOLEAN    \* never initialised
  /\ rti_remaining = 0
  /\ abstractauto = {}
  /\ resets = 0

----------------------------------------------------------------------------
(* The debugger's writes.  A polite debugger leaves everything but the     *)
(* command registers alone while a command runs.                           *)
MayReconfigure == Polite => ~abstractcs.busy

\* processor_t::reset and debug_module_t::proc_reset
AfterReset(s) == [s EXCEPT !.havereset = TRUE, !.halted = FALSE, !.haltgroup = 0]

SelectedHart(v) == IF v.hartsel < NHarts THEN v.hartsel ELSE NHarts - 1

\* What a write v of dmcontrol does to the selected harts, given the requests
\* in force before it.
SelectHarts(v, requests) ==
  LET sel == SelectedHart(v)
      Selected(h) == h = sel \/ (v.hasel /\ h \in hart_array_mask)
      Acts(h) == Selected(h) /\ h \in available
      Resets(h) == v.ndmreset \/ (v.hartreset /\ Acts(h))
  IN
  /\ dmcontrol' = [dmactive |-> TRUE, hasel |-> v.hasel, hartsel |-> sel]
  /\ halt_request' = [h \in Harts |->
       IF ~Selected(h) THEN requests[h] ELSE IF v.haltreq /\ Acts(h) THEN "HR_REGULAR" ELSE "HR_NONE"]
  /\ flags' = [h \in Harts |-> IF v.resumereq /\ Acts(h) THEN flags[h] \cup {"resume"} ELSE flags[h]]
  /\ hart_state' = [h \in Harts |->
       LET s == [hart_state[h] EXCEPT !.havereset = @ /\ ~(v.ackhavereset /\ Selected(h)),
                                      !.resumeack = @ /\ ~(v.resumereq /\ Acts(h))]
       IN  IF Resets(h) THEN AfterReset(s) ELSE s]
  /\ rom' = [h \in Harts |-> IF Resets(h) THEN "running" ELSE rom[h]]
  /\ resets' = IF \E h \in Harts : Resets(h) THEN resets + 1 ELSE resets

\* dmi_write(DM_DMCONTROL).  Activating the module runs reset(), which clears
\* the halt requests, dmcontrol, abstractcs and abstractauto but neither the
\* flags the harts poll nor hart_state; without dmactive, or before
\* authentication, nothing further happens.
WriteDmcontrol(v) ==
  LET activates == ~dmcontrol.dmactive /\ v.dmactive
      requests == IF activates THEN [h \in Harts |-> "HR_NONE"] ELSE halt_request
      control == [(IF activates THEN NoControl ELSE dmcontrol) EXCEPT !.dmactive = v.dmactive]
  IN
  /\ MayReconfigure
  /\ (v.hartreset \/ v.ndmreset) => resets < MaxResets
  /\ IF activates
     THEN /\ authenticated' = ~RequireAuth
          /\ abstractcs' = [busy |-> FALSE, cmderr |-> CMDERR_NONE]
          /\ abstractauto' = {}
     ELSE UNCHANGED <<authenticated, abstractcs, abstractauto>>
  /\ \/ /\ authenticated' /\ v.dmactive
        /\ SelectHarts(v, requests)
     \/ /\ ~(authenticated' /\ v.dmactive)
        /\ dmcontrol' = control
        /\ halt_request' = requests
        /\ UNCHANGED <<flags, hart_state, rom, resets>>
  /\ UNCHANGED <<hart_array_mask, available, abstract_command_completed, rti_remaining>>

\* dmi_write(DM_HAWINDOW)
WriteHawindow(mask) ==
  /\ authenticated /\ MayReconfigure
  /\ hart_array_mask' = mask
  /\ UNCHANGED <<hartVars, commandVars, dmcontrol, available, authenticated, resets>>

\* dmi_write(DM_CUSTOM)
WriteCustom(harts) ==
  /\ authenticated /\ MayReconfigure
  /\ available' = harts
  /\ UNCHANGED <<hartVars, commandVars, dmcontrol, hart_array_mask, authenticated, resets>>

\* dmi_write(DM_DMCS2): the halt group of the selected hart
WriteDmcs2(group) ==
  /\ authenticated
  /\ hart_state' = [hart_state EXCEPT ![dmcontrol.hartsel].haltgroup = group]
  /\ UNCHANGED <<flags, halt_request, rom, commandVars, selectVars, resets>>

\* dmi_write(DM_AUTHDATA): the right answer to the challenge, or another
WriteAuthdata(right) ==
  /\ authenticated' = IF RequireAuth THEN right ELSE authenticated
  /\ UNCHANGED <<hartVars, commandVars, dmcontrol, hart_array_mask, available, resets>>

\* dmi_write(DM_ABSTRACTCS): write one to clear
WriteAbstractcs(bits) ==
  /\ authenticated
  /\ abstractcs' = [abstractcs EXCEPT !.cmderr = @ \ bits]
  /\ UNCHANGED <<hartVars, abstract_command_completed, rti_remaining, abstractauto, selectVars, resets>>

\* dmi_write(DM_ABSTRACTAUTO)
WriteAbstractauto(auto) ==
  /\ authenticated
  /\ abstractauto' = auto
  /\ UNCHANGED <<hartVars, abstractcs, abstract_command_completed, rti_remaining, selectVars, resets>>

----------------------------------------------------------------------------
(* perform_abstract_command *)
Refused(err) ==
  /\ abstractcs' = [abstractcs EXCEPT !.cmderr = err]
  /\ UNCHANGED <<flags, abstract_command_completed, rti_remaining>>

Started(h) ==
  /\ flags' = [flags EXCEPT ![h] = @ \cup {"go"}]
  /\ rti_remaining' = AbstractRti
  /\ abstract_command_completed' = FALSE
  /\ abstractcs' = [abstractcs EXCEPT !.busy = TRUE]

\* A command is an access to a register of the hart, to one of the module's
\* custom registers, to a register or of a size that is not supported, or not
\* a register access at all.  The command register itself is left out: an
\* automatic execution takes any kind.
PerformAbstractCommand(kind) ==
  LET h == dmcontrol.hartsel
  IN
  IF abstractcs.cmderr # CMDERR_NONE
  THEN UNCHANGED <<flags, abstractcs, abstract_command_completed, rti_remaining>>
  ELSE IF abstractcs.busy THEN Refused(CMDERR_BUSY)
  ELSE IF h \notin available THEN Refused(CMDERR_HALTRESUME)
  ELSE IF kind = "notsup" THEN Refused(CMDERR_NOTSUP)
  ELSE IF ~hart_state[h].halted THEN Refused(CMDERR_HALTRESUME)
  ELSE IF kind = "badregister" THEN Refused(CMDERR_NOTSUP)
  ELSE IF kind = "custom" THEN Refused(CMDERR_NONE)
  ELSE Started(h)

MayCommand == Polite => "resume" \notin flags[dmcontrol.hartsel]
Kinds == {"register", "custom", "badregister", "notsup"}

\* dmi_write(DM_COMMAND)
WriteCommand(kind) ==
  /\ authenticated /\ MayCommand
  /\ PerformAbstractCommand(kind)
  /\ UNCHANGED <<hart_state, halt_request, rom, abstractauto, selectVars, resets>>

\* dmi_read and dmi_write of data words (reading needs no authentication)
AccessData(kind) ==
  /\ MayCommand
  /\ IF abstractcs.busy
     THEN /\ abstractcs' = [abstractcs EXCEPT !.cmderr = IF @ = CMDERR_NONE THEN CMDERR_BUSY ELSE @]
          /\ UNCHANGED <<flags, abstract_command_completed, rti_remaining>>
     ELSE "data" \in abstractauto /\ PerformAbstractCommand(kind)
  /\ UNCHANGED <<hart_state, halt_request, rom, abstractauto, selectVars, resets>>

\* ... and of program buffer words
AccessProgbuf(kind) ==
  /\ MayCommand
  /\ ~abstractcs.busy /\ "progbuf" \in abstractauto
  /\ PerformAbstractCommand(kind)
  /\ UNCHANGED <<hart_state, halt_request, rom, abstractauto, selectVars, resets>>

\* Mutant: completion is looked at only in the cycle that ends the delay.
RunTestIdle_OnlyAtEnd ==
  /\ rti_remaining' = IF rti_remaining > 0 THEN rti_remaining - 1 ELSE 0
  /\ abstractcs' = [abstractcs EXCEPT
       !.busy = @ /\ ~(rti_remaining = 1 /\ abstract_command_completed)]
  /\ UNCHANGED <<hartVars, abstract_command_completed, abstractauto, selectVars, resets>>

\* run_test_idle
RunTestIdle ==
  /\ rti_remaining' = IF rti_remaining > 0 THEN rti_remaining - 1 ELSE 0
  /\ abstractcs' = [abstractcs EXCEPT
       !.busy = @ /\ ~(rti_remaining' = 0 /\ abstract_command_completed)]
  /\ UNCHANGED <<hartVars, abstract_command_completed, abstractauto, selectVars, resets>>

\* hart_selected
HartSelected(h) == h = dmcontrol.hartsel \/ (dmcontrol.hasel /\ h \in hart_array_mask)

\* Mutant: a hart that is not available is passed over.
Dmstatus_PassOver ==
  LET sel == {h \in Harts : HartSelected(h)}
      halted == {h \in sel \cap available : hart_state[h].halted}
      running == (sel \cap available) \ halted
  IN  [allhalted |-> running = {}, anyhalted |-> halted # {},
       allrunning |-> halted = {}, anyrunning |-> running # {},
       allunavail |-> sel \cap available = {}, anyunavail |-> ~(sel \subseteq available)]

\* dmi_read(DM_DMSTATUS): what the debugger is told of the selected harts
Dmstatus ==
  LET sel == {h \in Harts : HartSelected(h)}
      halted == {h \in sel \cap available : hart_state[h].halted}
      running == (sel \cap available) \ halted
  IN  [allhalted |-> halted = sel, anyhalted |-> halted # {},
       allrunning |-> running = sel, anyrunning |-> running # {},
       allunavail |-> sel \cap available = {}, anyunavail |-> ~(sel \subseteq available)]

----------------------------------------------------------------------------
(* The harts. *)
Moves(h, from, to) == rom[h] = from /\ rom' = [rom EXCEPT ![h] = to]
Quiet == UNCHANGED <<hart_state, flags, halt_request, commandVars, selectVars, resets>>

\* Mutant: only the debugger's own requests are looked at.
TakeHaltRequest_Regular(h) ==
  /\ halt_request[h] = "HR_REGULAR"
  /\ Moves(h, "running", "entry")
  /\ Quiet

\* step() finds a halt request and enters debug mode.
TakeHaltRequest(h) ==
  /\ halt_request[h] # "HR_NONE"
  /\ Moves(h, "running", "entry")
  /\ Quiet

\* ... as do ebreak, a trigger and a finished single step.
Breakpoint(h) ==
  /\ halt_request[h] = "HR_NONE"
  /\ Moves(h, "running", "entry")
  /\ Quiet

\* Mutant: any hart's report completes the command.
ReportCompletes_AnyHart(h) == "go" \notin flags[h]

\* Does the report of a parked hart h end the command?
ReportCompletes(h) == dmcontrol.hartsel = h /\ "go" \notin flags[h]

\* store(DEBUG_ROM_HALTED): a newly halted hart requests its group to halt.
StoreHalted(h) ==
  /\ Moves(h, "entry", "check_go")
  /\ hart_state' = [hart_state EXCEPT ![h].halted = TRUE]
  /\ halt_request' = [o \in Harts |->
       IF /\ ~hart_state[h].halted /\ hart_state[h].haltgroup # 0
          /\ o # h /\ ~hart_state[o].halted
          /\ hart_state[o].haltgroup = hart_state[h].haltgroup
          /\ o \in available
       THEN "HR_GROUP" ELSE halt_request[o]]
  /\ abstract_command_completed' = (abstract_command_completed \/ ReportCompletes(h))
  /\ UNCHANGED <<flags, abstractcs, rti_remaining, abstractauto, selectVars, resets>>

\* The two loads of the polling loop.
PollGo(h) ==
  /\ Moves(h, "check_go", IF "go" \in flags[h] THEN "going" ELSE "check_resume")
  /\ Quiet

PollResume(h) ==
  /\ Moves(h, "check_resume", IF "resume" \in flags[h] THEN "resuming" ELSE "entry")
  /\ Quiet

\* store(DEBUG_ROM_GOING)
StoreGoing(h) ==
  /\ Moves(h, "going", "abstract")
  /\ flags' = [flags EXCEPT ![h] = @ \ {"go"}]
  /\ UNCHANGED <<hart_state, halt_request, commandVars, selectVars, resets>>

\* The instructions of the command, to the final ebreak or an exception.
Execute(h) ==
  /\ \/ Moves(h, "abstract", "entry")
     \/ Moves(h, "abstract", "exception")
  /\ Quiet

\* store(DEBUG_ROM_EXCEPTION), then ebreak
StoreException(h) ==
  /\ Moves(h, "exception", "entry")
  /\ abstractcs' = [abstractcs EXCEPT !.cmderr = IF @ = CMDERR_NONE THEN CMDERR_EXCEPTION ELSE @]
  /\ UNCHANGED <<hart_state, flags, halt_request, abstract_command_completed, rti_remaining,
                 abstractauto, selectVars, resets>>

\* Mutant: the module forgets to mark the hart as running.
StoreResuming_StaysHalted(h) ==
  /\ Moves(h, "resuming", "dret")
  /\ hart_state' = [hart_state EXCEPT ![h].resumeack = TRUE]
  /\ flags' = [flags EXCEPT ![h] = @ \ {"resume"}]
  /\ UNCHANGED <<halt_request, commandVars, selectVars, resets>>

\* Mutant: the resume flag is left set.
StoreResuming_KeepsFlag(h) ==
  /\ Moves(h, "resuming", "dret")
  /\ hart_state' = [hart_state EXCEPT ![h].halted = FALSE]
  /\ UNCHANGED <<flags, halt_request, commandVars, selectVars, resets>>

\* store(DEBUG_ROM_RESUMING)
StoreResuming(h) ==
  /\ Moves(h, "resuming", "dret")
  /\ hart_state' = [hart_state EXCEPT ![h].halted = FALSE, ![h].resumeack = TRUE]
  /\ flags' = [flags EXCEPT ![h] = @ \ {"resume"}]
  /\ UNCHANGED <<halt_request, commandVars, selectVars, resets>>

Dret(h) ==
  /\ Moves(h, "dret", "running")
  /\ Quiet

RomStep(h) ==
  \/ TakeHaltRequest(h)
  \/ StoreHalted(h) \/ PollGo(h) \/ PollResume(h)
  \/ StoreGoing(h) \/ Execute(h) \/ StoreException(h)
  \/ StoreResuming(h) \/ Dret(h)

DmiStep ==
  \/ \E v \in ControlInputs : WriteDmcontrol(v)
  \/ \E mask \in MaskInputs : WriteHawindow(mask)
  \/ \E harts \in AvailInputs : WriteCustom(harts)
  \/ \E group \in Groups : WriteDmcs2(group)
  \/ \E right \in BOOLEAN : WriteAuthdata(right)
  \/ WriteAbstractcs({0, 1, 2})
  \/ \E auto \in AutoInputs : WriteAbstractauto(auto)
  \/ \E kind \in Kinds : WriteCommand(kind) \/ AccessData(kind) \/ AccessProgbuf(kind)

DebugNext ==
  \/ DmiStep
  \/ RunTestIdle
  \/ \E h \in Harts : Breakpoint(h) \/ RomStep(h)

\* A hart that is simulated executes its next instruction; the JTAG clock
\* keeps running, as a debugger that waits polls.
DebugSpec ==
  /\ DebugInit /\ [][DebugNext]_debugVars
  /\ \A h \in Harts : WF_debugVars(RomStep(h))
  /\ WF_debugVars(RunTestIdle)

----------------------------------------------------------------------------
\* The module never shows a hart as halted that executes its program: the
\* reports of the ROM and hart resets keep hart_state in step with the hart.
HaltedMeansParked ==
  \A h \in Harts : hart_state[h].halted => rom[h] \in RomSteps \ {"dret"}

\* A debugger that reads allhalted may inspect every hart it selected: each is
\* available and parked.  The summary bits never contradict each other.
StatusIsTrue ==
  /\ Dmstatus.allhalted => \A h \in Harts : HartSelected(h) =>
       h \in available /\ rom[h] \in RomSteps \ {"dret"}
  /\ ~(Dmstatus.allhalted /\ (Dmstatus.anyrunning \/ Dmstatus.anyunavail))

\* When busy reads 0 no hart is executing, or about to execute, an abstract
\* command, so the debugger may use the data and program buffers: the command
\* ends only with the report of the hart it was given to.
IdleMeansDone ==
  ~abstractcs.busy => \A h \in Harts : "go" \notin flags[h] /\ rom[h] \notin {"going", "abstract"}

\* A halt request, of the debugger or of a halt group, leads to a halted hart
\* unless it is withdrawn.
RequestsHalt ==
  \A h \in Harts : halt_request[h] # "HR_NONE"
                     ~> (hart_state[h].halted \/ halt_request[h] = "HR_NONE")

\* Every accepted command ends, with or without an exception, unless a reset
\* takes the hart away.
CommandsEnd == abstractcs.busy ~> (~abstractcs.busy \/ resets > 0)

\* A parked hart with a resume request resumes and acknowledges it.
ResumesAcknowledged ==
  \A h \in Harts : (hart_state[h].halted /\ "resume" \in flags[h])
                     ~> (hart_state[h].resumeack \/ resets > 0)

\* debug_defines.h says of resumereq: "Writing 1 causes the currently selected
\* harts to resume once, if they are halted when the write occurs."  So a
\* request leaves no flag behind on a running hart.
ResumeOnlyIfHalted ==
  [][\A h \in Harts : ("resume" \in flags'[h] /\ "resume" \notin flags[h]) => hart_state[h].halted]_debugVars
=============================================================================
