-------------------------------- MODULE JtagDtm --------------------------------
(***************************************************************************)
(* The JTAG debug transport module (riscv/jtag_dtm.cc): a TAP controller    *)
(* stepped by calls of set_pins, and behind it the DMI register with its    *)
(* sticky busy bit.                                                         *)
(*                                                                          *)
(* A shift register holds what its bits would mean in an update; a shift    *)
(* makes it any content the debugger may leave there.  The debug module's   *)
(* dmi_read and dmi_write succeed or fail.  Four history variables follow   *)
(* the present scan: the status it captured, the requests it passed on, the *)
(* idle cycles since the last one, and the TMS ones in a row.               *)
(***************************************************************************)
EXTENDS Integers

CONSTANTS
  RequiredRti,     \* required_rti_cycles
  EdgesOnly        \* the client changes TCK with every call

ASSUME JtagAssumption == RequiredRti \in Nat /\ EdgesOnly \in BOOLEAN

VARIABLES _state, _tck, _tms, ir, dr, dmi, rti_remaining, busy_stuck,
          shown, passed, idle, ones

jtagVars == <<_state, _tck, _tms, ir, dr, dmi, rti_remaining, busy_stuck, shown, passed, idle, ones>>
scanVars == <<shown, passed, idle>>

IRs == {"IDCODE", "DTMCONTROL", "DBUS", "BYPASS", "unsupported"}
\* What the bits of dr mean to update_dr.
Contents == {"nop", "read", "write", "dmireset", "dmihardreset"}

\* The table next[16][2]: the state after each state for TMS zero and one
NextTable ==
  [TEST_LOGIC_RESET |-> <<"RUN_TEST_IDLE", "TEST_LOGIC_RESET">>,
   RUN_TEST_IDLE    |-> <<"RUN_TEST_IDLE", "SELECT_DR_SCAN">>,
   SELECT_DR_SCAN   |-> <<"CAPTURE_DR", "SELECT_IR_SCAN">>,
   CAPTURE_DR       |-> <<"SHIFT_DR", "EXIT1_DR">>,
   SHIFT_DR         |-> <<"SHIFT_DR", "EXIT1_DR">>,
   EXIT1_DR         |-> <<"PAUSE_DR", "UPDATE_DR">>,
   PAUSE_DR         |-> <<"PAUSE_DR", "EXIT2_DR">>,
   EXIT2_DR         |-> <<"SHIFT_DR", "UPDATE_DR">>,
   UPDATE_DR        |-> <<"RUN_TEST_IDLE", "SELECT_DR_SCAN">>,
   SELECT_IR_SCAN   |-> <<"CAPTURE_IR", "TEST_LOGIC_RESET">>,
   CAPTURE_IR       |-> <<"SHIFT_IR", "EXIT1_IR">>,
   SHIFT_IR         |-> <<"SHIFT_IR", "EXIT1_IR">>,
   EXIT1_IR         |-> <<"PAUSE_IR", "UPDATE_IR">>,
   PAUSE_IR         |-> <<"PAUSE_IR", "EXIT2_IR">>,
   EXIT2_IR         |-> <<"SHIFT_IR", "UPDATE_IR">>,
   UPDATE_IR        |-> <<"RUN_TEST_IDLE", "SELECT_DR_SCAN">>]

\* Mutant: a pause always goes back to shifting.
TapNext_NoExit(s, one) == IF s = "EXIT2_DR" THEN "SHIFT_DR" ELSE NextTable[s][IF one THEN 2 ELSE 1]

TapNext(s, one) == NextTable[s][IF one THEN 2 ELSE 1]

DrScan == {"SHIFT_DR", "EXIT1_DR", "PAUSE_DR", "EXIT2_DR", "UPDATE_DR"}
TapStates == DOMAIN NextTable

JtagTypeOK ==
  /\ _state \in TapStates
  /\ _tck \in BOOLEAN /\ _tms \in BOOLEAN
  /\ ir \in IRs /\ dr \in Contents
  /\ dmi \in {"success", "failed"}
  /\ rti_remaining \in 0 .. RequiredRti
  /\ busy_stuck \in BOOLEAN
  /\ shown \in {"none", "busy", "dmi", "other"}
  /\ passed \in 0 .. 2 /\ idle \in 0 .. RequiredRti /\ ones \in 0 .. 5

\* The constructor leaves ir, dr, rti_remaining and busy_stuck uninitialised.
JtagInit ==
  /\ _state = "TEST_LOGIC_RESET"
  /\ _tck = FALSE /\ _tms = FALSE
  /\ ir \in IRs /\ dr \in Contents
  /\ dmi = "success"
  /\ rti_remaining \in 0 .. RequiredRti
  /\ busy_stuck \in BOOLEAN
  /\ shown = "none" /\ passed = 0 /\ idle = RequiredRti /\ ones = 0

----------------------------------------------------------------------------
\* The rising edge acts on the pins of the previous call.
RisingEdge ==
  /\ dr' \in IF _state = "SHIFT_DR" THEN Contents ELSE {dr}
  /\ ir' \in IF _state = "SHIFT_IR" THEN IRs ELSE {ir}
  /\ _state' = TapNext(_state, _tms)
  /\ ones' = IF ~_tms THEN 0 ELSE IF ones < 5 THEN ones + 1 ELSE 5
  /\ UNCHANGED <<dmi, rti_remaining, busy_stuck, scanVars>>

\* capture_dr of the DMI register.  The DMI status of a failed access, 2, is the
\* operation code of a write, and the busy status, 3, is no operation.
CaptureBusy ==
  /\ ir = "DBUS"
  /\ dr' = "nop" /\ busy_stuck' = TRUE /\ shown' = "busy"

CaptureDmi ==
  /\ ir = "DBUS"
  /\ dr' = (IF dmi = "failed" THEN "write" ELSE "nop")
  /\ shown' = "dmi"
  /\ UNCHANGED busy_stuck

\* ... and of the other registers.  An unsupported IR leaves dr alone.
CaptureOther ==
  /\ ir # "DBUS"
  /\ IF ir = "unsupported" THEN UNCHANGED dr ELSE dr' \in Contents
  /\ shown' = "other"
  /\ UNCHANGED busy_stuck

\* Mutant: the sticky bit is set only by an access that is too early itself.
TooEarly_NotSticky == rti_remaining > 0

TooEarly == rti_remaining > 0 \/ busy_stuck

CaptureDr ==
  /\ \/ TooEarly /\ CaptureBusy
     \/ ~TooEarly /\ CaptureDmi
     \/ CaptureOther
  /\ passed' = 0
  /\ UNCHANGED <<ir, dmi, rti_remaining, idle>>

\* Mutant: the waiting time is not set.
PassOn_NoWait ==
  /\ dmi' \in IF dr \in {"read", "write"} THEN {"success", "failed"} ELSE {"success"}
  /\ passed' = IF passed < 2 THEN passed + 1 ELSE 2
  /\ idle' = 0
  /\ UNCHANGED <<ir, dr, busy_stuck, shown, rti_remaining>>

\* update_dr with IR_DBUS: the debug module carries the request out.
PassOn ==
  /\ dmi' \in IF dr \in {"read", "write"} THEN {"success", "failed"} ELSE {"success"}
  /\ rti_remaining' = RequiredRti
  /\ passed' = IF passed < 2 THEN passed + 1 ELSE 2
  /\ idle' = 0
  /\ UNCHANGED <<ir, dr, busy_stuck, shown>>

\* update_dr.  A hard reset also moves the TAP.
UpdateDr ==
  \/ /\ ir = "DTMCONTROL" /\ dr = "dmihardreset"
     /\ _state' = "TEST_LOGIC_RESET"
     /\ busy_stuck' = FALSE /\ rti_remaining' = 0 /\ dmi' = "success"
     /\ idle' = RequiredRti
     /\ UNCHANGED <<ir, dr, shown, passed>>
  \/ /\ ir = "DTMCONTROL" /\ dr = "dmireset"
     /\ busy_stuck' = FALSE
     /\ UNCHANGED <<_state, ir, dr, dmi, rti_remaining, scanVars>>
  \/ ir = "DBUS" /\ ~busy_stuck /\ PassOn /\ UNCHANGED _state
  \/ /\ \/ ir \in {"IDCODE", "BYPASS", "unsupported"}
        \/ ir = "DTMCONTROL" /\ dr \notin {"dmireset", "dmihardreset"}
        \/ ir = "DBUS" /\ busy_stuck
     /\ UNCHANGED <<_state, ir, dr, dmi, rti_remaining, busy_stuck, scanVars>>

\* The hart's side of Run-Test/Idle, debug_module_t::run_test_idle, is DebugModule's.
DtmRunTestIdle ==
  /\ rti_remaining' = IF rti_remaining > 0 THEN rti_remaining - 1 ELSE 0
  /\ idle' = IF idle < RequiredRti THEN idle + 1 ELSE idle
  /\ UNCHANGED <<ir, dr, dmi, busy_stuck, shown, passed>>

\* The other branch of set_pins: the falling edge, or no edge at all
NoRisingEdge ==
  /\ \/ _state = "RUN_TEST_IDLE" /\ DtmRunTestIdle /\ UNCHANGED _state
     \/ /\ _state = "TEST_LOGIC_RESET"
        /\ ir' = "IDCODE"
        /\ UNCHANGED <<_state, dr, dmi, rti_remaining, busy_stuck, scanVars>>
     \/ _state = "CAPTURE_DR" /\ CaptureDr /\ UNCHANGED _state
     \/ _state = "UPDATE_DR" /\ UpdateDr
     \/ /\ _state \notin {"RUN_TEST_IDLE", "TEST_LOGIC_RESET", "CAPTURE_DR", "UPDATE_DR"}
        /\ UNCHANGED <<_state, ir, dr, dmi, rti_remaining, busy_stuck, scanVars>>
  /\ UNCHANGED ones

SetPins(tck, tms) ==
  /\ EdgesOnly => tck # _tck
  /\ IF ~_tck /\ tck THEN RisingEdge ELSE NoRisingEdge
  /\ _tck' = tck /\ _tms' = tms

\* reset(), by the 'r' command of remote_bitbang
ResetDtm ==
  /\ _state' = "TEST_LOGIC_RESET"
  /\ busy_stuck' = FALSE /\ rti_remaining' = 0 /\ dmi' = "success"
  /\ idle' = RequiredRti
  /\ UNCHANGED <<_tck, _tms, ir, dr, shown, passed, ones>>

JtagNext == ResetDtm \/ \E tck, tms \in BOOLEAN : SetPins(tck, tms)

JtagSpec == JtagInit /\ [][JtagNext]_jtagVars

----------------------------------------------------------------------------
\* Five clocks with TMS one bring the controller to Test-Logic-Reset, wherever
\* it was: how a debugger that knows nothing of the state synchronises.
FiveOnesReset == ones = 5 => _state = "TEST_LOGIC_RESET"

\* Within a scan of the DMI register the debugger knows whether its request
\* will be carried out: it will not, exactly if the status the same scan shifted
\* out was busy.
BusyIsShown ==
  _state \in DrScan /\ ir = "DBUS" /\ passed = 0 => (shown = "busy") = busy_stuck

\* A request is passed on only after the debug module had the idle cycles that
\* the previous one needs.
RequestsAreSpaced ==
  [][passed' > passed => idle = RequiredRti]_jtagVars

\* set_pins says of its second branch "Negative clock edge. TDO is updated."
\* So a scan is carried out once, on the falling edge in Update-DR.
OncePerScan == passed < 2
=============================================================================
