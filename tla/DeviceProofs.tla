---------------------------- MODULE DeviceProofs ----------------------------
(***************************************************************************)
(* The devices around the harts.  First the JTAG port with the debug bus   *)
(* behind it, then the interrupt controller with the serial port.  The two *)
(* halves share no state and no lemma.                                     *)
(***************************************************************************)
EXTENDS JtagDtm, DebugBus, Uart, WellFoundedInduction, TLAPS

-----------------------------------------------------------------------------
(* The TAP controller. *)

\* How many clocks with TMS one bring each state to Test-Logic-Reset.
OnesToReset ==
  [TEST_LOGIC_RESET |-> 0, SELECT_IR_SCAN |-> 1, SELECT_DR_SCAN |-> 2,
   RUN_TEST_IDLE |-> 3, UPDATE_DR |-> 3, UPDATE_IR |-> 3,
   EXIT1_DR |-> 4, EXIT2_DR |-> 4, EXIT1_IR |-> 4, EXIT2_IR |-> 4,
   CAPTURE_DR |-> 5, SHIFT_DR |-> 5, PAUSE_DR |-> 5,
   CAPTURE_IR |-> 5, SHIFT_IR |-> 5, PAUSE_IR |-> 5]

NearReset == OnesToReset[_state] + ones <= 5

\* The sixteen states of the controller.
LEMMA TapStatesAre ==
  TapStates = {"TEST_LOGIC_RESET", "RUN_TEST_IDLE", "SELECT_DR_SCAN", "CAPTURE_DR", "SHIFT_DR",
               "EXIT1_DR", "PAUSE_DR", "EXIT2_DR", "UPDATE_DR", "SELECT_IR_SCAN", "CAPTURE_IR",
               "SHIFT_IR", "EXIT1_IR", "PAUSE_IR", "EXIT2_IR", "UPDATE_IR"}
BY DEF TapStates, NextTable

\* A clock with TMS one brings every state one nearer, and none leaves the table.
LEMMA TapNextNears ==
  ASSUME NEW s \in TapStates
  PROVE  /\ \A one \in BOOLEAN : TapNext(s, one) \in TapStates
         /\ OnesToReset[s] \in 0 .. 5
         /\ OnesToReset[s] = 0 <=> s = "TEST_LOGIC_RESET"
         /\ OnesToReset[TapNext(s, TRUE)] < OnesToReset[s] \/ OnesToReset[TapNext(s, TRUE)] = 0
BY TapStatesAre DEF TapNext, NextTable, OnesToReset

\* Which states lead into and through a scan of the data register.
LEMMA TapScans ==
  ASSUME NEW s \in TapStates, NEW one \in BOOLEAN
  PROVE  /\ TapNext(s, one) \in DrScan => s \in {"CAPTURE_DR"} \cup (DrScan \ {"UPDATE_DR"})
         /\ s = "UPDATE_DR" => TapNext(s, one) \notin DrScan \cup {"CAPTURE_DR"}
BY TapStatesAre DEF TapNext, NextTable, DrScan

-----------------------------------------------------------------------------
\* The present scan of the data register has captured its value.
Captured == _state \in DrScan \/ (_state = "CAPTURE_DR" /\ ~_tck)

\* What the debugger has been shown decides what becomes of its request, and a
\* request that is not dropped had its idle cycles.
ScanInv ==
  Captured /\ ir = "DBUS" /\ passed = 0 =>
    /\ (shown = "busy") = busy_stuck
    /\ ~busy_stuck => idle = RequiredRti

\* The idle cycles since the last request and the ones still due.
IdleInv == idle + rti_remaining >= RequiredRti

\* Nothing is passed on before the update, and by a client that changes the
\* clock with every call not before its falling edge.
PassedInv ==
  /\ Captured /\ _state # "UPDATE_DR" => passed = 0
  /\ EdgesOnly => passed < 2
  /\ EdgesOnly /\ _state = "UPDATE_DR" /\ _tck => passed = 0

JtagInv == JtagTypeOK /\ NearReset /\ ScanInv /\ IdleInv /\ PassedInv

\* The constructor's state satisfies it, whatever the uninitialised fields hold.
LEMMA JtagInitInv == JtagInit => JtagInv
  <1> SUFFICES ASSUME JtagInit PROVE JtagInv
    OBVIOUS
  <1>1. _state \in TapStates
    BY TapStatesAre DEF JtagInit
  <1>2. JtagTypeOK
    <2>1. _tck \in BOOLEAN /\ _tms \in BOOLEAN
      BY Zenon DEF JtagInit
    <2>2. dmi \in {"success", "failed"} /\ shown \in {"none", "busy", "dmi", "other"}
      BY DEF JtagInit
    <2>3. passed \in 0 .. 2 /\ idle \in 0 .. RequiredRti /\ ones \in 0 .. 5
      BY JtagAssumption DEF JtagInit
    <2> QED
      BY <1>1, <2>1, <2>2, <2>3, Zenon DEF JtagInit, JtagTypeOK
  <1>3. NearReset
    <2>1. OnesToReset[_state] = 0 /\ ones = 0
      BY DEF JtagInit, OnesToReset
    <2> QED
      BY <2>1 DEF NearReset
  <1>4. ~Captured /\ _state # "UPDATE_DR" /\ passed = 0
    BY DEF JtagInit, Captured, DrScan
  <1>5. ScanInv /\ PassedInv
    BY <1>4 DEF ScanInv, PassedInv
  <1>6. IdleInv
    BY JtagAssumption DEF JtagInit, IdleInv
  <1> QED
    BY <1>2, <1>3, <1>5, <1>6 DEF JtagInv

\* A rising edge moves the controller and shifts, and does nothing else.
LEMMA RisingEdgeKeeps ==
  ASSUME JtagInv, RisingEdge, ~_tck, _tck' = TRUE, _tms' \in BOOLEAN
  PROVE  JtagInv'
  <1> USE DEF JtagInv
  <1>1. _state \in TapStates /\ _tms \in BOOLEAN /\ ones \in 0 .. 5
    BY DEF JtagTypeOK
  <1>2. _state' = TapNext(_state, _tms) /\ _state' \in TapStates
    BY <1>1, TapNextNears DEF RisingEdge
  <1>3. JtagTypeOK'
    BY <1>2 DEF RisingEdge, JtagTypeOK, scanVars
  <1>4. NearReset'
    <2>1. OnesToReset[_state] \in 0 .. 5 /\ OnesToReset[_state'] \in 0 .. 5
      BY <1>1, <1>2, TapNextNears
    <2>2. CASE ~_tms
      BY <2>1, <2>2 DEF RisingEdge, NearReset
    <2>3. CASE _tms = TRUE
      <3>1. OnesToReset[_state'] < OnesToReset[_state] \/ OnesToReset[_state'] = 0
        BY <1>1, <1>2, <2>3, TapNextNears
      <3>2. ones' \in 0 .. 5 /\ ones' <= ones + 1
        BY <1>1, <2>3 DEF RisingEdge
      <3> QED
        BY <1>1, <2>1, <3>1, <3>2 DEF NearReset
    <2> QED
      BY <1>1, <2>2, <2>3
  <1>5. UNCHANGED <<dmi, rti_remaining, busy_stuck, shown, passed, idle>>
    BY DEF RisingEdge, scanVars
  <1>6. Captured' => Captured /\ _state # "UPDATE_DR"
    BY <1>1, <1>2, TapScans DEF Captured, DrScan
  <1>7. Captured' => ir' = ir
    BY <1>6 DEF RisingEdge, Captured, DrScan
  <1>8. ScanInv' /\ IdleInv'
    BY <1>5, <1>6, <1>7 DEF ScanInv, IdleInv
  <1>9. PassedInv'
    BY <1>2, <1>5, <1>6 DEF PassedInv, Captured, DrScan
  <1> QED
    BY <1>3, <1>4, <1>8, <1>9

\* Nor does a step that leaves the controller's registers alone disturb it.
LEMMA NothingKeeps ==
  ASSUME JtagInv, ~(~_tck /\ _tck'), _tck' \in BOOLEAN, _tms' \in BOOLEAN,
         UNCHANGED <<_state, dr, dmi, rti_remaining, busy_stuck, scanVars, ones>>,
         ir' \in IRs, ir' = ir \/ ~Captured',
         _state # "CAPTURE_DR"
  PROVE  JtagInv'
  <1> USE DEF JtagInv, scanVars
  <1>1. JtagTypeOK' /\ NearReset' /\ IdleInv'
    BY DEF JtagTypeOK, NearReset, IdleInv
  <1>2. Captured' => Captured
    BY DEF Captured
  <1>3. ScanInv' /\ PassedInv'
    BY <1>2 DEF ScanInv, PassedInv, JtagTypeOK
  <1> QED
    BY <1>1, <1>3

\* Capturing shows whether the request of this scan will be dropped.
LEMMA CaptureDrKeeps ==
  ASSUME JtagInv, _state = "CAPTURE_DR", CaptureDr, UNCHANGED <<_state, ones>>,
         _tck' \in BOOLEAN, _tms' \in BOOLEAN
  PROVE  JtagInv'
  <1> USE DEF JtagInv
  <1>1. UNCHANGED <<_state, ones, ir, dmi, rti_remaining, idle>> /\ passed' = 0
    BY DEF CaptureDr
  <1>5. ASSUME dr' \in Contents, busy_stuck' \in BOOLEAN, shown' \in {"busy", "dmi", "other"}, ScanInv'
        PROVE  JtagInv'
    BY <1>1, <1>5 DEF JtagTypeOK, NearReset, IdleInv, PassedInv
  <1>2. CASE TooEarly /\ CaptureBusy
    <2>1. dr' \in Contents /\ busy_stuck' = TRUE /\ shown' = "busy"
      BY <1>2 DEF CaptureBusy, Contents
    <2>2. (shown' = "busy") = busy_stuck'
      BY <2>1, Zenon
    <2> QED
      BY <1>1, <1>5, <2>1, <2>2 DEF ScanInv, JtagTypeOK
  <1>3. CASE ~TooEarly /\ CaptureDmi
    <2>1. dr' \in Contents /\ shown' = "dmi" /\ busy_stuck' = busy_stuck
      BY <1>3 DEF CaptureDmi, Contents
    <2>2. idle' = RequiredRti /\ ~busy_stuck'
      BY <1>1, <1>3, <2>1, JtagAssumption DEF JtagTypeOK, IdleInv, TooEarly
    <2>3. (shown' = "busy") = busy_stuck' /\ busy_stuck' \in BOOLEAN
      BY <2>1, <2>2 DEF JtagTypeOK
    <2> QED
      BY <1>5, <2>1, <2>2, <2>3 DEF ScanInv
  <1>4. CASE CaptureOther
    <2>1. dr' \in Contents /\ shown' = "other" /\ busy_stuck' \in BOOLEAN /\ ir' # "DBUS"
      BY <1>1, <1>4 DEF CaptureOther, JtagTypeOK
    <2> QED
      BY <1>5, <2>1 DEF ScanInv
  <1> QED
    BY <1>2, <1>3, <1>4 DEF CaptureDr

\* A reset of the transport, by the debugger or by the client, ends the scan.
LEMMA ResetKeeps ==
  ASSUME JtagInv, _state' = "TEST_LOGIC_RESET", busy_stuck' = FALSE, rti_remaining' = 0,
         dmi' = "success", idle' = RequiredRti, UNCHANGED <<ir, dr, shown, passed, ones>>,
         _tck' \in BOOLEAN, _tms' \in BOOLEAN
  PROVE  JtagInv'
  <1> USE DEF JtagInv
  <1>1. _state' \in TapStates /\ OnesToReset[_state'] = 0
    BY TapStatesAre DEF OnesToReset
  <1>2. ~Captured' /\ _state' # "UPDATE_DR"
    BY DEF Captured, DrScan
  <1>3. NearReset'
    BY <1>1 DEF NearReset, JtagTypeOK
  <1>4. IdleInv'
    BY JtagAssumption DEF IdleInv
  <1>5. ScanInv' /\ PassedInv'
    BY <1>2 DEF ScanInv, PassedInv
  <1>6. busy_stuck' \in BOOLEAN
    BY Zenon
  <1>7. JtagTypeOK'
    BY <1>1, <1>6, JtagAssumption DEF JtagTypeOK
  <1> QED
    BY <1>3, <1>4, <1>5, <1>7

\* An update hands at most one request to the debug module, which had its time.
LEMMA UpdateDrKeeps ==
  ASSUME JtagInv, _state = "UPDATE_DR", UpdateDr, UNCHANGED ones,
         _tck' \in BOOLEAN, _tms' \in BOOLEAN, ~(~_tck /\ _tck'), EdgesOnly => _tck' # _tck
  PROVE  JtagInv'
  <1>1. CASE ir = "DTMCONTROL" /\ dr = "dmihardreset"
    BY <1>1, ResetKeeps DEF UpdateDr
  <1>2. CASE /\ busy_stuck' = FALSE /\ ir = "DTMCONTROL"
             /\ UNCHANGED <<_state, ir, dr, dmi, rti_remaining, scanVars>>
    <2>1. busy_stuck' \in BOOLEAN
      BY <1>2, Zenon
    <2>2. JtagTypeOK' /\ NearReset' /\ IdleInv'
      BY <1>2, <2>1 DEF JtagInv, JtagTypeOK, NearReset, IdleInv, scanVars
    <2>3. ScanInv'
      BY <1>2 DEF ScanInv
    <2>4. PassedInv'
      BY <1>2 DEF JtagInv, PassedInv, Captured, scanVars, JtagTypeOK
    <2> QED
      BY <2>2, <2>3, <2>4 DEF JtagInv
  <1>3. CASE ir = "DBUS" /\ ~busy_stuck /\ PassOn /\ UNCHANGED _state
    <2>1. dmi' \in {"success", "failed"} /\ rti_remaining' = RequiredRti /\ idle' = 0
      BY <1>3 DEF PassOn
    <2>2. passed' \in 1 .. 2 /\ (passed = 0 => passed' = 1)
      BY <1>3 DEF PassOn, JtagInv, JtagTypeOK
    <2>3. UNCHANGED <<_state, ones, ir, dr, busy_stuck, shown>>
      BY <1>3 DEF PassOn
    <2>4. JtagTypeOK'
      BY <2>1, <2>2, <2>3, JtagAssumption DEF JtagInv, JtagTypeOK
    <2>5. NearReset' /\ IdleInv' /\ ScanInv'
      BY <2>1, <2>2, <2>3, JtagAssumption DEF JtagInv, NearReset, IdleInv, ScanInv
    <2>6. EdgesOnly => _tck /\ ~_tck' /\ passed = 0
      BY DEF JtagInv, JtagTypeOK, PassedInv
    <2>7. PassedInv'
      BY <2>2, <2>3, <2>6 DEF PassedInv
    <2> QED
      BY <2>4, <2>5, <2>7 DEF JtagInv
  <1>4. CASE UNCHANGED <<_state, ir, dr, dmi, rti_remaining, busy_stuck, scanVars>>
    BY <1>4, NothingKeeps DEF JtagInv, JtagTypeOK
  <1> QED
    BY <1>1, <1>2, <1>3, <1>4 DEF UpdateDr

\* A Run-Test/Idle cycle turns a cycle due into a cycle spent.
LEMMA IdleKeeps ==
  ASSUME JtagInv, _state = "RUN_TEST_IDLE", DtmRunTestIdle, UNCHANGED <<_state, ones>>,
         _tck' \in BOOLEAN, _tms' \in BOOLEAN
  PROVE  JtagInv'
  <1> USE DEF JtagInv
  <1>1. UNCHANGED <<_state, ones, ir, dr, dmi, busy_stuck, shown, passed>>
    BY DEF DtmRunTestIdle
  <1>2. /\ rti_remaining' \in 0 .. RequiredRti /\ idle' \in 0 .. RequiredRti
        /\ idle' + rti_remaining' >= RequiredRti
    BY JtagAssumption DEF DtmRunTestIdle, JtagTypeOK, IdleInv
  <1>3. ~Captured' /\ _state' # "UPDATE_DR"
    BY <1>1 DEF Captured, DrScan
  <1>4. ScanInv' /\ PassedInv'
    BY <1>1, <1>3 DEF ScanInv, PassedInv
  <1> QED
    BY <1>1, <1>2, <1>4 DEF JtagTypeOK, NearReset, IdleInv

\* Every call of set_pins and every reset keeps the invariant.
LEMMA JtagStep == JtagInv /\ [JtagNext]_jtagVars => JtagInv'
  <1> SUFFICES ASSUME JtagInv, [JtagNext]_jtagVars PROVE JtagInv'
    OBVIOUS
  <1>1. CASE ResetDtm
    BY <1>1, ResetKeeps DEF ResetDtm, JtagInv, JtagTypeOK
  <1>2. ASSUME NEW tck \in BOOLEAN, NEW tms \in BOOLEAN, SetPins(tck, tms) PROVE JtagInv'
    <2>1. _tck' \in BOOLEAN /\ _tms' \in BOOLEAN /\ _tck' = tck
      BY <1>2 DEF SetPins
    <2>2. CASE ~_tck /\ tck
      BY <1>2, <2>1, <2>2, RisingEdgeKeeps DEF SetPins
    <2>3. CASE ~(~_tck /\ tck)
      <3>1. NoRisingEdge /\ UNCHANGED ones
        BY <1>2, <2>3 DEF SetPins, NoRisingEdge
      <3>2. EdgesOnly => _tck' # _tck
        BY <1>2, <2>1 DEF SetPins
      <3>3. CASE _state = "RUN_TEST_IDLE"
        BY <2>1, <3>1, <3>3, IdleKeeps DEF NoRisingEdge
      <3>4. CASE _state = "TEST_LOGIC_RESET"
        <4>1. ~Captured' /\ ir' \in IRs
          BY <3>1, <3>4 DEF NoRisingEdge, Captured, DrScan, IRs
        <4> QED
          BY <2>1, <2>3, <3>1, <3>4, <4>1, NothingKeeps DEF NoRisingEdge
      <3>5. CASE _state = "CAPTURE_DR"
        BY <2>1, <3>1, <3>5, CaptureDrKeeps DEF NoRisingEdge
      <3>6. CASE _state = "UPDATE_DR"
        BY <2>1, <2>3, <3>1, <3>2, <3>6, UpdateDrKeeps DEF NoRisingEdge
      <3>7. CASE _state \notin {"RUN_TEST_IDLE", "TEST_LOGIC_RESET", "CAPTURE_DR", "UPDATE_DR"}
        BY <2>1, <2>3, <3>1, <3>7, NothingKeeps DEF NoRisingEdge, JtagInv, JtagTypeOK
      <3> QED
        BY <3>3, <3>4, <3>5, <3>6, <3>7
    <2> QED
      BY <2>2, <2>3
  <1>3. CASE UNCHANGED jtagVars
    BY <1>3 DEF jtagVars, JtagInv, JtagTypeOK, NearReset, IdleInv, ScanInv, PassedInv, Captured
  <1> QED
    BY <1>1, <1>2, <1>3 DEF JtagNext

\* So it holds always.
LEMMA JtagAlways == JtagSpec => []JtagInv
  BY JtagInitInv, JtagStep, PTL DEF JtagSpec

\* Five clocks with TMS one reset the controller from anywhere, for every client
\* (the table of transitions, jtag_dtm.cc:60-78).
THEOREM TapResets == JtagSpec => []FiveOnesReset
  <1>1. JtagInv => FiveOnesReset
    <2> SUFFICES ASSUME JtagInv, ones = 5 PROVE _state = "TEST_LOGIC_RESET"
      BY DEF FiveOnesReset
    <2>1. OnesToReset[_state] \in 0 .. 5 /\ (OnesToReset[_state] = 0 => _state = "TEST_LOGIC_RESET")
      BY TapNextNears DEF JtagInv, JtagTypeOK
    <2> QED
      BY <2>1 DEF JtagInv, NearReset
  <1> QED
    BY <1>1, JtagAlways, PTL

\* A scan shows busy exactly if its request will be dropped, for every number of
\* idle cycles and every client (capture_dr and update_dr, jtag_dtm.cc:134-204).
THEOREM BusyShown == JtagSpec => []BusyIsShown
  <1>1. JtagInv => BusyIsShown
    BY DEF JtagInv, ScanInv, BusyIsShown, Captured
  <1> QED
    BY <1>1, JtagAlways, PTL

\* A client that changes the clock with every call has each request carried out
\* once, and only after the idle cycles the one before it needs
\* (jtag_dtm.cc:176-203).
THEOREM RequestsSpaced ==
  ASSUME EdgesOnly
  PROVE  JtagSpec => RequestsAreSpaced /\ []OncePerScan
  <1>1. JtagInv /\ [JtagNext]_jtagVars => [passed' > passed => idle = RequiredRti]_jtagVars
    <2> SUFFICES ASSUME JtagInv, JtagNext, passed' > passed PROVE idle = RequiredRti
      OBVIOUS
    <2>0. passed \in 0 .. 2
      BY DEF JtagInv, JtagTypeOK
    <2>1. PICK tck \in BOOLEAN, tms \in BOOLEAN : SetPins(tck, tms)
      BY <2>0 DEF JtagNext, ResetDtm
    <2>2. NoRisingEdge /\ ~(~_tck /\ tck) /\ tck # _tck
      BY <2>0, <2>1 DEF SetPins, RisingEdge, scanVars
    <2>3. _state = "UPDATE_DR" /\ UpdateDr
      BY <2>0, <2>2 DEF NoRisingEdge, DtmRunTestIdle, CaptureDr, scanVars
    <2>4. ir = "DBUS" /\ ~busy_stuck
      BY <2>0, <2>3 DEF UpdateDr, scanVars
    <2>5. _tck
      BY <2>1, <2>2 DEF JtagInv, JtagTypeOK
    <2>6. passed = 0
      BY <2>3, <2>5 DEF JtagInv, PassedInv
    <2> QED
      BY <2>3, <2>4, <2>6 DEF JtagInv, ScanInv, Captured, DrScan
  <1>2. JtagInv => OncePerScan
    BY DEF JtagInv, PassedInv, OncePerScan
  <1> QED
    BY <1>1, <1>2, JtagAlways, PTL DEF JtagSpec, RequestsAreSpaced

-----------------------------------------------------------------------------
(* System bus access: the address register as one number. *)

\* What the arithmetic below needs of the base of a limb.
LEMMA LimbBaseType == LimbBase \in Int /\ LimbBase > 1 /\ LimbBase \in Nat
  BY BusAssumption

\* Division by the base splits a number into its carry and its limb.
LEMMA CarryAndLimb ==
  ASSUME NEW v \in Nat
  PROVE  /\ v = LimbBase * (v \div LimbBase) + (v % LimbBase)
         /\ v % LimbBase \in Limb
         /\ v \div LimbBase \in Nat
  <1>1. v \in Int /\ v = LimbBase * (v \div LimbBase) + (v % LimbBase)
    BY LimbBaseType
  <1>2. v % LimbBase \in 0 .. LimbBase - 1
    BY LimbBaseType
  <1>3. v \div LimbBase \in Nat
    BY LimbBaseType
  <1> QED
    BY <1>1, <1>2, <1>3 DEF Limb

\* A remainder is determined by any such split.
LEMMA RemainderUnique ==
  ASSUME NEW s \in Nat \ {0}, NEW q \in Nat, NEW r \in 0 .. s - 1
  PROVE  (s * q + r) % s = r
  OBVIOUS

\* One limb more multiplies the range by the base.
LEMMA LimbExtends ==
  ASSUME NEW r \in Limb, NEW y \in Nat, NEW x \in 0 .. y - 1
  PROVE  r + LimbBase * x \in 0 .. LimbBase * y - 1 /\ LimbBase * y \in Nat
  <1>1. LimbBase * (y - x - 1) >= 0 /\ LimbBase * x >= 0
    BY LimbBaseType
  <1>2. LimbBase * y = LimbBase * (y - x - 1) + LimbBase * x + LimbBase
    BY LimbBaseType
  <1> QED
    BY <1>1, <1>2, LimbBaseType DEF Limb

\* Four limbs are a number of the address space.
LEMMA WholeType ==
  ASSUME NEW a \in [0 .. 3 -> Limb]
  PROVE  Whole(a) \in 0 .. Space - 1
  <1>0. a[0] \in Limb /\ a[1] \in Limb /\ a[2] \in Limb /\ a[3] \in Limb
    OBVIOUS
  <1> DEFINE B == LimbBase
  <1>1. a[3] \in 0 .. B - 1 /\ B \in Nat
    BY <1>0, LimbBaseType DEF Limb
  <1>2. a[2] + B * a[3] \in 0 .. B * B - 1 /\ B * B \in Nat
    BY <1>0, <1>1, LimbExtends
  <1>3. a[1] + B * (a[2] + B * a[3]) \in 0 .. B * (B * B) - 1 /\ B * (B * B) \in Nat
    BY <1>0, <1>2, LimbExtends
  <1>4. a[0] + B * (a[1] + B * (a[2] + B * a[3])) \in 0 .. B * (B * (B * B)) - 1
    BY <1>0, <1>3, LimbExtends
  <1>5. B * (B * (B * B)) = Space
    BY LimbBaseType DEF Space
  <1> QED
    BY <1>4, <1>5 DEF Whole

\* The carries of sb_autoincrement add to the four limbs as to one number,
\* modulo the address space (debug_module.cc:286).
LEMMA IncrementAdds ==
  ASSUME NEW a \in [0 .. 3 -> Limb], NEW bytes \in Nat
  PROVE  /\ sb_autoincrement(a, bytes) \in [0 .. 3 -> Limb]
         /\ Whole(sb_autoincrement(a, bytes)) = (Whole(a) + bytes) % Space
  <1> DEFINE B == LimbBase
             v0 == a[0] + bytes
             v1 == a[1] + v0 \div B
             v2 == a[2] + v1 \div B
             v3 == a[3] + v2 \div B
             sum == sb_autoincrement(a, bytes)
  <1>0. a[0] \in Nat /\ a[1] \in Nat /\ a[2] \in Nat /\ a[3] \in Nat
    BY LimbBaseType DEF Limb
  <1>1. v0 \in Nat /\ v0 = B * (v0 \div B) + (v0 % B) /\ v0 % B \in Limb /\ v0 \div B \in Nat
    BY <1>0, CarryAndLimb
  <1>2. v1 \in Nat /\ v1 = B * (v1 \div B) + (v1 % B) /\ v1 % B \in Limb /\ v1 \div B \in Nat
    <2> HIDE DEF v0
    <2> QED
      BY <1>0, <1>1, CarryAndLimb
  <1>3. v2 \in Nat /\ v2 = B * (v2 \div B) + (v2 % B) /\ v2 % B \in Limb /\ v2 \div B \in Nat
    <2> HIDE DEF v1
    <2> QED
      BY <1>0, <1>2, CarryAndLimb
  <1>4. v3 \in Nat /\ v3 = B * (v3 \div B) + (v3 % B) /\ v3 % B \in Limb /\ v3 \div B \in Nat
    <2> HIDE DEF v2
    <2> QED
      BY <1>0, <1>3, CarryAndLimb
  <1>5. sum = [i \in 0 .. 3 |-> <<v0, v1, v2, v3>>[i + 1] % B]
    BY DEF sb_autoincrement
  <1>6. sum[0] = v0 % B /\ sum[1] = v1 % B /\ sum[2] = v2 % B /\ sum[3] = v3 % B
    <2> HIDE DEF v0, v1, v2, v3, sum
    <2> QED
      BY <1>5
  <1>7. sum \in [0 .. 3 -> Limb]
    <2> HIDE DEF v0, v1, v2, v3, sum
    <2>1. \A i \in 0 .. 3 : sum[i] \in Limb
      BY <1>1, <1>2, <1>3, <1>4, <1>6
    <2> QED
      BY <1>5, <2>1
  <1>8. Whole(a) + bytes = Space * (v3 \div B) + Whole(sum)
    <2> DEFINE c0 == v0 \div B  c1 == v1 \div B  c2 == v2 \div B  c3 == v3 \div B
    <2>1. c0 \in Nat /\ c1 \in Nat /\ c2 \in Nat /\ c3 \in Nat
      BY <1>1, <1>2, <1>3, <1>4
    <2>2. sum[0] \in Nat /\ sum[1] \in Nat /\ sum[2] \in Nat /\ sum[3] \in Nat
      BY <1>7, LimbBaseType DEF Limb
    <2>3. a[0] + bytes = B * c0 + sum[0]
      BY <1>1, <1>6
    <2>4. a[1] + c0 = B * c1 + sum[1]
      BY <1>2, <1>6
    <2>5. a[2] + c1 = B * c2 + sum[2]
      BY <1>3, <1>6
    <2>6. a[3] + c2 = B * c3 + sum[3]
      BY <1>4, <1>6
    <2> HIDE DEF v0, v1, v2, v3, sum, c0, c1, c2, c3
    <2>7. B * (a[3] + c2) = B * (B * c3 + sum[3])
      BY <2>6
    <2>8. a[2] + B * a[3] + c1 = B * (B * c3 + sum[3]) + sum[2]
      BY <1>0, <2>1, <2>2, <2>5, <2>7, LimbBaseType
    <2>9. B * (a[2] + B * a[3]) + B * c1 = B * (B * (B * c3 + sum[3]) + sum[2])
      BY <1>0, <2>1, <2>2, <2>8, LimbBaseType
    <2>10. a[1] + B * (a[2] + B * a[3]) + c0 = B * (B * (B * c3 + sum[3]) + sum[2]) + sum[1]
      <3> DEFINE l == B * (a[2] + B * a[3])  r == B * (B * (B * c3 + sum[3]) + sum[2])  c == B * c1
      <3>1. l \in Int /\ r \in Int /\ c \in Int
        BY <1>0, <2>1, <2>2, LimbBaseType
      <3>2. l + c = r /\ a[1] + c0 = c + sum[1]
        BY <2>4, <2>9
      <3> HIDE DEF l, r, c
      <3>3. a[1] + l + c0 = r + sum[1]
        BY <1>0, <2>1, <2>2, <3>1, <3>2
      <3> QED
        BY <3>3 DEF l, r
    <2>11. B * (a[1] + B * (a[2] + B * a[3])) + B * c0
             = B * (B * (B * (B * c3 + sum[3]) + sum[2]) + sum[1])
      BY <1>0, <2>1, <2>2, <2>10, LimbBaseType
    <2>12. a[0] + B * (a[1] + B * (a[2] + B * a[3])) + bytes
             = B * (B * (B * (B * c3 + sum[3]) + sum[2]) + sum[1]) + sum[0]
      BY <1>0, <2>1, <2>2, <2>3, <2>11, LimbBaseType
    <2>13. B * (B * (B * (B * c3 + sum[3]) + sum[2]) + sum[1]) + sum[0]
             = (B * B * B * B) * c3 + (sum[0] + B * (sum[1] + B * (sum[2] + B * sum[3])))
      BY <2>1, <2>2, LimbBaseType
    <2> QED
      BY <2>12, <2>13 DEF Whole, Space, c3
  <1>9. Whole(sum) \in 0 .. Space - 1 /\ Space \in Nat \ {0}
    <2> HIDE DEF sum
    <2>1. Whole(sum) \in 0 .. Space - 1
      BY <1>7, WholeType
    <2>2. Space \in Nat
      BY LimbBaseType DEF Space
    <2> QED
      BY <2>1, <2>2
  <1>10. (Whole(a) + bytes) % Space = Whole(sum)
    <2> DEFINE q == v3 \div B
    <2>1. q \in Nat
      BY <1>4
    <2> HIDE DEF q, sum, v0, v1, v2, v3
    <2> QED
      BY <1>8, <1>9, <2>1, RemainderUnique DEF q
  <1> QED
    BY <1>7, <1>10

-----------------------------------------------------------------------------
(* System bus access: the access done is the one asked for. *)

\* The access that the registers describe.
Pending(kind) ==
  [kind |-> kind, access |-> sbcs.sbaccess, address |-> BusAddress(sbaddress),
   data |-> IF kind = "write" THEN sbdata ELSE 0]

\* While an access waits, the registers still describe what was asked for.
WaitingInv ==
  /\ sb_read_wait > 0 => asked = Pending("read")
  /\ sb_write_wait > 0 => asked = Pending("write")

BusInv == BusTypeOK /\ AddressAdvances
RequestInv == AccessAsRequested /\ WaitingInv

\* The bytes of an access are a number, for every width.
LEMMA BytesType == \A n \in 0 .. 4 : Bytes[n] \in Nat
  BY DEF Bytes

\* Both invariants hold after the module's reset.
LEMMA BusInitInv == BusInit => BusInv /\ RequestInv
  <1> SUFFICES ASSUME BusInit PROVE BusInv /\ RequestInv
    OBVIOUS
  <1>1. sbaddress = [i \in 0 .. 3 |-> 0] /\ 0 \in Limb
    BY LimbBaseType DEF BusInit, Limb
  <1>2. sbaddress \in [0 .. 3 -> Limb]
    BY <1>1
  <1>3. sbcs \in SbcsValues
    BY DEF BusInit, ResetSbcs, SbcsValues
  <1>4. BusTypeOK
    BY <1>2, <1>3, BusAssumption DEF BusInit, BusTypeOK
  <1>5. AddressAdvances
    <2>1. sbaddress[0] = 0 /\ sbaddress[1] = 0 /\ sbaddress[2] = 0 /\ sbaddress[3] = 0
      BY <1>1
    <2>2. Whole(sbaddress) = 0
      BY <2>1, LimbBaseType DEF Whole
    <2> QED
      BY <2>2 DEF BusInit, AddressAdvances
  <1>6. RequestInv
    BY DEF BusInit, RequestInv, AccessAsRequested, WaitingInv, sb_busy
  <1> QED
    BY <1>4, <1>5, <1>6 DEF BusInv

\* A DMI access that finds the bus busy changes nothing but the error bit.
LEMMA BusyErrorKeeps ==
  ASSUME BusInv, BusyError, NoAccess, UNCHANGED <<sbaddress, sbdata, served, expected>>
  PROVE  BusInv' /\ (RequestInv => RequestInv')
  <1>1. /\ sbcs' \in SbcsValues
        /\ sbcs'.sbaccess = sbcs.sbaccess
    BY DEF BusyError, BusInv, BusTypeOK, SbcsValues
  <1>2. BusInv'
    BY <1>1 DEF NoAccess, BusInv, BusTypeOK, AddressAdvances
  <1>3. RequestInv => RequestInv'
    BY <1>1 DEF NoAccess, RequestInv, AccessAsRequested, WaitingInv, Pending, sb_busy
  <1> QED
    BY <1>2, <1>3

\* A read starts with the address as it is now.
LEMMA SbReadStartKeeps ==
  ASSUME BusInv, ~sb_busy, SbReadStart(sbaddress'), sbaddress' \in [0 .. 3 -> Limb],
         expected' = Whole(sbaddress'), UNCHANGED <<sbdata, served>>
  PROVE  BusInv' /\ (RequestInv => RequestInv')
  <1>0. sb_read_wait = 0 /\ sb_write_wait = 0
    BY BusAssumption DEF BusInv, BusTypeOK, sb_busy
  <1>1. CASE MayStart
    <2>1. /\ sb_read_wait' = Delay /\ sb_write_wait' = 0 /\ sbcs' = sbcs
          /\ asked' = [kind |-> "read", access |-> sbcs.sbaccess, data |-> 0,
                       address |-> BusAddress(sbaddress')]
      BY <1>0, <1>1 DEF SbReadStart
    <2>2. BusInv'
      BY <2>1, BusAssumption DEF BusInv, BusTypeOK, AddressAdvances
    <2>3. asked' = Pending("read")'
      BY <2>1 DEF Pending
    <2>4. RequestInv'
      BY <2>1, <2>3, BusAssumption DEF RequestInv, AccessAsRequested, WaitingInv, sb_busy
    <2> QED
      BY <2>2, <2>4
  <1>2. CASE ~MayStart
    <2>1. BusyError /\ NoAccess
      BY <1>2 DEF SbReadStart
    <2>2. sbcs' \in SbcsValues
      BY <2>1 DEF BusyError, BusInv, BusTypeOK, SbcsValues
    <2>3. BusInv'
      BY <2>1, <2>2 DEF NoAccess, BusInv, BusTypeOK, AddressAdvances
    <2> QED
      BY <1>0, <2>1, <2>3 DEF NoAccess, RequestInv, AccessAsRequested, WaitingInv, sb_busy
  <1> QED
    BY <1>1, <1>2

\* A write that is asked for: the request is the one that waits.
LEMMA SbWriteStartKeeps ==
  ASSUME NEW d, BusInv, ~sb_busy, SbWriteStart(d), sbdata' = d,
         UNCHANGED <<sbaddress, served, expected>>
  PROVE  BusInv' /\ (RequestInv => RequestInv')
  <1>0. sb_read_wait = 0 /\ sb_write_wait = 0
    BY BusAssumption DEF BusInv, BusTypeOK, sb_busy
  <1>1. CASE MayStart
    <2>1. /\ sb_write_wait' = Delay /\ sb_read_wait' = 0 /\ sbcs' = sbcs
          /\ asked' = [kind |-> "write", access |-> sbcs.sbaccess, data |-> d,
                       address |-> BusAddress(sbaddress)]
      BY <1>0, <1>1 DEF SbWriteStart
    <2>2. BusInv'
      BY <2>1, BusAssumption DEF BusInv, BusTypeOK, AddressAdvances
    <2>3. asked' = Pending("write")'
      BY <2>1 DEF Pending
    <2>4. RequestInv'
      BY <2>1, <2>3, BusAssumption DEF RequestInv, AccessAsRequested, WaitingInv, sb_busy
    <2> QED
      BY <2>2, <2>4
  <1>2. CASE ~MayStart
    <2>1. BusyError /\ NoAccess
      BY <1>2 DEF SbWriteStart
    <2>2. sbcs' \in SbcsValues
      BY <2>1 DEF BusyError, BusInv, BusTypeOK, SbcsValues
    <2>3. BusInv'
      BY <2>1, <2>2 DEF NoAccess, BusInv, BusTypeOK, AddressAdvances
    <2> QED
      BY <1>0, <2>1, <2>3 DEF NoAccess, RequestInv, AccessAsRequested, WaitingInv, sb_busy
  <1> QED
    BY <1>1, <1>2

\* The access itself: what is done is what the registers describe, and the
\* address moves on by the width of an access that succeeds.
LEMMA PerformKeeps ==
  ASSUME NEW kind, BusInv, Perform(kind)
  PROVE  /\ sbcs' \in SbcsValues
         /\ sbaddress' \in [0 .. 3 -> Limb]
         /\ AddressAdvances'
         /\ served' = Pending(kind)
  <1> DEFINE error == IF SbError = {} THEN sbcs.error ELSE SbError
             bytes == Bytes[sbcs.sbaccess]
  <1>1. SbError \in SUBSET ErrorBits /\ sbcs.error \in SUBSET ErrorBits
    BY DEF SbError, BusInv, BusTypeOK, SbcsValues, ErrorBits
  <1>2. error \in SUBSET ErrorBits
    BY <1>1
  <1>3. sbcs' = [sbcs EXCEPT !.error = error]
    BY DEF Perform
  <1>4. sbcs' \in SbcsValues
    <2> HIDE DEF error
    <2> QED
      BY <1>2, <1>3 DEF BusInv, BusTypeOK, SbcsValues
  <1>5. served' = Pending(kind)
    BY DEF Perform, Pending
  <1>6. bytes \in Nat
    BY BytesType DEF BusInv, BusTypeOK, SbcsValues
  <1>7. CASE error = {} /\ sbcs.autoincrement
    <2>1. sbaddress' = sb_autoincrement(sbaddress, bytes) /\ expected' = (expected + bytes) % Space
      BY <1>7 DEF Perform
    <2>2. sbaddress' \in [0 .. 3 -> Limb]
          /\ Whole(sbaddress') = (Whole(sbaddress) + bytes) % Space
      <3> HIDE DEF bytes
      <3> QED
        BY <1>6, <2>1, IncrementAdds DEF BusInv, BusTypeOK
    <2>3. AddressAdvances'
      BY <2>1, <2>2 DEF BusInv, AddressAdvances
    <2> QED
      BY <1>4, <1>5, <2>2, <2>3
  <1>8. CASE ~(error = {} /\ sbcs.autoincrement)
    <2>1. UNCHANGED <<sbaddress, expected>>
      BY <1>8 DEF Perform
    <2> QED
      BY <1>4, <1>5, <2>1 DEF BusInv, BusTypeOK, AddressAdvances
  <1> QED
    BY <1>7, <1>8

\* An idle cycle: the access that waits is performed, or comes nearer.
LEMMA BusRunTestIdleKeeps ==
  ASSUME BusInv, BusRunTestIdle
  PROVE  BusInv' /\ (RequestInv => RequestInv')
  <1> USE DEF BusInv
  <1>0. sb_read_wait \in Nat /\ sb_write_wait \in Nat /\ asked' = asked
    BY BusAssumption DEF BusTypeOK, BusRunTestIdle
  <1>1. CASE sb_read_wait > 0
    <2>1. sb_write_wait = 0 /\ sb_write_wait' = 0 /\ sb_read_wait' = sb_read_wait - 1
      BY <1>0, <1>1 DEF BusRunTestIdle, BusTypeOK
    <2>2. CASE sb_read_wait' = 0
      <3>1. Perform("read")
        BY <1>0, <1>1, <2>2 DEF BusRunTestIdle
      <3>2. BusInv'
        BY <2>1, <2>2, <3>1, PerformKeeps, BusAssumption DEF BusTypeOK
      <3>3. RequestInv => RequestInv'
        BY <1>0, <1>1, <2>1, <2>2, <3>1, PerformKeeps
           DEF RequestInv, AccessAsRequested, WaitingInv, sb_busy
      <3> QED
        BY <3>2, <3>3
    <2>3. CASE sb_read_wait' # 0
      <3>1. UNCHANGED <<sbcs, sbaddress, sbdata, served, expected>>
        BY <1>0, <1>1, <2>3 DEF BusRunTestIdle
      <3>2. BusInv'
        BY <1>0, <1>1, <2>1, <2>3, <3>1, BusAssumption DEF BusTypeOK, AddressAdvances
      <3>3. RequestInv => RequestInv'
        BY <1>0, <1>1, <2>1, <2>3, <3>1
           DEF RequestInv, AccessAsRequested, WaitingInv, Pending, sb_busy
      <3> QED
        BY <3>2, <3>3
    <2> QED
      BY <2>2, <2>3
  <1>2. CASE ~(sb_read_wait > 0)
    <2>1. /\ sb_read_wait = 0 /\ sb_read_wait' = 0
          /\ sb_write_wait > 0 /\ sb_write_wait' = sb_write_wait - 1
      BY <1>0, <1>2 DEF BusRunTestIdle
    <2>2. CASE sb_write_wait' = 0
      <3>1. Perform("write")
        BY <1>0, <1>2, <2>2 DEF BusRunTestIdle
      <3>2. BusInv'
        BY <2>1, <2>2, <3>1, PerformKeeps, BusAssumption DEF BusTypeOK
      <3>3. RequestInv => RequestInv'
        BY <1>0, <2>1, <2>2, <3>1, PerformKeeps
           DEF RequestInv, AccessAsRequested, WaitingInv, sb_busy
      <3> QED
        BY <3>2, <3>3
    <2>3. CASE sb_write_wait' # 0
      <3>1. UNCHANGED <<sbcs, sbaddress, sbdata, served, expected>>
        BY <1>0, <1>2, <2>3 DEF BusRunTestIdle
      <3>2. BusInv'
        BY <1>0, <2>1, <2>3, <3>1, BusAssumption DEF BusTypeOK, AddressAdvances
      <3>3. RequestInv => RequestInv'
        BY <1>0, <2>1, <2>3, <3>1
           DEF RequestInv, AccessAsRequested, WaitingInv, Pending, sb_busy
      <3> QED
        BY <3>2, <3>3
    <2> QED
      BY <2>2, <2>3
  <1> QED
    BY <1>1, <1>2

\* Every DMI access, reset and cycle keeps the invariants; a debugger that
\* reconfigures a busy bus loses only the second.
LEMMA BusStep ==
  ASSUME BusInv, [BusNext]_busVars
  PROVE  BusInv' /\ (Polite /\ RequestInv => RequestInv')
  <1>1. ASSUME NEW i \in 0 .. 3, NEW limb \in LimbInputs, WriteSbaddress(i, limb)
        PROVE  BusInv' /\ (RequestInv => RequestInv')
    <2>1. CASE sb_busy
      BY <1>1, <2>1, BusyErrorKeeps DEF WriteSbaddress
    <2>2. CASE ~sb_busy
      <3>1. /\ sbaddress' = [sbaddress EXCEPT ![i] = limb] /\ expected' = Whole(sbaddress')
            /\ UNCHANGED <<sbdata, served>>
        BY <1>1, <2>2 DEF WriteSbaddress
      <3>2. sbaddress' \in [0 .. 3 -> Limb]
        BY <3>1, BusAssumption DEF BusInv, BusTypeOK
      <3>3. CASE SbReadStart(sbaddress')
        BY <2>2, <3>1, <3>2, <3>3, SbReadStartKeeps
      <3>4. CASE UNCHANGED sbcs /\ NoAccess
        BY <2>2, <3>1, <3>2, <3>4 DEF NoAccess, BusInv, BusTypeOK, AddressAdvances, RequestInv,
           AccessAsRequested, WaitingInv, sb_busy
      <3> QED
        BY <1>1, <2>2, <3>3, <3>4 DEF WriteSbaddress
    <2> QED
      BY <2>1, <2>2
  <1>2. ASSUME NEW d \in DataInputs, WriteSbdata0(d)
        PROVE  BusInv' /\ (RequestInv => RequestInv')
    <2>1. CASE sb_busy
      BY <1>2, <2>1, BusyErrorKeeps DEF WriteSbdata0
    <2>2. CASE ~sb_busy
      <3>1. CASE SbWriteStart(d)
        BY <1>2, <2>2, <3>1, SbWriteStartKeeps DEF WriteSbdata0
      <3>2. CASE UNCHANGED sbcs /\ NoAccess
        BY <1>2, <2>2, <3>2 DEF WriteSbdata0, NoAccess, BusInv, BusTypeOK, AddressAdvances,
           RequestInv, AccessAsRequested, WaitingInv, sb_busy
      <3> QED
        BY <1>2, <2>2, <3>1, <3>2 DEF WriteSbdata0
    <2> QED
      BY <2>1, <2>2
  <1>3. ASSUME UNCHANGED busVars PROVE BusInv' /\ (RequestInv => RequestInv')
    BY <1>3 DEF busVars, BusInv, BusTypeOK, AddressAdvances, RequestInv, AccessAsRequested,
       WaitingInv, Pending, sb_busy
  <1>4. CASE ReadSbdata0
    <2>1. UNCHANGED <<sbaddress, sbdata, served, expected>>
      BY <1>4 DEF ReadSbdata0
    <2>2. sbaddress' \in [0 .. 3 -> Limb] /\ expected' = Whole(sbaddress')
      BY <2>1 DEF BusInv, BusTypeOK, AddressAdvances
    <2>3. CASE sb_busy
      BY <1>4, <2>1, <2>3, BusyErrorKeeps DEF ReadSbdata0
    <2>4. CASE ~sb_busy /\ SbReadStart(sbaddress)
      BY <2>1, <2>2, <2>4, SbReadStartKeeps
    <2>5. CASE UNCHANGED sbcs /\ NoAccess
      BY <1>3, <2>1, <2>5 DEF NoAccess, busVars
    <2> QED
      BY <1>4, <2>3, <2>4, <2>5 DEF ReadSbdata0
  <1>5. CASE AccessSbdata123
    BY <1>5, BusyErrorKeeps DEF AccessSbdata123
  <1>6. ASSUME sbcs' \in SbcsValues, Polite => ~sb_busy, NoAccess,
               UNCHANGED <<sbaddress, sbdata, served, expected>>
        PROVE  BusInv' /\ (Polite /\ RequestInv => RequestInv')
    BY <1>6 DEF NoAccess, BusInv, BusTypeOK, AddressAdvances, RequestInv, AccessAsRequested,
       WaitingInv, sb_busy
  <1>7. ASSUME NEW onaddr \in BOOLEAN, NEW ondata \in BOOLEAN, NEW increment \in BOOLEAN,
               NEW ones_ \in SUBSET ErrorBits, NEW busyone \in BOOLEAN,
               NEW access \in AccessInputs,
               WriteSbcs(onaddr, ondata, increment, access, ones_, busyone)
        PROVE  BusInv' /\ (Polite /\ RequestInv => RequestInv')
    <2>1. (sbcs.error \ ones_) \in SUBSET ErrorBits
          /\ (sbcs.sbbusyerror /\ ~busyone) \in BOOLEAN
      BY DEF BusInv, BusTypeOK, SbcsValues
    <2>2. sbcs' \in SbcsValues
      BY <1>7, <2>1, BusAssumption DEF WriteSbcs, SbcsValues
    <2> QED
      BY <1>6, <1>7, <2>2 DEF WriteSbcs
  <1>8. CASE ResetBus
    <2>1. sbcs' \in SbcsValues
      BY <1>8 DEF ResetBus, ResetSbcs, SbcsValues
    <2> QED
      BY <1>6, <1>8, <2>1 DEF ResetBus
  <1> QED
    BY <1>1, <1>2, <1>3, <1>4, <1>5, <1>7, <1>8, BusRunTestIdleKeeps DEF BusNext

\* For every limb size, width and delay, the address register advances like
\* one number along a stream of accesses (debug_module.cc:286).
THEOREM StreamAdvances == BusSpec => []AddressAdvances
  <1>1. BusInit => BusInv
    BY BusInitInv
  <1>2. BusInv /\ [BusNext]_busVars => BusInv'
    BY BusStep
  <1>3. BusInv => AddressAdvances
    BY DEF BusInv
  <1> QED
    BY <1>1, <1>2, <1>3, PTL DEF BusSpec

\* What the bus does is what the debugger asked for, if it leaves a busy bus
\* configured as it is (debug_module.cc:326-380, 612-629).
THEOREM AccessesAsRequested ==
  ASSUME Polite
  PROVE  BusSpec => []AccessAsRequested
  <1>1. BusInit => BusInv /\ RequestInv
    BY BusInitInv
  <1>2. (BusInv /\ RequestInv) /\ [BusNext]_busVars => (BusInv /\ RequestInv)'
    BY BusStep
  <1>3. BusInv /\ RequestInv => AccessAsRequested
    BY DEF RequestInv
  <1> QED
    BY <1>1, <1>2, <1>3, PTL DEF BusSpec

\* After an overrun no access starts until the error is cleared, whatever the
\* debugger does meanwhile (debug_module.cc:305-324).
THEOREM OverrunsStop == BusSpec => OverrunStopsStream
  <1>1. BusInv /\ [BusNext]_busVars =>
          [sbcs.sbbusyerror => sb_read_wait' <= sb_read_wait /\ sb_write_wait' <= sb_write_wait]_busVars
    <2> SUFFICES ASSUME BusInv, BusNext, sbcs.sbbusyerror
                 PROVE  sb_read_wait' <= sb_read_wait /\ sb_write_wait' <= sb_write_wait
      OBVIOUS
    <2>1. sb_read_wait \in Nat /\ sb_write_wait \in Nat /\ ~MayStart
      BY BusAssumption DEF BusInv, BusTypeOK, MayStart
    <2>2. CASE BusRunTestIdle
      BY <2>1, <2>2 DEF BusRunTestIdle
    <2>3. CASE ~BusRunTestIdle
      <3>1. NoAccess
        BY <2>1, <2>3 DEF BusNext, WriteSbaddress, WriteSbdata0, ReadSbdata0, AccessSbdata123,
           WriteSbcs, ResetBus, SbReadStart, SbWriteStart
      <3> QED
        BY <2>1, <3>1 DEF NoAccess
    <2> QED
      BY <2>2, <2>3
  <1>2. BusInit => BusInv
    BY BusInitInv
  <1>3. BusInv /\ [BusNext]_busVars => BusInv'
    BY BusStep
  <1> QED
    BY <1>1, <1>2, <1>3, PTL DEF BusSpec, OverrunStopsStream

----------------------------------------------------------------------------

\* No id is enabled in two contexts.
OneContextEach ==
    \A c, d \in Contexts : c # d => contexts[c].enable \cap contexts[d].enable = {}

\* The ids that ask for attention in a context with record x.
Asking(x) == {id \in x.pending \ x.claimed : x.prio[id] > x.threshold}

PinsShowAsking ==
    \A c \in Contexts :
       /\ c \in pin => Asking(contexts[c]) # {}
       /\ Asking(contexts[c]) # {} => c \in pin \cup undriven

\* The priorities a context has copied are the ones programmed.
CopiesCurrent(x) == \A id \in x.pending : x.prio[id] = priority[id]

PlicInv ==
    /\ PlicTypeOK
    /\ PinsShowAsking
    /\ Settled => \A c \in Contexts : CopiesCurrent(contexts[c])
    /\ Routed => OneContextEach /\ PendingFollowsLines

-----------------------------------------------------------------------------
\* A non-empty set of natural numbers has a least element.
LEMMA LeastElement ==
    ASSUME NEW T \in SUBSET Nat, T # {}
    PROVE  \E x \in T : \A y \in T : x =< y
<1>1. PICK x \in T : \A y \in T : ~(<<y, x>> \in OpToRel(<, Nat))
  BY NatLessThanWellFounded, WFMin
<1>2. \A y \in T : ~(y < x)
  BY <1>1 DEF OpToRel
<1> QED BY <1>2

\* The scan finds a candidate that comes before all others: one of the highest
\* priority, and among those the lowest id.
LEMMA BestExists ==
    ASSUME NEW x \in Context, NEW S \in SUBSET Ids, S # {}
    PROVE  \E i \in S : \A j \in S : Before(x, i, j)
<1> DEFINE Gap == {MaxPrio - x.prio[i] : i \in S}
<1>1. \A i \in S : x.prio[i] \in Nat /\ x.prio[i] =< MaxPrio
  BY PlicAssumption DEF Context, Prios
<1>2. Gap \in SUBSET Nat /\ Gap # {}
  BY <1>1, PlicAssumption
<1>3. PICK g \in Gap : \A h \in Gap : g =< h
  <2> HIDE DEF Gap
  <2> QED BY <1>2, LeastElement
<1> DEFINE Top == {i \in S : MaxPrio - x.prio[i] = g}
<1>4. Top \in SUBSET Nat /\ Top # {}
  <2>1. PICK t \in S : g = MaxPrio - x.prio[t]
    BY <1>3
  <2>2. t \in Top
    BY <2>1
  <2>3. S \subseteq Nat
    BY DEF Ids
  <2>4. Top \subseteq S
    OBVIOUS
  <2> HIDE DEF Top
  <2> QED BY <2>2, <2>3, <2>4
<1>5. PICK i \in Top : \A j \in Top : i =< j
  <2> HIDE DEF Top
  <2> QED BY <1>4, LeastElement
<1>6. ASSUME NEW j \in S PROVE Before(x, i, j)
  <2>1. g =< MaxPrio - x.prio[j]
    BY <1>3
  <2>2. x.prio[i] >= x.prio[j]
    BY <2>1, <1>1, PlicAssumption
  <2>3. x.prio[i] = x.prio[j] => j \in Top
    OBVIOUS
  <2> QED BY <2>2, <2>3, <1>5, <1>1 DEF Before
<1> QED BY <1>6

\* The controller reports an id exactly when one asks for attention, and what it
\* reports is pending and unclaimed.
LEMMA BestPending ==
    ASSUME NEW x \in Context
    PROVE  /\ context_best_pending(x) # 0 <=> Asking(x) # {}
           /\ context_best_pending(x) # 0 =>
                context_best_pending(x) \in x.pending \ x.claimed
<1> DEFINE S == x.pending \ x.claimed
           best == CHOOSE i \in S : \A j \in S : Before(x, i, j)
<1>1. CASE S = {}
  BY <1>1 DEF context_best_pending, Asking
<1>2. CASE S # {}
  <2>1. S \in SUBSET Ids
    BY DEF Context
  <2>2. best \in S /\ \A j \in S : Before(x, best, j)
    <3> HIDE DEF S
    <3> QED BY <1>2, <2>1, BestExists
  <2>3. best \in Nat \ {0}
    BY <2>1, <2>2 DEF Ids
  <2>4. context_best_pending(x) = IF x.prio[best] =< x.threshold THEN 0 ELSE best
    BY <1>2 DEF context_best_pending
  <2>5. \A j \in S : x.prio[j] \in Int /\ x.threshold \in Int
    BY <2>1 DEF Context, Prios
  <2> HIDE DEF best
  <2>6. \A j \in S : x.prio[j] =< x.prio[best]
    BY <2>2, <2>5 DEF Before
  <2> QED BY <2>2, <2>3, <2>4, <2>5, <2>6 DEF Asking
<1> QED BY <1>1, <1>2

\* An id becomes pending with the priority it has.
LEMMA PendedFields ==
    ASSUME NEW x \in Context, NEW ids \in SUBSET Ids, priority \in [Ids -> Prios]
    PROVE  /\ Pended(x, ids) \in Context
           /\ Pended(x, ids).enable = x.enable
           /\ Pended(x, ids).pending = x.pending \cup ids
           /\ Pended(x, ids).claimed = x.claimed
           /\ Pended(x, ids).threshold = x.threshold
           /\ CopiesCurrent(x) => CopiesCurrent(Pended(x, ids))
<1>1. /\ Pended(x, ids) \in Context
      /\ Pended(x, ids).enable = x.enable
      /\ Pended(x, ids).pending = x.pending \cup ids
      /\ Pended(x, ids).claimed = x.claimed
      /\ Pended(x, ids).threshold = x.threshold
      /\ Pended(x, ids).prio = [i \in Ids |-> IF i \in ids THEN priority[i] ELSE x.prio[i]]
  BY DEF Pended, Context
<1>2. x.pending \in SUBSET Ids
  BY DEF Context
<1> QED BY <1>1, <1>2 DEF CopiesCurrent

\* A dropped id is neither pending nor claimed.
LEMMA DroppedFields ==
    ASSUME NEW x \in Context, NEW ids \in SUBSET Ids
    PROVE  /\ Dropped(x, ids) \in Context
           /\ Dropped(x, ids).enable = x.enable
           /\ Dropped(x, ids).pending = x.pending \ ids
           /\ Dropped(x, ids).claimed = x.claimed \ ids
           /\ Dropped(x, ids).threshold = x.threshold
           /\ CopiesCurrent(x) => CopiesCurrent(Dropped(x, ids))
<1>1. 0 \in Prios
  BY PlicAssumption DEF Prios
<1>2. /\ Dropped(x, ids) \in Context
      /\ Dropped(x, ids).enable = x.enable
      /\ Dropped(x, ids).pending = x.pending \ ids
      /\ Dropped(x, ids).claimed = x.claimed \ ids
      /\ Dropped(x, ids).threshold = x.threshold
      /\ Dropped(x, ids).prio = [i \in Ids |-> IF i \in ids THEN 0 ELSE x.prio[i]]
  BY <1>1 DEF Dropped, Context
<1>3. x.pending \in SUBSET Ids
  BY DEF Context
<1> QED BY <1>2, <1>3 DEF CopiesCurrent

\* A handler that gives one context a well-formed record and drives its pin
\* keeps the invariant, when what it leaves pending follows the lines.
LEMMA UpdateKeeps ==
    ASSUME PlicInv, NEW c \in Contexts, NEW x \in Context, Update(c, x),
           priority' = priority, level' \in SUBSET Ids,
           Settled => CopiesCurrent(x),
           Routed =>
             /\ x.pending = x.enable \cap level'
             /\ x.claimed \subseteq x.pending
             /\ \A d \in Contexts \ {c} :
                  /\ x.enable \cap contexts[d].enable = {}
                  /\ contexts[d].enable \cap level' = contexts[d].enable \cap level
    PROVE  PlicInv'
<1> USE DEF PlicInv
<1>1. contexts' = [contexts EXCEPT ![c] = x] /\ contexts' \in [Contexts -> Context]
  BY DEF PlicTypeOK, Update
<1>2. contexts'[c] = x /\ \A d \in Contexts \ {c} : contexts'[d] = contexts[d]
  BY <1>1 DEF PlicTypeOK
<1>3. /\ pin' \in SUBSET Contexts /\ \A d \in Contexts \ {c} : d \in pin' <=> d \in pin
      /\ undriven' \in SUBSET Contexts
      /\ \A d \in Contexts \ {c} : d \in undriven' <=> d \in undriven
  BY DEF Update, PlicTypeOK
<1>4. c \in pin' <=> Asking(x) # {}
  BY BestPending DEF Update
<1>8. Settled => \A d \in Contexts : CopiesCurrent(contexts[d])'
  BY <1>2 DEF CopiesCurrent
<1>5. PlicTypeOK'
  BY <1>1, <1>3 DEF PlicTypeOK
<1>6. PinsShowAsking'
  BY <1>2, <1>3, <1>4 DEF PinsShowAsking
<1>7. ASSUME Routed PROVE OneContextEach' /\ PendingFollowsLines'
  <2>1. OneContextEach'
    BY <1>2, <1>7 DEF OneContextEach
  <2>2. PendingFollowsLines'
    BY <1>2, <1>7 DEF PendingFollowsLines
  <2> QED BY <2>1, <2>2
<1> QED BY <1>5, <1>6, <1>7, <1>8

\* A device that drives its line keeps the invariant.
LEMMA LevelKeeps ==
    ASSUME PlicInv, NEW id \in Ids, NEW lvl \in BOOLEAN, set_interrupt_level(id, lvl)
    PROVE  PlicInv'
<1> USE DEF PlicInv
<1>1. /\ priority' = priority
      /\ level' \in SUBSET Ids
      /\ level' \ {id} = level \ {id}
      /\ id \in level' <=> lvl
  BY DEF set_interrupt_level, PlicTypeOK
<1>2. CASE Enabling(id) = {}
  <2>1. contexts' = contexts /\ pin' = pin /\ undriven' = undriven
    BY <1>2 DEF set_interrupt_level
  <2>2. \A c \in Contexts : id \notin contexts[c].enable
    BY <1>2 DEF Enabling
  <2>3. Routed => PendingFollowsLines'
    BY <1>1, <2>1, <2>2 DEF PendingFollowsLines
  <2> QED BY <1>1, <2>1, <2>3 DEF PlicTypeOK, PinsShowAsking, CopiesCurrent, OneContextEach
<1>3. CASE Enabling(id) # {}
  <2> DEFINE c == CHOOSE d \in Enabling(id) : \A e \in Enabling(id) : d =< e
             x == IF lvl THEN Pended(contexts[c], {id}) ELSE Dropped(contexts[c], {id})
  <2>1. c \in Enabling(id)
    <3>1. Enabling(id) \in SUBSET Nat
      BY DEF Enabling, Contexts
    <3> QED BY <1>3, <3>1, LeastElement
  <2>2. Update(c, x)
    BY <1>3 DEF set_interrupt_level
  <2> HIDE DEF c
  <2>3. c \in Contexts /\ contexts[c] \in Context /\ id \in contexts[c].enable
    BY <2>1 DEF Enabling, PlicTypeOK
  <2>4. /\ x \in Context
        /\ x.enable = contexts[c].enable
        /\ x.pending = IF lvl THEN contexts[c].pending \cup {id} ELSE contexts[c].pending \ {id}
        /\ x.claimed = IF lvl THEN contexts[c].claimed ELSE contexts[c].claimed \ {id}
        /\ CopiesCurrent(contexts[c]) => CopiesCurrent(x)
    <3>1. {id} \in SUBSET Ids /\ priority \in [Ids -> Prios]
      BY DEF PlicTypeOK
    <3>2. CASE lvl
      BY <3>1, <3>2, <2>3, PendedFields
    <3>3. CASE ~lvl
      BY <3>1, <3>3, <2>3, DroppedFields
    <3> QED BY <3>2, <3>3
  <2> HIDE DEF x
  <2>5. ASSUME Routed
        PROVE  /\ x.pending = x.enable \cap level'
               /\ x.claimed \subseteq x.pending
               /\ \A d \in Contexts \ {c} :
                    /\ x.enable \cap contexts[d].enable = {}
                    /\ contexts[d].enable \cap level' = contexts[d].enable \cap level
    <3>1. /\ contexts[c].pending = contexts[c].enable \cap level
          /\ contexts[c].claimed \subseteq contexts[c].pending
      BY <2>3, <2>5 DEF PendingFollowsLines
    <3>2. \A d \in Contexts \ {c} : contexts[c].enable \cap contexts[d].enable = {}
      BY <2>3, <2>5 DEF OneContextEach
    <3>3. x.pending = x.enable \cap level' /\ x.claimed \subseteq x.pending
      BY <3>1, <2>3, <2>4, <1>1
    <3> QED BY <3>2, <3>3, <2>3, <2>4, <1>1
  <2> QED BY <2>2, <2>3, <2>4, <2>5, <1>1, UpdateKeeps
<1> QED BY <1>2, <1>3

\* Every access of software to the controller keeps the invariant.
LEMMA SoftwareKeeps == PlicInv /\ SoftwareNext => PlicInv'
<1> SUFFICES ASSUME PlicInv, SoftwareNext PROVE PlicInv'
  OBVIOUS
<1> USE DEF PlicInv
<1>1. ASSUME NEW id \in Ids, NEW val \in Prios, priority_write(id, val)
      PROVE  PlicInv'
  <2>1. \A c \in Contexts : Settled => CopiesCurrent(contexts[c])'
    BY <1>1 DEF priority_write, PlicTypeOK, CopiesCurrent
  <2> QED BY <1>1, <2>1 DEF priority_write, PlicTypeOK, PinsShowAsking, OneContextEach,
         PendingFollowsLines
<1>2. ASSUME NEW c \in Contexts, NEW new \in SUBSET Ids, context_enable_write(c, new)
      PROVE  PlicInv'
  <2> DEFINE x == contexts[c]
             y == [x EXCEPT !.enable = new]
             on == (new \ x.enable) \cap level
             off == x.enable \ new
             w == Pended(y, on)
             z == Dropped(w, off)
  <2>1. x \in Context /\ on \in SUBSET Ids /\ off \in SUBSET Ids
    BY DEF PlicTypeOK, Context
  <2>2. /\ y \in Context /\ y.enable = new /\ y.pending = x.pending
        /\ y.claimed = x.claimed /\ (CopiesCurrent(x) => CopiesCurrent(y))
    BY <2>1 DEF Context, CopiesCurrent
  <2>3. Update(c, z) /\ priority' = priority /\ level' = level
    BY <1>2 DEF context_enable_write
  <2> HIDE DEF y
  <2>4. /\ w \in Context
        /\ w.enable = new
        /\ w.pending = x.pending \cup on
        /\ w.claimed = x.claimed
        /\ CopiesCurrent(x) => CopiesCurrent(w)
    BY <2>1, <2>2, PendedFields DEF PlicTypeOK
  <2>5. /\ z \in Context
        /\ z.enable = new
        /\ z.pending = (x.pending \cup on) \ off
        /\ z.claimed = x.claimed \ off
        /\ CopiesCurrent(x) => CopiesCurrent(z)
    <3> HIDE DEF w, off
    <3> QED BY <2>1, <2>4, DroppedFields
  <2> HIDE DEF z
  <2>6. ASSUME Routed
        PROVE  /\ z.pending = z.enable \cap level'
               /\ z.claimed \subseteq z.pending
               /\ \A d \in Contexts \ {c} : z.enable \cap contexts[d].enable = {}
    <3>1. x.pending = x.enable \cap level /\ x.claimed \subseteq x.pending
      BY <2>6 DEF PendingFollowsLines
    <3>2. \A d \in Contexts \ {c} : contexts[d].enable \cap new = {}
      BY <1>2, <2>6 DEF context_enable_write
    <3>3. z.pending = z.enable \cap level' /\ z.claimed \subseteq z.pending
      BY <3>1, <2>3, <2>5
    <3> QED BY <3>2, <3>3, <2>5
  <2> QED BY <2>3, <2>5, <2>6, UpdateKeeps DEF PlicTypeOK
<1>3. ASSUME NEW c \in Contexts, NEW x \in Context, Update(c, x),
             UNCHANGED <<priority, level>>,
             x.enable = contexts[c].enable, x.pending = contexts[c].pending,
             x.prio = contexts[c].prio,
             x.claimed \subseteq contexts[c].claimed \cup contexts[c].pending
      PROVE  PlicInv'
  <2>1. ASSUME Routed
        PROVE  /\ x.pending = x.enable \cap level'
               /\ x.claimed \subseteq x.pending
               /\ \A d \in Contexts \ {c} : x.enable \cap contexts[d].enable = {}
    BY <1>3, <2>1 DEF PendingFollowsLines, OneContextEach
  <2>2. Settled => CopiesCurrent(x)
    BY <1>3 DEF CopiesCurrent
  <2> QED BY <1>3, <2>1, <2>2, UpdateKeeps DEF PlicTypeOK
<1>4. ASSUME NEW c \in Contexts, NEW val \in Prios, threshold_write(c, val)
      PROVE  PlicInv'
  <2> DEFINE x == [contexts[c] EXCEPT !.threshold = val]
  <2>1. contexts[c] \in Context
    BY DEF PlicTypeOK
  <2>2. /\ x \in Context /\ x.enable = contexts[c].enable
        /\ x.pending = contexts[c].pending /\ x.claimed = contexts[c].claimed
        /\ x.prio = contexts[c].prio
    BY <2>1 DEF Context
  <2>3. Update(c, x) /\ UNCHANGED <<priority, level>>
    BY <1>4 DEF threshold_write
  <2> HIDE DEF x
  <2> QED BY <2>2, <2>3, <1>3
<1>5. ASSUME NEW c \in Contexts, context_claim(c)
      PROVE  PlicInv'
  <2> DEFINE best == context_best_pending(contexts[c])
             x == [contexts[c] EXCEPT !.claimed = @ \cup ({best} \ {0})]
  <2>1. contexts[c] \in Context
    BY DEF PlicTypeOK
  <2>2. {best} \ {0} \subseteq contexts[c].pending
    BY <2>1, BestPending
  <2>3. Update(c, x) /\ UNCHANGED <<priority, level>>
    BY <1>5 DEF context_claim
  <2> HIDE DEF best
  <2>4. /\ x \in Context /\ x.enable = contexts[c].enable
        /\ x.pending = contexts[c].pending /\ x.prio = contexts[c].prio
        /\ x.claimed \subseteq contexts[c].claimed \cup contexts[c].pending
    BY <2>1, <2>2 DEF Context
  <2> HIDE DEF x
  <2> QED BY <2>3, <2>4, <1>3
<1>6. ASSUME NEW c \in Contexts, NEW id \in Ids, complete(c, id)
      PROVE  PlicInv'
  <2> DEFINE x == [contexts[c] EXCEPT !.claimed = @ \ {id}]
  <2>1. contexts[c] \in Context
    BY DEF PlicTypeOK
  <2>2. /\ x \in Context /\ x.enable = contexts[c].enable
        /\ x.pending = contexts[c].pending /\ x.prio = contexts[c].prio
        /\ x.claimed \subseteq contexts[c].claimed
    BY <2>1 DEF Context
  <2>3. Update(c, x) /\ UNCHANGED <<priority, level>>
    BY <1>6 DEF complete
  <2> HIDE DEF x
  <2> QED BY <2>2, <2>3, <1>3
<1> QED BY <1>1, <1>2, <1>4, <1>5, <1>6 DEF SoftwareNext

\* The controller's initial state.
LEMMA PlicInvInit == PlicInit => PlicInv
<1> SUFFICES ASSUME PlicInit PROVE PlicInv
  OBVIOUS
<1>1. 0 \in Prios
  BY PlicAssumption DEF Prios
<1>2. PlicTypeOK
  BY <1>1 DEF PlicInit, PlicTypeOK, Context
<1> QED BY <1>2 DEF PlicInit, PlicInv, PinsShowAsking, Asking, CopiesCurrent, OneContextEach,
       PendingFollowsLines

\* A reset hart has no interrupt until its contexts are updated.
LEMMA HartResetKeeps ==
    ASSUME PlicInv, NEW h \in Harts, hart_reset(h)
    PROVE  PlicInv'
<1>1. h \subseteq Contexts
  BY PlicAssumption DEF Contexts
<1> QED BY <1>1 DEF hart_reset, PlicInv, PlicTypeOK, PinsShowAsking, CopiesCurrent,
       OneContextEach, PendingFollowsLines

\* With one context for each id, the invariant says what the pins mean.
LEMMA PlicInvImplies == PlicInv => PinsFollowLines
BY DEF PlicInv, PinsFollowLines, Deserves, PendingFollowsLines, PinsShowAsking, Asking,
   CopiesCurrent

-----------------------------------------------------------------------------
\* The port's registers between handlers.
PortOK ==
    /\ rx_queue \in Seq(0 .. MaxTyped) /\ Len(rx_queue) =< QueueSize
    /\ lsr_dr \in BOOLEAN
    /\ ier \in SUBSET {"RDI", "THRI"}
    /\ fifo \in BOOLEAN /\ loop \in BOOLEAN /\ dlab \in BOOLEAN
    /\ backoff \in 0 .. MaxBackoff
    /\ typed \in 0 .. MaxTyped /\ taken \in 0 .. typed
    /\ lsr_dr <=> rx_queue # << >>

PlatformInv == PlicInv /\ PortOK /\ LineIsTrue

\* A handler that ends with update_interrupt leaves a line that tells the truth.
LEMMA LineUpdated ==
    ASSUME PlicInv, PortOK', update_interrupt
    PROVE  PlatformInv'
<1> DEFINE lvl == ("RDI" \in ier' /\ lsr_dr') \/ "THRI" \in ier'
<1>1. UartId \in Ids /\ lvl \in BOOLEAN
  BY UartAssumption DEF Ids
<1>2. PlicInv'
  BY <1>1, LevelKeeps DEF update_interrupt
<1>3. UartId \in level' <=> lvl
  BY DEF update_interrupt, set_interrupt_level
<1>4. LineIsTrue'
  BY <1>3 DEF LineIsTrue, PortOK
<1> QED BY <1>2, <1>4 DEF PlatformInv

\* Every handler of the port, and every other step, keeps the invariant.
LEMMA PlatformStep == PlatformInv /\ [Next]_vars => PlatformInv'
<1> SUFFICES ASSUME PlatformInv, [Next]_vars PROVE PlatformInv'
  OBVIOUS
<1> USE DEF PlatformInv
<1>1. ASSUME load_rx PROVE PlatformInv'
  <2>1. PortOK'
    <3>1. CASE dlab
      BY <1>1, <3>1 DEF load_rx, PortOK, regs
    <3>2. CASE ~dlab /\ rx_queue = << >>
      BY <1>1, <3>2 DEF load_rx, rx_byte, PortOK, regs
    <3>3. CASE ~dlab /\ rx_queue # << >>
      <4>1. rx_queue' = Tail(rx_queue)
        BY <1>1, <3>3 DEF load_rx, rx_byte
      <4>2. rx_queue' \in Seq(0 .. MaxTyped) /\ Len(rx_queue') =< QueueSize
        BY <3>3, <4>1, UartAssumption DEF PortOK
      <4>3. lsr_dr' \in BOOLEAN /\ (lsr_dr' <=> rx_queue' # << >>)
        BY <1>1, <3>3 DEF load_rx, rx_byte, PortOK
      <4> QED BY <1>1, <4>2, <4>3 DEF load_rx, PortOK, regs
    <3> QED BY <3>1, <3>2, <3>3 DEF PortOK
  <2> QED BY <1>1, <2>1, LineUpdated DEF load_rx
<1>2. ASSUME store_tx PROVE PlatformInv'
  <2>1. PortOK'
    <3>1. CASE ~dlab /\ loop /\ Len(rx_queue) < QueueSize
      BY <1>2, <3>1, UartAssumption DEF store_tx, PortOK, regs
    <3>2. CASE ~(~dlab /\ loop /\ Len(rx_queue) < QueueSize)
      BY <1>2, <3>2 DEF store_tx, PortOK, regs
    <3> QED BY <3>1, <3>2
  <2> QED BY <1>2, <2>1, LineUpdated DEF store_tx
<1>3. ASSUME NEW bits \in SUBSET {"RDI", "THRI"}, store_ier(bits) PROVE PlatformInv'
  <2>1. PortOK'
    BY <1>3 DEF store_ier, PortOK, regs
  <2> QED BY <1>3, <2>1, LineUpdated DEF store_ier
<1>4. ASSUME NEW enable \in BOOLEAN, NEW clear \in BOOLEAN, store_fcr(enable, clear)
      PROVE  PlatformInv'
  <2>1. PortOK'
    <3>1. CASE clear
      <4>1. rx_queue' = << >> /\ rx_queue' \in Seq(0 .. MaxTyped) /\ Len(rx_queue') = 0
        BY <1>4, <3>1 DEF store_fcr
      <4>2. lsr_dr' = FALSE
        BY <1>4, <3>1 DEF store_fcr
      <4> QED BY <1>4, <4>1, <4>2, UartAssumption DEF store_fcr, PortOK
    <3>2. CASE ~clear
      BY <1>4, <3>2 DEF store_fcr, PortOK
    <3> QED BY <3>1, <3>2
  <2> QED BY <1>4, <2>1, LineUpdated DEF store_fcr
<1>5. ASSUME NEW bit \in BOOLEAN, store_lcr(bit) PROVE PlatformInv'
  <2>1. PortOK'
    BY <1>5 DEF store_lcr, PortOK
  <2> QED BY <1>5, <2>1, LineUpdated DEF store_lcr
<1>6. ASSUME NEW bit \in BOOLEAN, store_mcr(bit) PROVE PlatformInv'
  <2>1. PortOK'
    BY <1>6 DEF store_mcr, PortOK
  <2> QED BY <1>6, <2>1, LineUpdated DEF store_mcr
<1>7. ASSUME tick_wait PROVE PlatformInv'
  <2>1. UNCHANGED plicVars
    BY <1>7 DEF tick_wait
  <2>2. PortOK'
    BY <1>7, UartAssumption DEF tick_wait, Waiting, PortOK, regs
  <2> QED BY <1>7, <2>1, <2>2 DEF tick_wait, PlicInv, PlicTypeOK, PinsShowAsking, CopiesCurrent,
         OneContextEach, PendingFollowsLines, LineIsTrue, plicVars
<1>8. ASSUME tick_nothing PROVE PlatformInv'
  <2>1. PortOK'
    BY <1>8, UartAssumption DEF tick_nothing, PortOK, regs
  <2> QED BY <1>8, <2>1 DEF tick_nothing, PlicInv, PlicTypeOK, PinsShowAsking, CopiesCurrent,
         OneContextEach, PendingFollowsLines, LineIsTrue, plicVars
<1>9. ASSUME tick_byte PROVE PlatformInv'
  <2>1. PortOK'
    BY <1>9, UartAssumption DEF tick_byte, Accepting, PortOK, regs
  <2> QED BY <1>9, <2>1, LineUpdated DEF tick_byte
<1>10. ASSUME Type PROVE PlatformInv'
  <2>1. PortOK'
    BY <1>10, UartAssumption DEF Type, PortOK, regs
  <2> QED BY <1>10, <2>1 DEF Type, PlicInv, PlicTypeOK, PinsShowAsking, CopiesCurrent,
         OneContextEach, PendingFollowsLines, LineIsTrue, plicVars
<1>11. ASSUME NEW id \in Ids, NEW lvl \in BOOLEAN, OtherLine(id, lvl) PROVE PlatformInv'
  <2>1. PlicInv'
    BY <1>11, LevelKeeps DEF OtherLine
  <2>2. UartId \in level' <=> UartId \in level
    BY <1>11 DEF OtherLine, set_interrupt_level
  <2> QED BY <1>11, <2>1, <2>2 DEF OtherLine, PortOK, LineIsTrue, uartVars
<1>12. ASSUME SoftwareNext, UNCHANGED uartVars PROVE PlatformInv'
  <2>1. level' = level
    BY <1>12 DEF SoftwareNext, priority_write, context_enable_write, threshold_write,
       context_claim, complete
  <2>2. PlicInv'
    BY <1>12, SoftwareKeeps
  <2> QED BY <1>12, <2>1, <2>2 DEF PortOK, LineIsTrue, uartVars
<1>13. ASSUME UNCHANGED vars PROVE PlatformInv'
  BY <1>13 DEF vars, plicVars, uartVars, PlicInv, PlicTypeOK, PinsShowAsking, CopiesCurrent,
     OneContextEach, PendingFollowsLines, LineIsTrue, PortOK
<1>14. ASSUME NEW h \in Harts, hart_reset(h), UNCHANGED uartVars PROVE PlatformInv'
  <2>1. PlicInv'
    BY <1>14, HartResetKeeps
  <2> QED BY <1>14, <2>1 DEF hart_reset, PortOK, LineIsTrue, uartVars
<1> QED BY <1>1, <1>2, <1>3, <1>4, <1>5, <1>6, <1>7, <1>8, <1>9, <1>10, <1>11, <1>12, <1>13,
       <1>14 DEF Next, Software, tick

\* The constructors establish it.
LEMMA PlatformInit == Init => PlatformInv
<1> SUFFICES ASSUME Init PROVE PlatformInv
  OBVIOUS
<1>1. PlicInv
  BY PlicInvInit DEF Init
<1>2. PortOK /\ LineIsTrue
  <2>1. rx_queue = << >> /\ rx_queue \in Seq(0 .. MaxTyped) /\ Len(rx_queue) = 0 /\ ~lsr_dr
    BY DEF Init
  <2>2. lsr_dr \in BOOLEAN /\ fifo \in BOOLEAN /\ loop \in BOOLEAN /\ dlab \in BOOLEAN
    BY DEF Init
  <2>4. backoff \in 0 .. MaxBackoff /\ typed \in 0 .. MaxTyped /\ taken \in 0 .. typed
    BY UartAssumption DEF Init
  <2>5. Len(rx_queue) =< QueueSize /\ ier \in SUBSET {"RDI", "THRI"}
    BY <2>1, UartAssumption DEF Init
  <2>6. PortOK
    BY <2>1, <2>2, <2>4, <2>5 DEF PortOK
  <2>3. ier = {} /\ level = {}
    BY DEF Init, PlicInit
  <2> QED BY <2>1, <2>3, <2>6 DEF LineIsTrue
<1> QED BY <1>1, <1>2 DEF PlatformInv

\* The mip bits follow the lines, for every number of contexts, lines and
\* priorities (plic.cc:90-328): when software enables an id in one context only
\* and leaves the priority of a pending id alone, no interrupt is made up, and
\* none is lost but by a reset of its hart, until the context is next updated.
THEOREM PinsSafe == Spec => []PinsFollowLines
<1>1. PlatformInv => PinsFollowLines
  BY PlicInvImplies DEF PlatformInv
<1> QED BY PlatformInit, PlatformStep, <1>1, PTL DEF Spec

\* The serial port's line is high exactly while it needs attention, and its
\* queue keeps its size, for every queue size and input (ns16550.cc:91-329).
THEOREM LineSafe == Spec => [](LineIsTrue /\ UartTypeOK)
<1>1. PlatformInv => LineIsTrue /\ UartTypeOK
  BY DEF PlatformInv, PlicInv, PortOK, UartTypeOK
<1> QED BY PlatformInit, PlatformStep, <1>1, PTL DEF Spec

-----------------------------------------------------------------------------
\* The order of the input, of any queue and number of bytes read.
Ordered(q, n) ==
    \A i \in 1 .. Len(q) : q[i] # 0 =>
       \/ q[i] = n /\ \A j \in i + 1 .. Len(q) : q[j] = 0
       \/ \E j \in i + 1 .. Len(q) : q[j] = q[i] + 1 /\ \A k \in i + 1 .. j - 1 : q[k] = 0

\* A looped-back byte at the end comes between no two others.
LEMMA AppendZeroOrdered ==
    ASSUME NEW q \in Seq(Nat), NEW n \in Nat, Ordered(q, n)
    PROVE  Ordered(Append(q, 0), n)
<1> DEFINE r == Append(q, 0)
<1>1. Len(r) = Len(q) + 1 /\ Len(q) \in Nat /\ r[Len(q) + 1] = 0
      /\ \A i \in 1 .. Len(q) : r[i] = q[i]
  OBVIOUS
<1> HIDE DEF r
<1> SUFFICES ASSUME NEW i \in 1 .. Len(r), r[i] # 0
             PROVE  \/ r[i] = n /\ \A j \in i + 1 .. Len(r) : r[j] = 0
                    \/ \E j \in i + 1 .. Len(r) : r[j] = r[i] + 1 /\ \A k \in i + 1 .. j - 1 : r[k] = 0
  BY DEF Ordered, r
<1>2. i \in 1 .. Len(q) /\ q[i] # 0 /\ r[i] = q[i]
  BY <1>1
<1>3. CASE q[i] = n /\ \A j \in i + 1 .. Len(q) : q[j] = 0
  BY <1>1, <1>2, <1>3, SMTT(30)
<1>4. CASE \E j \in i + 1 .. Len(q) : q[j] = q[i] + 1 /\ \A k \in i + 1 .. j - 1 : q[k] = 0
  <2>1. PICK j \in i + 1 .. Len(q) : q[j] = q[i] + 1 /\ \A k \in i + 1 .. j - 1 : q[k] = 0
    BY <1>4
  <2>2. j \in i + 1 .. Len(r) /\ j \in 1 .. Len(q) /\ i + 1 .. j - 1 \subseteq 1 .. Len(q)
    BY <1>1, <1>2, <2>1
  <2>3. r[j] = r[i] + 1 /\ \A k \in i + 1 .. j - 1 : r[k] = 0
    BY <1>1, <1>2, <2>1, <2>2
  <2> QED BY <2>2, <2>3
<1> QED BY <1>2, <1>3, <1>4 DEF Ordered

\* The next byte of the terminal follows the newest one.
LEMMA AppendNextOrdered ==
    ASSUME NEW q \in Seq(Nat), NEW n \in Nat, Ordered(q, n)
    PROVE  Ordered(Append(q, n + 1), n + 1)
<1> DEFINE r == Append(q, n + 1)
<1>1. Len(r) = Len(q) + 1 /\ Len(q) \in Nat /\ r[Len(q) + 1] = n + 1
      /\ \A i \in 1 .. Len(q) : r[i] = q[i]
  OBVIOUS
<1> HIDE DEF r
<1> SUFFICES ASSUME NEW i \in 1 .. Len(r), r[i] # 0
             PROVE  \/ r[i] = n + 1 /\ \A j \in i + 1 .. Len(r) : r[j] = 0
                    \/ \E j \in i + 1 .. Len(r) : r[j] = r[i] + 1 /\ \A k \in i + 1 .. j - 1 : r[k] = 0
  BY DEF Ordered, r
<1>2. CASE i = Len(q) + 1
  BY <1>1, <1>2
<1>3. CASE i \in 1 .. Len(q)
  <2>1. q[i] # 0 /\ r[i] = q[i]
    BY <1>1, <1>3
  <2>2. CASE q[i] = n /\ \A j \in i + 1 .. Len(q) : q[j] = 0
    <3>1. /\ Len(q) + 1 \in i + 1 .. Len(r) /\ r[Len(q) + 1] = r[i] + 1
      BY <1>1, <1>3, <2>1, <2>2
    <3>2. ASSUME NEW k \in i + 1 .. (Len(q) + 1) - 1 PROVE r[k] = 0
      <4>1. k \in i + 1 .. Len(q) /\ k \in 1 .. Len(q)
        BY <1>1, <1>3
      <4> QED BY <1>1, <2>2, <4>1
    <3> QED BY <3>1, <3>2
  <2>3. CASE \E j \in i + 1 .. Len(q) : q[j] = q[i] + 1 /\ \A k \in i + 1 .. j - 1 : q[k] = 0
    <3>1. PICK j \in i + 1 .. Len(q) : q[j] = q[i] + 1 /\ \A k \in i + 1 .. j - 1 : q[k] = 0
      BY <2>3
    <3>2. j \in i + 1 .. Len(r) /\ j \in 1 .. Len(q) /\ r[j] = r[i] + 1
      BY <1>1, <1>3, <2>1, <3>1
    <3>3. ASSUME NEW k \in i + 1 .. j - 1 PROVE r[k] = 0
      <4>1. k \in 1 .. Len(q)
        BY <1>1, <1>3, <3>2
      <4> QED BY <1>1, <3>1, <4>1
    <3> QED BY <3>2, <3>3
  <2> QED BY <1>3, <2>1, <2>2, <2>3 DEF Ordered
<1> QED BY <1>1, <1>2, <1>3

\* Reading the oldest byte leaves the others in order.
LEMMA TailOrdered ==
    ASSUME NEW q \in Seq(Nat), NEW n \in Nat, q # << >>, Ordered(q, n)
    PROVE  Ordered(Tail(q), n)
<1> DEFINE r == Tail(q)
<1>1. Len(r) = Len(q) - 1 /\ Len(q) \in Nat /\ Len(q) > 0
      /\ \A i \in 1 .. Len(r) : r[i] = q[i + 1]
  OBVIOUS
<1> HIDE DEF r
<1> SUFFICES ASSUME NEW i \in 1 .. Len(r), r[i] # 0
             PROVE  \/ r[i] = n /\ \A j \in i + 1 .. Len(r) : r[j] = 0
                    \/ \E j \in i + 1 .. Len(r) : r[j] = r[i] + 1 /\ \A k \in i + 1 .. j - 1 : r[k] = 0
  BY DEF Ordered, r
<1>2. i + 1 \in 1 .. Len(q) /\ q[i + 1] # 0 /\ r[i] = q[i + 1]
  BY <1>1
<1>3. CASE q[i + 1] = n /\ \A j \in (i + 1) + 1 .. Len(q) : q[j] = 0
  <2>1. ASSUME NEW j \in i + 1 .. Len(r) PROVE r[j] = 0
    <3>1. j + 1 \in (i + 1) + 1 .. Len(q) /\ r[j] = q[j + 1]
      BY <1>1
    <3> QED BY <1>3, <3>1
  <2> QED BY <1>2, <1>3, <2>1
<1>4. CASE \E j \in (i + 1) + 1 .. Len(q) :
             q[j] = q[i + 1] + 1 /\ \A k \in (i + 1) + 1 .. j - 1 : q[k] = 0
  <2>1. PICK j \in (i + 1) + 1 .. Len(q) :
           q[j] = q[i + 1] + 1 /\ \A k \in (i + 1) + 1 .. j - 1 : q[k] = 0
    BY <1>4
  <2>2. j - 1 \in i + 1 .. Len(r) /\ r[j - 1] = r[i] + 1
    <3>1. j - 1 \in i + 1 .. Len(r) /\ j - 1 \in 1 .. Len(r) /\ (j - 1) + 1 = j
      BY <1>1, <1>2, <2>1
    <3>2. r[j - 1] = q[(j - 1) + 1]
      BY <1>1, <3>1
    <3> QED BY <1>2, <2>1, <3>1, <3>2
  <2>3. ASSUME NEW k \in i + 1 .. (j - 1) - 1 PROVE r[k] = 0
    <3>1. k + 1 \in (i + 1) + 1 .. j - 1 /\ r[k] = q[k + 1]
      BY <1>1, <2>1
    <3> QED BY <2>1, <3>1
  <2> QED BY <2>2, <2>3
<1> QED BY <1>2, <1>3, <1>4 DEF Ordered

\* Every handler keeps the order; the other steps do not touch the queue.
LEMMA OrderStep ==
    ASSUME PlatformInv, [Next]_vars, Ordered(rx_queue, taken)
    PROVE  Ordered(rx_queue', taken')
<1>1. rx_queue \in Seq(Nat) /\ taken \in Nat
  <2>1. rx_queue \in Seq(0 .. MaxTyped) /\ MaxTyped \in Nat /\ taken \in Nat
    BY UartAssumption DEF PlatformInv, PortOK
  <2>2. ASSUME NEW i \in 1 .. Len(rx_queue) PROVE rx_queue[i] \in Nat
    <3>1. rx_queue[i] \in 0 .. MaxTyped
      BY <2>1
    <3> QED BY <2>1, <3>1
  <2> QED BY <2>1, <2>2
<1>2. CASE rx_queue' = rx_queue /\ taken' = taken
  BY <1>2
<1>3. CASE load_rx
  BY <1>1, <1>2, <1>3, TailOrdered DEF load_rx, rx_byte
<1>4. CASE store_tx
  BY <1>1, <1>2, <1>4, AppendZeroOrdered DEF store_tx
<1>5. ASSUME NEW enable \in BOOLEAN, NEW clear \in BOOLEAN, store_fcr(enable, clear)
      PROVE  Ordered(rx_queue', taken')
  <2>1. CASE clear
    <3>1. rx_queue' = << >> /\ Len(<< >>) = 0
      BY <1>5, <2>1 DEF store_fcr
    <3> QED BY <3>1 DEF Ordered
  <2>2. CASE ~clear
    BY <1>2, <1>5, <2>2 DEF store_fcr
  <2> QED BY <2>1, <2>2
<1>6. CASE tick_byte
  BY <1>1, <1>6, AppendNextOrdered DEF tick_byte
<1>7. CASE tick_wait \/ tick_nothing \/ Type
  BY <1>2, <1>7 DEF tick_wait, tick_nothing, Type
<1>8. ASSUME \/ \E bits \in SUBSET {"RDI", "THRI"} : store_ier(bits)
             \/ \E bit \in BOOLEAN : store_lcr(bit)
             \/ \E bit \in BOOLEAN : store_mcr(bit)
      PROVE  Ordered(rx_queue', taken')
  BY <1>2, <1>8 DEF store_ier, store_lcr, store_mcr
<1>9. CASE UNCHANGED uartVars
  BY <1>2, <1>9 DEF uartVars
<1>10. ASSUME NEW id \in Ids, NEW lvl \in BOOLEAN, OtherLine(id, lvl)
       PROVE  Ordered(rx_queue', taken')
  BY <1>9, <1>10 DEF OtherLine
<1>11. ASSUME UNCHANGED vars PROVE UNCHANGED uartVars
  BY <1>11 DEF vars
<1> QED BY <1>3, <1>4, <1>5, <1>6, <1>7, <1>8, <1>9, <1>10, <1>11 DEF Next, Software, tick

\* What is typed reaches the queue once and in order, and the queue keeps its
\* size, for every queue size, input and use of the loopback
\* (ns16550.cc:246-254, 305-329).
THEOREM InputOrdered == Spec => []InputInOrder
<1>1. Init => Ordered(rx_queue, taken)
  <2> SUFFICES ASSUME Init PROVE Ordered(rx_queue, taken)
    OBVIOUS
  <2>1. rx_queue = << >> /\ Len(<< >>) = 0
    BY DEF Init
  <2> QED BY <2>1 DEF Ordered
<1>2. PlatformInv /\ Ordered(rx_queue, taken) /\ [Next]_vars => Ordered(rx_queue, taken)'
  BY OrderStep
<1>3. PlatformInv /\ Ordered(rx_queue, taken) => InputInOrder
  BY DEF PlatformInv, PortOK, Ordered, InputInOrder, IsNewest, NextFollows
<1> QED BY PlatformInit, PlatformStep, <1>1, <1>2, <1>3, PTL DEF Spec
=============================================================================
