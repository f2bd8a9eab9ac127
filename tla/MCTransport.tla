---------------------------- MODULE MCTransport ----------------------------
(* Model-checking instance of the two halves of the path from the debugger's *)
(* pins to memory: JtagDtm, with two idle cycles per DMI access, and         *)
(* DebugBus, with limbs of base 2, so that streams of one- and two-byte      *)
(* accesses carry, one faulty address and two-byte width.  They meet in the  *)
(* DMI accesses JtagDtm passes on, which DebugBus allows at any time; half   *)
(* is the one a behaviour is about.                                          *)
EXTENDS JtagDtm, DebugBus

VARIABLE half

\* The half that does not move starts in one of its initial states.
TransportInit ==
  /\ half \in {"pins", "bus"} /\ JtagInit /\ BusInit
  /\ half = "bus" => ir = "IDCODE" /\ dr = "nop" /\ rti_remaining = 0 /\ ~busy_stuck
  /\ half = "pins" => sbdata = CHOOSE d \in DataInputs : TRUE

TransportNext ==
  /\ UNCHANGED half
  /\ \/ half = "pins" /\ JtagNext /\ UNCHANGED busVars
     \/ half = "bus" /\ BusNext /\ UNCHANGED jtagVars

allVars == <<half, jtagVars, busVars>>

TransportSpec ==
  /\ TransportInit /\ [][TransportNext]_allVars
  /\ WF_allVars(half = "bus" /\ BusRunTestIdle /\ UNCHANGED <<half, jtagVars>>)
=============================================================================
