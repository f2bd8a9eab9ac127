----------------------------- MODULE MCPlatform -----------------------------
(***************************************************************************)
(* The serial port and the interrupt controller for TLC.  One run, two     *)
(* shares, so that their products stay small: in "plic" two contexts and   *)
(* two lines are driven in every way, the port's own line by its transmit  *)
(* interrupt; in "uart" the whole port is exercised and the controller is  *)
(* used for its line in the first context.                                 *)
(***************************************************************************)
EXTENDS Uart

VARIABLE part

mcVars == <<vars, part>>

MCInit == Init /\ part \in {"plic", "uart"}

PlicShare ==
    \/ SoftwareNext /\ UNCHANGED uartVars
    \/ \E bits \in SUBSET {"THRI"} : store_ier(bits)
    \/ \E id \in Ids, lvl \in BOOLEAN : OtherLine(id, lvl)
    \/ \E h \in Harts : hart_reset(h) /\ UNCHANGED uartVars

UartShare ==
    \/ load_rx
    \/ store_tx
    \/ \E bits \in SUBSET {"RDI", "THRI"} : store_ier(bits)
    \/ \E enable, clear \in BOOLEAN : store_fcr(enable, clear)
    \/ \E bit \in BOOLEAN : store_lcr(bit) \/ store_mcr(bit)
    \/ tick
    \/ Type
    \/ /\ \/ priority_write(UartId, MaxPrio)
          \/ \E new \in SUBSET {UartId} : context_enable_write(1, new)
          \/ context_claim(1)
          \/ complete(1, UartId)
       /\ UNCHANGED uartVars

MCNext ==
    /\ \/ part = "plic" /\ PlicShare
       \/ part = "uart" /\ UartShare
    /\ UNCHANGED part

MCSpec == MCInit /\ [][MCNext]_mcVars /\ WF_mcVars(part = "uart" /\ tick /\ UNCHANGED part)
=============================================================================
