------------------------------- MODULE DebugBus -------------------------------
(***************************************************************************)
(* System bus access of the debug module (riscv/debug_module.cc): the      *)
(* debugger writes an address or data register, the access itself happens  *)
(* some Run-Test/Idle cycles later, and every DMI access in between falls  *)
(* on a busy bus.                                                          *)
(*                                                                         *)
(* The address register is four limbs of base LimbBase (32-bit words in    *)
(* the code).  Of the data registers only sbdata0 starts accesses; their   *)
(* content is one value.  sberror is the set of its bits that are one.     *)
(* Two history variables say what the debugger asked for and what was      *)
(* done.                                                                   *)
(***************************************************************************)
EXTENDS Naturals

CONSTANTS
  LimbBase,        \* 2^32 in the code
  Delay,           \* the 20 cycles an access waits
  MaxAccess,       \* log2 of config.max_sba_data_width in bytes
  Faulty,          \* addresses whose access traps
  LimbInputs,      \* values the debugger writes into a limb
  DataInputs,      \* ... into sbdata0
  AccessInputs,    \* ... into sbaccess
  Polite           \* the debugger reconfigures the bus only when it is idle

Limb == 0 .. LimbBase - 1

ASSUME BusAssumption ==
  /\ LimbBase \in Nat \ {0, 1} /\ Delay \in Nat \ {0}
  /\ MaxAccess \in 0 .. 3
  /\ Faulty \subseteq Nat
  /\ LimbInputs \subseteq Limb
  /\ AccessInputs \subseteq 0 .. 4
  /\ DataInputs \subseteq Nat /\ DataInputs # {}
  /\ Polite \in BOOLEAN

VARIABLES sbcs, sbaddress, sbdata, sb_read_wait, sb_write_wait,
          asked,      \* the access last asked for
          served,     \* the access last done
          expected    \* the address the debugger counts on

busVars == <<sbcs, sbaddress, sbdata, sb_read_wait, sb_write_wait, asked, served, expected>>

Whole(a) == a[0] + LimbBase * (a[1] + LimbBase * (a[2] + LimbBase * a[3]))
Space == LimbBase * LimbBase * LimbBase * LimbBase
\* The bytes of an access, 1 << sbaccess.
Bytes == [n \in 0 .. 4 |-> <<1, 2, 4, 8, 16>>[n + 1]]
\* Only two limbs reach the bus.
BusAddress(a) == a[0] + LimbBase * a[1]
\* Memory holds at each address the address, which no debugger writes as data.
Content(address) == address
NoRequest == [kind |-> "none", address |-> 0, access |-> 0, data |-> 0]

ResetSbcs == [readonaddr |-> FALSE, readondata |-> FALSE, autoincrement |-> FALSE,
              sbaccess |-> 0, error |-> {}, sbbusyerror |-> FALSE]

ErrorBits == 0 .. 2
SbcsValues == [readonaddr : BOOLEAN, readondata : BOOLEAN, autoincrement : BOOLEAN,
               sbaccess : 0 .. 4, error : SUBSET ErrorBits, sbbusyerror : BOOLEAN]

BusTypeOK ==
  /\ sbcs \in SbcsValues
  /\ sbaddress \in [0 .. 3 -> Limb]
  /\ sb_read_wait \in 0 .. Delay
  /\ sb_write_wait \in 0 .. Delay
  /\ sb_read_wait = 0 \/ sb_write_wait = 0

BusInit ==
  /\ sbcs = ResetSbcs
  /\ sbaddress = [i \in 0 .. 3 |-> 0]     \* zero before the first write
  /\ sbdata \in DataInputs
  /\ sb_read_wait = 0 /\ sb_write_wait = 0
  /\ asked = NoRequest /\ served = NoRequest
  /\ expected = 0

sb_busy == sb_read_wait > 0 \/ sb_write_wait > 0
BusyError == sbcs' = [sbcs EXCEPT !.sbbusyerror = TRUE]
NoAccess == UNCHANGED <<sb_read_wait, sb_write_wait, asked>>

\* Mutant: an earlier overrun does not stop the access.
MayStart_Overrun == ~sb_busy
MayStart == ~sb_busy /\ ~sbcs.sbbusyerror

\* sb_read_start
SbReadStart(a) ==
  \/ /\ MayStart
     /\ sb_read_wait' = Delay
     /\ asked' = [kind |-> "read", access |-> sbcs.sbaccess, data |-> 0,
                  address |-> BusAddress(a)]
     /\ UNCHANGED <<sbcs, sb_write_wait>>
  \/ ~MayStart /\ BusyError /\ NoAccess

\* sb_write_start
SbWriteStart(d) ==
  \/ /\ MayStart
     /\ sb_write_wait' = Delay
     /\ asked' = [kind |-> "write", access |-> sbcs.sbaccess, data |-> d,
                  address |-> BusAddress(sbaddress)]
     /\ UNCHANGED <<sbcs, sb_read_wait>>
  \/ ~MayStart /\ BusyError /\ NoAccess

\* dmi_write(DM_SBADDRESS0), and of the other limbs
WriteSbaddress(i, limb) ==
  /\ IF sb_busy THEN BusyError /\ NoAccess /\ UNCHANGED <<sbaddress, expected>>
     ELSE /\ sbaddress' = [sbaddress EXCEPT ![i] = limb]
          /\ expected' = Whole(sbaddress')
          /\ IF i = 0 /\ sbcs.error = {} /\ sbcs.readonaddr THEN SbReadStart(sbaddress')
             ELSE UNCHANGED sbcs /\ NoAccess
  /\ UNCHANGED <<sbdata, served>>

\* Mutant: the data register is written before the bus is found busy.
WriteSbdata0_Early(d) ==
  /\ sbdata' = d
  /\ IF sb_busy THEN BusyError /\ NoAccess
     ELSE IF sbcs.error = {} THEN SbWriteStart(d) ELSE UNCHANGED sbcs /\ NoAccess
  /\ UNCHANGED <<sbaddress, served, expected>>

\* dmi_write(DM_SBDATA0)
WriteSbdata0(d) ==
  /\ IF sb_busy THEN BusyError /\ NoAccess /\ UNCHANGED sbdata
     ELSE /\ sbdata' = d
          /\ IF sbcs.error = {} THEN SbWriteStart(d) ELSE UNCHANGED sbcs /\ NoAccess
  /\ UNCHANGED <<sbaddress, served, expected>>

\* dmi_read(DM_SBDATA0)
ReadSbdata0 ==
  /\ IF sb_busy THEN BusyError /\ NoAccess
     ELSE IF sbcs.error = {} /\ sbcs.readondata THEN SbReadStart(sbaddress)
     ELSE UNCHANGED sbcs /\ NoAccess
  /\ UNCHANGED <<sbaddress, sbdata, served, expected>>

\* dmi_read and dmi_write of sbdata1 to sbdata3
AccessSbdata123 ==
  /\ sb_busy /\ BusyError /\ NoAccess
  /\ UNCHANGED <<sbaddress, sbdata, served, expected>>

\* dmi_write(DM_SBCS): the bits of sberror, and sbbusyerror, are each
\* cleared by writing a one.
WriteSbcs(onaddr, ondata, increment, access, ones, busyone) ==
  /\ Polite => ~sb_busy
  /\ sbcs' = [readonaddr |-> onaddr, readondata |-> ondata, autoincrement |-> increment,
              sbaccess |-> access, error |-> sbcs.error \ ones,
              sbbusyerror |-> sbcs.sbbusyerror /\ ~busyone]
  /\ UNCHANGED <<sbaddress, sbdata, served, expected>> /\ NoAccess

\* reset(): clears sbcs, and neither the address nor an access under way.
ResetBus ==
  /\ Polite => ~sb_busy
  /\ sbcs' = ResetSbcs
  /\ UNCHANGED <<sbaddress, sbdata, served, expected>> /\ NoAccess

----------------------------------------------------------------------------
\* Mutant: the carry of the lowest limb is dropped.
sb_autoincrement_NoCarry(a, bytes) ==
  [a EXCEPT ![0] = (a[0] + bytes) % LimbBase]

sb_autoincrement(a, bytes) ==
  LET v0 == a[0] + bytes
      v1 == a[1] + v0 \div LimbBase
      v2 == a[2] + v1 \div LimbBase
      v3 == a[3] + v2 \div LimbBase
  IN  [i \in 0 .. 3 |-> <<v0, v1, v2, v3>>[i + 1] % LimbBase]

\* sb_read and sb_write: the error, if any, the access ends with
SbError ==
  IF sbcs.sbaccess > MaxAccess THEN {0, 1}
  ELSE IF BusAddress(sbaddress) \in Faulty THEN {1} ELSE {}

Perform(kind) ==
  LET bytes == Bytes[sbcs.sbaccess]
      error == IF SbError = {} THEN sbcs.error ELSE SbError
  IN
  /\ sbcs' = [sbcs EXCEPT !.error = error]
  /\ served' = [kind |-> kind, access |-> sbcs.sbaccess, address |-> BusAddress(sbaddress),
                data |-> IF kind = "write" THEN sbdata ELSE 0]
  /\ sbdata' = IF kind = "read" /\ SbError = {} THEN Content(BusAddress(sbaddress)) ELSE sbdata
  /\ IF error = {} /\ sbcs.autoincrement
     THEN /\ sbaddress' = sb_autoincrement(sbaddress, bytes)
          /\ expected' = (expected + bytes) % Space
     ELSE UNCHANGED <<sbaddress, expected>>

\* Mutant: a write that waits is forgotten.
BusRunTestIdle_ReadsOnly ==
  /\ sb_read_wait > 0
  /\ sb_read_wait' = sb_read_wait - 1
  /\ IF sb_read_wait' = 0 THEN Perform("read") ELSE UNCHANGED <<sbcs, sbaddress, sbdata, served, expected>>
  /\ UNCHANGED <<sb_write_wait, asked>>

\* run_test_idle
BusRunTestIdle ==
  /\ \/ /\ sb_read_wait > 0
        /\ sb_read_wait' = sb_read_wait - 1
        /\ IF sb_read_wait' = 0 THEN Perform("read")
           ELSE UNCHANGED <<sbcs, sbaddress, sbdata, served, expected>>
        /\ UNCHANGED sb_write_wait
     \/ /\ sb_read_wait = 0 /\ sb_write_wait > 0
        /\ sb_write_wait' = sb_write_wait - 1
        /\ IF sb_write_wait' = 0 THEN Perform("write")
           ELSE UNCHANGED <<sbcs, sbaddress, sbdata, served, expected>>
        /\ UNCHANGED sb_read_wait
  /\ UNCHANGED asked

BusNext ==
  \/ \E i \in 0 .. 3, limb \in LimbInputs : WriteSbaddress(i, limb)
  \/ \E d \in DataInputs : WriteSbdata0(d)
  \/ ReadSbdata0 \/ AccessSbdata123
  \/ \E onaddr, ondata, increment, busyone \in BOOLEAN, access \in AccessInputs,
        ones \in SUBSET ErrorBits :
       WriteSbcs(onaddr, ondata, increment, access, ones, busyone)
  \/ ResetBus
  \/ BusRunTestIdle

\* The debugger spends Run-Test/Idle cycles while it waits.
BusSpec == BusInit /\ [][BusNext]_busVars /\ WF_busVars(BusRunTestIdle)

----------------------------------------------------------------------------
\* What the bus does is what the debugger asked for, however many DMI accesses
\* fall between the request and the access: same kind, address and width,
\* and for a write the same data.
AccessAsRequested == ~sb_busy => served = asked

\* Along a stream of accesses the four limbs of the address register advance
\* like one number, by the width of each access that succeeds.
AddressAdvances == Whole(sbaddress) = expected

\* After an overrun no access starts until the debugger has cleared the error,
\* so that it can tell from the address how far the stream came.
OverrunStopsStream ==
  [][sbcs.sbbusyerror => sb_read_wait' <= sb_read_wait /\ sb_write_wait' <= sb_write_wait]_busVars

\* Every access ends.
AccessEnds == sb_busy ~> ~sb_busy
=============================================================================
