------------------------- MODULE MojoVControlProofs -------------------------
(***************************************************************************)
(* Proofs about MojoVControl and MojoVBoot for every set of contracts, every KMSM size   *)
(* and every contract layout.                                              *)
(***************************************************************************)
EXTENDS MojoVBoot, Integers, TLAPS

\* The inductive invariant.  EnabledIsProtected alone is not inductive: that
\* a re-enable expands the contract's own key needs ValidContractIsKeyed, and
\* that a late KMSM write does not disturb a valid contract's marks needs the
\* bounds in TypeOK.
ControlInv ==
  /\ TypeOK
  /\ ValidContractIsKeyed
  /\ EnabledIsProtected
  /\ ValidNeedsUpload

\* A decoded field names a genuine contract or is junk (mojov_dc_decode).
LEMMA FieldOfType ==
  ASSUME NEW k, NEW m, NEW blocks
  PROVE  FieldOf(k, m, blocks) \in Genuine \cup {Junk}
  BY DEF FieldOf

\* Whatever is decoded is a data contract, with the header the plaintext holds.
LEMMA DecodingsType ==
  ASSUME NEW k, NEW m, NEW dc \in Decodings(k, m)
  PROVE  dc \in DataContracts /\ dc.sig = FieldOf(k, m, SigBlocks)
  <1>1. FieldOf(k, m, SigBlocks) \in Origins /\ FieldOf(k, m, KeyBlocks) \in Origins
        /\ FieldOf(k, m, CsigBlocks) \in Origins
    BY FieldOfType, ContractsAssumption DEF Origins
  <1>2. FieldOf(k, m, FmtBlocks) # Junk => FormatOf[FieldOf(k, m, FmtBlocks)] \in Formats
    BY FieldOfType, ContractsAssumption
  <1> QED
    BY <1>1, <1>2 DEF Decodings, DataContracts

\* The KMSM sizes are positive multiples of the window.
LEMMA SizesType ==
  /\ pubkey_bytes \in Nat /\ enckey_bytes \in Nat /\ encdc_bytes \in Nat
  /\ pubkey_bytes = 8 * PubWindows
  /\ enckey_bytes = 8 * KeyWindows
  /\ encdc_bytes = 8 * DcWindows
  /\ kmsm_bytes_total = 8 * PubWindows + 8 * KeyWindows + 8 * DcWindows
  /\ kmsm_bytes_total \in Nat \ {0}
  BY SizesAssumption, ControlAssumption
     DEF pubkey_bytes, enckey_bytes, encdc_bytes, kmsm_bytes_total, kmsm_window_bytes

\* A raised mark stays within its area and never falls.
LEMMA RaisedMarkBounds ==
  ASSUME NEW limit \in Nat, NEW mark \in 0 .. limit, NEW off \in Nat
  PROVE  /\ RaisedMark(mark, off, limit) \in 0 .. limit
         /\ mark = limit => RaisedMark(mark, off, limit) = limit
  BY DEF RaisedMark, kmsm_window_bytes

\* The controller's status field always fits the three bits software reads.
LEMMA CtrlFieldType ==
  ASSUME NEW status \in OpenStatuses
  PROVE  CtrlField(status) \in 0 .. 7
  BY DEF CtrlField, OpenStatuses, HostFaults

\* A processor_t just constructed satisfies the invariant.
LEMMA InitControlInv == Init => ControlInv
  <1> SUFFICES ASSUME Init PROVE ControlInv
    OBVIOUS
  <1>1. mojov_en \in BOOLEAN /\ secreg_mode \in BOOLEAN /\ mojov_dcvalid \in BOOLEAN
        /\ kmsm_ctrl_busy \in BOOLEAN
    BY DEF Init
  <1>2. mojov_dc \in DataContracts
    BY DEF Init, ZeroContract, DataContracts, Origins, Formats, FORMAT_SEL_FAST
  <1>3. simon_state \in Keys /\ kem \in [0 .. KeyWindows - 1 -> Words]
        /\ msg \in [0 .. DcWindows - 1 -> Words]
    BY DEF Init, Keys, BlankKem, BlankMsg, Words
  <1>4. kmsm_addr \in Nat /\ kmsm_enckey_bytes \in 0 .. enckey_bytes
        /\ kmsm_encdc_bytes \in 0 .. encdc_bytes /\ kmsm_ctrl_status \in 0 .. 7
    BY SizesType DEF Init
  <1>5. TypeOK
    BY <1>1, <1>2, <1>3, <1>4, Zenon DEF TypeOK
  <1> QED
    BY <1>5 DEF Init, ControlInv, ValidContractIsKeyed, EnabledIsProtected, ValidNeedsUpload

----------------------------------------------------------------------------
\* One lemma per handler: each keeps the invariant.

\* processor_t::reset keeps it, secret mode and the cipher core surviving.
LEMMA ResetKeeps == ControlInv /\ Reset => ControlInv'
  <1> SUFFICES ASSUME ControlInv, Reset PROVE ControlInv'
    OBVIOUS
  <1>1. (mojov_en \in BOOLEAN /\ secreg_mode \in BOOLEAN /\ mojov_dcvalid \in BOOLEAN
         /\ kmsm_ctrl_busy \in BOOLEAN)'
    BY DEF Reset, ControlInv, TypeOK
  <1>2. (mojov_dc \in DataContracts)'
    BY DEF Reset, ZeroContract, DataContracts, Origins, Formats, FORMAT_SEL_FAST
  <1>3. (simon_state \in Keys /\ kem \in [0 .. KeyWindows - 1 -> Words]
         /\ msg \in [0 .. DcWindows - 1 -> Words])'
    BY DEF Reset, ControlInv, TypeOK, BlankKem, BlankMsg, Words
  <1>4. (kmsm_addr \in Nat /\ kmsm_enckey_bytes \in 0 .. enckey_bytes
         /\ kmsm_encdc_bytes \in 0 .. encdc_bytes /\ kmsm_ctrl_status \in 0 .. 7)'
    BY SizesType DEF Reset
  <1>5. TypeOK'
    BY <1>1, <1>2, <1>3, <1>4, Zenon DEF TypeOK
  <1> QED
    BY <1>5 DEF Reset, ControlInv, ValidContractIsKeyed, EnabledIsProtected, ValidNeedsUpload

\* Enabling, re-enabling, disabling and a refused enable keep it.
LEMMA WriteCfgKeeps ==
  ASSUME NEW req \in BOOLEAN, ControlInv, WriteCfg(req) PROVE ControlInv'
  <1>1. mojov_en' \in BOOLEAN /\ secreg_mode' \in BOOLEAN /\ (mojov_en' => mojov_dcvalid)
    BY Zenon DEF WriteCfg, CfgGrants, ControlInv, TypeOK
  <1>2. simon_state' = IF mojov_en' THEN mojov_dc.key ELSE simon_state
    BY <1>1, Zenon DEF WriteCfg
  <1>3. simon_state' \in Keys
    BY <1>2 DEF ControlInv, TypeOK, DataContracts, Keys
  <1>4. TypeOK'
    BY <1>1, <1>3, Zenon DEF WriteCfg, ControlInv, TypeOK, uploadVars, ctrlVars
  <1>5. ValidContractIsKeyed'
    BY <1>2, Zenon DEF WriteCfg, ControlInv, ValidContractIsKeyed
  <1>6. EnabledIsProtected'
    BY <1>1, Zenon DEF WriteCfg, EnabledIsProtected
  <1>7. ValidNeedsUpload'
    BY Zenon DEF WriteCfg, ControlInv, ValidNeedsUpload, uploadVars
  <1> QED
    BY <1>4, <1>5, <1>6, <1>7 DEF ControlInv

\* Moving the upload address keeps it.
LEMMA WriteKmsmAddrKeeps ==
  ASSUME NEW addr \in Nat, ControlInv, WriteKmsmAddr(addr) PROVE ControlInv'
  <1>1. kmsm_addr' \in Nat
    BY DEF WriteKmsmAddr
  <1> QED
    BY <1>1, Zenon DEF WriteKmsmAddr, ControlInv, TypeOK, ValidContractIsKeyed,
       EnabledIsProtected, ValidNeedsUpload, modeVars, contractVars, ctrlVars

\* A CSR write that is dropped keeps it.
LEMMA StutterKeeps == ControlInv /\ UNCHANGED controlVars => ControlInv'
  <1> SUFFICES ASSUME ControlInv, UNCHANGED controlVars PROVE ControlInv'
    OBVIOUS
  <1>1. UNCHANGED modeVars /\ UNCHANGED contractVars /\ UNCHANGED uploadVars /\ UNCHANGED ctrlVars
    BY DEF controlVars
  <1> QED
    BY <1>1, Zenon DEF ControlInv, TypeOK, ValidContractIsKeyed, EnabledIsProtected,
       ValidNeedsUpload, modeVars, contractVars, uploadVars, ctrlVars

\* An uploaded window keeps it: the marks only rise.
LEMMA WriteKmsmDataKeeps ==
  ASSUME NEW val \in Words, ControlInv, WriteKmsmData(val) PROVE ControlInv'
  <1> USE DEF ControlInv
  <1>0. kmsm_addr \in Nat
    BY DEF TypeOK
  <1>1. CASE WriteKmsmDropped
    BY <1>1, StutterKeeps DEF WriteKmsmDropped
  <1>2. CASE WriteKmsmUnaligned
    <2>1. kmsm_ctrl_status' \in 0 .. 7
      BY <1>2, CtrlFieldType DEF WriteKmsmUnaligned, OpenStatuses
    <2> QED
      BY <1>2, <2>1, Zenon DEF WriteKmsmUnaligned, TypeOK, ValidContractIsKeyed,
         EnabledIsProtected, ValidNeedsUpload, modeVars, contractVars, uploadVars
  <1>3. ASSUME kmsm_addr' = NextAddr PROVE kmsm_addr' \in Nat
    BY <1>0, <1>3, SizesType DEF NextAddr, kmsm_window_bytes
  <1>4. CASE WriteKmsmKey(val)
    <2>1. kmsm_addr - pubkey_bytes \in Nat
      BY <1>0, <1>4, SizesType DEF WriteKmsmKey
    <2>2. /\ kmsm_enckey_bytes' \in 0 .. enckey_bytes
          /\ kmsm_enckey_bytes = enckey_bytes => kmsm_enckey_bytes' = enckey_bytes
      BY <1>4, <2>1, SizesType, RaisedMarkBounds, Zenon DEF WriteKmsmKey, TypeOK
    <2>3. kem' \in [0 .. KeyWindows - 1 -> Words]
      BY <1>4 DEF WriteKmsmKey, TypeOK
    <2> QED
      BY <1>3, <1>4, <2>2, <2>3, Zenon DEF WriteKmsmKey, TypeOK, ValidContractIsKeyed,
         EnabledIsProtected, ValidNeedsUpload, modeVars, contractVars, ctrlVars
  <1>5. CASE WriteKmsmDc(val)
    <2>1. kmsm_addr - (pubkey_bytes + enckey_bytes) \in Nat
      BY <1>0, <1>5, SizesType DEF WriteKmsmDc
    <2>2. /\ kmsm_encdc_bytes' \in 0 .. encdc_bytes
          /\ kmsm_encdc_bytes = encdc_bytes => kmsm_encdc_bytes' = encdc_bytes
      BY <1>5, <2>1, SizesType, RaisedMarkBounds, Zenon DEF WriteKmsmDc, TypeOK
    <2>3. msg' \in [0 .. DcWindows - 1 -> Words]
      BY <1>5 DEF WriteKmsmDc, TypeOK
    <2> QED
      BY <1>3, <1>5, <2>2, <2>3, Zenon DEF WriteKmsmDc, TypeOK, ValidContractIsKeyed,
         EnabledIsProtected, ValidNeedsUpload, modeVars, contractVars, ctrlVars
  <1> QED
    BY <1>1, <1>2, <1>4, <1>5 DEF WriteKmsmData

\* Every exit of mojov_kmsm_open_contract keeps it.
LEMMA OpenContractKeeps == ControlInv /\ OpenContract => ControlInv'
  <1> SUFFICES ASSUME ControlInv, OpenContract PROVE ControlInv'
    OBVIOUS
  <1> USE DEF ControlInv
  <1>1. CASE OpenRefused
    <2>1. kmsm_ctrl_status' \in 0 .. 7
      BY <1>1, CtrlFieldType DEF OpenRefused, OpenStatuses
    <2> QED
      BY <1>1, <2>1, Zenon DEF OpenRefused, TypeOK, ValidContractIsKeyed,
         EnabledIsProtected, ValidNeedsUpload, modeVars, contractVars, uploadVars
  <1>2. ASSUME NEW status \in OpenStatuses, OpenAttempted(status)
        PROVE  /\ mojov_dc' \in DataContracts
               /\ kmsm_ctrl_status' \in 0 .. 7
    BY <1>2, CtrlFieldType, DecodingsType DEF OpenAttempted, TypeOK
  <1>3. CASE OpenFailed
    <2>1. PICK status \in OpenStatuses \ {"OK"} :
            OpenAttempted(status) /\ mojov_dcvalid' = FALSE /\ UNCHANGED simon_state
      BY <1>3 DEF OpenFailed
    <2>2. mojov_dc' \in DataContracts /\ kmsm_ctrl_status' \in 0 .. 7
      BY <1>2, <2>1
    <2>3. ~mojov_en' /\ secreg_mode' = secreg_mode
      BY <2>1 DEF OpenAttempted, OpenAllowed, modeVars
    <2>4. TypeOK'
      BY <2>1, <2>2, <2>3, Zenon DEF OpenAttempted, TypeOK, modeVars, uploadVars
    <2> QED
      BY <2>1, <2>3, <2>4, Zenon DEF ValidContractIsKeyed, EnabledIsProtected, ValidNeedsUpload
  <1>4. CASE OpenSucceeded
    <2>1. OpenAttempted("OK") /\ mojov_dcvalid' = TRUE /\ simon_state' = mojov_dc'.key
      BY <1>4 DEF OpenSucceeded
    <2>2. mojov_dc' \in DataContracts /\ kmsm_ctrl_status' \in 0 .. 7
      BY <1>2, <2>1 DEF OpenStatuses
    <2>3. ~mojov_en' /\ secreg_mode' = secreg_mode
      BY <2>1 DEF OpenAttempted, OpenAllowed, modeVars
    <2>4. simon_state' \in Keys
      BY <2>1, <2>2 DEF DataContracts, Keys
    <2>5. TypeOK'
      BY <2>1, <2>2, <2>3, <2>4, Zenon DEF OpenAttempted, TypeOK, modeVars, uploadVars
    <2>6. /\ kmsm_enckey_bytes \div kmsm_window_bytes = KeyWindows
          /\ FieldOf(kem, msg, SigBlocks) # Junk
      BY <2>1 DEF OpenAttempted, OpenStatus, HostFaults, FaultsBeforeSizeQuery
    <2>7. mojov_dc'.sig = FieldOf(kem, msg, SigBlocks)
      BY <2>1, DecodingsType DEF OpenAttempted, OpenDecodes
    <2>8. mojov_dc'.sig \in Genuine
      BY <2>6, <2>7, FieldOfType
    <2>9. kmsm_enckey_bytes = enckey_bytes
      BY <2>6, SizesType, SizesAssumption DEF TypeOK, kmsm_window_bytes
    <2>10. ValidNeedsUpload'
      BY <2>1, <2>9 DEF OpenAttempted, OpenAllowed, UploadIncomplete, ValidNeedsUpload, uploadVars
    <2> QED
      BY <2>1, <2>3, <2>5, <2>8, <2>10, Zenon DEF ValidContractIsKeyed, EnabledIsProtected
  <1> QED
    BY <1>1, <1>3, <1>4 DEF OpenContract

\* So does every step of the hart.
LEMMA NextKeeps == ControlInv /\ [Next]_controlVars => ControlInv'
  <1> SUFFICES ASSUME ControlInv, [Next]_controlVars PROVE ControlInv'
    OBVIOUS
  <1>1. ASSUME NEW val \in {0, 1}, WriteKmsmCtrl(val) PROVE ControlInv'
    BY <1>1, OpenContractKeeps, StutterKeeps DEF WriteKmsmCtrl
  <1> QED
    BY <1>1, ControlAssumption, ResetKeeps, WriteCfgKeeps, WriteKmsmAddrKeeps, WriteKmsmDataKeeps, StutterKeeps
       DEF Next, SoftwareStep

\* Every reachable state satisfies the invariant, hence each of the safety
\* properties of the control state: types, a valid contract beside its own
\* key, an enabled CSR beside active checks, and a complete upload.
THEOREM ControlSafety ==
  Spec => [](TypeOK /\ ValidContractIsKeyed /\ EnabledIsProtected /\ ValidNeedsUpload)
  <1>1. Spec => []ControlInv
    BY InitControlInv, NextKeeps, PTL DEF Spec
  <1> QED
    BY <1>1, PTL DEF ControlInv

----------------------------------------------------------------------------
\* While mojov_cfg stays enabled, no CSR write or reset changes the contract,
\* its validity or the key in the cipher core.
THEOREM ContractFrozen == Spec => ContractFrozenWhileEnabled
  <1>1. ControlInv /\ [Next]_controlVars
          => [mojov_en /\ mojov_en' => UNCHANGED contractVars]_controlVars
    <2> SUFFICES ASSUME ControlInv, Next, mojov_en, mojov_en'
                 PROVE  UNCHANGED contractVars
      OBVIOUS
    <2>1. CASE Reset
      BY <2>1 DEF Reset
    <2>2. ASSUME NEW req \in BOOLEAN, WriteCfg(req) PROVE UNCHANGED contractVars
      BY <2>2 DEF WriteCfg, ControlInv, ValidContractIsKeyed, EnabledIsProtected, contractVars
    <2>3. ASSUME NEW addr \in AddrInputs, WriteKmsmAddr(addr) PROVE UNCHANGED contractVars
      BY <2>3 DEF WriteKmsmAddr
    <2>4. ASSUME NEW val \in Words, WriteKmsmData(val) PROVE UNCHANGED contractVars
      BY <2>4 DEF WriteKmsmData, WriteKmsmDropped, WriteKmsmUnaligned, WriteKmsmKey,
         WriteKmsmDc, controlVars
    <2>5. ASSUME NEW val \in {0, 1}, WriteKmsmCtrl(val) PROVE UNCHANGED contractVars
      BY <2>5 DEF WriteKmsmCtrl, OpenContract, OpenRefused, OpenFailed, OpenSucceeded,
         OpenAttempted, OpenAllowed, controlVars
    <2> QED
      BY <2>1, <2>2, <2>3, <2>4, <2>5 DEF Next, SoftwareStep
  <1>2. Spec => []ControlInv
    BY InitControlInv, NextKeeps, PTL DEF Spec
  <1> QED
    BY <1>1, <1>2, PTL DEF Spec, ContractFrozenWhileEnabled

----------------------------------------------------------------------------
\* The key a successful open leaves in the cipher core is a loadable one.
LEMMA OpenSucceededKey ==
  ASSUME ControlInv, OpenSucceeded
  PROVE  mojov_dc'.key \in Origins
  <1>1. mojov_dc' \in Decodings(kem, msg)
    BY DEF OpenSucceeded, OpenAttempted, OpenDecodes
  <1> QED
    BY <1>1, DecodingsType DEF DataContracts

\* Every step of the control state is a step of the lifecycle, or invisible.
LEMMA NextImplements ==
  ControlInv /\ [Next]_controlVars => [Lifecycle!LNext]_(Lifecycle!lifecycleVars)
  <1> SUFFICES ASSUME ControlInv, [Next]_controlVars
               PROVE  Lifecycle!LNext \/ (Phase' = Phase /\ KeyInUse' = KeyInUse)
    BY DEF Lifecycle!lifecycleVars
  <1> USE DEF Lifecycle!LNext
  <1>1. CASE Reset
    BY <1>1 DEF Reset, Lifecycle!PowerCycle, Phase, KeyInUse
  <1>2. ASSUME NEW req \in BOOLEAN, WriteCfg(req)
        PROVE  Lifecycle!LNext \/ (Phase' = Phase /\ KeyInUse' = KeyInUse)
    <2>1. /\ mojov_dcvalid' = mojov_dcvalid
          /\ mojov_en' => mojov_dcvalid
          /\ mojov_en => mojov_dcvalid
      BY <1>2, Zenon DEF WriteCfg, CfgGrants, ControlInv, EnabledIsProtected
    <2>2. KeyInUse' = KeyInUse
      BY <1>2, <2>1 DEF WriteCfg, ControlInv, ValidContractIsKeyed, KeyInUse
    <2>3. CASE mojov_en /\ ~mojov_en'
      BY <2>1, <2>2, <2>3 DEF Lifecycle!Stop, Phase
    <2>4. CASE ~mojov_en /\ mojov_en'
      BY <2>1, <2>2, <2>4 DEF Lifecycle!Start, Phase
    <2>5. CASE (mojov_en /\ mojov_en') \/ (~mojov_en /\ ~mojov_en')
      BY <2>1, <2>2, <2>5 DEF Phase
    <2> QED
      BY <2>3, <2>4, <2>5
  <1>3. CASE UNCHANGED modeVars /\ UNCHANGED contractVars
    BY <1>3 DEF Phase, KeyInUse, modeVars, contractVars
  <1>4. CASE OpenContract
    <2>1. CASE OpenRefused
      BY <1>3, <2>1 DEF OpenRefused
    <2>2. CASE OpenFailed
      BY <2>2 DEF OpenFailed, OpenAttempted, OpenAllowed, modeVars, Lifecycle!Drop, Phase, KeyInUse
    <2>3. CASE OpenSucceeded
      BY <2>3, OpenSucceededKey DEF OpenSucceeded, OpenAttempted, OpenAllowed, modeVars,
         Lifecycle!Load, Phase, KeyInUse
    <2> QED
      BY <1>4, <2>1, <2>2, <2>3 DEF OpenContract
  <1>5. ASSUME NEW addr \in AddrInputs, WriteKmsmAddr(addr)
        PROVE  UNCHANGED modeVars /\ UNCHANGED contractVars
    BY <1>5 DEF WriteKmsmAddr
  <1>6. ASSUME NEW val \in Words, WriteKmsmData(val)
        PROVE  UNCHANGED modeVars /\ UNCHANGED contractVars
    BY <1>6 DEF WriteKmsmData, WriteKmsmDropped, WriteKmsmUnaligned, WriteKmsmKey,
       WriteKmsmDc, controlVars
  <1>7. ASSUME UNCHANGED controlVars PROVE UNCHANGED modeVars /\ UNCHANGED contractVars
    BY <1>7 DEF controlVars
  <1> QED
    BY <1>1, <1>2, <1>3, <1>4, <1>5, <1>6, <1>7 DEF Next, SoftwareStep, WriteKmsmCtrl

\* For every KMSM size and every set of contracts, the control state of a
\* hart implements the contract lifecycle its owner is promised.
THEOREM ControlImplementsLifecycle == Spec => ImplementsLifecycle
  <1>1. Init => Lifecycle!LInit
    BY DEF Init, Lifecycle!LInit, Phase, KeyInUse
  <1>2. Spec => []ControlInv
    BY InitControlInv, NextKeeps, PTL DEF Spec
  <1> QED
    BY <1>1, <1>2, NextImplements, PTL DEF Spec, ImplementsLifecycle, Lifecycle!LSpec

----------------------------------------------------------------------------
\* What an open leaves in mojov_dc is something instructions may find there.
LEMMA VisibleType ==
  ASSUME NEW dc \in DataContracts
  PROVE  Visible(dc) \in [key : Origins, csig : Origins, format_sel : Formats]
  BY DEF DataContracts, Visible

\* Every step of the control state is a step of the interface that the
\* instruction-level modules extend, or is invisible to instructions.
LEMMA NextImplementsView ==
  ControlInv /\ [Next]_controlVars => [View!SMNext]_(View!smVars)
  <1> SUFFICES ASSUME ControlInv, [Next]_controlVars
               PROVE  View!SMNext \/ UNCHANGED View!smVars
    OBVIOUS
  <1> USE DEF View!SMNext
  <1>1. CASE Reset
    BY <1>1 DEF Reset, View!ResetMode
  <1>2. ASSUME NEW req \in BOOLEAN, WriteCfg(req) PROVE View!SMNext
    <2>1. Visible(mojov_dc).key = mojov_dc.key /\ Visible(mojov_dc)' = Visible(mojov_dc)
      BY <1>2 DEF WriteCfg, Visible
    <2>2. View!SetMode(req)
      BY <1>2, <2>1 DEF WriteCfg, CfgGrants, View!SetMode
    <2> QED
      BY <2>2
  <1>3. CASE UNCHANGED modeVars /\ UNCHANGED contractVars
    BY <1>3 DEF View!smVars, modeVars, contractVars
  <1>4. CASE OpenContract
    <2>1. CASE OpenRefused
      BY <1>3, <2>1 DEF OpenRefused
    <2>2. CASE OpenFailed
      <3>1. PICK status \in OpenStatuses \ {"OK"} : OpenAttempted(status)
        BY <2>2 DEF OpenFailed
      <3>2. Visible(mojov_dc)' \in [key : Origins, csig : Origins, format_sel : Formats]
                                     \cup {Visible(mojov_dc)}
        BY <3>1, DecodingsType, VisibleType DEF OpenAttempted
      <3> QED
        BY <2>2, <3>1, <3>2 DEF OpenFailed, OpenAttempted, OpenAllowed, modeVars, View!OpenBad
    <2>3. CASE OpenSucceeded
      <3>1. mojov_dc' \in Decodings(kem, msg)
        BY <2>3 DEF OpenSucceeded, OpenAttempted, OpenDecodes
      <3>2. Visible(mojov_dc)' \in [key : Origins, csig : Origins, format_sel : Formats]
            /\ Visible(mojov_dc)'.key = mojov_dc'.key
        BY <3>1, DecodingsType, VisibleType DEF Visible
      <3> QED
        BY <2>3, <3>2 DEF OpenSucceeded, OpenAttempted, OpenAllowed, modeVars, View!OpenOk
    <2> QED
      BY <1>4, <2>1, <2>2, <2>3 DEF OpenContract
  <1>5. ASSUME NEW addr \in AddrInputs, WriteKmsmAddr(addr)
        PROVE  UNCHANGED modeVars /\ UNCHANGED contractVars
    BY <1>5 DEF WriteKmsmAddr
  <1>6. ASSUME NEW val \in Words, WriteKmsmData(val)
        PROVE  UNCHANGED modeVars /\ UNCHANGED contractVars
    BY <1>6 DEF WriteKmsmData, WriteKmsmDropped, WriteKmsmUnaligned, WriteKmsmKey,
       WriteKmsmDc, controlVars
  <1>7. ASSUME UNCHANGED controlVars PROVE UNCHANGED modeVars /\ UNCHANGED contractVars
    BY <1>7 DEF controlVars
  <1> QED
    BY <1>1, <1>2, <1>3, <1>4, <1>5, <1>6, <1>7 DEF Next, SoftwareStep, WriteKmsmCtrl

\* What is proved about instructions from SecretMode alone therefore holds of
\* a hart with the whole KMSM behind it.
THEOREM ControlImplementsView == Spec => ImplementsView
  <1>1. Init => View!SMInit
    BY DEF Init, View!SMInit
  <1>2. Spec => []ControlInv
    BY InitControlInv, NextKeeps, PTL DEF Spec
  <1> QED
    BY <1>1, <1>2, NextImplementsView, PTL DEF Spec, ImplementsView, View!SMSpec

\* A valid contract was uploaded completely, for every key and contract size.
THEOREM UploadsComplete == Spec => []ValidNeedsUpload
BY ControlSafety, PTL

\* The control state keeps its types under every sequence of CSR writes and opens.
THEOREM ControlTypes == Spec => []TypeOK
BY ControlSafety, PTL

----------------------------------------------------------------------------
\* The driver.  Its two safety properties are not inductive: they rest on
\* where an upload in progress has got to, and on what the last open left.

\* Writes from here on leave the encapsulated key alone: the address is past
\* it, or has wrapped into the read-only public key and stays there.
PastKey == kmsm_addr < pubkey_bytes \/ kmsm_addr >= pubkey_bytes + enckey_bytes

\* The same of the whole writable area.
PastAll == kmsm_addr < pubkey_bytes \/ kmsm_addr >= kmsm_bytes_total

KeyUploaded == \A w \in 0 .. KeyWindows - 1 : kem[w] = text.c
MsgUploaded == \A w \in 0 .. DcWindows - 1 : msg[w] = text.c

\* What load_hex_words_to_kmsm has stored after pos words of the key text ...
KeyLoading ==
  /\ pos <= KeyWindows => kmsm_addr = pubkey_bytes + 8 * pos
  /\ pos > KeyWindows => PastKey
  /\ \A w \in 0 .. KeyWindows - 1 : w < pos => kem[w] = text.c

\* ... and of the contract text.
MsgLoading ==
  /\ pos < DcWindows => kmsm_addr = pubkey_bytes + enckey_bytes + 8 * pos
  /\ pos >= DcWindows => PastAll
  /\ \A w \in 0 .. DcWindows - 1 : w < pos => msg[w] = text.c

UploadInv ==
  /\ pc = "kem_data" => KeyLoading
  /\ pc = "msg_data" => MsgLoading
  /\ pc \in {"msg_addr", "msg_data", "open"} /\ text.kem >= KeyWindows => KeyUploaded
  /\ pc = "open" /\ text.msg >= DcWindows => MsgUploaded

Loading == {"kem_addr", "kem_data", "msg_addr", "msg_data", "open"}

\* Until the open secret mode is off; after it the status tells whether the
\* contract is valid, and without one nothing is enabled.
OutcomeInv ==
  /\ mojov_dcvalid => HasSkPath
  /\ pc \in Loading => ~mojov_en
  /\ pc \in {"poll", "status"} => (kmsm_ctrl_status = 0 <=> mojov_dcvalid)
  /\ pc = "key_valid" => mojov_dcvalid
  /\ pc \in {"open_failed", "probe", "blocked"} => ~mojov_dcvalid
  /\ pc = "ready" => mojov_en
  /\ DriverNeverSurprised

\* Where a valid contract is the one this run of the program uploaded.
Opened == {"poll", "status", "key_valid", "before", "probe", "blocked", "enable",
           "enabled", "ready"}

OwnInv == pc \in Opened /\ mojov_dcvalid /\ WholeText => Exactly(text.c)

DriverOK == pc \in Running \cup Outcomes /\ text \in Texts /\ pos \in Nat

BootInv == ControlInv /\ DriverOK /\ UploadInv /\ OutcomeInv /\ OwnInv

\* The status field is zero exactly for a contract that was opened.
LEMMA CtrlFieldZero ==
  ASSUME NEW status \in OpenStatuses
  PROVE  CtrlField(status) = 0 <=> status = "OK"
  BY DEF CtrlField, OpenStatuses, HostFaults

\* The address of the next window: at the end of the storage it wraps.
LEMMA NextAddrIs ==
  ASSUME kmsm_addr \in Nat, kmsm_addr + 8 <= kmsm_bytes_total
  PROVE  NextAddr = IF kmsm_addr + 8 = kmsm_bytes_total THEN 0 ELSE kmsm_addr + 8
  <1>1. ASSUME NEW t \in Int, NEW a \in Int, t > 0, 0 <= a, a <= t
        PROVE  a % t = IF a = t THEN 0 ELSE a
    BY <1>1
  <1> QED
    BY <1>1, SizesType DEF NextAddr, kmsm_window_bytes

\* An aligned address inside the storage leaves room for its window.
LEMMA AlignedFits ==
  ASSUME kmsm_addr \in Nat, Aligned, InRange
  PROVE  kmsm_addr + 8 <= kmsm_bytes_total
  BY SizesType, SizesAssumption, ControlAssumption DEF Aligned, InRange, kmsm_window_bytes

\* A window written inside the key area, and the address after it.
LEMMA KeyWrite ==
  ASSUME TypeOK, NEW val, NEW p \in 0 .. KeyWindows - 1,
         kmsm_addr = pubkey_bytes + 8 * p, WriteKmsmData(val)
  PROVE  /\ kem' = [kem EXCEPT ![p] = val]
         /\ kmsm_addr' = pubkey_bytes + 8 * (p + 1)
  <1>1. /\ kmsm_addr = 8 * (PubWindows + p) /\ Aligned /\ InRange
        /\ pubkey_bytes <= kmsm_addr /\ kmsm_addr < pubkey_bytes + enckey_bytes
        /\ Window - PubWindows = p /\ kmsm_addr + 8 < kmsm_bytes_total /\ kmsm_addr \in Nat
    BY SizesType, SizesAssumption, ControlAssumption
       DEF Aligned, InRange, Window, kmsm_window_bytes
  <1>2. WriteKmsmKey(val)
    BY <1>1, SizesType DEF WriteKmsmData, WriteKmsmDropped, WriteKmsmUnaligned, WriteKmsmDc
  <1>3. NextAddr = kmsm_addr + 8
    BY <1>1, NextAddrIs, SizesType
  <1>4. kem' = [kem EXCEPT ![p] = val]
    BY <1>1, <1>2, Zenon DEF WriteKmsmKey
  <1>5. kmsm_addr' = kmsm_addr + 8
    BY <1>2, <1>3, Zenon DEF WriteKmsmKey
  <1> QED
    BY <1>4, <1>5, SizesType

\* The same in the area of the encrypted contract.
LEMMA MsgWrite ==
  ASSUME TypeOK, NEW val, NEW p \in 0 .. DcWindows - 1,
         kmsm_addr = pubkey_bytes + enckey_bytes + 8 * p, WriteKmsmData(val)
  PROVE  /\ msg' = [msg EXCEPT ![p] = val]
         /\ kem' = kem
         /\ kmsm_addr' = IF p + 1 < DcWindows
                         THEN pubkey_bytes + enckey_bytes + 8 * (p + 1) ELSE 0
  <1>1. /\ kmsm_addr = 8 * (PubWindows + KeyWindows + p) /\ Aligned /\ InRange
        /\ pubkey_bytes <= kmsm_addr /\ kmsm_addr >= pubkey_bytes + enckey_bytes
        /\ Window - PubWindows - KeyWindows = p /\ kmsm_addr + 8 <= kmsm_bytes_total
        /\ kmsm_addr \in Nat
        /\ p + 1 < DcWindows <=> kmsm_addr + 8 # kmsm_bytes_total
    BY SizesType, SizesAssumption, ControlAssumption
       DEF Aligned, InRange, Window, kmsm_window_bytes
  <1>2. WriteKmsmDc(val)
    BY <1>1, SizesType, SizesAssumption, ControlAssumption
       DEF WriteKmsmData, WriteKmsmDropped, WriteKmsmUnaligned, WriteKmsmKey
  <1>3. NextAddr = IF p + 1 < DcWindows THEN kmsm_addr + 8 ELSE 0
    BY <1>1, NextAddrIs, SizesType
  <1>4. msg' = [msg EXCEPT ![p] = val] /\ kem' = kem
    BY <1>1, <1>2, Zenon DEF WriteKmsmDc
  <1>5. kmsm_addr' = IF p + 1 < DcWindows THEN kmsm_addr + 8 ELSE 0
    BY <1>2, <1>3, Zenon DEF WriteKmsmDc
  <1> QED
    BY <1>4, <1>5, SizesType

\* A word too many never reaches back into the key ...
LEMMA PastKeyWrite ==
  ASSUME TypeOK, NEW val, PastKey, WriteKmsmData(val)
  PROVE  kem' = kem /\ PastKey'
  <1>1. pubkey_bytes > 0 /\ kmsm_addr \in Nat
    BY SizesType, ControlAssumption DEF TypeOK
  <1>2. CASE WriteKmsmDropped \/ WriteKmsmUnaligned
    BY <1>2 DEF WriteKmsmDropped, WriteKmsmUnaligned, controlVars, uploadVars, PastKey,
       pubkey_bytes, enckey_bytes
  <1>3. ~WriteKmsmKey(val)
    BY <1>1, SizesType DEF WriteKmsmKey, PastKey
  <1>4. CASE WriteKmsmDc(val)
    <2>1. kmsm_addr' = 0 \/ kmsm_addr' = kmsm_addr + 8
      BY <1>1, <1>4, AlignedFits, NextAddrIs DEF WriteKmsmDc
    <2>2. kmsm_addr >= pubkey_bytes + enckey_bytes
      BY <1>1, <1>4, SizesType DEF WriteKmsmDc
    <2> QED
      BY <1>1, <1>4, <2>1, <2>2, SizesType DEF WriteKmsmDc, PastKey
  <1> QED
    BY <1>2, <1>3, <1>4 DEF WriteKmsmData

\* ... and after the last window of all, none reaches the writable bytes.
LEMMA PastAllWrite ==
  ASSUME TypeOK, NEW val, PastAll, WriteKmsmData(val)
  PROVE  kem' = kem /\ msg' = msg /\ PastAll'
  <1>1. kmsm_addr \in Nat
    BY DEF TypeOK
  <1>2. WriteKmsmDropped \/ WriteKmsmUnaligned
    BY <1>1, SizesType DEF WriteKmsmData, WriteKmsmKey, WriteKmsmDc, PastAll, InRange
  <1> QED
    BY <1>2 DEF WriteKmsmDropped, WriteKmsmUnaligned, controlVars, uploadVars, PastAll

\* An upload touches neither the mode nor the contract.
LEMMA DataWriteFrame ==
  ASSUME NEW val, WriteKmsmData(val)
  PROVE  UNCHANGED modeVars /\ UNCHANGED contractVars
  BY DEF WriteKmsmData, WriteKmsmDropped, WriteKmsmUnaligned, WriteKmsmKey, WriteKmsmDc,
     controlVars

\* Ciphertext that is all contract c's decodes to c if it was made for this
\* device, and to junk otherwise, whatever blocks a field is spread over.
LEMMA OwnField ==
  ASSUME NEW k, NEW m, NEW c, NEW blocks, blocks # {},
         \A w \in 0 .. KeyWindows - 1 : k[w] = c,
         \A w \in 0 .. DcWindows - 1 : m[w] = c
  PROVE  FieldOf(k, m, blocks) = IF c \in Genuine THEN c ELSE Junk
  <1> DEFINE from == {d \in Genuine : \A b \in blocks : Decrypts(k, m, d, b)}
  <1>1. \A b : Decrypts(k, m, c, b)
    BY DEF Decrypts, Decapsulates, BlockIs
  <1>2. ASSUME NEW d, NEW b, Decrypts(k, m, d, b) PROVE d = c
    <2>1. 0 \in 0 .. KeyWindows - 1
      BY SizesAssumption
    <2> QED
      BY <1>2, <2>1 DEF Decrypts, Decapsulates
  <1>3. from = IF c \in Genuine THEN {c} ELSE {}
    BY <1>1, <1>2
  <1>4. FieldOf(k, m, blocks) = IF from = {} THEN Junk ELSE CHOOSE d \in from : TRUE
    BY DEF FieldOf
  <1> HIDE DEF from
  <1>5. CASE c \in Genuine
    <2>1. from = {c} /\ from # {}
      BY <1>3, <1>5
    <2>2. (CHOOSE d \in from : TRUE) = c
      BY <2>1
    <2> QED
      BY <1>4, <1>5, <2>1, <2>2
  <1>6. CASE c \notin Genuine
    BY <1>3, <1>4, <1>6
  <1> QED
    BY <1>5, <1>6

\* An open that succeeds on one contract's whole upload leaves exactly it.
LEMMA OpenOwn ==
  ASSUME OpenSucceeded, KeyUploaded, MsgUploaded, text' = text
  PROVE  Exactly(text.c)'
  <1>1. OpenAttempted("OK")
    BY DEF OpenSucceeded
  <1>2. FieldOf(kem, msg, SigBlocks) # Junk
    BY <1>1 DEF OpenAttempted, OpenStatus, HostFaults, FaultsBeforeSizeQuery
  <1>3. mojov_dc' \in Decodings(kem, msg)
    BY <1>1 DEF OpenAttempted, OpenDecodes
  <1>4. SigBlocks # {} /\ KeyBlocks # {} /\ CsigBlocks # {} /\ FmtBlocks # {}
    BY SizesAssumption
  <1>5. text.c \in Genuine
    BY <1>2, <1>4, OwnField DEF KeyUploaded, MsgUploaded
  <1>6. /\ FieldOf(kem, msg, SigBlocks) = text.c /\ FieldOf(kem, msg, KeyBlocks) = text.c
        /\ FieldOf(kem, msg, CsigBlocks) = text.c /\ FieldOf(kem, msg, FmtBlocks) = text.c
    BY <1>4, <1>5, OwnField DEF KeyUploaded, MsgUploaded
  <1>7. text.c # Junk
    BY <1>5, ContractsAssumption
  <1> QED
    BY <1>3, <1>6, <1>7 DEF Decodings, Exactly

----------------------------------------------------------------------------
\* During an upload only what has been stored matters.
LEMMA LoadingKeeps ==
  ASSUME BootInv, pc \in Loading, pc' \in Loading,
         UNCHANGED modeVars, UNCHANGED contractVars
  PROVE  OutcomeInv' /\ OwnInv'
  BY DEF BootInv, OutcomeInv, OwnInv, Loading, Opened, DriverNeverSurprised,
     modeVars, contractVars

\* After it what is stored no longer matters.
LEMMA UploadOver ==
  ASSUME pc' \notin {"kem_data", "msg_addr", "msg_data", "open"}
  PROVE  UploadInv'
  BY DEF UploadInv

\* The first word of a text goes to the start of its area.
LEMMA LoadAddrKeeps ==
  ASSUME BootInv,
         \/ LoadAddr("kem_addr", pubkey_bytes, "kem_data")
         \/ LoadAddr("msg_addr", pubkey_bytes + enckey_bytes, "msg_data")
  PROVE  BootInv'
  <1> USE DEF LoadAddr, Goto
  <1>1. pubkey_bytes \in Nat /\ pubkey_bytes + enckey_bytes \in Nat
    BY SizesType
  <1>2. ControlInv'
    BY <1>1, WriteKmsmAddrKeeps DEF BootInv
  <1>3. DriverOK'
    BY DEF BootInv, DriverOK, Running
  <1>4. pc \in Loading /\ pc' \in Loading
    BY DEF Loading
  <1>5. OutcomeInv' /\ OwnInv'
    BY <1>4, LoadingKeeps DEF WriteKmsmAddr
  <1>6. CASE LoadAddr("kem_addr", pubkey_bytes, "kem_data")
    <2>1. pc' = "kem_data" /\ pos' = 0 /\ kmsm_addr' = pubkey_bytes
      BY <1>6 DEF WriteKmsmAddr
    <2>2. KeyLoading'
      BY <2>1, SizesType, SizesAssumption DEF KeyLoading
    <2> QED
      BY <1>2, <1>3, <1>5, <2>1, <2>2 DEF BootInv, UploadInv
  <1>7. CASE LoadAddr("msg_addr", pubkey_bytes + enckey_bytes, "msg_data")
    <2>1. /\ pc = "msg_addr" /\ pc' = "msg_data" /\ pos' = 0 /\ text' = text /\ kem' = kem
          /\ kmsm_addr' = pubkey_bytes + enckey_bytes
      BY <1>7 DEF WriteKmsmAddr
    <2>2. MsgLoading'
      BY <2>1, SizesType, SizesAssumption DEF MsgLoading
    <2>3. (text.kem >= KeyWindows => KeyUploaded)'
      BY <2>1 DEF BootInv, UploadInv, KeyUploaded
    <2> QED
      BY <1>2, <1>3, <1>5, <2>1, <2>2, <2>3 DEF BootInv, UploadInv
  <1> QED
    BY <1>6, <1>7

\* What a step that stores val in the KMSM leaves to show.
LEMMA StoreKeeps ==
  ASSUME BootInv, NEW val \in Words, WriteKmsmData(val), text' = text, pos' \in Nat,
         pc \in Loading, pc' \in Loading, UploadInv'
  PROVE  BootInv'
  <1>1. ControlInv'
    BY WriteKmsmDataKeeps DEF BootInv
  <1>2. OutcomeInv' /\ OwnInv'
    BY LoadingKeeps, DataWriteFrame
  <1>3. DriverOK'
    BY DEF BootInv, DriverOK, Loading, Running
  <1> QED
    BY <1>1, <1>2, <1>3 DEF BootInv

\* A word of the key text: its window holds it, the earlier ones keep theirs.
LEMMA KeyWordKeeps ==
  ASSUME BootInv, LoadWord("kem_data", text.kem, KeyWindows)
  PROVE  BootInv'
  <1> DEFINE val == IF pos < KeyWindows THEN text.c ELSE Blank
  <1>1. /\ pc = "kem_data" /\ pc' = "kem_data" /\ text' = text /\ pos' = pos + 1
        /\ WriteKmsmData(val)
    BY DEF LoadWord, Goto
  <1>2. TypeOK /\ KeyLoading /\ pos \in Nat /\ text.c \in Contracts
    BY <1>1 DEF BootInv, ControlInv, UploadInv, DriverOK, Texts
  <1>3. val \in Words
    BY <1>2 DEF Words
  <1>4. ASSUME pos < KeyWindows PROVE KeyLoading'
    <2>1. pos \in 0 .. KeyWindows - 1 /\ kmsm_addr = pubkey_bytes + 8 * pos
      BY <1>2, <1>4, SizesAssumption DEF KeyLoading
    <2>2. kem' = [kem EXCEPT ![pos] = text.c] /\ kmsm_addr' = pubkey_bytes + 8 * (pos + 1)
      BY <1>1, <1>2, <1>4, <2>1, KeyWrite
    <2>3. ASSUME NEW w \in 0 .. KeyWindows - 1, w < pos + 1 PROVE kem'[w] = text.c
      BY <1>2, <2>1, <2>2, <2>3 DEF KeyLoading, TypeOK
    <2> QED
      BY <1>1, <1>2, <1>4, <2>2, <2>3, SizesAssumption DEF KeyLoading
  <1>5. ASSUME ~(pos < KeyWindows) PROVE KeyLoading'
    <2>1. PastKey
      BY <1>2, <1>5, SizesType, SizesAssumption DEF KeyLoading, PastKey
    <2>2. kem' = kem /\ PastKey'
      BY <1>1, <1>2, <2>1, PastKeyWrite
    <2> QED
      BY <1>1, <1>2, <1>5, <2>2, SizesAssumption DEF KeyLoading
  <1>6. KeyLoading'
    BY <1>4, <1>5
  <1>7. UploadInv'
    BY <1>1, <1>6 DEF UploadInv
  <1> HIDE DEF val
  <1> QED
    BY <1>1, <1>2, <1>3, <1>7, StoreKeeps DEF Loading

\* A word of the contract text, likewise; the key stays as it was loaded.
LEMMA MsgWordKeeps ==
  ASSUME BootInv, LoadWord("msg_data", text.msg, DcWindows)
  PROVE  BootInv'
  <1> DEFINE val == IF pos < DcWindows THEN text.c ELSE Blank
  <1>1. /\ pc = "msg_data" /\ pc' = "msg_data" /\ text' = text /\ pos' = pos + 1
        /\ WriteKmsmData(val)
    BY DEF LoadWord, Goto
  <1>2. TypeOK /\ MsgLoading /\ pos \in Nat /\ text.c \in Contracts
    BY <1>1 DEF BootInv, ControlInv, UploadInv, DriverOK, Texts
  <1>3. val \in Words
    BY <1>2 DEF Words
  <1>4. ASSUME pos < DcWindows PROVE MsgLoading' /\ kem' = kem
    <2>1. pos \in 0 .. DcWindows - 1 /\ kmsm_addr = pubkey_bytes + enckey_bytes + 8 * pos
      BY <1>2, <1>4, SizesAssumption DEF MsgLoading
    <2>2. /\ msg' = [msg EXCEPT ![pos] = text.c] /\ kem' = kem
          /\ kmsm_addr' = IF pos + 1 < DcWindows
                          THEN pubkey_bytes + enckey_bytes + 8 * (pos + 1) ELSE 0
      BY <1>1, <1>2, <1>4, <2>1, MsgWrite
    <2>3. ASSUME NEW w \in 0 .. DcWindows - 1, w < pos + 1 PROVE msg'[w] = text.c
      BY <1>2, <2>1, <2>2, <2>3 DEF MsgLoading, TypeOK
    <2>4. pos + 1 >= DcWindows => PastAll'
      BY <1>2, <2>2, SizesType, SizesAssumption, ControlAssumption DEF PastAll
    <2> QED
      BY <1>1, <1>2, <1>4, <2>2, <2>3, <2>4, SizesAssumption DEF MsgLoading
  <1>5. ASSUME ~(pos < DcWindows) PROVE MsgLoading' /\ kem' = kem
    <2>1. PastAll
      BY <1>2, <1>5, SizesAssumption DEF MsgLoading
    <2>2. kem' = kem /\ msg' = msg /\ PastAll'
      BY <1>1, <1>2, <2>1, PastAllWrite
    <2> QED
      BY <1>1, <1>2, <1>5, <2>2, SizesAssumption DEF MsgLoading
  <1>6. MsgLoading' /\ kem' = kem
    BY <1>4, <1>5
  <1>7. UploadInv'
    BY <1>1, <1>6 DEF BootInv, UploadInv, KeyUploaded
  <1> HIDE DEF val
  <1> QED
    BY <1>1, <1>2, <1>3, <1>7, StoreKeeps DEF Loading

\* The end of the key text: an incomplete last word falls beyond a whole key.
LEMMA KeyDoneKeeps ==
  ASSUME BootInv, LoadDone("kem_data", text.kem, "msg_addr")
  PROVE  BootInv'
  <1>1. pc = "kem_data" /\ pc' = "msg_addr" /\ text' = text /\ pos' = pos /\ pos = text.kem
    BY DEF LoadDone, Goto
  <1>2. TypeOK /\ KeyLoading /\ pos \in Nat /\ Blank \in Words
    BY <1>1 DEF BootInv, ControlInv, UploadInv, DriverOK, Words
  <1>3. CASE WriteKmsmData(Blank)
    <2>1. ASSUME text.kem >= KeyWindows PROVE KeyUploaded'
      <3>1. PastKey /\ KeyUploaded
        BY <1>1, <1>2, <2>1, SizesType, SizesAssumption DEF KeyLoading, PastKey, KeyUploaded
      <3>2. kem' = kem
        BY <1>2, <1>3, <3>1, PastKeyWrite
      <3> QED
        BY <1>1, <3>1, <3>2 DEF KeyUploaded
    <2>2. UploadInv'
      BY <1>1, <2>1 DEF UploadInv
    <2> QED
      BY <1>1, <1>2, <1>3, <2>2, StoreKeeps DEF Loading
  <1>4. CASE UNCHANGED controlVars
    <2>1. ControlInv' /\ UNCHANGED modeVars /\ UNCHANGED contractVars /\ kem' = kem
      BY <1>4, StutterKeeps DEF BootInv, controlVars, uploadVars
    <2>2. OutcomeInv' /\ OwnInv'
      BY <1>1, <2>1, LoadingKeeps DEF Loading
    <2>3. (text.kem >= KeyWindows => KeyUploaded)'
      BY <1>1, <1>2, <2>1, SizesAssumption DEF KeyLoading, KeyUploaded
    <2>4. DriverOK'
      BY <1>1 DEF BootInv, DriverOK, Running
    <2> QED
      BY <1>1, <2>1, <2>2, <2>3, <2>4 DEF BootInv, UploadInv
  <1> QED
    BY <1>3, <1>4 DEF LoadDone

\* The end of the contract text.
LEMMA MsgDoneKeeps ==
  ASSUME BootInv, LoadDone("msg_data", text.msg, "open")
  PROVE  BootInv'
  <1>1. pc = "msg_data" /\ pc' = "open" /\ text' = text /\ pos' = pos /\ pos = text.msg
    BY DEF LoadDone, Goto
  <1>2. /\ TypeOK /\ MsgLoading /\ pos \in Nat /\ Blank \in Words
        /\ text.kem >= KeyWindows => KeyUploaded
    BY <1>1 DEF BootInv, ControlInv, UploadInv, DriverOK, Words
  <1>3. CASE WriteKmsmData(Blank)
    <2>1. kem' = kem
      <3>1. CASE pos < DcWindows
        <4>1. pos \in 0 .. DcWindows - 1 /\ kmsm_addr = pubkey_bytes + enckey_bytes + 8 * pos
          BY <1>2, <3>1, SizesAssumption DEF MsgLoading
        <4> QED
          BY <1>2, <1>3, <4>1, MsgWrite
      <3>2. CASE ~(pos < DcWindows)
        <4>1. PastAll
          BY <1>2, <3>2, SizesAssumption DEF MsgLoading
        <4> QED
          BY <1>2, <1>3, <4>1, PastAllWrite
      <3> QED
        BY <3>1, <3>2
    <2>2. ASSUME text.msg >= DcWindows PROVE MsgUploaded'
      <3>1. PastAll /\ MsgUploaded
        BY <1>1, <1>2, <2>2, SizesAssumption DEF MsgLoading, MsgUploaded
      <3>2. msg' = msg
        BY <1>2, <1>3, <3>1, PastAllWrite
      <3> QED
        BY <1>1, <3>1, <3>2 DEF MsgUploaded
    <2>3. UploadInv'
      BY <1>1, <1>2, <2>1, <2>2 DEF UploadInv, KeyUploaded
    <2> QED
      BY <1>1, <1>2, <1>3, <2>3, StoreKeeps DEF Loading
  <1>4. CASE UNCHANGED controlVars
    <2>1. /\ ControlInv' /\ UNCHANGED modeVars /\ UNCHANGED contractVars
          /\ kem' = kem /\ msg' = msg
      BY <1>4, StutterKeeps DEF BootInv, controlVars, uploadVars
    <2>2. OutcomeInv' /\ OwnInv'
      BY <1>1, <2>1, LoadingKeeps DEF Loading
    <2>3. (text.msg >= DcWindows => MsgUploaded)'
      BY <1>1, <1>2, <2>1, SizesAssumption DEF MsgLoading, MsgUploaded
    <2>4. (text.kem >= KeyWindows => KeyUploaded)'
      BY <1>1, <1>2, <2>1 DEF KeyUploaded
    <2>5. DriverOK'
      BY <1>1 DEF BootInv, DriverOK, Running
    <2> QED
      BY <1>1, <2>1, <2>2, <2>3, <2>4, <2>5 DEF BootInv, UploadInv
  <1> QED
    BY <1>3, <1>4 DEF LoadDone

\* The open: a contract an earlier run left valid rules a refusal out, since
\* its upload was complete, the device has a key and secret mode is off.
LEMMA WriteCtrlKeeps ==
  ASSUME BootInv, WriteCtrl
  PROVE  BootInv'
  <1>1. pc = "open" /\ pc' = "poll" /\ text' = text /\ pos' = pos /\ OpenContract
    BY DEF WriteCtrl, Goto, WriteKmsmCtrl
  <1>2. ControlInv' /\ ControlInv
    BY <1>1, OpenContractKeeps DEF BootInv
  <1>3. UploadInv'
    BY <1>1, UploadOver
  <1>4. DriverOK'
    BY <1>1 DEF BootInv, DriverOK, Running
  <1>5. ~mojov_en /\ (mojov_dcvalid => HasSkPath)
    BY <1>1 DEF BootInv, OutcomeInv, Loading
  <1>6. CASE OpenRefused
    <2>1. enckey_bytes # 0
      BY SizesType, SizesAssumption
    <2>2. ~mojov_dcvalid
      BY <1>2, <1>5, <1>6, <2>1 DEF OpenRefused, OpenAllowed, UploadIncomplete, ControlInv,
         ValidNeedsUpload
    <2>3. kmsm_ctrl_status' # 0
      BY <1>6, CtrlFieldZero DEF OpenRefused, OpenStatuses
    <2>4. ~mojov_dcvalid'
      BY <1>6, <2>2 DEF OpenRefused, contractVars
    <2> QED
      BY <1>1, <1>2, <1>3, <1>4, <2>3, <2>4
         DEF BootInv, OutcomeInv, OwnInv, Loading, DriverNeverSurprised
  <1>7. CASE OpenFailed
    <2>1. PICK status \in OpenStatuses \ {"OK"} : OpenAttempted(status) /\ mojov_dcvalid' = FALSE
      BY <1>7 DEF OpenFailed
    <2>2. kmsm_ctrl_status' # 0 /\ ~mojov_dcvalid'
      BY <2>1, CtrlFieldZero DEF OpenAttempted
    <2> QED
      BY <1>1, <1>2, <1>3, <1>4, <2>2
         DEF BootInv, OutcomeInv, OwnInv, Loading, DriverNeverSurprised
  <1>8. CASE OpenSucceeded
    <2>1. OpenAttempted("OK") /\ mojov_dcvalid' = TRUE
      BY <1>8 DEF OpenSucceeded
    <2>2. kmsm_ctrl_status' = 0 /\ HasSkPath
      BY <2>1, CtrlFieldZero DEF OpenAttempted, OpenAllowed, OpenStatuses
    <2>3. WholeText => KeyUploaded /\ MsgUploaded
      BY <1>1 DEF BootInv, UploadInv, WholeText
    <2>4. WholeText' => Exactly(text.c)'
      BY <1>1, <1>8, <2>3, OpenOwn DEF WholeText
    <2> QED
      BY <1>1, <1>2, <1>3, <1>4, <2>1, <2>2, <2>4
         DEF BootInv, OutcomeInv, OwnInv, Loading, DriverNeverSurprised
  <1> QED
    BY <1>1, <1>6, <1>7, <1>8 DEF OpenContract

\* A CSR read and the branch on it.
LEMMA ReadKeeps ==
  ASSUME BootInv, UNCHANGED controlVars, text' = text, pos' = pos,
         pc \in Opened \ {"ready"},
         pc' \in Opened \cup Outcomes,
         OutcomeInv'
  PROVE  BootInv'
  <1>1. ControlInv'
    BY StutterKeeps DEF BootInv
  <1>2. UploadInv'
    BY UploadOver DEF Opened, Outcomes
  <1>3. DriverOK'
    BY DEF BootInv, DriverOK, Opened, Running, Outcomes
  <1>4. mojov_dcvalid' = mojov_dcvalid /\ mojov_dc' = mojov_dc
    BY DEF controlVars, contractVars
  <1>5. OwnInv'
    BY <1>4 DEF BootInv, OwnInv, Opened, Exactly, WholeText
  <1> QED
    BY <1>1, <1>2, <1>3, <1>5 DEF BootInv

\* Every branch the driver takes on what it reads is one it expects.
LEMMA BranchKeeps ==
  ASSUME BootInv,
         \/ Read("poll", kmsm_ctrl_busy, "poll", "status")
         \/ Read("status", kmsm_ctrl_status = 0, "key_valid", "open_failed")
         \/ Read("key_valid", mojov_dcvalid, "before", "key_not_valid")
         \/ Read("before", mojov_dcvalid, "enable", "probe")
         \/ Read("blocked", mojov_en, "enabled_without_key", "enable")
         \/ Read("enabled", mojov_en, "ready", "not_enabled")
  PROVE  BootInv'
  <1> USE DEF Read, Goto
  <1>1. UNCHANGED controlVars /\ text' = text /\ pos' = pos
    OBVIOUS
  <1>2. /\ mojov_dcvalid' = mojov_dcvalid /\ mojov_en' = mojov_en
        /\ kmsm_ctrl_status' = kmsm_ctrl_status
    BY <1>1 DEF controlVars, modeVars, contractVars, ctrlVars
  <1>3. (mojov_en => mojov_dcvalid) /\ OutcomeInv
    BY DEF BootInv, ControlInv, EnabledIsProtected
  <1>4. OutcomeInv'
    BY <1>2, <1>3 DEF OutcomeInv, Loading, DriverNeverSurprised
  <1>5. pc \in Opened \ {"ready"} /\ pc' \in Opened \cup Outcomes
    BY DEF Opened, Outcomes
  <1> HIDE DEF Read, Goto
  <1> QED
    BY <1>1, <1>4, <1>5, ReadKeeps

\* Writing mojov_cfg enables secret mode only beside a valid contract.
LEMMA SetEnableKeeps ==
  ASSUME BootInv, SetEnable("probe", "blocked") \/ SetEnable("enable", "enabled")
  PROVE  BootInv'
  <1> USE DEF SetEnable, Goto
  <1>1. ControlInv'
    BY WriteCfgKeeps DEF BootInv
  <1>2. UploadInv'
    BY UploadOver
  <1>3. DriverOK'
    BY DEF BootInv, DriverOK, Running
  <1>4. mojov_dcvalid' = mojov_dcvalid /\ mojov_dc' = mojov_dc /\ text' = text
    BY DEF WriteCfg
  <1>5. OutcomeInv'
    BY <1>4 DEF BootInv, OutcomeInv, Loading, DriverNeverSurprised
  <1>6. OwnInv'
    BY <1>4 DEF BootInv, OwnInv, Opened, Exactly, WholeText
  <1> QED
    BY <1>1, <1>2, <1>3, <1>5, <1>6 DEF BootInv

\* Configuring again turns secret mode off first; going on after a failed open
\* finds no contract valid, whatever text is at hand.
LEMMA AgainKeeps ==
  ASSUME BootInv, Again
  PROVE  BootInv'
  <1>1. text' \in Texts /\ pos' = pos
    BY DEF Again
  <1>2. CASE pc' = "kem_addr" /\ WriteCfg(FALSE)
    <2>1. ControlInv'
      BY <1>2, WriteCfgKeeps DEF BootInv
    <2>2. ~mojov_en' /\ mojov_dcvalid' = mojov_dcvalid
      BY <1>2 DEF WriteCfg, CfgGrants
    <2> QED
      BY <1>1, <1>2, <2>1, <2>2, UploadOver
         DEF BootInv, DriverOK, Running, OutcomeInv, OwnInv, Opened, DriverNeverSurprised
  <1>3. CASE pc = "open_failed" /\ pc' = "before" /\ UNCHANGED controlVars
    <2>1. ControlInv' /\ mojov_dcvalid' = mojov_dcvalid
      BY <1>3, StutterKeeps DEF BootInv, controlVars, contractVars
    <2>2. ~mojov_dcvalid'
      BY <1>3, <2>1 DEF BootInv, OutcomeInv
    <2> QED
      BY <1>1, <1>3, <2>1, <2>2, UploadOver
         DEF BootInv, DriverOK, Running, OutcomeInv, OwnInv, Loading, DriverNeverSurprised
  <1> QED
    BY <1>2, <1>3 DEF Again

\* A reset in the middle of anything starts the program over.
LEMMA DebugResetKeeps ==
  ASSUME BootInv, DebugReset
  PROVE  BootInv'
  <1>1. ControlInv' /\ ~mojov_en' /\ ~mojov_dcvalid'
    BY ResetKeeps DEF BootInv, DebugReset, Reset
  <1> QED
    BY <1>1, UploadOver DEF DebugReset, BootInv, DriverOK, Running, OutcomeInv, OwnInv, Opened,
       DriverNeverSurprised

\* Every step of the driver, the program and the debug module keeps BootInv.
LEMMA BootStep == BootInv /\ [BootNext]_bootVars => BootInv'
  <1> SUFFICES ASSUME BootInv, [BootNext]_bootVars PROVE BootInv'
    OBVIOUS
  <1>1. CASE UNCHANGED bootVars
    <2>1. UNCHANGED controlVars /\ pc' = pc /\ text' = text /\ pos' = pos
      BY <1>1 DEF bootVars, driverVars
    <2>2. UNCHANGED modeVars /\ UNCHANGED contractVars /\ UNCHANGED uploadVars /\ UNCHANGED ctrlVars
      BY <2>1 DEF controlVars
    <2>3. ControlInv'
      BY <2>1, StutterKeeps DEF BootInv
    <2>4. UploadInv' /\ DriverOK'
      BY <2>1, <2>2, Zenon DEF BootInv, DriverOK, UploadInv, KeyLoading, MsgLoading, KeyUploaded,
         MsgUploaded, PastKey, PastAll, uploadVars
    <2>5. OutcomeInv' /\ OwnInv'
      BY <2>1, <2>2, Zenon DEF BootInv, OutcomeInv, OwnInv, DriverNeverSurprised, WholeText,
         Exactly, modeVars, contractVars, ctrlVars
    <2> QED
      BY <2>3, <2>4, <2>5 DEF BootInv
  <1>2. CASE LoadKem \/ LoadMsg
    BY <1>2, LoadAddrKeeps, KeyWordKeeps, KeyDoneKeeps, MsgWordKeeps, MsgDoneKeeps
       DEF LoadKem, LoadMsg
  <1>3. CASE Configure \/ EnableAndVerify
    BY <1>3, WriteCtrlKeeps, BranchKeeps, SetEnableKeeps DEF Configure, EnableAndVerify
  <1> QED
    BY <1>1, <1>2, <1>3, AgainKeeps, DebugResetKeeps DEF BootNext, DriverStep, Finished

\* Before the program configures anything it holds.
LEMMA BootInitInv == BootInit => BootInv
  <1> SUFFICES ASSUME BootInit PROVE BootInv
    OBVIOUS
  <1>1. ControlInv /\ ~mojov_en /\ ~mojov_dcvalid
    BY InitControlInv DEF BootInit, Init
  <1> QED
    BY <1>1 DEF BootInit, BootInv, DriverOK, Running, UploadInv, OutcomeInv, OwnInv, Opened,
       DriverNeverSurprised

\* For every size of the KMSM and of the texts, and however often the program
\* configures contracts and the hart is reset, the driver never meets a
\* successful status without key_valid, nor secret mode without a contract
\* (mojov-utils.c:66, 171).
THEOREM DriverUnsurprised == BootSpec => []DriverNeverSurprised
  <1>1. BootInv => DriverNeverSurprised
    BY DEF BootInv, OutcomeInv
  <1> QED
    BY BootInitInv, BootStep, <1>1, PTL DEF BootSpec

\* A program that got through the driver with a whole text computes under
\* exactly its own contract, for every layout of the contract's fields over
\* the cipher blocks (mojov-utils.c:60-197, processor.cc:130-194).
THEOREM ReadyIsOwn == BootSpec => []ReadyMeansOwnContract
  <1>1. BootInv => ReadyMeansOwnContract
    <2> SUFFICES ASSUME BootInv, pc = "ready", WholeText
                 PROVE  mojov_en /\ secreg_mode /\ Exactly(text.c) /\ simon_state = text.c
      BY DEF ReadyMeansOwnContract
    <2>1. mojov_en /\ secreg_mode /\ mojov_dcvalid /\ simon_state = mojov_dc.key
      BY DEF BootInv, OutcomeInv, ControlInv, EnabledIsProtected, ValidContractIsKeyed
    <2>2. Exactly(text.c)
      BY <2>1 DEF BootInv, OwnInv, Opened
    <2> QED
      BY <2>1, <2>2 DEF Exactly
  <1> QED
    BY BootInitInv, BootStep, <1>1, PTL DEF BootSpec
=============================================================================
