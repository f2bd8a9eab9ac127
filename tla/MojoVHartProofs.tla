-------------------------- MODULE MojoVHartProofs ---------------------------
(***************************************************************************)
(* The information-flow invariant of MojoVHart, for every register file,   *)
(* every choice of secret registers and every set of contracts.            *)
(***************************************************************************)
EXTENDS MojoVHart, TLAPS

\* What the instruction checks rely on about the mode: enabling needs a
\* contract, and a contract's key is in the cipher core.
ModeInv ==
  /\ secreg_mode \in BOOLEAN
  /\ mojov_dcvalid \in BOOLEAN
  /\ mojov_dcvalid => mojov_dc \in Loadable
  /\ CipherKeyed

HartInv == HartTypeOK /\ ModeInv /\ GrantsAreSecret /\ LeaksOnlyByResidue

\* The first state: nothing is secret yet.
LEMMA HartInvInit == HartInit => HartInv
BY HartAssumption DEF HartInit, SMInit, HartInv, HartTypeOK, ModeInv, CipherKeyed,
  GrantsAreSecret, LeaksOnlyByResidue, Clean, Regs, Cells

\* A register that is not blocked from depending on srcs may be written: the
\* taint stays in the secret registers, and stays empty with secret mode off.
LEMMA UnblockedWrite ==
  ASSUME NEW rd, NEW srcs, ~Blocked(rd, srcs), secreg_mode \in BOOLEAN,
         tainted \subseteq Sec, ~secreg_mode => tainted = {},
         NEW t, t = Marked(tainted, rd, Tainted(srcs))
  PROVE  t \subseteq Sec /\ (~secreg_mode => t = {})
<1>1. CASE secreg_mode
  BY <1>1 DEF Blocked, Marked, Tainted, Sec
<1>2. CASE ~secreg_mode
  BY <1>2 DEF Marked, Tainted
<1>3. QED BY <1>1, <1>2

\* A register an instruction may use as an address, a branch operand or a value
\* to store does not depend on secrets.
LEMMA PublicSource ==
  ASSUME NEW r, ~SecretRef(r), Clean, secreg_mode \in BOOLEAN
  PROVE  r \notin tainted
BY DEF SecretRef, Clean

\* Writing a public value.
LEMMA PublicWrite ==
  ASSUME NEW rd, NEW secret, ~secret, Clean, NEW t, t = Marked(tainted, rd, secret)
  PROVE  t \subseteq Sec /\ (~secreg_mode => t = {})
BY DEF Marked, Clean

\* An instruction keeps the mode, so it keeps what is known of it.
LEMMA ModeKept == ModeInv /\ UNCHANGED smVars => ModeInv'
BY DEF ModeInv, CipherKeyed, smVars

\* Every instruction, mode change, open and reset preserves the invariant.
LEMMA HartInvStep == HartInv /\ [HartNext]_vars => HartInv'
<1> SUFFICES ASSUME HartInv, [HartNext]_vars PROVE HartInv'
  OBVIOUS
<1> USE HartAssumption DEF HartInv, HartTypeOK, GrantsAreSecret, LeaksOnlyByResidue,
      Clean, Regs, Sec, Cells
<1>1. ASSUME NEW rd \in Regs, NEW srcs \in SrcSets, Operate(rd, srcs)
      PROVE  HartInv'
  <2>1. ModeInv'
    BY <1>1, ModeKept DEF Operate
  <2>2. HartTypeOK' /\ GrantsAreSecret'
    BY <1>1 DEF Operate, Write, Marked, smVars
  <2>3. LeaksOnlyByResidue'
    BY <1>1, UnblockedWrite DEF Operate, Write, smVars, ModeInv
  <2>4. QED BY <2>1, <2>2, <2>3
<1>2. ASSUME NEW rd \in Regs, NEW srcs \in SrcSets, FpTrapped(rd, srcs)
      PROVE  HartInv'
  <2>1. ModeInv'
    BY <1>2, ModeKept DEF FpTrapped
  <2>2. HartTypeOK' /\ GrantsAreSecret'
    BY <1>2 DEF FpTrapped, Pending, Tainted, smVars
  <2>3. LeaksOnlyByResidue'
    BY <1>2 DEF FpTrapped, smVars
  <2>4. QED BY <2>1, <2>2, <2>3
<1>3. ASSUME NEW rd \in Regs, NEW srcs \in SrcSets, FpCompute(rd, srcs)
      PROVE  HartInv'
  <2>1. ModeInv'
    BY <1>3, ModeKept DEF FpCompute
  <2>2. HartTypeOK' /\ GrantsAreSecret'
    BY <1>3 DEF FpCompute, Write, Marked, smVars
  <2>3. LeaksOnlyByResidue'
    <3> SUFFICES ASSUME residue = {} PROVE Clean'
      BY <1>3 DEF FpCompute
    <3>1. tainted' \subseteq Sec /\ (~secreg_mode' => tainted' = {})
      BY <1>3, UnblockedWrite DEF FpCompute, Write, smVars, ModeInv
    <3>2. plain' = {}
      BY <1>3 DEF FpCompute, Pending, Tainted, Blocked, SecretRef, smVars, ModeInv
    <3>3. QED BY <1>3, <3>1, <3>2 DEF FpCompute
  <2>4. QED BY <2>1, <2>2, <2>3
<1>4. ASSUME NEW rd \in Regs, NEW base \in IntRegs, NEW cell \in MemCells,
             Load(rd, base, cell)
      PROVE  HartInv'
  <2>1. ModeInv'
    BY <1>4, ModeKept DEF Load
  <2>2. HartTypeOK' /\ GrantsAreSecret'
    BY <1>4 DEF Load, Write, Marked, Observe, Tainted, smVars
  <2>3. LeaksOnlyByResidue'
    <3> SUFFICES ASSUME residue = {} PROVE Clean'
      BY <1>4 DEF Load
    <3>0. ~(cell \in plain)
      OBVIOUS
    <3>1. tainted' \subseteq Sec /\ (~secreg_mode' => tainted' = {})
      BY <1>4, <3>0, PublicWrite DEF Load, Write, smVars
    <3>2. ~observed'
      BY <1>4, PublicSource DEF Load, Observe, Tainted, ModeInv
    <3>3. QED BY <1>4, <3>1, <3>2 DEF Load, smVars
  <2>4. QED BY <2>1, <2>2, <2>3
<1>5. ASSUME NEW base \in IntRegs, NEW rs2 \in Regs, NEW cell \in MemCells,
             Store(base, rs2, cell)
      PROVE  HartInv'
  <2>1. ModeInv'
    BY <1>5, ModeKept DEF Store
  <2>2. HartTypeOK' /\ GrantsAreSecret'
    BY <1>5 DEF Store, Marked, Observe, Tainted, smVars
  <2>3. LeaksOnlyByResidue'
    <3> SUFFICES ASSUME residue = {} PROVE Clean'
      BY <1>5 DEF Store
    <3>1. plain' = {}
      BY <1>5, PublicSource DEF Store, StoreAllowed, Marked, ModeInv
    <3>2. ~observed'
      BY <1>5, PublicSource DEF Store, Observe, Tainted, ModeInv
    <3>3. QED BY <1>5, <3>1, <3>2 DEF Store, smVars
  <2>4. QED BY <2>1, <2>2, <2>3
<1>6. ASSUME NEW rd \in IntRegs, NEW base \in IntRegs, NEW rs2 \in IntRegs, NEW cell \in MemCells,
             Amo(rd, base, rs2, cell)
      PROVE  HartInv'
  <2>1. ModeInv'
    BY <1>6, ModeKept DEF Amo
  <2>2. HartTypeOK' /\ GrantsAreSecret'
    BY <1>6 DEF Amo, Write, Marked, Observe, Tainted, smVars
  <2>3. LeaksOnlyByResidue'
    <3> SUFFICES ASSUME residue = {} PROVE Clean'
      BY <1>6 DEF Amo
    <3>0. ~(cell \in plain)
      OBVIOUS
    <3>1. tainted' \subseteq Sec /\ (~secreg_mode' => tainted' = {})
      BY <1>6, <3>0, PublicWrite DEF Amo, Write, smVars
    <3>2. ~observed'
      BY <1>6, PublicSource DEF Amo, Observe, Tainted, ModeInv
    <3>3. plain' = {}
      BY <1>6, PublicSource DEF Amo, StoreAllowed, Marked, ModeInv
    <3>4. QED BY <1>6, <3>1, <3>2, <3>3 DEF Amo, smVars
  <2>4. QED BY <2>1, <2>2, <2>3
<1>7. ASSUME NEW srcs \in SUBSET IntRegs,
             Branch(srcs)
      PROVE  HartInv'
  <2>1. ModeInv'
    BY <1>7, ModeKept DEF Branch
  <2>2. HartTypeOK' /\ GrantsAreSecret'
    BY <1>7 DEF Branch, Observe, Tainted, smVars
  <2>3. LeaksOnlyByResidue'
    <3> SUFFICES ASSUME residue = {} PROVE Clean'
      BY <1>7 DEF Branch
    <3>1. ~observed'
      BY <1>7, PublicSource DEF Branch, Observe, Tainted, ModeInv
    <3>2. QED BY <1>7, <3>1 DEF Branch, smVars
  <2>4. QED BY <2>1, <2>2, <2>3
<1>8. ASSUME NEW rd \in IntRegs, NEW target \in IntRegs,
             Jump(rd, target)
      PROVE  HartInv'
  <2>1. ModeInv'
    BY <1>8, ModeKept DEF Jump
  <2>2. HartTypeOK' /\ GrantsAreSecret'
    BY <1>8 DEF Jump, Write, Marked, Observe, Tainted, smVars
  <2>3. LeaksOnlyByResidue'
    <3> SUFFICES ASSUME residue = {} PROVE Clean'
      BY <1>8 DEF Jump
    <3>1. tainted' \subseteq Sec /\ (~secreg_mode' => tainted' = {})
      BY <1>8, PublicWrite DEF Jump, Write, smVars
    <3>2. ~observed'
      BY <1>8, PublicSource DEF Jump, Observe, Tainted, ModeInv
    <3>3. QED BY <1>8, <3>1, <3>2 DEF Jump, smVars
  <2>4. QED BY <2>1, <2>2, <2>3
<1>9. ASSUME NEW rd \in IntRegs, NEW rs1 \in IntRegs, NEW csr \in CsrCells,
             CsrAccess(rd, rs1, csr)
      PROVE  HartInv'
  <2>1. ModeInv'
    BY <1>9, ModeKept DEF CsrAccess
  <2>2. HartTypeOK' /\ GrantsAreSecret'
    BY <1>9 DEF CsrAccess, Write, Marked, smVars
  <2>3. LeaksOnlyByResidue'
    <3> SUFFICES ASSUME residue = {} PROVE Clean'
      BY <1>9 DEF CsrAccess
    <3>0. ~(csr \in plain)
      OBVIOUS
    <3>1. tainted' \subseteq Sec /\ (~secreg_mode' => tainted' = {})
      BY <1>9, <3>0, PublicWrite DEF CsrAccess, Write, smVars
    <3>2. plain' = {}
      BY <1>9, PublicSource DEF CsrAccess, Marked, ModeInv
    <3>3. QED BY <1>9, <3>1, <3>2 DEF CsrAccess, smVars
  <2>4. QED BY <2>1, <2>2, <2>3
<1>10. ASSUME NEW rd \in Regs, NEW base \in IntRegs, NEW g \in BOOLEAN,
             g => rd \in IntSec, rd \in Sec, LoadEncrypted(rd, base, g)
      PROVE  HartInv'
  <2>1. ModeInv'
    BY <1>10, ModeKept DEF LoadEncrypted
  <2>2. HartTypeOK' /\ GrantsAreSecret'
    BY <1>10 DEF LoadEncrypted, Marked, Observe, Tainted, smVars
  <2>3. LeaksOnlyByResidue'
    <3> SUFFICES ASSUME residue = {} PROVE Clean'
      BY <1>10 DEF LoadEncrypted
    <3>1. tainted' \subseteq Sec /\ (~secreg_mode' => tainted' = {})
      BY <1>10 DEF LoadEncrypted, smVars
    <3>2. ~observed'
      BY <1>10, PublicSource DEF LoadEncrypted, Observe, Tainted, ModeInv
    <3>3. QED BY <1>10, <3>1, <3>2 DEF LoadEncrypted, smVars
  <2>4. QED BY <2>1, <2>2, <2>3
<1>11. ASSUME NEW base \in IntRegs, NEW rs2 \in Regs, NEW cell \in MemCells,
             rs2 \in Sec, StoreEncrypted(base, rs2, cell)
      PROVE  HartInv'
  <2>1. ModeInv'
    BY <1>11, ModeKept DEF StoreEncrypted
  <2>2. HartTypeOK' /\ GrantsAreSecret'
    BY <1>11 DEF StoreEncrypted, Marked, Observe, Tainted, smVars
  <2>3. LeaksOnlyByResidue'
    <3> SUFFICES ASSUME residue = {} PROVE Clean'
      BY <1>11 DEF StoreEncrypted
    <3>1. plain' = {}
      BY <1>11 DEF StoreEncrypted, Marked, ModeInv, CipherKeyed
    <3>2. ~observed'
      BY <1>11, PublicSource DEF StoreEncrypted, Observe, Tainted, ModeInv
    <3>3. QED BY <1>11, <3>1, <3>2 DEF StoreEncrypted, smVars
  <2>4. QED BY <2>1, <2>2, <2>3
<1>12. ASSUME NEW rd \in IntRegs,
             Certrng(rd)
      PROVE  HartInv'
  <2>1. ModeInv'
    BY <1>12, ModeKept DEF Certrng
  <2>2. HartTypeOK' /\ GrantsAreSecret'
    BY <1>12 DEF Certrng, Write, Marked, smVars
  <2>3. LeaksOnlyByResidue'
    <3> SUFFICES ASSUME residue = {} PROVE Clean'
      BY <1>12 DEF Certrng
    <3> QED BY <1>12 DEF Certrng, Write, Marked, smVars
  <2>4. QED BY <2>1, <2>2, <2>3
<1>13. ASSUME NEW rd \in IntRegs, NEW rs2 \in IntRegs, NEW rs1 \in Regs,
             rs1 \in Sec, Disclose(rd, rs1, rs2)
      PROVE  HartInv'
  <2>1. ModeInv'
    BY <1>13, ModeKept DEF Disclose
  <2>2. HartTypeOK' /\ GrantsAreSecret'
    BY <1>13 DEF Disclose, Write, Marked, smVars
  <2>3. LeaksOnlyByResidue'
    <3> SUFFICES ASSUME residue = {} PROVE Clean'
      BY <1>13 DEF Disclose
    <3> QED BY <1>13 DEF Disclose, Write, Marked, smVars
  <2>4. QED BY <2>1, <2>2, <2>3
<1>14. ASSUME NEW rd \in IntRegs, NEW rs1 \in IntRegs, NEW req \in BOOLEAN,
             CsrMojovCfg(rd, rs1, req)
      PROVE  HartInv'
  <2>1. secreg_mode' = (req /\ mojov_dcvalid)
    BY <1>14 DEF CsrMojovCfg, DestroyMetadata, SetMode
  <2>2. ModeInv'
    BY <1>14, <2>1 DEF CsrMojovCfg, DestroyMetadata, SetMode, ModeInv, CipherKeyed
  <2>3. HartTypeOK' /\ GrantsAreSecret'
    BY <1>14 DEF CsrMojovCfg, DestroyMetadata, Observe, Tainted, SecretsZeroed
  <2>4. LeaksOnlyByResidue'
    <3> SUFFICES ASSUME residue' = {} PROVE Clean'
      OBVIOUS
    <3>1. residue = {}
      BY <1>14 DEF CsrMojovCfg, DestroyMetadata
    <3>2. ~observed'
      BY <1>14, <3>1, PublicSource DEF CsrMojovCfg, DestroyMetadata, Observe, Tainted, ModeInv
    <3>3. tainted' \subseteq tainted
      BY <1>14 DEF CsrMojovCfg, DestroyMetadata
    <3>4. CASE ~secreg_mode'
      BY <1>14, <3>1, <3>2, <3>3, <3>4 DEF CsrMojovCfg, DestroyMetadata, SecretsZeroed
    <3>5. CASE secreg_mode'
      BY <1>14, <3>1, <3>2, <3>3, <3>5 DEF CsrMojovCfg, DestroyMetadata
    <3>6. QED BY <3>4, <3>5
  <2>5. QED BY <2>2, <2>3, <2>4
<1>15. ASSUME NEW rd \in IntRegs, NEW rs1 \in IntRegs, CsrKmsmCtrl(rd, rs1)
      PROVE  HartInv'
  <2>1. ModeInv'
    <3>1. CASE OpenOk
      <4>1. mojov_dc' \in Loadable /\ simon_state' = (mojov_dc').key
        BY <3>1 DEF OpenOk
      <4>2. simon_state' # Uninit
        BY <4>1
      <4>3. QED BY <3>1, <4>1, <4>2 DEF OpenOk, ModeInv, CipherKeyed
    <3>2. CASE OpenBad
      BY <3>2 DEF OpenBad, ModeInv, CipherKeyed
    <3>3. QED BY <1>15, <3>1, <3>2 DEF CsrKmsmCtrl
  <2>2. secreg_mode' = secreg_mode
    BY <1>15 DEF CsrKmsmCtrl, OpenOk, OpenBad
  <2>3. HartTypeOK' /\ GrantsAreSecret'
    BY <1>15, <2>2 DEF CsrKmsmCtrl, Write, Marked, Observe, Tainted
  <2>4. LeaksOnlyByResidue'
    <3> SUFFICES ASSUME residue = {} PROVE Clean'
      BY <1>15 DEF CsrKmsmCtrl
    <3>1. tainted' \subseteq Sec /\ (~secreg_mode => tainted' = {})
      BY <1>15, PublicWrite DEF CsrKmsmCtrl, Write
    <3>2. ~observed'
      BY <1>15, PublicSource DEF CsrKmsmCtrl, Observe, Tainted, ModeInv
    <3>3. QED BY <1>15, <2>2, <3>1, <3>2 DEF CsrKmsmCtrl
  <2>5. QED BY <2>1, <2>3, <2>4
<1>16. ASSUME HartReset PROVE HartInv'
  <2>1. ModeInv'
    BY <1>16 DEF HartReset, DestroyMetadata, ResetMode, ModeInv, CipherKeyed
  <2>2. HartTypeOK' /\ GrantsAreSecret' /\ LeaksOnlyByResidue'
    BY <1>16 DEF HartReset, DestroyMetadata, ResetMode
  <2>3. QED BY <2>1, <2>2
<1>17. ASSUME UNCHANGED vars PROVE HartInv'
  BY <1>17 DEF vars, hartVars, smVars, ModeInv, CipherKeyed
<1>18. ASSUME Instruction PROVE HartInv'
  <2>1. CASE Compute
    BY <2>1, <1>1, <1>2, <1>3 DEF Compute
  <2>2. CASE Access
    BY <2>2, <1>4, <1>5, <1>6, <1>11 DEF Access, SDE, FSDE
  <2>3. CASE Control
    BY <2>3, <1>7, <1>8, <1>9 DEF Control
  <2>4. CASE Secrets
    <3>1. ASSUME NEW rd \in IntRegs, NEW base \in IntRegs, NEW g \in BOOLEAN, LDE(rd, base, g)
          PROVE  HartInv'
      <4>1. rd \in Regs /\ rd \in Sec /\ rd \in IntSec /\ LoadEncrypted(rd, base, g)
        BY <3>1 DEF LDE
      <4>2. QED BY <4>1, <1>10
    <3>2. ASSUME NEW rd \in FpRegs, NEW base \in IntRegs, FLDE(rd, base)
          PROVE  HartInv'
      <4>1. rd \in Regs /\ rd \in Sec /\ LoadEncrypted(rd, base, FALSE)
        BY <3>2 DEF FLDE
      <4>2. QED BY <4>1, <1>10
    <3>3. ASSUME NEW rd \in IntRegs, NEW rs1 \in Regs, NEW rs2 \in IntRegs,
                 DISC(rd, rs1, rs2) \/ FDISC(rd, rs1, rs2)
          PROVE  HartInv'
      <4>1. rs1 \in Sec /\ Disclose(rd, rs1, rs2)
        BY <3>3 DEF DISC, FDISC
      <4>2. QED BY <4>1, <1>13
    <3>4. QED BY <2>4, <1>12, <3>1, <3>2, <3>3 DEF Secrets
  <2>5. QED BY <1>18, <2>1, <2>2, <2>3, <2>4 DEF Instruction
<1>19. ASSUME ModeStep PROVE HartInv'
  BY <1>14, <1>15, <1>16, <1>19 DEF ModeStep
<1>20. QED
  BY <1>17, <1>18, <1>19 DEF HartNext

\* For every register file, every contract and every instruction sequence:
\* secrets stay in the secret registers, or encrypted, as long as none of the
\* two residues has come about; datagrant marks stay on secret registers and
\* within their mode; and encryption never runs on an unkeyed cipher core.
THEOREM HartSafety ==
  HartSpec => [](HartTypeOK /\ LeaksOnlyByResidue /\ GrantsAreSecret /\ CipherKeyed)
<1>1. HartInit => HartInv
  BY HartInvInit
<1>2. HartInv /\ [HartNext]_vars => HartInv'
  BY HartInvStep
<1>3. HartInv => HartTypeOK /\ LeaksOnlyByResidue /\ GrantsAreSecret /\ CipherKeyed
  BY DEF HartInv, ModeInv
<1>4. QED
  BY <1>1, <1>2, <1>3, PTL DEF HartSpec

\* A data grant is only ever marked on a secret register, for every register file
\* and instruction sequence.
THEOREM GrantsStaySecret == HartSpec => []GrantsAreSecret
BY HartSafety, PTL
=============================================================================
