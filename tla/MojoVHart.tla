----------------------------- MODULE MojoVHart ------------------------------
(***************************************************************************)
(* Which places of a hart may hold information about secrets, instruction  *)
(* by instruction.  A register is tainted when its value depends on a      *)
(* decrypted packet or a certified random number; the memory cells and     *)
(* CSRs here are the unencrypted ones, which anybody may read.             *)
(*                                                                         *)
(* The instructions are grouped by the register checks they make (the      *)
(* macros of decode_macros.h); the ISA is the one the platform documents,  *)
(* rv64gc_zicond_zkmojov_zicntr.  An instruction that traps before any     *)
(* side effect changes nothing and is a stuttering step.                   *)
(***************************************************************************)
EXTENDS Integers, SecretMode

CONSTANTS
  IntRegs, FpRegs,   \* writable registers of the two files
  IntSec, FpSec,     \* SECREGS, FP_SECREGS
  FpZeroed,          \* the registers FP_SECREG_RESET writes
  MemCells, CsrCells,
  FFLAGS             \* the CSR that accrues floating-point exceptions

Regs == IntRegs \cup FpRegs
Sec == IntSec \cup FpSec
Cells == MemCells \cup CsrCells
FORMAT_SEL_PROOFCARRYING == 2
KnownFormats == 0 .. 2

ASSUME HartAssumption ==
  /\ IntSec \subseteq IntRegs
  /\ FpZeroed \subseteq FpSec /\ FpSec \subseteq FpRegs
  /\ IntRegs \cap FpRegs = {}
  /\ MemCells \cap CsrCells = {}
  /\ FFLAGS \in CsrCells
  /\ \A dc \in Loadable : dc.key # Uninit
  /\ DefaultKey # Uninit

VARIABLES
  tainted,     \* registers whose value depends on secrets
  datagrant,   \* datagrant_xpr, as a set
  plain,       \* unencrypted cells whose content depends on secrets
  softflags,   \* does softfloat_exceptionFlags depend on secrets?
  observed,    \* has an address, a branch or the mode depended on secrets?
  residue      \* history: what was left behind, and where

hartVars == <<tainted, datagrant, plain, softflags, observed, residue>>
vars == <<smVars, hartVars>>

HartTypeOK ==
  /\ tainted \subseteq Regs
  /\ datagrant \subseteq IntRegs
  /\ plain \subseteq Cells
  /\ softflags \in BOOLEAN
  /\ observed \in BOOLEAN
  /\ residue \subseteq {"fpreg", "fpflag"}

HartInit ==
  /\ SMInit
  /\ tainted = {}
  /\ datagrant = {}
  /\ plain = {}
  /\ softflags = FALSE
  /\ observed = FALSE
  /\ residue = {}

----------------------------------------------------------------------------
\* The register checks.

\* CHECK_LEAKY, SECREG_REF, FP_SECREG_REF
SecretRef(r) == secreg_mode /\ r \in Sec

\* CHECK_DATAGRANT_R: no ordinary instruction reads a datagrant.
Readable(srcs) == secreg_mode => srcs \cap datagrant = {}

\* Mutant: the dependency mask holds SECREGS only.
Blocked_IntMask(rd, srcs) == secreg_mode /\ srcs \cap IntSec # {} /\ rd \notin Sec

\* CHECK_REG_W, CHECK_FREG_W
Blocked(rd, srcs) == secreg_mode /\ srcs \cap Sec # {} /\ rd \notin Sec

Tainted(srcs) == srcs \cap tainted # {}

\* The set with x put in or taken out.
Marked(set, x, holds) == IF holds THEN set \cup {x} ELSE set \ {x}

\* WRITE_REG, WRITE_FREG past the check.
Write(rd, secret) ==
  /\ tainted' = Marked(tainted, rd, secret)
  /\ datagrant' = datagrant \ {rd}

Observe(srcs) == observed' = (observed \/ Tainted(srcs))

----------------------------------------------------------------------------
\* Integer arithmetic, Zicond, moves between the files, sign injection, jal.
Operate(rd, srcs) ==
  /\ Readable(srcs)
  /\ ~Blocked(rd, srcs)
  /\ Write(rd, Tainted(srcs))
  /\ UNCHANGED <<smVars, plain, softflags, observed, residue>>

\* Floating-point arithmetic, comparison and conversion.  The value is
\* computed, and exceptions are pending, before WRITE_FREG checks rd.
Pending(srcs) == softflags \/ Tainted(srcs)

FpTrapped(rd, srcs) ==
  /\ Readable(srcs)
  /\ Blocked(rd, srcs)
  /\ softflags' = Pending(srcs)
  /\ residue' = IF Pending(srcs) THEN residue \cup {"fpflag"} ELSE residue
  /\ UNCHANGED <<smVars, tainted, datagrant, plain, observed>>

\* set_fp_exceptions, or drop_fp_exceptions for a secret rd
FpCompute(rd, srcs) ==
  /\ Readable(srcs)
  /\ ~Blocked(rd, srcs)
  /\ Write(rd, Tainted(srcs))
  /\ plain' = IF ~SecretRef(rd) /\ Pending(srcs) THEN plain \cup {FFLAGS} ELSE plain
  /\ softflags' = FALSE
  /\ UNCHANGED <<smVars, observed, residue>>

----------------------------------------------------------------------------
\* Plain memory.  An address in a secret register traps (BASE_RS1).

Load(rd, base, cell) ==
  /\ ~SecretRef(base)
  /\ Readable({base})
  /\ Observe({base})
  /\ Write(rd, cell \in plain)
  /\ UNCHANGED <<smVars, plain, softflags, residue>>

\* A secret register is not stored in the clear.
StoreAllowed(rs2) == ~SecretRef(rs2)

Store(base, rs2, cell) ==
  /\ StoreAllowed(rs2)
  /\ ~SecretRef(base)
  /\ Readable({base, rs2})
  /\ Observe({base})
  /\ plain' = Marked(plain, cell, rs2 \in tainted)
  /\ UNCHANGED <<smVars, tainted, datagrant, softflags, residue>>

\* amoswap, the other AMOs (the cell keeps a share of its old content) and sc
\* (rd is told whether the store happened).
Amo(rd, base, rs2, cell) ==
  /\ StoreAllowed(rs2)
  /\ ~SecretRef(base)
  /\ Readable({base, rs2})
  /\ ~Blocked(rd, {base, rs2})
  /\ Observe({base})
  /\ \E keeps \in BOOLEAN :
        plain' = Marked(plain, cell, rs2 \in tainted \/ (keeps /\ cell \in plain))
  /\ Write(rd, cell \in plain)
  /\ UNCHANGED <<smVars, softflags, residue>>

\* Branches (BRPRED_*) and sfence.vma
Branch(srcs) ==
  /\ \A r \in srcs : ~SecretRef(r)
  /\ Readable(srcs)
  /\ Observe(srcs)
  /\ UNCHANGED <<smVars, tainted, datagrant, plain, softflags, residue>>

\* jalr (CPTR_RS1)
Jump(rd, target) ==
  /\ ~SecretRef(target)
  /\ Readable({target})
  /\ Observe({target})
  /\ Write(rd, FALSE)
  /\ UNCHANGED <<smVars, plain, softflags, residue>>

----------------------------------------------------------------------------
\* csrrw, csrrs and csrrc on a CSR that only stores its value.
CsrAccess(rd, rs1, csr) ==
  /\ ~SecretRef(rs1)
  /\ Readable({rs1})
  /\ \E keeps \in BOOLEAN :
        plain' = Marked(plain, csr, rs1 \in tainted \/ (keeps /\ csr \in plain))
  /\ Write(rd, csr \in plain)
  /\ UNCHANGED <<smVars, softflags, observed, residue>>

\* The same on mojov_cfg.  The write changes the mode, destroys the metadata
\* and, when the mode ends up off, zeroes secret registers; only then is rd
\* checked, in the new mode, against an rs1 that was not yet secret.
SecretsZeroed == IntSec \cup FpZeroed

\* Mutant: the marks are dropped on entering secret mode only.
DestroyMetadata_Entering == datagrant' = IF secreg_mode' THEN {} ELSE datagrant

\* mojov_destroy_metadata
DestroyMetadata == datagrant' = {}

CsrMojovCfg(rd, rs1, req) ==
  LET kept == IF secreg_mode' THEN tainted ELSE tainted \ SecretsZeroed IN
  /\ ~SecretRef(rs1)
  /\ Readable({rs1})
  /\ SetMode(req)
  /\ tainted' = IF secreg_mode' /\ rs1 \in IntSec /\ rd \notin IntSec
                THEN kept ELSE kept \ {rd}
  /\ DestroyMetadata
  /\ Observe({rs1})
  /\ residue' = IF ~secreg_mode' /\ kept \cap FpSec # {}
                THEN residue \cup {"fpreg"} ELSE residue
  /\ UNCHANGED <<plain, softflags>>

\* The same on kmsm_ctrl, when it opens a contract.
CsrKmsmCtrl(rd, rs1) ==
  /\ ~SecretRef(rs1)
  /\ Readable({rs1})
  /\ OpenOk \/ OpenBad
  /\ Write(rd, FALSE)
  /\ Observe({rs1})
  /\ UNCHANGED <<plain, softflags, residue>>

----------------------------------------------------------------------------
\* The Mojo-V instructions.

KnownFormat == mojov_dc.format_sel \in KnownFormats

\* The load of a packet that authenticates.  The proof-carrying format tells
\* a datagrant from a value.
LoadEncrypted(rd, base, is_datagrant) ==
  /\ secreg_mode /\ KnownFormat
  /\ is_datagrant => mojov_dc.format_sel = FORMAT_SEL_PROOFCARRYING
  /\ ~SecretRef(base)
  /\ Readable({base})
  /\ Observe({base})
  /\ tainted' = tainted \cup {rd}
  /\ datagrant' = Marked(datagrant, rd, is_datagrant)
  /\ UNCHANGED <<smVars, plain, softflags, residue>>

LDE(rd, base, is_datagrant) == rd \in IntSec /\ LoadEncrypted(rd, base, is_datagrant)

\* flde has no datagrants: they do not authenticate.
FLDE(rd, base) == rd \in FpSec /\ LoadEncrypted(rd, base, FALSE)

\* Without an expanded key the packet is no ciphertext.
StoreEncrypted(base, rs2, cell) ==
  /\ secreg_mode /\ KnownFormat
  /\ ~SecretRef(base)
  /\ Readable({base, rs2})
  /\ Observe({base})
  /\ plain' = Marked(plain, cell, simon_state = Uninit /\ rs2 \in tainted)
  /\ UNCHANGED <<smVars, tainted, datagrant, softflags, residue>>

SDE(base, rs2, cell) == rs2 \in IntSec /\ StoreEncrypted(base, rs2, cell)
FSDE(base, rs2, cell) == rs2 \in FpSec /\ StoreEncrypted(base, rs2, cell)

Certrng(rd) ==
  /\ secreg_mode /\ mojov_dcvalid /\ rd \in IntSec
  /\ Write(rd, TRUE)
  /\ UNCHANGED <<smVars, plain, softflags, observed, residue>>

\* A value whose hash matches the owner's datagrant becomes public, unless rd
\* is secret.
Disclose(rd, rs1, rs2) ==
  /\ secreg_mode /\ mojov_dc.format_sel = FORMAT_SEL_PROOFCARRYING
  /\ rs2 \in datagrant
  /\ Write(rd, rd \in IntSec /\ rs1 \in tainted)
  /\ UNCHANGED <<smVars, plain, softflags, observed, residue>>

DISC(rd, rs1, rs2) == rs1 \in IntSec /\ Disclose(rd, rs1, rs2)
FDISC(rd, rs1, rs2) == rs1 \in FpSec /\ Disclose(rd, rs1, rs2)

\* processor_t::reset.  Memory and the host's softfloat flags survive.
HartReset ==
  /\ ResetMode
  /\ tainted' = {}
  /\ DestroyMetadata
  /\ plain' = plain \cap MemCells
  /\ UNCHANGED <<softflags, observed, residue>>

----------------------------------------------------------------------------
SrcSets == SUBSET IntRegs \cup SUBSET FpRegs

Compute ==
  \E rd \in Regs, srcs \in SrcSets :
    Operate(rd, srcs) \/ FpTrapped(rd, srcs) \/ FpCompute(rd, srcs)

Access ==
  \E base \in IntRegs, cell \in MemCells :
    \/ \E rd \in Regs : Load(rd, base, cell)
    \/ \E rs2 \in Regs : Store(base, rs2, cell)
    \/ \E rd, rs2 \in IntRegs : Amo(rd, base, rs2, cell)
    \/ \E rs2 \in IntRegs : SDE(base, rs2, cell)
    \/ \E rs2 \in FpRegs : FSDE(base, rs2, cell)

Control ==
  \/ \E srcs \in SUBSET IntRegs : Branch(srcs)
  \/ \E rd, target \in IntRegs : Jump(rd, target)
  \/ \E rd, rs1 \in IntRegs, csr \in CsrCells : CsrAccess(rd, rs1, csr)

Secrets ==
  \/ \E rd, base \in IntRegs, g \in BOOLEAN : LDE(rd, base, g)
  \/ \E rd \in FpRegs, base \in IntRegs : FLDE(rd, base)
  \/ \E rd \in IntRegs : Certrng(rd)
  \/ \E rd, rs1, rs2 \in IntRegs : DISC(rd, rs1, rs2)
  \/ \E rd, rs2 \in IntRegs, rs1 \in FpRegs : FDISC(rd, rs1, rs2)

Instruction == Compute \/ Access \/ Control \/ Secrets

ModeStep ==
  \/ \E rd, rs1 \in IntRegs, req \in BOOLEAN : CsrMojovCfg(rd, rs1, req)
  \/ \E rd, rs1 \in IntRegs : CsrKmsmCtrl(rd, rs1)
  \/ HartReset

HartNext == Instruction \/ ModeStep

HartSpec == HartInit /\ [][HartNext]_vars

----------------------------------------------------------------------------
Clean ==
  /\ tainted \subseteq Sec
  /\ ~secreg_mode => tainted = {}
  /\ plain = {}
  /\ ~softflags
  /\ ~observed

\* Until something is left behind, what depends on secrets is in a secret
\* register while secret mode is on, or encrypted: no sequence of
\* instructions, mode changes, opens and resets puts it in a public register,
\* plain memory, a CSR, an address or a branch, except by a granted
\* disclosure.  The only residues are the two the code has: a register
\* FP_SECREG_RESET misses, and exceptions pending after a trapped instruction.
LeaksOnlyByResidue == residue = {} => Clean

\* A datagrant mark is on a secret register and lives no longer than the
\* secret mode it was loaded in (mojov_destroy_metadata).
GrantsAreSecret == datagrant \subseteq IntSec /\ (datagrant # {} => secreg_mode)

\* Whenever an instruction may encrypt, the cipher core has been keyed; this
\* holds across a reset that leaves secret mode on.
CipherKeyed == secreg_mode => simon_state # Uninit

\* "check that the SECRET FP registers have been cleared (after Mojo-V
\* disabled)" (mojov-sectests.c:26): with secret mode off no secret
\* floating-point register depends on secrets.
SecretFpsCleared == ~secreg_mode => tainted \cap FpSec = {}

\* "not a secret reg write, declare exceptions" / "else, drop the exception"
\* (fadd_d.h:7): what fflags accrues is about public operands only.
FlagsStayPublic == FFLAGS \notin plain
=============================================================================
