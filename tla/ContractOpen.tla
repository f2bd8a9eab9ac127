---------------------------- MODULE ContractOpen ----------------------------
(***************************************************************************)
(* Opening a data contract: what mojov_open_contract_from_components       *)
(* (riscv/mojov_crypto.cc) computes from an encapsulated key, an encrypted *)
(* 64-byte contract and the device's private key.                          *)
(*                                                                         *)
(* Ciphertext is abstracted to who produced it.  A KMSM window holds the   *)
(* 8 bytes that contract c has at that place (written "c"), or nothing     *)
(* meaningful (Blank).  Decapsulating a ciphertext that is not entirely    *)
(* one genuine contract's gives a pseudo-random secret (ML-KEM's implicit  *)
(* rejection), never an error.  SIMON-CBC decrypts a block correctly iff   *)
(* the block and its predecessor are the contract's own.                   *)
(***************************************************************************)
EXTENDS Naturals

CONSTANTS
  Contracts,     \* contracts whose ciphertext software may hold
  Genuine,       \* the ones dc-tool encrypted for this device's public key
  FormatOf,      \* FormatOf[c]: the memory format contract c selects
  Blank,         \* a window that holds no contract's ciphertext
  Junk,          \* a field decrypted from wrong ciphertext
  KeyWindows,    \* 8-byte windows of the encapsulated key (96)
  DcWindows,     \* 8-byte windows of the encrypted contract (8)
  BlockWindows,  \* windows per cipher block (2)
  SigBlocks,     \* cipher blocks the sig field is spread over ({0,1})
  KeyBlocks,     \* the same for sym_key_128 ({1,2})
  CsigBlocks,    \* the same for contract_sig ({2})
  FmtBlocks      \* the same for format_sel ({3})

\* format_sel values; 3 is what a 2-bit field can also hold.
FORMAT_SEL_FAST == 0
FORMAT_SEL_STRONG == 1
FORMAT_SEL_PROOFCARRYING == 2
Formats == 0 .. 3

ASSUME ContractsAssumption ==
  /\ Genuine \subseteq Contracts
  /\ FormatOf \in [Contracts -> Formats]
  /\ Blank \notin Contracts
  /\ Junk \notin Contracts

ASSUME SizesAssumption ==
  /\ KeyWindows \in Nat \ {0}
  /\ DcWindows \in Nat \ {0}
  /\ BlockWindows \in Nat \ {0}
  /\ {} \notin {SigBlocks, KeyBlocks, CsigBlocks, FmtBlocks}

Words == Contracts \cup {Blank}

\* Which contract a decoded field came from: Blank is the all-zero field.
Origins == Contracts \cup {Blank, Junk}

\* data_contract_t, as far as the processor uses it.
DataContracts == [sig : Origins, key : Origins, csig : Origins, format_sel : Formats]

ZeroContract == [sig |-> Blank, key |-> Blank, csig |-> Blank, format_sel |-> FORMAT_SEL_FAST]

----------------------------------------------------------------------------
\* Failures of the host's OpenSSL (provider, key file, contexts, memory).
HostFaults == {"OSSL_PROVIDER_LOAD", "SK_LOAD", "DECAP_CTX", "DECAP_INIT",
               "SS_MALLOC", "DECAP", "HKDF", "SHA256"}
FaultsBeforeSizeQuery == {"OSSL_PROVIDER_LOAD", "SK_LOAD", "DECAP_CTX", "DECAP_INIT"}

OpenStatuses == HostFaults \cup
  {"OK", "MISSING_SK_PATH", "DECAP_SIZE", "BAD_SIGNATURE", "BAD_INPUT", "PT_HASH_MISMATCH"}

\* Does this encapsulated key yield the shared secret of c?
Decapsulates(kem, c) == \A w \in 0 .. KeyWindows - 1 : kem[w] = c

BlockIs(msg, c, b) ==
  \A w \in 0 .. DcWindows - 1 : w \div BlockWindows = b => msg[w] = c

\* mojov_simon_decrypt: block b of the plaintext is c's iff its ciphertext
\* block, and the one before it (the IV of the chain), are c's.
Decrypts(kem, msg, c, b) ==
  /\ Decapsulates(kem, c)
  /\ BlockIs(msg, c, b)
  /\ b > 0 => BlockIs(msg, c, b - 1)

\* The genuine contract a field spread over these blocks was decoded from.
FieldOf(kem, msg, blocks) ==
  LET from == {c \in Genuine : \A b \in blocks : Decrypts(kem, msg, c, b)}
  IN  IF from = {} THEN Junk ELSE CHOOSE c \in from : TRUE

\* mojov_dc_decode: the contracts the plaintext may decode to.  A junk
\* format_sel is whatever bits come out.
Decodings(kem, msg) ==
  LET c == FieldOf(kem, msg, FmtBlocks)
  IN  {[sig  |-> FieldOf(kem, msg, SigBlocks),
        key  |-> FieldOf(kem, msg, KeyBlocks),
        csig |-> FieldOf(kem, msg, CsigBlocks),
        format_sel |-> f] : f \in IF c = Junk THEN Formats ELSE {FormatOf[c]}}

\* The status mojov_open_contract_from_components reports when called with
\* a key path, a full-length message and no expected hash, as the KMSM does;
\* fault is the first host failure, if any.
OpenStatus(kem, kemWindows, msg, fault) ==
  IF fault \in FaultsBeforeSizeQuery THEN fault
  ELSE IF kemWindows # KeyWindows THEN "DECAP_SIZE"
  ELSE IF fault \in HostFaults THEN fault
  ELSE IF FieldOf(kem, msg, SigBlocks) = Junk THEN "BAD_SIGNATURE"
  ELSE "OK"

\* The caller's contract is overwritten before its signature is checked.
OpenDecodes(status) == status \in {"OK", "BAD_SIGNATURE"}

\* Mutant: the enumeration's own numbers, unmapped.
CtrlField_Raw(status) ==
  CASE status = "OK" -> 0 [] status = "BAD_INPUT" -> 12 [] OTHER -> 11

\* mojov_kmsm_status_to_ctrl_field
CtrlField(status) ==
  CASE status = "OK" -> 0
    [] status = "BAD_INPUT" -> 1
    [] status \in {"DECAP", "DECAP_CTX", "DECAP_INIT", "DECAP_SIZE", "SS_MALLOC"} -> 3
    [] status = "PT_HASH_MISMATCH" -> 4
    [] OTHER -> 5
=============================================================================
