-------------------------- MODULE BridgeTransactions --------------------------
(***************************************************************************)
(* Deposits on the Bitcoin side and the minting they lead to               *)
(* (programs/btc-relay/src/lib.rs from verify_small_tx on), on top of the  *)
(* header relay: small transactions verified and minted in one             *)
(* instruction, large ones whose bytes are first collected in an account   *)
(* of their own.                                                           *)
(*                                                                         *)
(* What a header's merkle root proves is the set of transactions that      *)
(* Included gives for its hash (module Merkle). Rent reserves are left out *)
(* of the balances.                                                        *)
(***************************************************************************)
EXTENDS BtcRelay, FiniteSetsExt

CONSTANTS
  TxIds,           \* Bitcoin transactions
  Receivers,       \* system accounts that may be minted to
  Included,        \* block hash -> the transactions in that block
  Outputs,         \* <<tx, receiver>> -> satoshis in the outputs whose script is
                   \* the receiver's bridge_deposit_script
  Chunks,          \* pieces of serialized transactions
  TxBytes,         \* transaction -> the pieces it consists of
  TxSizes,         \* what callers pass as tx_size, in pieces
  Confirmations,   \* what callers pass as confirmations
  Claims,          \* what callers pass as the committed header
  Deposits,        \* lamports that may be deposited
  NoAccount        \* an account that does not exist

TxAccount == [tx_size : Nat, tx_bytes : Seq(Chunks)]

ASSUME BridgeAssumption ==
  /\ Included \in [Hash -> SUBSET TxIds]
  /\ Outputs \in [TxIds \X Receivers -> Nat]
  /\ TxBytes \in [TxIds -> Seq(Chunks)]
  /\ TxSizes \subseteq Nat
  /\ Confirmations \subseteq Nat
  /\ Claims \subseteq CommittedBlockHeader
  /\ Deposits \subseteq Nat
  /\ NoAccount \notin Nat /\ NoAccount \notin TxAccount

VARIABLES
  deposit_account,   \* lamports of the account at the seed "solana_deposit"
  lamports,          \* lamports of the receivers
  tx_accounts        \* the accounts at the seeds of transaction ids

bridge_accounts == <<deposit_account, lamports, tx_accounts>>
bridge_vars == <<vars, bridge_accounts>>

BridgeInit ==
  /\ Init
  /\ deposit_account = NoAccount
  /\ lamports = [r \in Receivers |-> 0]
  /\ tx_accounts = [tx \in TxIds |-> NoAccount]

-----------------------------------------------------------------------------
(* Verification. *)

\* Faulty variant: the age alone, not that the commitment is in its place.
IsOldEnough(c, confirmations) ==
  /\ c.blockheight <= main_state.block_height
  /\ main_state.block_height - c.blockheight + 1 >= confirmations

\* The checks on the committed header. The first conjunct is the subtraction
\* on u32, which panics for a block above a tip that has been lowered.
IsConfirmed(c, confirmations) ==
  /\ c.blockheight <= main_state.block_height
  /\ main_state.block_height - c.blockheight + 1 >= confirmations
  /\ IsMainChainBlock(c)

\* computed_merkle == commited_header.header.merkle_root
ProvesInclusion(c, tx) == tx \in Included[c.header.hash]

bridge_mint_amount(tx, receiver) == Outputs[<<tx, receiver>>]

\* Faulty variant: the subtraction does not panic.
MintOnCredit(tx, receiver) ==
  LET sol_amount == bridge_mint_amount(tx, receiver) * 10
  IN  /\ bridge_mint_amount(tx, receiver) > 0
      /\ deposit_account # NoAccount
      /\ deposit_account' = deposit_account - sol_amount
      /\ lamports' = [lamports EXCEPT ![receiver] = @ + sol_amount]

\* Faulty variant: nothing is taken from the deposit account.
MintFromNothing(tx, receiver) ==
  /\ bridge_mint_amount(tx, receiver) > 0
  /\ deposit_account # NoAccount
  /\ lamports' = [lamports EXCEPT ![receiver] =
                    @ + bridge_mint_amount(tx, receiver) * 10]
  /\ UNCHANGED deposit_account

\* The common end of verify_small_tx and finalize_tx_processing. The
\* subtraction panics when the deposit is used up.
Mint(tx, receiver) ==
  LET sol_amount == bridge_mint_amount(tx, receiver) * 10
  IN  /\ bridge_mint_amount(tx, receiver) > 0
      /\ deposit_account # NoAccount
      /\ deposit_account >= sol_amount
      /\ deposit_account' = deposit_account - sol_amount
      /\ lamports' = [lamports EXCEPT ![receiver] = @ + sol_amount]

VerifySmallTx(tx, confirmations, c, receiver) ==
  /\ Initialized
  /\ IsConfirmed(c, confirmations)
  /\ ProvesInclusion(c, tx)
  /\ Mint(tx, receiver)
  /\ UNCHANGED <<vars, tx_accounts>>

\* deposit creates the account it pays into: there is one deposit only.
Deposit(amount) ==
  /\ deposit_account = NoAccount
  /\ deposit_account' = amount
  /\ UNCHANGED <<vars, lamports, tx_accounts>>

-----------------------------------------------------------------------------
(* Large transactions. *)

InitBigTxVerify(tx, tx_size, confirmations, c) ==
  /\ Initialized
  /\ tx_accounts[tx] = NoAccount
  /\ IsConfirmed(c, confirmations)
  /\ ProvesInclusion(c, tx)
  /\ tx_accounts' = [tx_accounts EXCEPT ![tx] =
                       [tx_size |-> tx_size, tx_bytes |-> <<>>]]
  /\ UNCHANGED <<vars, deposit_account, lamports>>

\* Faulty variant: the bytes replace the ones stored before.
Replaced(tx_bytes, bytes) == <<bytes>>

Extended(tx_bytes, bytes) == Append(tx_bytes, bytes)

\* The account cannot be written back when its bytes outgrow the size it was
\* created with.
StoreTxBytes(tx, bytes) ==
  /\ tx_accounts[tx] # NoAccount
  /\ Len(tx_accounts[tx].tx_bytes) < tx_accounts[tx].tx_size
  /\ tx_accounts' = [tx_accounts EXCEPT ![tx].tx_bytes = Extended(@, bytes)]
  /\ UNCHANGED <<vars, deposit_account, lamports>>

\* The stored bytes decode to the transaction with that id; consensus_decode
\* does not look at what follows it.
Decodes(tx_bytes, tx) ==
  /\ Len(TxBytes[tx]) <= Len(tx_bytes)
  /\ \A i \in 1..Len(TxBytes[tx]) : tx_bytes[i] = TxBytes[tx][i]

\* finalize_tx_processing neither closes nor marks the account, and does not
\* look at the main state.
FinalizeTxProcessing(tx, receiver) ==
  /\ tx_accounts[tx] # NoAccount
  /\ Decodes(tx_accounts[tx].tx_bytes, tx)
  /\ Mint(tx, receiver)
  /\ UNCHANGED <<vars, tx_accounts>>

-----------------------------------------------------------------------------

BridgeNext ==
  \/ Next /\ UNCHANGED bridge_accounts
  \/ \E tx \in TxIds, n \in Confirmations, c \in Claims, r \in Receivers :
       VerifySmallTx(tx, n, c, r)
  \/ \E amount \in Deposits : Deposit(amount)
  \/ \E tx \in TxIds, size \in TxSizes, n \in Confirmations, c \in Claims :
       InitBigTxVerify(tx, size, n, c)
  \/ \E tx \in TxIds, bytes \in Chunks : StoreTxBytes(tx, bytes)
  \/ \E tx \in TxIds, r \in Receivers : FinalizeTxProcessing(tx, r)

BridgeSpec == BridgeInit /\ [][BridgeNext]_bridge_vars

-----------------------------------------------------------------------------
(* Properties. *)

BridgeTypeOK ==
  /\ TypeOK
  /\ deposit_account \in Nat \cup {NoAccount}
  /\ lamports \in [Receivers -> Nat]
  /\ tx_accounts \in [TxIds -> TxAccount \cup {NoAccount}]

\* The bytes in an account fit the size it was created with.
BytesFit ==
  \A tx \in TxIds :
    tx_accounts[tx] # NoAccount =>
      Len(tx_accounts[tx].tx_bytes) <= tx_accounts[tx].tx_size

\* The invariant of the header relay goes on holding under instructions that
\* only read its state; balances stay natural numbers and bytes fit.
BridgeInvariant ==
  /\ RelayInvariant
  /\ BridgeTypeOK
  /\ BytesFit

\* The headers 0, 1, ..., k blocks below the tip, following the links between
\* headers: each a set of at most one.
Generations(k) ==
  LET generation[i \in 0..k] ==
        IF i = 0 THEN {main_state.tip_commit_hash.header}
        ELSE {g \in Headers : \E h \in generation[i - 1] :
                                h.reversed_prev_blockhash = g.hash}
  IN  generation

BelowTip(k) == Generations(k)[k]

\* The chain that ends in the tip contains the transaction, in a block with that
\* many confirmations.
IsBuried(tx, confirmations) ==
  \E k \in 0..main_state.block_height :
    /\ k + 1 >= confirmations
    /\ \E h \in BelowTip(k) : tx \in Included[h.hash]

\* A mint is for a transaction of the tip's own chain with the confirmations
\* asked for, or for one whose account says that it once was; and such an
\* account is created for no other transaction. What is on chain was decided by
\* a slot of the ring that reorganisations and wraps keep rewriting.
MintsAreBuried ==
  [][/\ lamports' # lamports =>
          \E tx \in TxIds, r \in Receivers :
            /\ lamports' = [lamports EXCEPT ![r] = @ + 10 * Outputs[<<tx, r>>]]
            /\ \/ \E n \in Confirmations : IsBuried(tx, n)
               \/ tx_accounts[tx] # NoAccount
     /\ \A tx \in TxIds :
          tx_accounts[tx] = NoAccount /\ tx_accounts'[tx] # NoAccount =>
            \E n \in Confirmations : IsBuried(tx, n)
    ]_bridge_vars

\* Every lamport that a receiver gets leaves the deposit account, which is never
\* overdrawn, and without a deposit nobody gets any: two instructions write the
\* two accounts one after the other.
LamportsAreConserved ==
  [][IF deposit_account = NoAccount THEN lamports' = lamports
     ELSE /\ deposit_account' \in 0..deposit_account
          /\ \/ lamports' = lamports /\ deposit_account' = deposit_account
             \/ \E r \in Receivers :
                  lamports' =
                    [lamports EXCEPT ![r] = @ + (deposit_account - deposit_account')]
    ]_bridge_vars

\* The transaction can be decoded; it never can: its account is too small, or a
\* piece is not in its place (sent twice, or overtaken by another).
IsComplete(tx) ==
  tx_accounts[tx] # NoAccount /\ Decodes(tx_accounts[tx].tx_bytes, tx)

IsSpoiled(tx) ==
  /\ tx_accounts[tx] # NoAccount
  /\ \/ tx_accounts[tx].tx_size < Len(TxBytes[tx])
     \/ \E i \in 1..Len(TxBytes[tx]) :
          /\ i <= Len(tx_accounts[tx].tx_bytes)
          /\ tx_accounts[tx].tx_bytes[i] # TxBytes[tx][i]

\* Pieces that arrive late or twice do no harm once a transaction is complete;
\* one that arrives out of order before makes it impossible to finalize for
\* ever, since an account is neither closed nor created again.
FateIsFinal ==
  [][\A tx \in TxIds :
       /\ IsComplete(tx) => IsComplete(tx)'
       /\ IsSpoiled(tx) => IsSpoiled(tx)' /\ ~IsComplete(tx)'
    ]_bridge_vars

\* docs/diagrams/bridge_deposit.md:45-46: the program "mints an equivalent amount
\* of BTC": nobody gets more than the deposits made out to it.
MintedOnce ==
  \A r \in Receivers :
    lamports[r] <= 10 * MapThenSumSet(LAMBDA tx : Outputs[<<tx, r>>], TxIds)

=============================================================================
