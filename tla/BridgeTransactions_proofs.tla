---------------------- MODULE BridgeTransactions_proofs ----------------------
(***************************************************************************)
(* Proofs about BridgeTransactions: the types, the conservation of         *)
(* lamports, the fate of a large transaction's bytes and what is minted,   *)
(* for every set of transactions, receivers and deposits; and about        *)
(* TxRelayer, its composition with bitcoind and the service. What is said  *)
(* of BridgeSpec rests on none of that composition's assumptions.          *)
(***************************************************************************)
EXTENDS TxRelayer, BitcoinNode_proofs

\* The accounts of one step that mints.
MintEffect ==
  \E r \in Receivers :
    /\ deposit_account \in Nat
    /\ deposit_account' \in 0..deposit_account
    /\ lamports' = [lamports EXCEPT ![r] = @ + (deposit_account - deposit_account')]

LEMMA NoAccountIsNone == NoAccount \notin Nat /\ NoAccount \notin TxAccount
  BY BridgeAssumption

LEMMA PartOfDeposit ==
  ASSUME NEW d \in Nat, NEW e \in 0..d
  PROVE  e \in Nat /\ d - e \in Nat
  OBVIOUS

\* The amount minted is what leaves the deposit account.
LEMMA MintMoves ==
  ASSUME BridgeTypeOK, NEW tx \in TxIds, NEW r \in Receivers, Mint(tx, r)
  PROVE  MintEffect
<1> DEFINE amount == Outputs[<<tx, r>>] * 10
<1>1. Outputs[<<tx, r>>] \in Nat
  BY BridgeAssumption
<1>2. deposit_account \in Nat
  BY DEF BridgeTypeOK, Mint
<1>7. amount \in Nat
  BY <1>1
<1>3. /\ deposit_account >= amount
      /\ deposit_account' = deposit_account - amount
      /\ lamports' = [lamports EXCEPT ![r] = @ + amount]
  BY DEF Mint, bridge_mint_amount
<1> HIDE DEF amount
<1>4. deposit_account' \in 0..deposit_account
  BY <1>7, <1>2, <1>3
<1>5. deposit_account - deposit_account' = amount
  BY <1>7, <1>2, <1>3
<1>6. lamports' = [lamports EXCEPT ![r] = @ + (deposit_account - deposit_account')]
  BY <1>3, <1>5
<1> QED
  BY <1>2, <1>4, <1>6 DEF MintEffect

LEMMA MintEffectTypes ==
  ASSUME BridgeTypeOK, MintEffect
  PROVE  deposit_account' \in Nat /\ lamports' \in [Receivers -> Nat]
<1>0. PICK r \in Receivers :
      /\ deposit_account \in Nat
      /\ deposit_account' \in 0..deposit_account
      /\ lamports' = [lamports EXCEPT ![r] = @ + (deposit_account - deposit_account')]
  BY DEF MintEffect
<1>1. deposit_account' \in Nat /\ deposit_account - deposit_account' \in Nat
  BY <1>0, PartOfDeposit
<1>2. lamports \in [Receivers -> Nat]
  BY DEF BridgeTypeOK
<1>3. lamports[r] + (deposit_account - deposit_account') \in Nat
  BY <1>1, <1>2
<1> QED
  BY <1>0, <1>1, <1>2, <1>3

-----------------------------------------------------------------------------
(* What each step does to the three accounts. *)

\* An account of bytes is created empty, or has bytes appended.
BytesEffect ==
  \/ /\ UNCHANGED tx_accounts
  \/ \E tx \in TxIds, size \in Nat :
       /\ tx_accounts[tx] = NoAccount
       /\ tx_accounts' = [tx_accounts EXCEPT ![tx] =
                            [tx_size |-> size, tx_bytes |-> <<>>]]
  \/ \E tx \in TxIds, bytes \in Chunks :
       /\ tx_accounts[tx] # NoAccount
       /\ Len(tx_accounts[tx].tx_bytes) < tx_accounts[tx].tx_size
       /\ tx_accounts' = [tx_accounts EXCEPT ![tx].tx_bytes = Append(@, bytes)]

\* The deposit is made, or spent by a mint.
MoneyEffect ==
  \/ UNCHANGED <<deposit_account, lamports>>
  \/ /\ deposit_account = NoAccount /\ deposit_account' \in Nat
     /\ UNCHANGED lamports
  \/ MintEffect

LEMMA VerifyEffects ==
  ASSUME BridgeTypeOK, NEW tx \in TxIds, NEW n, NEW c, NEW r \in Receivers,
         VerifySmallTx(tx, n, c, r)
  PROVE  MoneyEffect /\ BytesEffect /\ UNCHANGED vars
  BY MintMoves DEF VerifySmallTx, MoneyEffect, BytesEffect

LEMMA StepEffects ==
  ASSUME BridgeTypeOK, [BridgeNext]_bridge_vars
  PROVE  MoneyEffect /\ BytesEffect /\ [Next]_vars
<1>1. CASE UNCHANGED bridge_vars
  BY <1>1 DEF bridge_vars, bridge_accounts, MoneyEffect, BytesEffect
<1>2. CASE Next /\ UNCHANGED bridge_accounts
  BY <1>2 DEF bridge_accounts, MoneyEffect, BytesEffect
<1>3. ASSUME NEW tx \in TxIds, NEW n \in Confirmations, NEW c \in Claims,
             NEW r \in Receivers, VerifySmallTx(tx, n, c, r)
      PROVE  MoneyEffect /\ BytesEffect /\ UNCHANGED vars
  BY <1>3, VerifyEffects
<1>4. ASSUME NEW amount \in Deposits, Deposit(amount)
      PROVE  MoneyEffect /\ BytesEffect /\ UNCHANGED vars
  BY <1>4, BridgeAssumption DEF Deposit, MoneyEffect, BytesEffect
<1>5. ASSUME NEW tx \in TxIds, NEW size \in TxSizes, NEW n \in Confirmations,
             NEW c \in Claims, InitBigTxVerify(tx, size, n, c)
      PROVE  MoneyEffect /\ BytesEffect /\ UNCHANGED vars
  BY <1>5, BridgeAssumption DEF InitBigTxVerify, MoneyEffect, BytesEffect
<1>6. ASSUME NEW tx \in TxIds, NEW bytes \in Chunks, StoreTxBytes(tx, bytes)
      PROVE  MoneyEffect /\ BytesEffect /\ UNCHANGED vars
  BY <1>6 DEF StoreTxBytes, Extended, MoneyEffect, BytesEffect
<1>7. ASSUME NEW tx \in TxIds, NEW r \in Receivers, FinalizeTxProcessing(tx, r)
      PROVE  MoneyEffect /\ BytesEffect /\ UNCHANGED vars
  BY <1>7, MintMoves DEF FinalizeTxProcessing, MoneyEffect, BytesEffect
<1> QED
  BY <1>1, <1>2, <1>3, <1>4, <1>5, <1>6, <1>7 DEF BridgeNext

-----------------------------------------------------------------------------
(* Types. *)

LEMMA MoneyTypes ==
  ASSUME BridgeTypeOK, MoneyEffect
  PROVE  /\ deposit_account' \in Nat \cup {NoAccount}
         /\ lamports' \in [Receivers -> Nat]
  BY MintEffectTypes DEF BridgeTypeOK, MoneyEffect

\* An account that exists keeps its size and the bytes it has.
Grows(tx) ==
  /\ tx_accounts'[tx] \in TxAccount
  /\ tx_accounts'[tx].tx_size = tx_accounts[tx].tx_size
  /\ Len(tx_accounts[tx].tx_bytes) <= Len(tx_accounts'[tx].tx_bytes)
  /\ \A i \in 1..Len(tx_accounts[tx].tx_bytes) :
       tx_accounts'[tx].tx_bytes[i] = tx_accounts[tx].tx_bytes[i]

LEMMA AppendKeeps ==
  ASSUME NEW bytes \in Seq(Chunks), NEW piece \in Chunks
  PROVE  /\ Append(bytes, piece) \in Seq(Chunks)
         /\ Len(Append(bytes, piece)) = Len(bytes) + 1
         /\ Len(bytes) \in Nat
         /\ \A i \in 1..Len(bytes) : Append(bytes, piece)[i] = bytes[i]
  OBVIOUS

LEMMA BytesSteps ==
  ASSUME BridgeTypeOK, BytesFit, BytesEffect
  PROVE  /\ tx_accounts' \in [TxIds -> TxAccount \cup {NoAccount}]
         /\ BytesFit'
         /\ \A tx \in TxIds : tx_accounts[tx] # NoAccount => Grows(tx)
<1>0. tx_accounts \in [TxIds -> TxAccount \cup {NoAccount}]
  BY DEF BridgeTypeOK
<1>1. CASE UNCHANGED tx_accounts
  <2>1. ASSUME NEW tx \in TxIds, tx_accounts[tx] # NoAccount
        PROVE  Grows(tx)
    <3>1. tx_accounts[tx] \in TxAccount
      BY <1>0, <2>1
    <3>2. Len(tx_accounts[tx].tx_bytes) \in Nat
      BY <3>1 DEF TxAccount
    <3> QED
      BY <1>1, <3>1, <3>2 DEF Grows
  <2> QED
    BY <1>0, <1>1, <2>1 DEF BytesFit
<1>2. CASE \E tx \in TxIds, size \in Nat :
             /\ tx_accounts[tx] = NoAccount
             /\ tx_accounts' = [tx_accounts EXCEPT ![tx] =
                                  [tx_size |-> size, tx_bytes |-> <<>>]]
  <2>0. PICK tx \in TxIds, size \in Nat :
              /\ tx_accounts[tx] = NoAccount
              /\ tx_accounts' = [tx_accounts EXCEPT ![tx] =
                                   [tx_size |-> size, tx_bytes |-> <<>>]]
    BY <1>2
  <2>1. [tx_size |-> size, tx_bytes |-> <<>>] \in TxAccount
    BY DEF TxAccount
  <2>2. tx_accounts'[tx] = [tx_size |-> size, tx_bytes |-> <<>>]
    BY <1>0, <2>0
  <2>3. \A t \in TxIds : t # tx => tx_accounts'[t] = tx_accounts[t]
    BY <1>0, <2>0
  <2>4. Len(tx_accounts'[tx].tx_bytes) <= tx_accounts'[tx].tx_size
    BY <2>2
  <2>5. ASSUME NEW t \in TxIds, tx_accounts[t] # NoAccount
        PROVE  Grows(t)
    <3>1. tx_accounts[t] \in TxAccount /\ tx_accounts'[t] = tx_accounts[t]
      BY <1>0, <2>0, <2>3, <2>5
    <3>2. Len(tx_accounts[t].tx_bytes) \in Nat
      BY <3>1 DEF TxAccount
    <3> QED
      BY <3>1, <3>2 DEF Grows
  <2>6. BytesFit'
    <3> SUFFICES ASSUME NEW t \in TxIds, tx_accounts'[t] # NoAccount
                 PROVE  Len(tx_accounts'[t].tx_bytes) <= tx_accounts'[t].tx_size
      BY DEF BytesFit
    <3>1. CASE t = tx
      BY <2>4, <3>1
    <3>2. CASE t # tx
      BY <2>3, <3>2 DEF BytesFit
    <3> QED
      BY <3>1, <3>2
  <2> QED
    BY <1>0, <2>0, <2>1, <2>5, <2>6
<1>3. CASE \E tx \in TxIds, bytes \in Chunks :
             /\ tx_accounts[tx] # NoAccount
             /\ Len(tx_accounts[tx].tx_bytes) < tx_accounts[tx].tx_size
             /\ tx_accounts' = [tx_accounts EXCEPT ![tx].tx_bytes = Append(@, bytes)]
  <2>0. PICK tx \in TxIds, piece \in Chunks :
              /\ tx_accounts[tx] # NoAccount
              /\ Len(tx_accounts[tx].tx_bytes) < tx_accounts[tx].tx_size
              /\ tx_accounts' = [tx_accounts EXCEPT ![tx].tx_bytes = Append(@, piece)]
    BY <1>3
  <2> DEFINE old == tx_accounts[tx]
             new == [old EXCEPT !.tx_bytes = Append(@, piece)]
  <2>1. old \in TxAccount
    BY <1>0, <2>0
  <2>2. /\ old.tx_bytes \in Seq(Chunks) /\ old.tx_size \in Nat
        /\ new.tx_bytes = Append(old.tx_bytes, piece)
        /\ new.tx_size = old.tx_size
    BY <2>1 DEF TxAccount
  <2>3. /\ Append(old.tx_bytes, piece) \in Seq(Chunks)
        /\ Len(Append(old.tx_bytes, piece)) = Len(old.tx_bytes) + 1
        /\ Len(old.tx_bytes) \in Nat
        /\ \A i \in 1..Len(old.tx_bytes) :
             Append(old.tx_bytes, piece)[i] = old.tx_bytes[i]
    BY <2>2, AppendKeeps
  <2>4. new \in TxAccount
    BY <2>1, <2>3 DEF TxAccount
  <2>5. tx_accounts'[tx] = new
    BY <1>0, <2>0
  <2>6. \A t \in TxIds : t # tx => tx_accounts'[t] = tx_accounts[t]
    BY <1>0, <2>0
  <2>7. Len(new.tx_bytes) <= new.tx_size /\ Len(old.tx_bytes) <= Len(new.tx_bytes)
    BY <2>0, <2>2, <2>3
  <2>8. \A i \in 1..Len(old.tx_bytes) : new.tx_bytes[i] = old.tx_bytes[i]
    BY <2>2, <2>3
  <2>9. Grows(tx)
    BY <2>2, <2>4, <2>5, <2>7, <2>8 DEF Grows
  <2>10. ASSUME NEW t \in TxIds, t # tx, tx_accounts[t] # NoAccount
         PROVE  Grows(t)
    <3>1. tx_accounts[t] \in TxAccount /\ tx_accounts'[t] = tx_accounts[t]
      BY <1>0, <2>6, <2>10
    <3>2. Len(tx_accounts[t].tx_bytes) \in Nat
      BY <3>1 DEF TxAccount
    <3> QED
      BY <3>1, <3>2 DEF Grows
  <2>11. BytesFit'
    <3> SUFFICES ASSUME NEW t \in TxIds, tx_accounts'[t] # NoAccount
                 PROVE  Len(tx_accounts'[t].tx_bytes) <= tx_accounts'[t].tx_size
      BY DEF BytesFit
    <3>1. CASE t = tx
      BY <2>5, <2>7, <3>1
    <3>2. CASE t # tx
      BY <2>6, <3>2 DEF BytesFit
    <3> QED
      BY <3>1, <3>2
  <2>12. tx_accounts' \in [TxIds -> TxAccount \cup {NoAccount}]
    BY <1>0, <2>0, <2>4
  <2> QED
    BY <2>9, <2>10, <2>11, <2>12
<1> QED
  BY <1>1, <1>2, <1>3 DEF BytesEffect

LEMMA InitBridgeInvariant == BridgeInit => BridgeInvariant
<1> SUFFICES ASSUME BridgeInit PROVE BridgeInvariant
  OBVIOUS
<1>1. RelayInvariant
  BY InitInvariant DEF BridgeInit
<1> QED
  BY <1>1 DEF BridgeInit, BridgeInvariant, BridgeTypeOK, BytesFit, RelayInvariant

LEMMA EffectsKeepInvariant ==
  ASSUME BridgeInvariant, MoneyEffect, BytesEffect, [Next]_vars
  PROVE  BridgeInvariant'
<1>1. RelayInvariant'
  BY StepInvariant DEF BridgeInvariant
<1>2. TypeOK'
  BY <1>1 DEF RelayInvariant
<1>3. /\ deposit_account' \in Nat \cup {NoAccount}
      /\ lamports' \in [Receivers -> Nat]
  BY MoneyTypes DEF BridgeInvariant
<1>4. tx_accounts' \in [TxIds -> TxAccount \cup {NoAccount}] /\ BytesFit'
  BY BytesSteps DEF BridgeInvariant
<1> QED
  BY <1>1, <1>2, <1>3, <1>4 DEF BridgeInvariant, BridgeTypeOK

LEMMA StepBridgeInvariant ==
  ASSUME BridgeInvariant, [BridgeNext]_bridge_vars
  PROVE  BridgeInvariant'
  BY StepEffects, EffectsKeepInvariant DEF BridgeInvariant

\* The header relay's invariant goes on holding next to the bridge's instructions,
\* no balance is negative, and the bytes of a large transaction fit its account.
THEOREM BridgeInvariantHolds == BridgeSpec => []BridgeInvariant
<1>1. BridgeInit => BridgeInvariant
  BY InitBridgeInvariant
<1>2. BridgeInvariant /\ [BridgeNext]_bridge_vars => BridgeInvariant'
  BY StepBridgeInvariant
<1> QED
  BY <1>1, <1>2, PTL DEF BridgeSpec

-----------------------------------------------------------------------------
(* Action properties. *)

\* The step that LamportsAreConserved allows.
Conserves ==
  IF deposit_account = NoAccount THEN lamports' = lamports
  ELSE /\ deposit_account' \in 0..deposit_account
       /\ \/ lamports' = lamports /\ deposit_account' = deposit_account
          \/ \E r \in Receivers :
               lamports' =
                 [lamports EXCEPT ![r] = @ + (deposit_account - deposit_account')]

LEMMA StepConserves ==
  ASSUME BridgeInvariant, [BridgeNext]_bridge_vars
  PROVE  [Conserves]_bridge_vars
<1>1. MoneyEffect
  BY StepEffects DEF BridgeInvariant
<1>2. deposit_account \in Nat \cup {NoAccount}
  BY DEF BridgeInvariant, BridgeTypeOK
<1>3. CASE UNCHANGED <<deposit_account, lamports>>
  BY <1>2, <1>3 DEF Conserves
<1>4. CASE deposit_account = NoAccount /\ UNCHANGED lamports
  BY <1>4 DEF Conserves
<1>5. CASE MintEffect
  BY <1>5, NoAccountIsNone DEF MintEffect, Conserves
<1> QED
  BY <1>1, <1>3, <1>4, <1>5 DEF MoneyEffect

\* What receivers get is what leaves the deposit account, which is never
\* overdrawn, in both instructions that mint.
THEOREM MintsConserveLamports == BridgeSpec => LamportsAreConserved
<1>1. BridgeInvariant /\ [BridgeNext]_bridge_vars => [Conserves]_bridge_vars
  BY StepConserves
<1> QED
  BY <1>1, BridgeInvariantHolds, PTL DEF BridgeSpec, LamportsAreConserved, Conserves

\* An account's bytes decode, or cannot decode any more: once so, always so.
LEMMA FateOfAccount ==
  ASSUME BridgeInvariant, BridgeInvariant', NEW tx \in TxIds,
         tx_accounts[tx] # NoAccount, Grows(tx)
  PROVE  /\ IsComplete(tx) => IsComplete(tx)'
         /\ IsSpoiled(tx) => IsSpoiled(tx)' /\ ~IsComplete(tx)'
<1> DEFINE old == tx_accounts[tx]
           new == tx_accounts'[tx]
           wanted == TxBytes[tx]
<1>1. old \in TxAccount /\ new \in TxAccount
  BY DEF Grows, BridgeInvariant, BridgeTypeOK
<1>2. /\ Len(old.tx_bytes) \in Nat /\ Len(new.tx_bytes) \in Nat
      /\ old.tx_size \in Nat /\ new.tx_size \in Nat
  BY <1>1 DEF TxAccount
<1>3. Len(wanted) \in Nat
  BY BridgeAssumption
<1>4. new # NoAccount
  BY <1>1, NoAccountIsNone
<1>5. Len(new.tx_bytes) <= new.tx_size
  BY <1>4 DEF BridgeInvariant, BytesFit
<1>6. /\ new.tx_size = old.tx_size
      /\ Len(old.tx_bytes) <= Len(new.tx_bytes)
      /\ \A i \in 1..Len(old.tx_bytes) : new.tx_bytes[i] = old.tx_bytes[i]
  BY DEF Grows
<1>7. /\ IsComplete(tx) <=> /\ Len(wanted) <= Len(old.tx_bytes)
                            /\ \A i \in 1..Len(wanted) : old.tx_bytes[i] = wanted[i]
      /\ IsComplete(tx)' <=> /\ Len(wanted) <= Len(new.tx_bytes)
                             /\ \A i \in 1..Len(wanted) : new.tx_bytes[i] = wanted[i]
  BY <1>4 DEF IsComplete, Decodes
<1>8. /\ IsSpoiled(tx) <=> \/ old.tx_size < Len(wanted)
                           \/ \E i \in 1..Len(wanted) :
                                i <= Len(old.tx_bytes) /\ old.tx_bytes[i] # wanted[i]
      /\ IsSpoiled(tx)' <=> \/ new.tx_size < Len(wanted)
                            \/ \E i \in 1..Len(wanted) :
                                 i <= Len(new.tx_bytes) /\ new.tx_bytes[i] # wanted[i]
  BY <1>4 DEF IsSpoiled
<1> HIDE DEF old, new, wanted
<1>9. IsComplete(tx) => IsComplete(tx)'
  BY <1>2, <1>3, <1>6, <1>7
<1>10. ASSUME IsSpoiled(tx) PROVE IsSpoiled(tx)' /\ ~IsComplete(tx)'
  <2>1. CASE old.tx_size < Len(wanted)
    BY <1>2, <1>3, <1>5, <1>6, <1>7, <1>8, <2>1
  <2>2. CASE \E i \in 1..Len(wanted) :
               i <= Len(old.tx_bytes) /\ old.tx_bytes[i] # wanted[i]
    BY <1>2, <1>3, <1>6, <1>7, <1>8, <2>2
  <2> QED
    BY <1>8, <1>10, <2>1, <2>2
<1> QED
  BY <1>9, <1>10

\* The step that FateIsFinal allows.
KeepsFate ==
  \A tx \in TxIds :
    /\ IsComplete(tx) => IsComplete(tx)'
    /\ IsSpoiled(tx) => IsSpoiled(tx)' /\ ~IsComplete(tx)'

LEMMA StepKeepsFate ==
  ASSUME BridgeInvariant, BridgeInvariant', [BridgeNext]_bridge_vars
  PROVE  [KeepsFate]_bridge_vars
<1>1. BytesEffect
  BY StepEffects DEF BridgeInvariant
<1>2. \A tx \in TxIds : tx_accounts[tx] # NoAccount => Grows(tx)
  BY <1>1, BytesSteps DEF BridgeInvariant
<1>3. ASSUME NEW tx \in TxIds, tx_accounts[tx] # NoAccount
      PROVE  /\ IsComplete(tx) => IsComplete(tx)'
             /\ IsSpoiled(tx) => IsSpoiled(tx)' /\ ~IsComplete(tx)'
  BY <1>2, <1>3, FateOfAccount
<1>4. ASSUME NEW tx \in TxIds, tx_accounts[tx] = NoAccount
      PROVE  ~IsComplete(tx) /\ ~IsSpoiled(tx)
  BY <1>4 DEF IsComplete, IsSpoiled
<1> QED
  BY <1>3, <1>4 DEF KeepsFate

\* A large transaction that can be decoded stays so, and one whose account is too
\* small or has a piece out of its place can never be finalized.
THEOREM FateNeverChanges == BridgeSpec => FateIsFinal
<1>1. BridgeInvariant /\ BridgeInvariant' /\ [BridgeNext]_bridge_vars
        => [KeepsFate]_bridge_vars
  BY StepKeepsFate
<1> QED
  BY <1>1, BridgeInvariantHolds, PTL DEF BridgeSpec, FateIsFinal, KeepsFate

-----------------------------------------------------------------------------
(* What is minted is buried in the chain of the tip. *)

\* The recursive definition of Generations has a solution.
LEMMA GenerationsDef ==
  ASSUME NEW n \in Nat
  PROVE  Generations(n) =
           [i \in 0..n |->
              IF i = 0 THEN {main_state.tip_commit_hash.header}
              ELSE {g \in Headers : \E h \in Generations(n)[i - 1] :
                                      h.reversed_prev_blockhash = g.hash}]
<1> DEFINE tip == {main_state.tip_commit_hash.header}
           Parents(hs) == {g \in Headers : \E h \in hs :
                                             h.reversed_prev_blockhash = g.hash}
           Solves(f, k) == f = [i \in 0..k |-> IF i = 0 THEN tip
                                               ELSE Parents(f[i - 1])]
           T == {k \in Nat : \E f : Solves(f, k)}
<1>1. 0 \in T
  <2>1. Solves([i \in 0..0 |-> tip], 0)
    OBVIOUS
  <2>2. QED
    BY <2>1
<1>2. ASSUME NEW k \in Nat, k \in T PROVE k + 1 \in T
  <2>1. PICK f : Solves(f, k)
    BY <1>2
  <2> HIDE DEF tip, Parents
  <2> DEFINE h == [i \in 0..(k + 1) |-> IF i = k + 1 THEN Parents(f[k]) ELSE f[i]]
  <2>2. \A i \in 0..(k + 1) : h[i] = IF i = 0 THEN tip ELSE Parents(h[i - 1])
    <3> TAKE i \in 0..(k + 1)
    <3>1. CASE i = 0
      BY <2>1, <3>1
    <3>2. CASE i = k + 1
      BY <3>2
    <3>3. CASE i \in 1..k
      <4>1. i \in 0..k /\ i - 1 \in 0..k /\ i # 0 /\ i # k + 1 /\ i - 1 # k + 1
        BY <3>3
      <4>2. f[i] = Parents(f[i - 1])
        BY <2>1, <4>1
      <4>3. h[i] = f[i] /\ h[i - 1] = f[i - 1]
        BY <4>1
      <4>4. QED
        BY <4>1, <4>2, <4>3
    <3>4. QED
      BY <3>1, <3>2, <3>3
  <2>3. Solves(h, k + 1)
    BY <2>2
  <2> HIDE DEF h
  <2>4. QED
    BY <2>3
<1>3. n \in T
  <2> HIDE DEF T
  <2>1. QED
    BY <1>1, <1>2, SetInductionOnNat
<1>4. PICK f : Solves(f, n)
  BY <1>3
<1>5. QED
  BY <1>4 DEF Generations

\* The slots from a block of the main chain up to the tip are linked, so that
\* the block's header is as many links below the tip as its height says.
LEMMA MainChainBlockIsBelowTip ==
  ASSUME MaxForks = 0, GoodMain(main_state),
         NEW c \in CommittedBlockHeader, NEW top \in Int,
         RingHolds(main_state, c, top),
         NEW x \in CommittedBlockHeader, IsMainChainBlock(x)
  PROVE  /\ main_state.block_height - x.blockheight \in 0..main_state.block_height
         /\ x.header \in BelowTip(main_state.block_height - x.blockheight)
<1> DEFINE m == main_state
           b == m.block_height
           n == b - x.blockheight
           T == {i \in Nat : i <= n => SlotOf(m, b - i).header \in Generations(n)[i]}
<1>1. m \in MainState /\ HoldsTurn(m, c, top)
  BY DEF GoodMain, RingHolds
<1>2. /\ b \in Nat /\ m.start_height \in Nat /\ c.blockheight \in Nat
      /\ x.blockheight \in Nat /\ PRUNING_FACTOR \in Nat \ {0}
      /\ m.block_commitments \in [Slots -> Commitment]
  BY <1>1, RingAssumption DEF MainState, CommittedBlockHeader
<1>3. /\ x.blockheight \in c.blockheight..top
      /\ x.blockheight <= b
      /\ x.blockheight > top - PRUNING_FACTOR
      /\ SlotOf(m, x.blockheight) = x
  BY <1>1, BaseInRing
<1>4. top \in m.start_height..(m.start_height + PRUNING_FACTOR - 1) /\ b <= top
  BY <1>1 DEF HoldsTurn
<1>5. n \in Nat /\ n \in 0..b
  BY <1>2, <1>3
<1>6. Generations(n) =
        [i \in 0..n |->
           IF i = 0 THEN {m.tip_commit_hash.header}
           ELSE {g \in Headers : \E h \in Generations(n)[i - 1] :
                                   h.reversed_prev_blockhash = g.hash}]
  BY <1>5, GenerationsDef
<1>7. ASSUME NEW h \in Int, h >= x.blockheight, h <= b
      PROVE  /\ h \in (top - PRUNING_FACTOR + 1)..top /\ h >= c.blockheight
             /\ SlotOf(m, h) \in CommittedBlockHeader
  <2>1. h \in (top - PRUNING_FACTOR + 1)..top /\ h >= c.blockheight /\ InReach(m, h)
    BY <1>2, <1>3, <1>4, <1>7 DEF InReach
  <2>2. SlotOf(m, h) # NoCommitment
    BY <1>1, <1>2, <2>1 DEF HoldsTurn
  <2>3. get_position(m, h) \in Slots
    BY <1>1, <2>1, PositionInReach
  <2>4. QED
    BY <1>2, <2>1, <2>2, <2>3 DEF SlotOf, Commitment
<1>8. SlotOf(m, b) = m.tip_commit_hash
  BY <1>1, TipInSlot
<1> HIDE DEF n, b
<1>9. 0 \in T
  <2>1. Generations(n)[0] = {m.tip_commit_hash.header} /\ b - 0 = b
    BY <1>2, <1>5, <1>6
  <2>2. QED
    BY <1>8, <2>1
<1>10. ASSUME NEW i \in Nat, i \in T PROVE i + 1 \in T
  <2>1. SUFFICES ASSUME i + 1 <= n
                 PROVE  SlotOf(m, b - (i + 1)).header \in Generations(n)[i + 1]
    OBVIOUS
  <2> DEFINE h == b - (i + 1)
  <2>2. /\ i <= n /\ i + 1 \in 0..n /\ (i + 1) - 1 = i /\ i + 1 # 0
        /\ h \in Int /\ h + 1 = b - i
        /\ h >= x.blockheight /\ h <= b - 1 /\ h <= b
    BY <1>2, <1>5, <2>1 DEF n
  <2>3. SlotOf(m, h + 1).header \in Generations(n)[i]
    BY <1>10, <2>2
  <2>4. /\ h \in (top - PRUNING_FACTOR + 1)..top /\ h >= c.blockheight
        /\ SlotOf(m, h) \in CommittedBlockHeader
    BY <1>7, <2>2
  <2> HIDE DEF h
  <2>5. h \in (top - PRUNING_FACTOR + 1)..(m.block_height - 1)
    BY <1>2, <2>2, <2>4 DEF b
  <2>6. IsChild(SlotOf(m, h), SlotOf(m, h + 1))
    BY <2>4, <2>5 DEF RingHolds
  <2>7. SlotOf(m, h).header \in Headers
    BY <2>4 DEF CommittedBlockHeader
  <2>8. Generations(n)[i + 1] =
          {g \in Headers : \E y \in Generations(n)[i] :
                             y.reversed_prev_blockhash = g.hash}
    BY <1>6, <2>2
  <2>9. SlotOf(m, h).header \in Generations(n)[i + 1]
    BY <2>3, <2>6, <2>7, <2>8 DEF IsChild
  <2>10. QED
    BY <2>9 DEF h
<1>11. n \in T
  <2> HIDE DEF T
  <2>1. QED
    BY <1>5, <1>9, <1>10, SetInductionOnNat
<1>12. b - n = x.blockheight
  BY <1>2 DEF n
<1>13. x.header \in BelowTip(n)
  BY <1>3, <1>5, <1>11, <1>12 DEF BelowTip
<1>14. QED
  BY <1>5, <1>13 DEF n, b

\* What passes the checks on the committed header is buried.
LEMMA ConfirmedIsBuried ==
  ASSUME MaxForks = 0, RelayInvariant, RingInvariant, Initialized,
         NEW tx \in TxIds, NEW n \in Confirmations, NEW x \in CommittedBlockHeader,
         IsConfirmed(x, n), ProvesInclusion(x, tx)
  PROVE  IsBuried(tx, n)
<1> DEFINE k == main_state.block_height - x.blockheight
<1>2. IsMainChainBlock(x) /\ k + 1 >= n
  BY DEF IsConfirmed
<1>3. GoodMain(main_state)
  BY RingParts
<1>4. PICK c \in CommittedBlockHeader, top \in Int : RingHolds(main_state, c, top)
  BY RingParts
<1>5. k \in 0..main_state.block_height /\ x.header \in BelowTip(k)
  BY <1>2, <1>3, <1>4, MainChainBlockIsBelowTip
<1>6. tx \in Included[x.header.hash]
  BY DEF ProvesInclusion
<1> HIDE DEF k
<1>7. QED
  BY <1>2, <1>5, <1>6 DEF IsBuried

\* The step that MintsAreBuried allows.
MintsBuried ==
  /\ lamports' # lamports =>
       \E tx \in TxIds, r \in Receivers :
         /\ lamports' = [lamports EXCEPT ![r] = @ + 10 * Outputs[<<tx, r>>]]
         /\ \/ \E n \in Confirmations : IsBuried(tx, n)
            \/ tx_accounts[tx] # NoAccount
  /\ \A tx \in TxIds :
       tx_accounts[tx] = NoAccount /\ tx_accounts'[tx] # NoAccount =>
         \E n \in Confirmations : IsBuried(tx, n)

\* Both instructions that mint pay ten lamports for a satoshi.
LEMMA MintPays ==
  ASSUME BridgeTypeOK, NEW tx \in TxIds, NEW r \in Receivers, Mint(tx, r)
  PROVE  lamports' = [lamports EXCEPT ![r] = @ + 10 * Outputs[<<tx, r>>]]
<1>1. Outputs[<<tx, r>>] \in Nat
  BY BridgeAssumption
<1>2. Outputs[<<tx, r>>] * 10 = 10 * Outputs[<<tx, r>>]
  BY <1>1
<1>3. QED
  BY <1>2 DEF Mint, bridge_mint_amount

LEMMA VerifiedMintsBuried ==
  ASSUME MaxForks = 0, BridgeInvariant, RingInvariant,
         NEW tx \in TxIds, NEW n \in Confirmations, NEW c \in CommittedBlockHeader,
         NEW r \in Receivers, VerifySmallTx(tx, n, c, r)
  PROVE  MintsBuried
<1>1. IsBuried(tx, n)
  BY ConfirmedIsBuried DEF VerifySmallTx, BridgeInvariant
<1>2. lamports' = [lamports EXCEPT ![r] = @ + 10 * Outputs[<<tx, r>>]]
  BY MintPays DEF VerifySmallTx, BridgeInvariant
<1>3. UNCHANGED tx_accounts
  BY DEF VerifySmallTx
<1>4. QED
  BY <1>1, <1>2, <1>3 DEF MintsBuried

LEMMA StepMintsBuried ==
  ASSUME MaxForks = 0, BridgeInvariant, RingInvariant, [BridgeNext]_bridge_vars
  PROVE  [MintsBuried]_bridge_vars
<1>0. RelayInvariant /\ BridgeTypeOK
  BY DEF BridgeInvariant
<1>1. CASE UNCHANGED bridge_vars
  BY <1>1
<1>2. CASE Next /\ UNCHANGED bridge_accounts
  BY <1>2 DEF bridge_accounts, MintsBuried
<1>3. ASSUME NEW tx \in TxIds, NEW n \in Confirmations, NEW c \in Claims,
             NEW r \in Receivers, VerifySmallTx(tx, n, c, r)
      PROVE  MintsBuried
  <2>1. c \in CommittedBlockHeader
    BY BridgeAssumption
  <2>2. QED
    BY <1>3, <2>1, VerifiedMintsBuried
<1>4. ASSUME NEW amount \in Deposits, Deposit(amount)
      PROVE  MintsBuried
  BY <1>4 DEF Deposit, MintsBuried
<1>5. ASSUME NEW tx \in TxIds, NEW size \in TxSizes, NEW n \in Confirmations,
             NEW c \in Claims, InitBigTxVerify(tx, size, n, c)
      PROVE  MintsBuried
  <2>1. IsBuried(tx, n)
    <3>1. c \in CommittedBlockHeader
      BY BridgeAssumption
    <3>2. QED
      BY <1>0, <1>5, <3>1, ConfirmedIsBuried DEF InitBigTxVerify
  <2>2. /\ UNCHANGED lamports
        /\ tx_accounts \in [TxIds -> TxAccount \cup {NoAccount}]
        /\ tx_accounts' = [tx_accounts EXCEPT ![tx] =
                             [tx_size |-> size, tx_bytes |-> <<>>]]
    BY <1>0, <1>5 DEF InitBigTxVerify, BridgeTypeOK
  <2>3. \A t \in TxIds : t # tx => tx_accounts'[t] = tx_accounts[t]
    BY <2>2
  <2>4. QED
    BY <2>1, <2>2, <2>3 DEF MintsBuried
<1>6. ASSUME NEW tx \in TxIds, NEW bytes \in Chunks, StoreTxBytes(tx, bytes)
      PROVE  MintsBuried
  <2>1. /\ UNCHANGED lamports
        /\ tx_accounts \in [TxIds -> TxAccount \cup {NoAccount}]
        /\ tx_accounts[tx] # NoAccount
        /\ tx_accounts' = [tx_accounts EXCEPT ![tx].tx_bytes = Extended(@, bytes)]
    BY <1>0, <1>6 DEF StoreTxBytes, BridgeTypeOK
  <2>2. \A t \in TxIds : t # tx => tx_accounts'[t] = tx_accounts[t]
    BY <2>1
  <2>3. QED
    BY <2>1, <2>2 DEF MintsBuried
<1>7. ASSUME NEW tx \in TxIds, NEW r \in Receivers, FinalizeTxProcessing(tx, r)
      PROVE  MintsBuried
  <2>1. lamports' = [lamports EXCEPT ![r] = @ + 10 * Outputs[<<tx, r>>]]
    BY <1>0, <1>7, MintPays DEF FinalizeTxProcessing
  <2>2. tx_accounts[tx] # NoAccount /\ UNCHANGED tx_accounts
    BY <1>7 DEF FinalizeTxProcessing
  <2>3. QED
    BY <2>1, <2>2 DEF MintsBuried
<1>8. QED
  BY <1>1, <1>2, <1>3, <1>4, <1>5, <1>6, <1>7 DEF BridgeNext

\* Without fork accounts nothing is minted, and no account for a large
\* transaction is created, but for a transaction of the tip's own chain with the
\* confirmations asked for, whatever the ring has been through.
THEOREM MintsOnlyBuried ==
  ASSUME MaxForks = 0
  PROVE  BridgeSpec => MintsAreBuried
<1>1. BridgeInit => BridgeInvariant /\ RingInvariant
  BY InitBridgeInvariant DEF BridgeInit, Init, RingInvariant, Initialized
<1>2. BridgeInvariant /\ RingInvariant /\ [BridgeNext]_bridge_vars
        => (BridgeInvariant /\ RingInvariant)'
  BY StepBridgeInvariant, StepEffects, RingStep DEF BridgeInvariant
<1>3. BridgeInvariant /\ RingInvariant /\ [BridgeNext]_bridge_vars
        => [MintsBuried]_bridge_vars
  BY StepMintsBuried
<1>4. QED
  BY <1>1, <1>2, <1>3, PTL DEF BridgeSpec, MintsAreBuried, MintsBuried

-----------------------------------------------------------------------------
(* The service that relays deposits. *)

RequestSteps ==
  {Idle, "get_account", "get_transaction", "get_timestamps", "send", "confirm"}

\* A verify_small_tx transaction as the service can have made it.
RelayedTransaction ==
  [request : Requests, tx : TxIds, receiver : Receivers, confirmations : {1},
   commited_header : CommittedBlockHeader]

RequestTypes ==
  /\ step \in [Requests -> RequestSteps]
  /\ tx_request \in [Requests -> Asked \cup {Idle}]
  /\ last_diff_adjustment \in [Requests -> Nat]
  /\ tx_block \in [Requests -> Headers]
  /\ prev_block_timestamps \in [Requests -> Seq(Nat)]

\* What a request has read so far, call by call.
RequestProgress(r) ==
  /\ step[r] # Idle => tx_request[r] \in Asked
  /\ step[r] \in {Idle, "get_account", "get_transaction"} =>
       prev_block_timestamps[r] = <<>>
  /\ step[r] = "get_timestamps" => Len(prev_block_timestamps[r]) < PREV_TIMESTAMPS
  /\ step[r] = "send" => Len(prev_block_timestamps[r]) = PREV_TIMESTAMPS

ServiceInvariant ==
  /\ RequestTypes
  /\ \A r \in Requests : RequestProgress(r)
  /\ in_flight \subseteq RelayedTransaction

LEMMA StepsDiffer ==
  /\ Idle # "get_account" /\ Idle # "get_transaction" /\ Idle # "get_timestamps"
  /\ Idle # "send" /\ Idle # "confirm"
  BY RequestAssumption

\* A request that has failed or been answered leaves nothing behind.
LEMMA UnusedKeepsService ==
  ASSUME ServiceInvariant, NEW r \in Requests, Unused(r), in_flight' = in_flight
  PROVE  ServiceInvariant'
<1>1. RequestTypes'
  BY NodeAssumption DEF Unused, ServiceInvariant, RequestTypes, RequestSteps
<1>2. ASSUME NEW q \in Requests PROVE RequestProgress(q)'
  <2>1. CASE q = r
    <3>1. step'[q] = Idle /\ prev_block_timestamps'[q] = <<>>
      BY <2>1 DEF Unused, ServiceInvariant, RequestTypes
    <3>2. QED
      BY <3>1, StepsDiffer DEF RequestProgress
  <2>2. CASE q # r
    <3>1. /\ step'[q] = step[q] /\ tx_request'[q] = tx_request[q]
          /\ prev_block_timestamps'[q] = prev_block_timestamps[q]
      BY <2>2 DEF Unused, ServiceInvariant, RequestTypes
    <3>2. QED
      BY <3>1 DEF ServiceInvariant, RequestProgress
  <2>3. QED
    BY <2>1, <2>2
<1>3. QED
  BY <1>1, <1>2 DEF ServiceInvariant

\* A request that goes on: what changes of it, and nothing of the others.
LEMMA OthersKeepProgress ==
  ASSUME ServiceInvariant, NEW r \in Requests, NEW q \in Requests, q # r,
         NEW s, NEW t, NEW p,
         step' = [step EXCEPT ![r] = s],
         tx_request' = [tx_request EXCEPT ![r] = t],
         prev_block_timestamps' = [prev_block_timestamps EXCEPT ![r] = p]
  PROVE  RequestProgress(q)'
<1>1. /\ step'[q] = step[q] /\ tx_request'[q] = tx_request[q]
      /\ prev_block_timestamps'[q] = prev_block_timestamps[q]
  BY DEF ServiceInvariant, RequestTypes
<1>2. QED
  BY <1>1 DEF ServiceInvariant, RequestProgress

LEMMA RelayTxKeepsService ==
  ASSUME ServiceInvariant, NEW r \in Requests, NEW asked \in Asked, RelayTx(r, asked)
  PROVE  ServiceInvariant'
<1>1. RequestTypes'
  BY DEF RelayTx, ServiceInvariant, RequestTypes, RequestSteps
<1>2. /\ step' = [step EXCEPT ![r] = "get_account"]
      /\ tx_request' = [tx_request EXCEPT ![r] = asked]
      /\ prev_block_timestamps' =
           [prev_block_timestamps EXCEPT ![r] = prev_block_timestamps[r]]
      /\ prev_block_timestamps[r] = <<>>
  BY DEF RelayTx, ServiceInvariant, RequestTypes, RequestProgress
<1>3. RequestProgress(r)'
  <2>1. /\ step'[r] = "get_account" /\ tx_request'[r] = asked
        /\ prev_block_timestamps'[r] = <<>>
    BY <1>2 DEF ServiceInvariant, RequestTypes
  <2>2. QED
    BY <2>1 DEF RequestProgress
<1>4. \A q \in Requests \ {r} : RequestProgress(q)'
  BY <1>2, OthersKeepProgress
<1>5. in_flight' = in_flight
  BY DEF RelayTx
<1>6. QED
  BY <1>1, <1>3, <1>4, <1>5 DEF ServiceInvariant

LEMMA GetAccountKeepsService ==
  ASSUME BridgeInvariant, ServiceInvariant, NEW r \in Requests, GetAccount(r)
  PROVE  ServiceInvariant'
<1>0. main_state.last_diff_adjustment \in Nat
  BY DEF GetAccount, Initialized, BridgeInvariant, RelayInvariant, TypeOK, MainState
<1>1. RequestTypes'
  BY <1>0 DEF GetAccount, ServiceInvariant, RequestTypes, RequestSteps
<1>2. /\ step[r] = "get_account"
      /\ step' = [step EXCEPT ![r] = "get_transaction"]
      /\ tx_request' = [tx_request EXCEPT ![r] = tx_request[r]]
      /\ prev_block_timestamps' =
           [prev_block_timestamps EXCEPT ![r] = prev_block_timestamps[r]]
      /\ tx_request[r] \in Asked
      /\ prev_block_timestamps[r] = <<>>
  BY StepsDiffer DEF GetAccount, ServiceInvariant, RequestTypes, RequestProgress
<1>3. RequestProgress(r)'
  <2>1. /\ step'[r] = "get_transaction" /\ tx_request'[r] \in Asked
        /\ prev_block_timestamps'[r] = <<>>
    BY <1>2 DEF ServiceInvariant, RequestTypes
  <2>2. QED
    BY <2>1 DEF RequestProgress
<1>4. \A q \in Requests \ {r} : RequestProgress(q)'
  BY <1>2, OthersKeepProgress
<1>5. in_flight' = in_flight
  BY DEF GetAccount
<1>6. QED
  BY <1>1, <1>3, <1>4, <1>5 DEF ServiceInvariant

LEMMA GetTransactionKeepsService ==
  ASSUME NodeInvariant, ServiceInvariant, NEW r \in Requests, GetTransaction(r)
  PROVE  ServiceInvariant'
<1>1. PICK h \in Headers : tx_block' = [tx_block EXCEPT ![r] = h]
  BY DEF GetTransaction, BlocksWith, NodeInvariant
<1>2. RequestTypes'
  BY <1>1 DEF GetTransaction, ServiceInvariant, RequestTypes, RequestSteps
<1>3. /\ step[r] = "get_transaction"
      /\ step' = [step EXCEPT ![r] = "get_timestamps"]
      /\ tx_request' = [tx_request EXCEPT ![r] = tx_request[r]]
      /\ prev_block_timestamps' =
           [prev_block_timestamps EXCEPT ![r] = prev_block_timestamps[r]]
      /\ tx_request[r] \in Asked
      /\ prev_block_timestamps[r] = <<>>
  BY StepsDiffer DEF GetTransaction, ServiceInvariant, RequestTypes, RequestProgress
<1>4. RequestProgress(r)'
  <2>1. /\ step'[r] = "get_timestamps" /\ tx_request'[r] \in Asked
        /\ prev_block_timestamps'[r] = <<>>
    BY <1>3 DEF ServiceInvariant, RequestTypes
  <2>2. Len(prev_block_timestamps'[r]) < PREV_TIMESTAMPS
    BY <2>1, ParameterAssumption
  <2>3. QED
    BY <2>1, <2>2, StepsDiffer DEF RequestProgress
<1>5. \A q \in Requests \ {r} : RequestProgress(q)'
  BY <1>3, OthersKeepProgress
<1>6. in_flight' = in_flight
  BY DEF GetTransaction
<1>7. QED
  BY <1>2, <1>4, <1>5, <1>6 DEF ServiceInvariant

LEMMA GetTimestampKeepsService ==
  ASSUME HeadersAreTree, NodeInvariant, ServiceInvariant,
         NEW r \in Requests, NEW i, GetTimestamp(r, i)
  PROVE  ServiceInvariant'
<1> DEFINE height == Height[tx_block[r]]
           before == prev_block_timestamps[r]
           after == WithTimestamp(before, height, i)
           next == IF i + 1 = PREV_TIMESTAMPS THEN "send" ELSE "get_timestamps"
<1>1. /\ step[r] = "get_timestamps" /\ i = Len(before) /\ CanReadTimestamp(height, i)
      /\ step' = [step EXCEPT ![r] = next]
      /\ tx_request' = tx_request
      /\ prev_block_timestamps' = [prev_block_timestamps EXCEPT ![r] = after]
      /\ last_diff_adjustment' = last_diff_adjustment
      /\ tx_block' = tx_block /\ in_flight' = in_flight
  BY DEF GetTimestamp
<1>2. /\ tx_block[r] \in Headers /\ before \in Seq(Nat)
      /\ Len(before) < PREV_TIMESTAMPS /\ tx_request[r] \in Asked
  BY <1>1, StepsDiffer DEF ServiceInvariant, RequestTypes, RequestProgress
<1>3. height \in Nat /\ height >= BaseHeight
  BY <1>2, HeightType, NodeAssumption
<1>4. next \in RequestSteps
  BY DEF RequestSteps
<1> HIDE DEF height, before
<1>5. after \in Seq(Nat) /\ Len(after) = i + 1
  BY <1>1, <1>2, <1>3, ReadTimestamp
<1>6. PREV_TIMESTAMPS \in Nat /\ i \in Nat
  BY <1>1, <1>2, ParameterAssumption
<1>7. /\ next = "send" => Len(after) = PREV_TIMESTAMPS
      /\ next = "get_timestamps" => Len(after) < PREV_TIMESTAMPS
      /\ next \in {"send", "get_timestamps"}
  BY <1>1, <1>2, <1>5, <1>6
<1> HIDE DEF after, next
<1>8. RequestTypes'
  BY <1>1, <1>4, <1>5 DEF ServiceInvariant, RequestTypes
<1>9. RequestProgress(r)'
  <2>1. /\ step'[r] = next /\ tx_request'[r] \in Asked
        /\ prev_block_timestamps'[r] = after
    BY <1>1, <1>2 DEF ServiceInvariant, RequestTypes
  <2>2. QED
    BY <1>7, <2>1, StepsDiffer DEF RequestProgress
<1>10. tx_request' = [tx_request EXCEPT ![r] = tx_request[r]]
  BY <1>1 DEF ServiceInvariant, RequestTypes
<1>11. \A q \in Requests \ {r} : RequestProgress(q)'
  BY <1>1, <1>10, OthersKeepProgress
<1>12. QED
  BY <1>1, <1>8, <1>9, <1>11 DEF ServiceInvariant

\* The committed header that the service rebuilds is one.
LEMMA SendKeepsService ==
  ASSUME HeadersAreTree, ServiceInvariant, NEW r \in Requests, Send(r)
  PROVE  ServiceInvariant'
<1> DEFINE c == reconstruct_commited_header(tx_block[r].hash, Height[tx_block[r]],
                  last_diff_adjustment[r], prev_block_timestamps[r])
<1>1. /\ step[r] = "send"
      /\ step' = [step EXCEPT ![r] = "confirm"]
      /\ tx_request' = tx_request /\ last_diff_adjustment' = last_diff_adjustment
      /\ tx_block' = tx_block /\ prev_block_timestamps' = prev_block_timestamps
      /\ in_flight' = in_flight \cup {verify_small_tx(r)}
  BY DEF Send
<1>2. /\ tx_request[r] \in Asked /\ last_diff_adjustment[r] \in Nat
      /\ tx_block[r] \in Headers /\ prev_block_timestamps[r] \in Seq(Nat)
      /\ Len(prev_block_timestamps[r]) = PREV_TIMESTAMPS
  BY <1>1, StepsDiffer DEF ServiceInvariant, RequestTypes, RequestProgress
<1>3. c \in CommittedBlockHeader
  <2>1. (CHOOSE h \in Headers : h.hash = tx_block[r].hash) \in Headers
    BY <1>2
  <2>2. Height[tx_block[r]] \in Nat
    BY <1>2, HeightType
  <2>3. prev_block_timestamps[r] \in [1..PREV_TIMESTAMPS -> Nat]
    BY <1>2
  <2>4. QED
    BY <1>2, <2>1, <2>2, <2>3 DEF reconstruct_commited_header, CommittedBlockHeader
<1>4. verify_small_tx(r) \in RelayedTransaction
  <2>1. tx_request[r][1] \in TxIds /\ tx_request[r][2] \in Receivers
    BY <1>2, RequestAssumption
  <2>2. verify_small_tx(r) =
          [request |-> r, tx |-> tx_request[r][1], receiver |-> tx_request[r][2],
           confirmations |-> 1, commited_header |-> c]
    BY DEF verify_small_tx
  <2> HIDE DEF c
  <2>3. QED
    BY <1>3, <2>1, <2>2 DEF RelayedTransaction
<1>5. RequestTypes'
  BY <1>1 DEF ServiceInvariant, RequestTypes, RequestSteps
<1>6. RequestProgress(r)'
  <2>1. step'[r] = "confirm" /\ tx_request'[r] \in Asked
    BY <1>1, <1>2 DEF ServiceInvariant, RequestTypes
  <2>2. QED
    BY <2>1, StepsDiffer DEF RequestProgress
<1>7. /\ tx_request' = [tx_request EXCEPT ![r] = tx_request[r]]
      /\ prev_block_timestamps' =
           [prev_block_timestamps EXCEPT ![r] = prev_block_timestamps[r]]
  BY <1>1 DEF ServiceInvariant, RequestTypes
<1>8. ASSUME NEW q \in Requests \ {r} PROVE RequestProgress(q)'
  <2>1. q \in Requests /\ q # r /\ step' = [step EXCEPT ![r] = "confirm"]
    BY <1>1
  <2>2. QED
    BY <1>7, <2>1, OthersKeepProgress
<1>9. QED
  BY <1>1, <1>4, <1>5, <1>6, <1>8 DEF ServiceInvariant

-----------------------------------------------------------------------------
(* The service, bitcoind and the program together. *)

TxRelayerInvariant ==
  /\ BridgeInvariant
  /\ RingInvariant
  /\ NodeInvariant
  /\ ServiceInvariant

LEMMA TxRelayerInitInvariant ==
  ASSUME TxRelayerInit
  PROVE  TxRelayerInvariant
<1>1. BridgeInvariant /\ RingInvariant
  BY InitBridgeInvariant DEF TxRelayerInit, BridgeInit, Init, RingInvariant, Initialized
<1>2. NodeInvariant
  BY NodeInitInvariant DEF TxRelayerInit
<1>3. ServiceInvariant
  BY StepsDiffer, NodeAssumption
     DEF TxRelayerInit, ServiceInvariant, RequestTypes, RequestSteps, RequestProgress
<1>4. QED
  BY <1>1, <1>2, <1>3 DEF TxRelayerInvariant

\* What a step of the composition is for the program: nothing, a step of its own,
\* or the execution of a transaction that the service sent.
ProgramStep ==
  \/ UNCHANGED bridge_vars
  \/ BridgeNext
  \/ \E tx \in TxIds, c \in CommittedBlockHeader, r \in Receivers :
       VerifySmallTx(tx, 1, c, r)

LEMMA ProgramStepKeeps ==
  ASSUME MaxForks = 0, BridgeInvariant, RingInvariant, ProgramStep
  PROVE  /\ BridgeInvariant' /\ RingInvariant'
         /\ [MintsBuried]_bridge_vars
<1>1. CASE [BridgeNext]_bridge_vars
  <2>1. BridgeInvariant' /\ [Next]_vars
    BY <1>1, StepBridgeInvariant, StepEffects DEF BridgeInvariant
  <2>2. RingInvariant'
    BY <2>1, RingStep DEF BridgeInvariant
  <2>3. QED
    BY <1>1, <2>1, <2>2, StepMintsBuried
<1>2. ASSUME NEW tx \in TxIds, NEW c \in CommittedBlockHeader, NEW r \in Receivers,
             VerifySmallTx(tx, 1, c, r)
      PROVE  BridgeInvariant' /\ RingInvariant' /\ MintsBuried
  <2>1. MoneyEffect /\ BytesEffect /\ UNCHANGED vars
    BY <1>2, VerifyEffects DEF BridgeInvariant
  <2>2. BridgeInvariant'
    BY <2>1, EffectsKeepInvariant
  <2>3. RingInvariant'
    BY <2>1, RingStep DEF BridgeInvariant
  <2>4. 1 \in Confirmations
    BY RequestAssumption
  <2>5. MintsBuried
    BY <1>2, <2>4, VerifiedMintsBuried
  <2>6. QED
    BY <2>2, <2>3, <2>5
<1>3. QED
  BY <1>1, <1>2 DEF ProgramStep

\* Each action, by the part of the composition that it changes.
LEMMA TxRelayerStep ==
  ASSUME HeadersAreTree, TxRelayerInvariant, [TxRelayerNext]_tx_relayer_vars
  PROVE  ProgramStep /\ NodeInvariant' /\ ServiceInvariant'
<1>1. BridgeInvariant /\ NodeInvariant /\ ServiceInvariant
  BY DEF TxRelayerInvariant
<1>2. ASSUME UNCHANGED node_vars PROVE NodeInvariant'
  BY <1>1, <1>2 DEF node_vars, NodeInvariant
<1>3. ASSUME UNCHANGED request_vars, in_flight' \subseteq in_flight
      PROVE  ServiceInvariant'
  BY <1>1, <1>3 DEF request_vars, ServiceInvariant, RequestTypes, RequestProgress
<1>4. CASE UNCHANGED tx_relayer_vars
  BY <1>2, <1>3, <1>4 DEF tx_relayer_vars, ProgramStep
<1>5. ASSUME NEW r \in Requests, NEW asked \in Asked, RelayTx(r, asked)
      PROVE  ProgramStep /\ NodeInvariant' /\ ServiceInvariant'
  BY <1>1, <1>2, <1>5, RelayTxKeepsService DEF RelayTx, ProgramStep
<1>6. ASSUME NEW r \in Requests, GetAccount(r)
      PROVE  ProgramStep /\ NodeInvariant' /\ ServiceInvariant'
  BY <1>1, <1>2, <1>6, GetAccountKeepsService DEF GetAccount, ProgramStep
<1>7. ASSUME NEW r \in Requests, GetTransaction(r)
      PROVE  ProgramStep /\ NodeInvariant' /\ ServiceInvariant'
  BY <1>1, <1>2, <1>7, GetTransactionKeepsService DEF GetTransaction, ProgramStep
<1>8. ASSUME NEW r \in Requests, NEW i \in 0..(PREV_TIMESTAMPS - 1), GetTimestamp(r, i)
      PROVE  ProgramStep /\ NodeInvariant' /\ ServiceInvariant'
  <2>1. UNCHANGED <<bridge_vars, node_vars>>
    BY <1>8 DEF GetTimestamp
  <2>2. QED
    BY <1>1, <1>2, <1>8, <2>1, GetTimestampKeepsService DEF ProgramStep
<1>9. ASSUME NEW r \in Requests, Send(r)
      PROVE  ProgramStep /\ NodeInvariant' /\ ServiceInvariant'
  BY <1>1, <1>2, <1>9, SendKeepsService DEF Send, ProgramStep
<1>10. ASSUME NEW r \in Requests, Confirm(r) \/ CallFails(r)
       PROVE  ProgramStep /\ NodeInvariant' /\ ServiceInvariant'
  BY <1>1, <1>2, <1>10, UnusedKeepsService DEF Confirm, CallFails, ProgramStep
<1>11. ASSUME NEW s \in in_flight, Execute(s)
       PROVE  ProgramStep /\ NodeInvariant' /\ ServiceInvariant'
  <2>1. s \in RelayedTransaction
    BY <1>1 DEF ServiceInvariant
  <2>2. /\ s.tx \in TxIds /\ s.receiver \in Receivers /\ s.confirmations = 1
        /\ s.commited_header \in CommittedBlockHeader
    BY <2>1 DEF RelayedTransaction
  <2>3. VerifySmallTx(s.tx, 1, s.commited_header, s.receiver)
    BY <1>11, <2>2 DEF Execute
  <2>4. ProgramStep
    BY <2>2, <2>3 DEF ProgramStep
  <2>5. UNCHANGED <<node_vars, request_vars>> /\ in_flight' \subseteq in_flight
    BY <1>11 DEF Execute
  <2>6. QED
    BY <1>2, <1>3, <2>4, <2>5
<1>12. ASSUME NEW s \in in_flight, Drop(s)
       PROVE  ProgramStep /\ NodeInvariant' /\ ServiceInvariant'
  BY <1>2, <1>3, <1>12 DEF Drop, ProgramStep
<1>13. CASE OtherCaller
  BY <1>2, <1>3, <1>13 DEF OtherCaller, ProgramStep
<1>14. CASE NodeStep
  <2>1. PICK h \in Headers : AdoptChain(h)
    BY <1>14 DEF NodeStep
  <2>2. NodeInvariant'
    BY <1>1, <2>1, AdoptChainInvariant
  <2>3. QED
    BY <1>3, <1>14, <2>2 DEF NodeStep, ProgramStep
<1>15. QED
  BY <1>4, <1>5, <1>6, <1>7, <1>8, <1>9, <1>10, <1>11, <1>12, <1>13, <1>14
     DEF TxRelayerNext

\* What the service asks for is minted under the same condition as what others
\* ask for: it takes the block's header apart and puts it together again from
\* bitcoind's answers, of several moments, and the program does not take its word
\* for it. For every tree of headers, any number of requests side by side, and
\* any reorganisation between two of their calls.
THEOREM RelayedMintsAreBuried ==
  ASSUME MaxForks = 0, HeadersAreTree
  PROVE  TxRelayerSpec => MintsAreBuried
<1>1. TxRelayerInit => TxRelayerInvariant
  BY TxRelayerInitInvariant
<1>2. TxRelayerInvariant /\ [TxRelayerNext]_tx_relayer_vars
        => TxRelayerInvariant' /\ [MintsBuried]_bridge_vars
  <2>1. SUFFICES ASSUME TxRelayerInvariant, [TxRelayerNext]_tx_relayer_vars
                 PROVE  TxRelayerInvariant' /\ [MintsBuried]_bridge_vars
    OBVIOUS
  <2>2. ProgramStep /\ NodeInvariant' /\ ServiceInvariant'
    BY <2>1, TxRelayerStep
  <2>3. /\ BridgeInvariant' /\ RingInvariant'
        /\ [MintsBuried]_bridge_vars
    BY <2>1, <2>2, ProgramStepKeeps DEF TxRelayerInvariant
  <2>4. QED
    BY <2>2, <2>3 DEF TxRelayerInvariant
<1>3. QED
  BY <1>1, <1>2, PTL DEF TxRelayerSpec, MintsAreBuried, MintsBuried

=============================================================================
