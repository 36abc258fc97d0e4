------------------------------ MODULE TxRelayer ------------------------------
(***************************************************************************)
(* The web service that turns a user's transaction id into a mint          *)
(* (relay_tx_web_api in block_relayer/src/lib.rs, relay_tx in              *)
(* relay_program_interaction.rs), composed with bitcoind and the program.  *)
(* Requests run side by side on the server's threads and share nothing but *)
(* the two services they call. Every call may fail, which ends the request *)
(* with an error; the transaction of a request whose confirmation was not  *)
(* awaited long enough may still be executed.                              *)
(*                                                                         *)
(* As in BlockRelayer, an RPC whose answer depends on bitcoind's current   *)
(* chain is a step of its own. A request number is used again only when    *)
(* its transaction is no longer in flight: Requests bounds how many of     *)
(* them there are at a time.                                               *)
(***************************************************************************)
EXTENDS BridgeTransactions, BitcoinNode

CONSTANTS
  Requests,   \* numbers of requests
  Asked,      \* the transaction and receiver that requests are made for
  Idle        \* a number not in use

ASSUME RequestAssumption ==
  /\ Asked \subseteq TxIds \X Receivers
  /\ 1 \in Confirmations
  /\ Idle # "get_account" /\ Idle # "get_transaction" /\ Idle # "get_timestamps"
  /\ Idle # "send" /\ Idle # "confirm"

VARIABLES
  step,                   \* the call that each request makes next
  tx_request,             \* what it asks for
  last_diff_adjustment,   \* from the main state as it read it
  tx_block,               \* the block that bitcoind gave for the transaction
  prev_block_timestamps,  \* those it has read, oldest first
  in_flight               \* verify_small_tx transactions not executed yet

request_vars ==
  <<step, tx_request, last_diff_adjustment, tx_block, prev_block_timestamps>>
tx_relayer_vars == <<bridge_vars, node_vars, request_vars, in_flight>>

\* What a number in no use holds.
Unused(r) ==
  /\ step' = [step EXCEPT ![r] = Idle]
  /\ tx_request' = [tx_request EXCEPT ![r] = Idle]
  /\ last_diff_adjustment' = [last_diff_adjustment EXCEPT ![r] = 0]
  /\ tx_block' = [tx_block EXCEPT ![r] = Base]
  /\ prev_block_timestamps' = [prev_block_timestamps EXCEPT ![r] = <<>>]

TxRelayerInit ==
  /\ BridgeInit
  /\ NodeInit
  /\ step = [r \in Requests |-> Idle]
  /\ tx_request = [r \in Requests |-> Idle]
  /\ last_diff_adjustment = [r \in Requests |-> 0]
  /\ tx_block = [r \in Requests |-> Base]
  /\ prev_block_timestamps = [r \in Requests |-> <<>>]
  /\ in_flight = {}

-----------------------------------------------------------------------------
(* A request. *)

\* POST /relay_tx with a transaction id and a Yona address.
RelayTx(r, asked) ==
  /\ step[r] = Idle
  /\ \A s \in in_flight : s.request # r
  /\ step' = [step EXCEPT ![r] = "get_account"]
  /\ tx_request' = [tx_request EXCEPT ![r] = asked]
  /\ UNCHANGED <<bridge_vars, node_vars, last_diff_adjustment, tx_block,
                 prev_block_timestamps, in_flight>>

GetAccount(r) ==
  /\ step[r] = "get_account"
  /\ Initialized
  /\ step' = [step EXCEPT ![r] = "get_transaction"]
  /\ last_diff_adjustment' =
       [last_diff_adjustment EXCEPT ![r] = main_state.last_diff_adjustment]
  /\ UNCHANGED <<bridge_vars, node_vars, tx_request, tx_block,
                 prev_block_timestamps, in_flight>>

\* Blocks of the active chain first; bitcoind's index may still name one that
\* has been reorganised away.
BlocksWith(tx) ==
  LET containing == {h \in blocks : tx \in Included[h.hash]}
      OnActive(h) == Height[h] <= Height[best] /\ ChainOf(best)[Height[h]] = h
  IN  IF \E h \in containing : OnActive(h)
      THEN {h \in containing : OnActive(h)}
      ELSE containing

\* get_raw_transaction_info; get_block_info and get_block_header by that hash.
GetTransaction(r) ==
  /\ step[r] = "get_transaction"
  /\ \E h \in BlocksWith(tx_request[r][1]) : tx_block' = [tx_block EXCEPT ![r] = h]
  /\ step' = [step EXCEPT ![r] = "get_timestamps"]
  /\ UNCHANGED <<bridge_vars, node_vars, tx_request, last_diff_adjustment,
                 prev_block_timestamps, in_flight>>

\* Turn i of the loop in reconstruct_commited_header.
GetTimestamp(r, i) ==
  LET height == Height[tx_block[r]]
  IN  /\ step[r] = "get_timestamps"
      /\ i = Len(prev_block_timestamps[r])
      /\ CanReadTimestamp(height, i)
      /\ prev_block_timestamps' =
           [prev_block_timestamps EXCEPT ![r] = WithTimestamp(@, height, i)]
      /\ step' = [step EXCEPT ![r] = IF i + 1 = PREV_TIMESTAMPS THEN "send" ELSE @]
      /\ UNCHANGED <<bridge_vars, node_vars, tx_request, last_diff_adjustment,
                     tx_block, in_flight>>

\* Faulty variant: the number of blocks up to that one, not its height.
verify_small_tx_of_block_count(r) ==
  [request |-> r, tx |-> tx_request[r][1], receiver |-> tx_request[r][2],
   confirmations |-> 1,
   commited_header |->
     reconstruct_commited_header(tx_block[r].hash, Height[tx_block[r]] + 1,
                                 last_diff_adjustment[r], prev_block_timestamps[r])]

\* The arguments of the instruction. The proof made from the block's transactions
\* is the right one (module Merkle).
verify_small_tx(r) ==
  [request |-> r, tx |-> tx_request[r][1], receiver |-> tx_request[r][2],
   confirmations |-> 1,
   commited_header |->
     reconstruct_commited_header(tx_block[r].hash, Height[tx_block[r]],
                                 last_diff_adjustment[r], prev_block_timestamps[r])]

Send(r) ==
  /\ step[r] = "send"
  /\ in_flight' = in_flight \cup {verify_small_tx(r)}
  /\ step' = [step EXCEPT ![r] = "confirm"]
  /\ UNCHANGED <<bridge_vars, node_vars, tx_request, last_diff_adjustment,
                 tx_block, prev_block_timestamps>>

\* The answer: the signature, or an error when the transaction is rejected or
\* not confirmed in time. The service keeps nothing of the request.
Confirm(r) ==
  /\ step[r] = "confirm"
  /\ Unused(r)
  /\ UNCHANGED <<bridge_vars, node_vars, in_flight>>

\* Any other call fails, or the transaction is in no block yet: an error.
CallFails(r) ==
  /\ step[r] \notin {Idle, "confirm"}
  /\ Unused(r)
  /\ UNCHANGED <<bridge_vars, node_vars, in_flight>>

-----------------------------------------------------------------------------
(* The cluster and bitcoind. *)

Execute(s) ==
  /\ s \in in_flight
  /\ VerifySmallTx(s.tx, s.confirmations, s.commited_header, s.receiver)
  /\ in_flight' = in_flight \ {s}
  /\ UNCHANGED <<node_vars, request_vars>>

\* A transaction is rejected, or expires.
Drop(s) ==
  /\ s \in in_flight
  /\ in_flight' = in_flight \ {s}
  /\ UNCHANGED <<bridge_vars, node_vars, request_vars>>

\* Whatever others do with the program.
OtherCaller == BridgeNext /\ UNCHANGED <<node_vars, request_vars, in_flight>>

NodeStep ==
  /\ \E h \in Headers : AdoptChain(h)
  /\ UNCHANGED <<bridge_vars, request_vars, in_flight>>

TxRelayerNext ==
  \/ \E r \in Requests, asked \in Asked : RelayTx(r, asked)
  \/ \E r \in Requests : GetAccount(r)
  \/ \E r \in Requests : GetTransaction(r)
  \/ \E r \in Requests, i \in 0..(PREV_TIMESTAMPS - 1) : GetTimestamp(r, i)
  \/ \E r \in Requests : Send(r)
  \/ \E r \in Requests : Confirm(r)
  \/ \E r \in Requests : CallFails(r)
  \/ \E s \in in_flight : Execute(s)
  \/ \E s \in in_flight : Drop(s)
  \/ OtherCaller
  \/ NodeStep

\* A request is made again and again, and a call that is made again and again for
\* one of them succeeds again and again. A transaction does not stay in flight,
\* since the block hash it names expires.
Fairness ==
  \A asked \in Asked, r \in Requests :
    /\ SF_tx_relayer_vars(\E q \in Requests : RelayTx(q, asked))
    /\ SF_tx_relayer_vars(tx_request[r] = asked /\ GetAccount(r))
    /\ SF_tx_relayer_vars(tx_request[r] = asked /\ GetTransaction(r))
    /\ \A i \in 0..(PREV_TIMESTAMPS - 1) :
         SF_tx_relayer_vars(tx_request[r] = asked /\ GetTimestamp(r, i))
    /\ SF_tx_relayer_vars(tx_request[r] = asked /\ Send(r))
    /\ WF_tx_relayer_vars(Confirm(r))
    /\ SF_tx_relayer_vars(\E s \in in_flight :
         s.request = r /\ <<s.tx, s.receiver>> = asked /\ Execute(s))
    /\ WF_tx_relayer_vars(\E s \in in_flight : s.request = r /\ Drop(s))

TxRelayerSpec ==
  TxRelayerInit /\ [][TxRelayerNext]_tx_relayer_vars /\ Fairness

-----------------------------------------------------------------------------
(* Properties. *)

IsMinted(asked) == lamports[asked[2]] >= 10 * Outputs[asked]

\* The deposit account can pay.
IsFunded(asked) ==
  deposit_account # NoAccount /\ deposit_account >= 10 * Outputs[asked]

\* The block is on bitcoind's chain, and the program holds a commitment for it.
IsRelayed(h) ==
  /\ h \in blocks
  /\ Height[h] <= Height[best] /\ ChainOf(best)[Height[h]] = h
  /\ Initialized
  /\ Retained(main_state, Height[h])
  /\ get_commitment(main_state, Height[h]).header = h

\* It is the commitment of the header that a request rebuilds.
IsReconstructible(h) ==
  get_commitment(main_state, Height[h]) =
    reconstruct_commited_header(h.hash, Height[h], main_state.last_diff_adjustment,
                                TimestampsBelow(best, Height[h]))

\* A deposit in a block that both sides have, and go on having, with a header
\* that can be rebuilt, is minted in the end, whatever calls fail, whatever
\* chains bitcoind went through between two calls of a request.
DepositsArrive ==
  \A asked \in Asked, h \in Headers :
    <>[](/\ asked[1] \in Included[h.hash] /\ Outputs[asked] > 0
         /\ IsFunded(asked) /\ IsRelayed(h) /\ IsReconstructible(h))
      => <>IsMinted(asked)

=============================================================================
