--------------------------- MODULE ProviderLookup ---------------------------
(***************************************************************************)
(* Lookups of the Ethereum provider                                        *)
(* (chains/aetherium-ethereum/src/rpc_clients/provider.rs):                *)
(* get_block_by_height and get_txn_by_hash, which go through               *)
(* get_with_retry_on_none; get_chain_metrics, is_contract, get_balance and *)
(* get_storage_at, which query once.                                       *)
(*                                                                         *)
(* The node answers each query with an error, None (it has not indexed the *)
(* object yet) or the object.  It may index the object at any moment,     *)
(* also while the relayer sleeps between tries; once indexed, it no longer *)
(* answers None.  What the node returns for a block (its number and hash,  *)
(* either of which a pending block lacks) is chosen from BlockAnswers.    *)
(*                                                                         *)
(* The provider is shared (an Arc clone per caller), so several Calls run  *)
(* at once; each looks up its own object, which the node indexes on its   *)
(* own schedule.                                                           *)
(***************************************************************************)
EXTENDS Integers, Sequences

CONSTANTS
    Calls,         \* concurrent calls on the provider
    Height,        \* the height get_block_by_height asks for
    BlockAnswers,  \* records [number, hash] the node may return for it
    Null           \* a missing number or hash (None in ethers' Block)

Kinds == {"Block", "Txn", "Metrics", "Code", "Balance", "Storage"}

\* The methods that make a single query without retry.
SingleQuery == {"Code", "Balance", "Storage"}

Answers == {"Err", "None", "Some"}

\* What get_transaction_receipt may return.
Receipts == {"Err", "None", "NoGasUsed", "Some"}

Outcomes == {"Ok", "OkNone", "ChainCommunicationError",
             "CouldNotFindBlockByHeight", "CouldNotFindTransactionByHash",
             "IncorrectBlockByHeight", "BlockWithoutHash", "NoGasUsed",
             "AddressParseError"}

VARIABLES
    kind,      \* call -> which provider method runs
    pc,        \* call -> where the call is
    tries,     \* call -> iterations of the for _ in 0..3 loop started
    answers,   \* call -> the node's answers to its get queries, in order
    indexed,   \* call -> whether the node has the call's object yet
    block,     \* call -> the block the node returned
    result     \* call -> the method's result once pc = "Done"

vars == <<kind, pc, tries, answers, indexed, block, result>>

NoBlock == [number |-> Null, hash |-> Null]

Init ==
    /\ kind \in [Calls -> Kinds]
    /\ pc = [c \in Calls |-> CASE kind[c] = "Metrics"     -> "Latest"
                              [] kind[c] \in SingleQuery -> "Query"
                              [] OTHER                   -> "Get"]
    /\ tries = [c \in Calls |-> 0]
    /\ answers = [c \in Calls |-> <<>>]
    /\ indexed \in [Calls -> BOOLEAN]
    /\ block = [c \in Calls |-> NoBlock]
    /\ result = [c \in Calls |-> "None"]

\* Slip: the loop runs one iteration fewer.
MaxTriesOffByOne == 2

\* for _ in 0..3
MaxTries == 3

(* The error not_found_error(id) builds for the method. *)
NotFound(c) == IF kind[c] = "Block" THEN "CouldNotFindBlockByHeight"
            ELSE "CouldNotFindTransactionByHash"

Finish(c, r) == pc' = [pc EXCEPT ![c] = "Done"] /\ result' = [result EXCEPT ![c] = r]

(* The node indexes the object. *)
Index(c) ==
    /\ ~indexed[c]
    /\ indexed' = [indexed EXCEPT ![c] = TRUE]
    /\ UNCHANGED <<kind, pc, tries, answers, block, result>>

(* Slip: an error from the node is retried like None. *)
AfterGetRetryingErrors(a) ==
    IF a = "Some" THEN "Got" ELSE "Sleep"

(* After get(id).await: `?` returns an error at once, Some returns the *)
(* object, None sleeps.                                               *)
AfterGet(a) ==
    CASE a = "Err"  -> "Done"
      [] a = "Some" -> "Got"
      [] a = "None" -> "Sleep"

(***************************************************************************)
(* One iteration of get_with_retry_on_none: get(id).await, with            *)
(* map_err(ChainCommunicationError::from_other)? on an error.              *)
(***************************************************************************)
Get(c) ==
    /\ pc[c] = "Get"
    /\ tries[c] < MaxTries
    /\ \E a \in Answers, b \in BlockAnswers :
          /\ a = "None" => ~indexed[c]
          /\ a = "Some" => indexed[c]
          /\ answers' = [answers EXCEPT ![c] = Append(@, a)]
          /\ pc' = [pc EXCEPT ![c] = AfterGet(a)]
          /\ result' = IF AfterGet(a) = "Done"
                       THEN [result EXCEPT ![c] = "ChainCommunicationError"]
                       ELSE result
          /\ block' = IF a = "Some" /\ kind[c] = "Block"
                      THEN [block EXCEPT ![c] = b] ELSE block
    /\ tries' = [tries EXCEPT ![c] = @ + 1]
    /\ UNCHANGED <<kind, indexed>>

(* Slip: the loop has no exit after a None. *)
AfterSleepNoExit(t) == "Get"

(* continue: the next iteration, or not_found after the last one. *)
AfterSleep(t) == IF t < MaxTries THEN "Get" ELSE "Done"

(* sleep(Duration::from_secs(5)).await, then the loop goes on. *)
Sleep(c) ==
    /\ pc[c] = "Sleep"
    /\ pc' = [pc EXCEPT ![c] = AfterSleep(tries[c])]
    /\ result' = IF AfterSleep(tries[c]) = "Done"
                 THEN [result EXCEPT ![c] = NotFound(c)] ELSE result
    /\ UNCHANGED <<kind, tries, answers, indexed, block>>

(* Slip: the comparison of the block's number with the height left out. *)
BlockCheckedNoHeight(b) ==
    CASE b.number = Null -> "CouldNotFindBlockByHeight"
      [] b.hash = Null   -> "BlockWithoutHash"
      [] OTHER           -> "Ok"

(***************************************************************************)
(* get_block_by_height after the retry: the block must have a number, the  *)
(* number must be the height asked for, and it must have a hash.           *)
(***************************************************************************)
BlockChecked(b) ==
    CASE b.number = Null   -> "CouldNotFindBlockByHeight"
      [] b.number # Height -> "IncorrectBlockByHeight"
      [] b.hash = Null     -> "BlockWithoutHash"
      [] OTHER             -> "Ok"

CheckBlock(c) ==
    /\ pc[c] = "Got" /\ kind[c] = "Block"
    /\ Finish(c, BlockChecked(block[c]))
    /\ UNCHANGED <<kind, tries, answers, indexed, block>>

(***************************************************************************)
(* get_txn_by_hash after the retry: get_transaction_receipt, whose error   *)
(* is returned, whose None gives a TxnInfo without receipt, and whose      *)
(* receipt must carry gas_used.                                            *)
(***************************************************************************)
Receipt(c) ==
    /\ pc[c] = "Got" /\ kind[c] = "Txn"
    /\ \E r \in Receipts :
          Finish(c, CASE r = "Err"       -> "ChainCommunicationError"
                   [] r = "NoGasUsed" -> "NoGasUsed"
                   [] OTHER           -> "Ok")
    /\ UNCHANGED <<kind, tries, answers, indexed, block>>

(***************************************************************************)
(* get_chain_metrics: one get_block(Latest); an error is returned, None is *)
(* Ok(None), a block is Ok(Some(ChainInfo)).  The latest block always has  *)
(* a hash and number, so the unwraps do not fail.                          *)
(***************************************************************************)
Latest(c) ==
    /\ pc[c] = "Latest"
    /\ \E a \in Answers :
          /\ answers' = [answers EXCEPT ![c] = Append(@, a)]
          /\ Finish(c, CASE a = "Err"  -> "ChainCommunicationError"
                      [] a = "None" -> "OkNone"
                      [] a = "Some" -> "Ok")
    /\ UNCHANGED <<kind, tries, indexed, block>>

(***************************************************************************)
(* is_contract (get_code), get_balance (get_balance) and get_storage_at:   *)
(* one query whose error is returned through from_other.  get_balance      *)
(* first parses its address string and returns the parse error without    *)
(* querying.  The value returned (code non-empty, balance, word) is not    *)
(* modelled.                                                               *)
(***************************************************************************)
Query(c) ==
    /\ pc[c] = "Query"
    /\ \/ /\ kind[c] = "Balance"
          /\ Finish(c, "AddressParseError")
          /\ UNCHANGED answers
       \/ \E a \in {"Err", "Some"} :
             /\ answers' = [answers EXCEPT ![c] = Append(@, a)]
             /\ Finish(c, IF a = "Err" THEN "ChainCommunicationError" ELSE "Ok")
    /\ UNCHANGED <<kind, tries, indexed, block>>

Lookup(c) ==
    Get(c) \/ Sleep(c) \/ CheckBlock(c) \/ Receipt(c) \/ Latest(c) \/ Query(c)

Next == \E c \in Calls : Lookup(c) \/ Index(c)

(***************************************************************************)
(* Each awaited call returns (the node answers or the transport fails) and *)
(* sleep always wakes, so the lookup keeps stepping.  The node is not      *)
(* assumed ever to index the object.                                       *)
(***************************************************************************)
Spec == Init /\ [][Next]_vars /\ \A c \in Calls : WF_vars(Lookup(c))

-----------------------------------------------------------------------------
(***************************************************************************)
(* Not found only after three misses: get_block_by_height and              *)
(* get_txn_by_hash stop after a None only when the node answered None to   *)
(* each of the three tries of get_with_retry_on_none, and then report the  *)
(* object as not found.                                                    *)
(***************************************************************************)
NotFoundOnlyAfterThreeMisses ==
    \A c \in Calls :
        kind[c] \in {"Block", "Txn"} /\ pc[c] = "Done" /\ answers[c] # <<>>
          /\ answers[c][Len(answers[c])] = "None" =>
            /\ answers[c] = <<"None", "None", "None">>
            /\ result[c] = NotFound(c)

(***************************************************************************)
(* Errors are surfaced, not retried: a node error ends the call with       *)
(* ChainCommunicationError and no further query follows it (the `?` inside *)
(* the retry loop).                                                        *)
(***************************************************************************)
ErrorsSurfaced ==
    \A c \in Calls : \A k \in 1..Len(answers[c]) :
        answers[c][k] = "Err" =>
            /\ k = Len(answers[c])
            /\ pc[c] = "Done" => result[c] = "ChainCommunicationError"

(***************************************************************************)
(* A block handed back by get_block_by_height is the block at the height   *)
(* asked for, and has a hash.                                              *)
(***************************************************************************)
BlockMatchesHeight ==
    \A c \in Calls :
        kind[c] = "Block" /\ result[c] = "Ok" =>
            /\ block[c].number = Height
            /\ block[c].hash # Null

(* Every call returns, whether or not the node ever indexes its object. *)
Termination == \A c \in Calls : <>(pc[c] = "Done")

=============================================================================
