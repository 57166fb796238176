---------------------------- MODULE GasEstimator ----------------------------
(***************************************************************************)
(* Gas estimation for one eth_estimateGas request                          *)
(* (go/enclave/rpc/EstimateGas.go).                                        *)
(*                                                                         *)
(* ExecuteEstimateGas works out the L1 publishing gas and then calls       *)
(* doEstimateGas. doEstimateGas fixes the upper bound from the caller's    *)
(* gas, the configured cap and the caller's funds. It then binary-searches *)
(* the gas limit, probing the EVM with isGasEnough, and re-checks the      *)
(* upper bound when the search ends on it. The search loop is one action   *)
(* per iteration, so that its invariant can be checked between iterations. *)
(*                                                                         *)
(* uint64 arithmetic is done modulo 2^W. The request and the chain state   *)
(* it is evaluated against are fixed in Init: tx is one element of         *)
(* Requests. The EVM (ObsCallAtBlock) is the Outcome of a probe at a gas   *)
(* limit.                                                                  *)
(***************************************************************************)
EXTENDS Naturals, FiniteSetsExt

CONSTANTS
    W,             \* width of uint64 in the model
    TxGas,         \* params.TxGas
    ArgsGasValues, \* gas limits a caller may pass (args.Gas)
    NoGas,         \* args.Gas = nil
    FeeCapValues,  \* values of args.GasPrice / args.MaxFeePerGas
    Balances,      \* sender balances (big.Int: may exceed 2^W)
    Values,        \* args.Value
    NoValue,       \* args.Value = nil
    GasCapFlags,   \* config.GasLocalExecutionCapFlag, 0 = no cap
    Intrinsics,    \* intrinsic gas of the call, at least TxGas
    Needs,         \* least gas at which a succeeding call succeeds
    L1Costs,       \* gasOracle.EstimateL1CostForMsg results
    BaseFees       \* head batch BaseFee

Word == 2^W

\* A uint64 conversion: the low W bits.
U64(x) == x % Word

ASSUME TxGas \in 1..(Word - 1)
ASSUME ArgsGasValues \subseteq 0..(Word - 1) /\ NoGas \notin Nat
ASSUME GasCapFlags \subseteq 0..(Word - 1)
ASSUME \A i \in Intrinsics : i >= TxGas
ASSUME BaseFees \subseteq Nat \ {0}

(***************************************************************************)
(* What ObsCallAtBlock does with the call at every gas limit: it succeeds  *)
(* from need on ("ok"), always reverts with or without revert data, or     *)
(* fails before execution with an error (a user or an internal error).     *)
(***************************************************************************)
ExecKinds == {"ok", "revert", "revertEmpty", "callUser", "callInternal"}

Requests ==
    {r \in [gas: ArgsGasValues \cup {NoGas},
            fee: {"none", "gasPrice", "maxFee", "both"},
            feeCap: FeeCapValues,
            balance: Balances,
            value: Values \cup {NoValue},
            gasCap: GasCapFlags,
            intrinsic: Intrinsics,
            exec: ExecKinds,
            need: Needs,
            l1Cost: L1Costs,
            baseFee: BaseFees] :
        /\ r.need >= r.intrinsic
        /\ r.exec # "ok" => r.need = Min(Needs)
        /\ r.fee = "none" => r.feeCap = Min(FeeCapValues)}

VARIABLES
    tx,      \* the request and the chain state it is estimated against
    phase,   \* where ExecuteEstimateGas is
    pubGas,  \* publishingGas (big.Int)
    lo, hi,  \* the binary search bounds (uint64)
    cap,     \* the highest allowance the search started from
    est,     \* the result of doEstimateGas
    resp     \* the result of ExecuteEstimateGas

vars == <<tx, phase, pubGas, lo, hi, cap, est, resp>>

Ok(g) == [kind |-> "ok", gas |-> g]
Err(reason) == [kind |-> "err", reason |-> reason]
NoResult == [kind |-> "none"]

(***************************************************************************)
(* One probe of isGasEnough at gas limit g. The call's pre-checks fail     *)
(* before intrinsic gas is charged. ErrIntrinsicGas reads as "failed",     *)
(* with no result.                                                         *)
(***************************************************************************)
Outcome(g) ==
    IF tx.exec \in {"callUser", "callInternal"} THEN tx.exec
    ELSE IF g < tx.intrinsic THEN "intrinsic"
    ELSE IF tx.exec = "ok" THEN IF g >= tx.need THEN "ok" ELSE "oog"
    ELSE tx.exec

IsErr(o) == o \in {"callUser", "callInternal"}

Failed(o) == o # "ok"

\* The fee cap normalised from gasPrice / maxFeePerGas.
FeeCap ==
    IF tx.fee \in {"gasPrice", "maxFee"} THEN tx.feeCap ELSE 0

\* The highest gas limit: the caller's, else the configured cap.
RequestedHi ==
    IF tx.gas # NoGas /\ tx.gas >= TxGas THEN tx.gas ELSE tx.gasCap

\* Recapped by the funds: (balance - value) / feeCap, unless that exceeds uint64.
FundedHi ==
    LET available == IF tx.value = NoValue THEN tx.balance ELSE tx.balance - tx.value
        allowance == available \div FeeCap
    IN  IF FeeCap # 0 /\ allowance < Word /\ RequestedHi > allowance
        THEN allowance ELSE RequestedHi

\* Recapped by the configured gas cap.
\* Mutant: the configured gas cap not applied.
StartHiNoCap ==
    FundedHi

StartHi ==
    IF tx.gasCap # 0 /\ FundedHi > tx.gasCap THEN tx.gasCap ELSE FundedHi

Estimated(r) == est' = r /\ phase' = "estimated"

-----------------------------------------------------------------------------
(***************************************************************************)
(* ExecuteEstimateGas up to doEstimateGas: fetch the head block, the L1    *)
(* cost and the head batch, and divide.                                    *)
(***************************************************************************)
PublishingGas ==
    /\ phase = "start"
    /\ pubGas' = tx.l1Cost \div tx.baseFee + 1
    /\ phase' = "bounds"
    /\ UNCHANGED <<tx, lo, hi, cap, est, resp>>

\* FetchHeadBlock, EstimateL1CostForMsg or FetchHeadBatch fails.
PublishingGasFails ==
    /\ phase = "start"
    /\ resp' = Err("system")
    /\ phase' = "done"
    /\ UNCHANGED <<tx, pubGas, lo, hi, cap, est>>

(***************************************************************************)
(* doEstimateGas up to the loop: the fee-cap conflict, the funds check     *)
(* and the bounds.                                                         *)
(***************************************************************************)
SetBounds ==
    /\ phase = "bounds"
    /\ IF tx.fee = "both"
       THEN Estimated(Err("bothFees")) /\ UNCHANGED <<lo, hi, cap>>
       ELSE IF FeeCap # 0 /\ tx.value # NoValue /\ tx.value >= tx.balance
       THEN Estimated(Err("funds")) /\ UNCHANGED <<lo, hi, cap>>
       ELSE /\ lo' = TxGas - 1
            /\ hi' = StartHi
            /\ cap' = StartHi
            /\ phase' = "search"
            /\ UNCHANGED est
    /\ UNCHANGED <<tx, pubGas, resp>>

\* GetBalanceAtBlock fails: only asked when the fee cap is not zero.
SetBoundsBalanceFails ==
    /\ phase = "bounds"
    /\ tx.fee # "both"
    /\ FeeCap # 0
    /\ Estimated(Err("balance"))
    /\ UNCHANGED <<tx, pubGas, lo, hi, cap, resp>>

(***************************************************************************)
(* One iteration of the binary search. mid = (hi + lo) / 2 in uint64.      *)
(***************************************************************************)
SearchStep ==
    LET mid == U64(hi + lo) \div 2
        o   == Outcome(mid)
    IN  /\ phase = "search"
        /\ lo + 1 < hi
        /\ IF IsErr(o)
           THEN Estimated(Err(o)) /\ UNCHANGED <<lo, hi>>
           ELSE IF Failed(o)
           THEN lo' = mid /\ UNCHANGED <<hi, phase, est>>
           ELSE hi' = mid /\ UNCHANGED <<lo, phase, est>>
        /\ UNCHANGED <<tx, pubGas, cap, resp>>

\* Mutant: the highest allowance returned without the final probe.
SearchEndsNoRecheck ==
    /\ phase = "search"
    /\ ~(lo + 1 < hi)
    /\ Estimated(Ok(hi))
    /\ UNCHANGED <<tx, pubGas, lo, hi, cap, resp>>

(***************************************************************************)
(* The loop ends. If it ended on the highest allowance, that allowance is  *)
(* probed once more, and a failure is classified: a revert with data, the  *)
(* execution error itself, or "gas required exceeds allowance".            *)
(***************************************************************************)
SearchEnds ==
    LET o == Outcome(hi)
    IN  /\ phase = "search"
        /\ ~(lo + 1 < hi)
        /\ Estimated(
              IF hi # cap \/ ~Failed(o) THEN Ok(hi)
              ELSE IF IsErr(o) \/ o \in {"revert", "revertEmpty"} THEN Err(o)
              ELSE Err("allowance"))
        /\ UNCHANGED <<tx, pubGas, lo, hi, cap, resp>>

\* Mutant: the errors.Is(err, syserr.InternalError{}) check dropped.
RespondInternalAsUser ==
    /\ phase = "estimated"
    /\ resp' = IF est.kind = "ok" THEN Ok(U64(U64(pubGas) + est.gas)) ELSE est
    /\ phase' = "done"
    /\ UNCHANGED <<tx, pubGas, lo, hi, cap, est>>

(***************************************************************************)
(* ExecuteEstimateGas after doEstimateGas: an internal error is returned   *)
(* as a system error, another error as the user's error, and a success as  *)
(* publishingGas.Uint64() + the execution estimate, in uint64.             *)
(***************************************************************************)
Respond ==
    /\ phase = "estimated"
    /\ resp' = IF est.kind = "ok" THEN Ok(U64(U64(pubGas) + est.gas))
               ELSE IF est.reason = "callInternal" THEN Err("system")
               ELSE est
    /\ phase' = "done"
    /\ UNCHANGED <<tx, pubGas, lo, hi, cap, est>>

\* The request is answered.
Answered == phase = "done" /\ UNCHANGED vars

GasInit ==
    /\ tx \in Requests
    /\ phase = "start"
    /\ pubGas = 0
    /\ lo = 0 /\ hi = 0 /\ cap = 0
    /\ est = NoResult
    /\ resp = NoResult

GasNext ==
    \/ PublishingGas
    \/ PublishingGasFails
    \/ SetBounds
    \/ SetBoundsBalanceFails
    \/ SearchStep
    \/ SearchEnds
    \/ Respond
    \/ Answered

GasSpec == GasInit /\ [][GasNext]_vars /\ WF_vars(GasNext)
-----------------------------------------------------------------------------
(***************************************************************************)
(* The errors a caller may be shown: those of doEstimateGas that come from *)
(* the request or the call. An internal error of the call is a system      *)
(* error (EstimateGas.go:89), never handed back as the caller's.           *)
(***************************************************************************)
UserErrors ==
    {"bothFees", "funds", "balance", "callUser", "revert", "revertEmpty", "allowance"}

\* The state has its type; the response is a uint64 or a user or system error.
GasTypeOK ==
    /\ tx \in Requests
    /\ phase \in {"start", "bounds", "search", "estimated", "done"}
    /\ {lo, hi, cap} \subseteq 0..(Word - 1)
    /\ pubGas \in Nat
    /\ est.kind \in {"none", "ok", "err"}
    /\ resp \in {NoResult}
               \cup [kind: {"ok"}, gas: 0..(Word - 1)]
               \cup [kind: {"err"}, reason: UserErrors \cup {"system"}]

\* doEstimateGas got as far as the search.
Searched ==
    \/ est.kind = "ok"
    \/ est.kind = "err" /\ est.reason \notin {"bothFees", "funds", "balance"}

(***************************************************************************)
(* The reference definition of an estimate: the least gas limit up to the *)
(* highest allowance at which the call succeeds. doEstimateGas returns a   *)
(* value exactly when there is one, and then that least one. This is what  *)
(* the search must give when execution is monotone in gas (spec 8.6).      *)
(***************************************************************************)
Sufficient == {g \in 0..cap : Outcome(g) = "ok"}

EstimateIsLeastSufficient ==
    Searched =>
        /\ (est.kind = "ok") = (Sufficient # {})
        /\ est.kind = "ok" => est.gas = Min(Sufficient)

(***************************************************************************)
(* Every request is answered: the search loop ends.                        *)
(***************************************************************************)
EstimateTerminates == <>(phase = "done")

=============================================================================
