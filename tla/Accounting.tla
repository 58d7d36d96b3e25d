----------------------------- MODULE Accounting -----------------------------
(***************************************************************************)
(* prefix/accounting.py: what one upstream response cost, and what its      *)
(* prefix cache saved.  Prices are natural numbers, in the smallest amount  *)
(* a price is given in; the code's floats add rounding, which the modelled  *)
(* comparisons do not depend on.  A count that is null or absent is 0.      *)
(***************************************************************************)
EXTENDS Integers

CONSTANTS MissPrice, HitPrice, OutPrice   \* DeepSeekPriceModel, gt=0.0

ASSUME PriceAssumption ==
    /\ MissPrice \in Nat \ {0}
    /\ HitPrice \in Nat \ {0}
    /\ OutPrice \in Nat \ {0}

(* usage.get(field) or 0                                                    *)
CountOf(usage, field) == IF field \in DOMAIN usage THEN usage[field] ELSE 0

(* UsageBreakdown.from_dict: DeepSeek's hit tokens, else OpenAI's cached    *)
(* tokens, which a zero count gives way to as well.                         *)
FromDict(usage) ==
    LET details == IF "prompt_tokens_details" \in DOMAIN usage
                   THEN usage["prompt_tokens_details"] ELSE [none |-> 0]
        reported == CountOf(usage, "prompt_cache_hit_tokens")
    IN  [prompt |-> CountOf(usage, "prompt_tokens"),
         completion |-> CountOf(usage, "completion_tokens"),
         hit |-> IF reported # 0 THEN reported ELSE CountOf(details, "cached_tokens"),
         miss |-> CountOf(usage, "prompt_cache_miss_tokens")]

Breakdown == [prompt : Nat, completion : Nat, hit : Nat, miss : Nat]

(* The miss tokens that are billed: every prompt token, where the provider  *)
(* reports nothing of a cache.                                              *)
BilledMisses(b) ==
    IF b.miss = 0 /\ b.prompt > 0 /\ b.hit = 0 THEN b.prompt ELSE b.miss

TotalCost(b) == BilledMisses(b) * MissPrice + b.hit * HitPrice + b.completion * OutPrice

(* The cost, had every prompt token been a miss.                            *)
ColdCost(b) == (b.hit + BilledMisses(b)) * MissPrice + b.completion * OutPrice

Rise(from, to) == IF to > from THEN to - from ELSE 0

(* Slip: the hits were free.                                                *)
SavedCostFree(b) == Rise(TotalCost(b) - b.hit * HitPrice, ColdCost(b))

(* account_prefix_costs, saved_usd.                                         *)
SavedCost(b) == Rise(TotalCost(b), ColdCost(b))

-----------------------------------------------------------------------------
(* The savings formula of the module's own comment, accounting.py:12, where *)
(* a hit is the cheaper one.                                                *)
Rebate(b) == b.hit * (IF MissPrice > HitPrice THEN MissPrice - HitPrice ELSE 0)
=============================================================================
