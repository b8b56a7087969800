------------------------------- MODULE Lineup -------------------------------
(***************************************************************************)
(* Which model a miner serves and mines: specs_for, is_pom_model and       *)
(* pom_tier_index of src/models.rs, and what src/main.rs makes of them at  *)
(* start-up.  A model is named by its directory; the DAA scores and the    *)
(* memory sizes are those of the code.  Only the lineup from               *)
(* OPOI_V2_ACTIVATION_DAA on is modelled, which is all that main.rs asks   *)
(* for.                                                                    *)
(***************************************************************************)
EXTENDS Integers, Sequences, FiniteSets, TLC

CONSTANT Unknown  \* nvidia-smi has no answer; no tier; no model

POM_ACTIVATION_DAA == 37780000
VERY_LIGHT_ACTIVATION_DAA == 38951445

MinVram ==
  ("Qwen3-1.7B" :> 0) @@ ("Gemma-3-4B" :> 0) @@ ("Dolphin-Llama3-8B" :> 8000) @@
  ("Qwen3-32B" :> 24000) @@ ("Llama-3.3-70B" :> 46000) @@ ("Llama-3.3-70B-Q2" :> 30000)

PomModels == DOMAIN MinVram

Tiers == {"VeryLight", "Light", "Default", "High", "VeryHigh"}

specs_for(daa, tier) ==
  CASE tier = "VeryLight" /\ daa >= VERY_LIGHT_ACTIVATION_DAA -> <<"Qwen3-1.7B">>
    [] tier = "VeryLight" /\ daa < VERY_LIGHT_ACTIVATION_DAA -> <<"Gemma-3-4B">>
    [] tier = "Light" -> <<"Gemma-3-4B">>
    [] tier = "Default" -> <<"Dolphin-Llama3-8B">>
    [] tier = "High" -> <<"Qwen3-32B">>
    [] tier = "VeryHigh" /\ daa >= VERY_LIGHT_ACTIVATION_DAA -> <<"Llama-3.3-70B-Q2">>
    [] tier = "VeryHigh" /\ daa < VERY_LIGHT_ACTIVATION_DAA -> <<"Llama-3.3-70B">>

\* The models in the order of their tier indexes, the five-tier scheme and the one before.
TierOrder(daa) ==
  IF daa >= VERY_LIGHT_ACTIVATION_DAA
  THEN <<"Qwen3-1.7B", "Gemma-3-4B", "Dolphin-Llama3-8B", "Qwen3-32B", "Llama-3.3-70B-Q2">>
  ELSE <<"Gemma-3-4B", "Dolphin-Llama3-8B", "Qwen3-32B", "Llama-3.3-70B">>

pom_tier_index(model, daa) ==
  LET places == {i \in DOMAIN TierOrder(daa) : TierOrder(daa)[i] = model}
  IN  IF places = {} THEN Unknown ELSE (CHOOSE i \in places : TRUE) - 1

\* filter_specs_by_vram: everything is kept if the memory of GPU 0 is not known.
filter_specs_by_vram(specs, vram) ==
  IF vram = Unknown THEN specs ELSE SelectSeq(specs, LAMBDA m : MinVram[m] <= vram)

\* max_by_key keeps the last of several maxima.
PomSpec(specs) ==
  LET mined == {i \in DOMAIN specs : specs[i] \in PomModels}
      best == {i \in mined : \A k \in mined :
                 \/ MinVram[specs[k]] < MinVram[specs[i]]
                 \/ MinVram[specs[k]] = MinVram[specs[i]] /\ k <= i}
  IN  IF mined = {} THEN Unknown ELSE specs[CHOOSE i \in best : TRUE]

\* What main.rs stages: the lineup of the last hardfork, also before it.
StagedSpecs(tier, vram) ==
  filter_specs_by_vram(specs_for(VERY_LIGHT_ACTIVATION_DAA, tier), vram)

-----------------------------------------------------------------------------
(* The tier of a block as the node has it: the models that some miner may  *)
(* prove at that score, counted from the smallest.                         *)

Provable(daa) == {specs_for(daa, t)[1] : t \in Tiers}

Weight(model) ==
  CASE model = "Qwen3-1.7B" -> 2
    [] model = "Gemma-3-4B" -> 4
    [] model = "Dolphin-Llama3-8B" -> 8
    [] model = "Qwen3-32B" -> 32
    [] model = "Llama-3.3-70B" -> 71
    [] model = "Llama-3.3-70B-Q2" -> 70

NodeTier(model, daa) ==
  IF model \notin Provable(daa) THEN Unknown
  ELSE Cardinality({m \in Provable(daa) : Weight(m) < Weight(model)})
=============================================================================
