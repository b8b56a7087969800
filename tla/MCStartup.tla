----------------------------- MODULE MCStartup ------------------------------
(* Instances of Startup for TLC.                                           *)
EXTENDS Startup

CONSTANTS tokenizer, gguf

MCSmallFiles == <<tokenizer>>
MCWeights == <<gguf>>
MCTotals == {"known", "unknown"}
MCKnown == {"known"}
MCSize == [f \in {tokenizer, gguf} |-> IF f = gguf THEN 2 ELSE 1]

\* A model with n chunks of two bytes in three tensors, whose order by name is not the
\* one in the file: one ends in a byte that is no chunk, one has no chunk at all.
Layout(n) ==
  <<[at |-> 9, size |-> 2 * (n - 2) + 1], [at |-> 6, size |-> 1], [at |-> 0, size |-> 4]>>

Miner(tier, n) ==
  [tier |-> tier, vram |-> Unknown, gpu |-> TRUE, libs |-> TRUE, apt |-> FALSE,
   pool |-> FALSE, local |-> FALSE, inPath |-> FALSE, tensors |-> Layout(n)]

\* Miners that can be stuck or not, and trees of one and two stored levels.
MCMachines ==
  {Miner("VeryLight", 5), Miner("Light", 17),
   [Miner("VeryHigh", 7) EXCEPT !.local = TRUE],
   [Miner("Light", 6) EXCEPT !.libs = FALSE, !.apt = TRUE],
   [Miner("Default", 11) EXCEPT !.vram = 6000, !.local = TRUE, !.inPath = TRUE],
   [Miner("High", 12) EXCEPT !.vram = 24000, !.pool = TRUE],
   [Miner("Light", 8) EXCEPT !.libs = FALSE]}

\* One that needs nothing but its model.
MCPlainMachine == {Miner("Light", 6)}

MCDaas == <<POM_ACTIVATION_DAA - 1, POM_ACTIVATION_DAA, VERY_LIGHT_ACTIVATION_DAA - 1,
            VERY_LIGHT_ACTIVATION_DAA>>

MCSeeds == {0, 7, 27}
MCSamples == {3, 11, 20}
MCStray == {30, 41}
MCTransition(state, chunk) == (3 * state + chunk + 2) % 32
MCPowValue(state) == <<state % 5, state \div 5>>
MCTargets == {<<1, 2>>, <<4, 4>>}
=============================================================================
