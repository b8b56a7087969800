------------------------------ MODULE PomProof ------------------------------
(***************************************************************************)
(* The possession proof of src/pom.rs and the block that carries it        *)
(* (generate_block_if_pom of src/pow.rs).  A walk of WalkSteps steps reads *)
(* a chunk per step, chosen by the state so far; the proof commits to the  *)
(* trace of states and opens the steps that the challenges select.         *)
(*                                                                         *)
(* The state of the walk is a number; a nonce is named by the state it     *)
(* starts in.  Transition and pow value are what the constants say, and    *)
(* the challenges, a hash of the commitment, whatever the caller picks.    *)
(***************************************************************************)
EXTENDS PomTree

CONSTANTS
  WalkSteps,   \* POM_WALK_STEPS: 256
  Openings,    \* POM_OPENINGS: 32
  Seeds,       \* pom_block_seed of the nonces
  Transition(_, _),  \* transition: the next state after reading a chunk
  PowValue(_)  \* pom_pow_value of a final state: its bytes, the lowest first

ASSUME WalkAssumption == {WalkSteps, Openings} \subseteq Nat \ {0} /\ Seeds \subseteq Nat

Challenges == [1 .. Openings -> 0 .. WalkSteps - 1]

\* le_leq: the highest byte that differs decides.
le_leq(a, b) ==
  \A i \in DOMAIN a : a[i] <= b[i] \/ \E k \in i + 1 .. Len(a) : a[k] < b[k]

\* A step of the walk.
Step(tensors, state) ==
  Transition(state, read_chunk(tensors, state % n_chunks(tensors)))

\* The states of the walk, by the number of steps from the seed.
Trace(tensors, seed) ==
  LET state[i \in 0 .. WalkSteps] == IF i = 0 THEN seed ELSE Step(tensors, state[i - 1])
  IN  state

walk_final(tensors, seed) == Trace(tensors, seed)[WalkSteps]

trace_leaf(state) == blake(state)

TraceLeaves(trace) == [i \in 1 .. WalkSteps + 1 |-> trace_leaf(trace[i - 1])]

Opening(tensors, tree, trace, i) ==
  LET off == trace[i] % n_chunks(tensors) IN
  [state_before |-> trace[i],
   chunk |-> read_chunk(tensors, off),
   weight_path |-> merkle_path(tensors, tree, off),
   trace_path_before |-> merkle_proof(TraceLeaves(trace), i),
   trace_path_after |-> merkle_proof(TraceLeaves(trace), i + 1)]

MutantBuildProof(tier, tensors, tree, seed, challenges) ==
  LET trace == Trace(tensors, seed)
      leaves == TraceLeaves(trace)
  IN  [tier |-> tier,
       trace_root |-> merkle_root(leaves),
       pow_value |-> PowValue(trace[WalkSteps]),
       final_state |-> trace[WalkSteps],
       initial_trace_path |-> merkle_proof(leaves, 0),
       final_trace_path |-> merkle_proof(leaves, WalkSteps - 1),
       openings |-> [j \in 1 .. Openings |-> Opening(tensors, tree, trace, challenges[j])]]

build_proof(tier, tensors, tree, seed, challenges) ==
  LET trace == Trace(tensors, seed)
      leaves == TraceLeaves(trace)
  IN  [tier |-> tier,
       trace_root |-> merkle_root(leaves),
       pow_value |-> PowValue(trace[WalkSteps]),
       final_state |-> trace[WalkSteps],
       initial_trace_path |-> merkle_proof(leaves, 0),
       final_trace_path |-> merkle_proof(leaves, WalkSteps),
       openings |-> [j \in 1 .. Openings |-> Opening(tensors, tree, trace, challenges[j])]]

\* What the node checks of a proof, and verify_proof with it: r_t is the pinned root.
OpeningVerifies(op, i, proof, n, r_t) ==
  /\ verify_merkle(trace_leaf(op.state_before), i, op.trace_path_before, proof.trace_root)
  /\ verify_merkle(blake(op.chunk), op.state_before % n, op.weight_path, r_t)
  /\ verify_merkle(trace_leaf(Transition(op.state_before, op.chunk)), i + 1,
                   op.trace_path_after, proof.trace_root)

verify_proof(seed, proof, n, r_t, target, challenges) ==
  /\ Len(proof.openings) = Openings
  /\ PowValue(proof.final_state) = proof.pow_value
  /\ le_leq(proof.pow_value, target)
  /\ verify_merkle(trace_leaf(seed), 0, proof.initial_trace_path, proof.trace_root)
  /\ verify_merkle(trace_leaf(proof.final_state), WalkSteps, proof.final_trace_path,
                   proof.trace_root)
  /\ \A j \in 1 .. Openings :
       OpeningVerifies(proof.openings[j], challenges[j], proof, n, r_t)

\* The walk of the host ends at or below the target.
Wins(tensors, seed, target) == le_leq(PowValue(walk_final(tensors, seed)), target)

-----------------------------------------------------------------------------
(* The pow value and the target as the numbers they are.                   *)

\* From the highest byte down.
NumberOf(bytes, base) ==
  LET number[i \in 0 .. Len(bytes)] ==
        IF i = 0 THEN 0 ELSE number[i - 1] * base + bytes[Len(bytes) - i + 1]
  IN  number[Len(bytes)]
=============================================================================
