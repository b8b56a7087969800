------------------------------ MODULE PomDevice ------------------------------
(***************************************************************************)
(* The walk on the GPU: PomGpuMiner of src/pom_gpu.rs and the kernel it    *)
(* launches.  The kernel reduces modulo the number of chunks by a          *)
(* multiplication; the constants for it are computed anew for every batch  *)
(* and accepted after a self-test on samples.  Words have WordBits bits    *)
(* and wrap.                                                               *)
(***************************************************************************)
EXTENDS PomProof

CONSTANTS
  WordBits,  \* 64
  Samples,   \* the words that the generator of the self-test yields
  Stray      \* what may be in the memory outside of the weights

Word == Power[WordBits]

ASSUME DeviceAssumption ==
  WordBits \in Nat \ {0} /\ Samples \subseteq 0 .. Word - 1 /\ Stray \subseteq Nat

mulhi(a, b) == (a * b) \div Word

PlainModulo == [magic |-> 0, shift |-> 0]

\* The formula of the kernel, in lockstep with the self-test.
fast_mod(a, m, d) ==
  IF m = PlainModulo THEN a % d
  ELSE (a - (mulhi(a, m.magic) \div Power[m.shift]) * d) % Word

EdgeCases(d) ==
  {0, 1, d - 1, d, d + 1, Word - 1} \cup {w % Word : w \in {2 * d - 1, 2 * d, 2 * d + 1, 3 * d}}

verify_mod_magic(m, d) ==
  /\ m.magic # 0 /\ m.shift < WordBits
  /\ \A a \in Samples \cup EdgeCases(d) : fast_mod(a, m, d) = a % d

\* The first shift whose magic fits into a word and passes the test.
mod_magic(d) ==
  LET floorLog == Max({s \in 0 .. WordBits - 1 : Power[s] <= d})
      candidate(shift) == [magic |-> (Power[WordBits + shift] + d - 1) \div d, shift |-> shift]
      good == {s \in floorLog .. WordBits - 1 :
                 candidate(s).magic < Word /\ verify_mod_magic(candidate(s), d)}
  IN  IF d <= 1 \/ good = {} THEN PlainModulo ELSE candidate(Min(good))

\* bases and prefix lead to the same chunks as the table of the host.  A place outside of
\* the weights holds anything that can be read at all.
Gather(tensors, off, stray) ==
  IF off < n_chunks(tensors) THEN read_chunk(tensors, off) ELSE stray

DeviceFinal(tensors, seed, stray) ==
  LET n == n_chunks(tensors)
      m == mod_magic(n)
      step(state, i) == Transition(state, Gather(tensors, fast_mod(state, m, n), stray))
  IN  FoldLeft(step, seed, [i \in 1 .. WalkSteps |-> i])

\* The nonce whose walk starts at the seed is reported as a winner.
DeviceWins(tensors, seed, target, stray) ==
  le_leq(PowValue(DeviceFinal(tensors, seed, stray)), target)
=============================================================================
