------------------------------ MODULE Startup -------------------------------
(***************************************************************************)
(* The life of a miner from main() on: the escrow key, the model files,    *)
(* the GPU probe, the connections, and with the first Proof-of-Model job   *)
(* the weight index and the blocks.  The process may die at any step, and  *)
(* whenever it exits a supervisor (HiveOS, PM2) starts it again; what it   *)
(* finds then are the files it left.                                       *)
(*                                                                         *)
(* The sessions with a node or a pool are in GrpcClient and StratumClient, *)
(* the locks around the index in GpuResidency; here a session brings jobs, *)
(* and one worker mines them.                                              *)
(***************************************************************************)
EXTENDS PomDevice, Lineup, ModelStore, IpfsDaemon

CONSTANTS
  Machines,    \* [tier, vram, gpu, libs, apt, pool, local, inPath, tensors]
  Daas,        \* scores of jobs, the first one that of the first start
  Targets,     \* targets of jobs, as bytes
  ByteBase,    \* 256
  MaxCrashes   \* bound on the crashes; exits are not bounded

ASSUME MachinesAssumption ==
  /\ \A m \in Machines : m.tier \in Tiers /\ m.libs \in BOOLEAN /\ LargeEnough(m.tensors)
  /\ \A m \in Machines : m.tensors \in Seq([at : Nat, size : Nat])
  /\ Daas \in Seq(Nat) /\ Daas # <<>> /\ MaxCrashes \in Nat

\* States of the walk are words, whatever chunk is read.
ASSUME StatesAssumption ==
  /\ Seeds \subseteq 0 .. Word - 1
  /\ \A m \in Machines, s \in 0 .. Word - 1 : Step(m.tensors, s) \in 0 .. Word - 1

\* Pow values and targets have the same number of bytes.
ASSUME BytesAssumption ==
  /\ ByteBase \in Nat \ {0}
  /\ \A s \in 0 .. Word - 1, t \in Targets :
       {PowValue(s), t} \subseteq Seq(0 .. ByteBase - 1) /\ Len(PowValue(s)) = Len(t)

VARIABLES
  machine,   \* which machine, options and model file this is
  phase,     \* where main() is, or "off"
  crashes,   \* crashes so far
  keyFile,   \* escrow.key: "absent", "short" or "whole"
  libs,      \* the CUDA runtime libraries are there
  tree,      \* pom-tree.bin: its nodes, or NoTree
  index,     \* POM_INDEX: "none", "building" or "ready"
  daa,       \* daa_score of the current job
  block      \* the block that is being submitted, or NoBlock

files == <<keyFile, libs, tree>>
mining == <<index, daa, block>>
vars == <<machine, phase, crashes, files, mining, store, ipfsVars>>

NoTree == <<"none">>
NoBlock == [daa |-> -1]
Found == block # NoBlock /\ "proof" \notin DOMAIN block
Proved == block # NoBlock /\ "proof" \in DOMAIN block

Phases == {"off", "key", "write key", "stage", "fetch", "probe", "connect", "mine"}

Model == PomSpec(StagedSpecs(machine.tier, machine.vram))

FullTree(tensors) ==
  LET levels == DenseLevels(Leaves(tensors))
      top == RootLevel(n_chunks(tensors))
      full[l \in 0 .. top] == IF l = 0 THEN levels[0] ELSE full[l - 1] \o levels[l]
  IN  full[top]

TypeOK ==
  /\ machine \in Machines /\ phase \in Phases /\ crashes \in 0 .. MaxCrashes
  /\ keyFile \in {"absent", "short", "whole"} /\ libs \in BOOLEAN
  /\ index \in {"none", "building", "ready"} /\ daa \in ToSet(Daas)
  /\ StoreTypeOK /\ IpfsTypeOK
  /\ index = "ready" => TreeFits(machine.tensors, tree)
  /\ block # NoBlock => phase = "mine" /\ index = "ready"

Init ==
  /\ machine \in Machines /\ phase = "off" /\ crashes = 0
  /\ keyFile \in {"absent", "whole"} /\ libs = machine.libs
  /\ tree \in {NoTree, FullTree(machine.tensors)}
  /\ index = "none" /\ daa = Daas[1] /\ block = NoBlock
  /\ StoreInit /\ IpfsInit(machine.local, machine.inPath)

-----------------------------------------------------------------------------
(* The end of the process, and start-up.                                   *)

Halt ==
  /\ phase' = "off" /\ index' = "none" /\ block' = NoBlock /\ ipfs' = "none"
  /\ Forget
  /\ UNCHANGED <<machine, files, daa, have, sealed, kubo, daemon>>

Crash ==
  /\ phase # "off" /\ crashes < MaxCrashes
  /\ crashes' = crashes + 1 /\ Halt

Stop == UNCHANGED crashes /\ Halt

\* The supervisor.
Boot ==
  /\ phase = "off" /\ phase' = "key"
  /\ UNCHANGED <<machine, crashes, files, mining, store, ipfsVars>>

\* load_or_generate_key: what is in the file has to be a key.
LoadKey ==
  /\ phase = "key" /\ keyFile # "absent"
  /\ IF keyFile = "short" THEN Stop
     ELSE /\ phase' = "stage"
          /\ UNCHANGED <<machine, crashes, files, mining, store, ipfsVars>>

\* fs::write creates the file before the key is in it.
GenerateKey ==
  /\ \/ phase = "key" /\ keyFile = "absent"
        /\ phase' = "write key" /\ keyFile' = "short"
     \/ phase = "write key"
        /\ phase' = "stage" /\ keyFile' = "whole"
  /\ UNCHANGED <<machine, crashes, libs, tree, mining, store, ipfsVars>>

\* prefetch_models has nothing to do if the capability gate leaves no model.
Stage ==
  /\ phase = "stage"
  /\ IF StagedSpecs(machine.tier, machine.vram) = <<>>
     THEN phase' = "probe" /\ UNCHANGED store
     ELSE phase' = "fetch" /\ BeginEnsure
  /\ UNCHANGED <<machine, crashes, files, mining, ipfsVars>>

Fetch ==
  /\ phase = "fetch" /\ StoreStep
  /\ UNCHANGED <<machine, phase, crashes, files, mining, ipfsVars>>

\* "refusing to mine"
FetchFails == phase = "fetch" /\ DownloadFails /\ Stop

Fetched ==
  /\ phase = "fetch" /\ Ensured /\ phase' = "probe"
  /\ UNCHANGED <<machine, crashes, files, mining, store, ipfsVars>>

ToConnection ==
  /\ phase' = "connect" /\ ipfs' = "check"
  /\ UNCHANGED <<machine, crashes, keyFile, tree, index, daa, store, kubo, daemon>>

ProbeFails == phase = "probe" /\ (~machine.gpu \/ ~libs) /\ Stop

Probe ==
  /\ phase = "probe" /\ machine.gpu /\ libs
  /\ ToConnection /\ UNCHANGED <<libs, block>>

\* The fresh libraries are found at once, or after a restart with a new loader cache.
InstallLibs ==
  /\ phase = "probe" /\ machine.gpu /\ ~libs /\ machine.apt
  /\ libs' = TRUE
  /\ \/ ToConnection /\ UNCHANGED block
     \/ /\ phase' = "off"
        /\ UNCHANGED <<machine, crashes, keyFile, tree, mining, store, ipfsVars>>

-----------------------------------------------------------------------------
(* Sessions: client_main.                                                  *)

EnsureDaemon ==
  /\ phase = "connect"
  /\ IpfsStep(machine.local, machine.inPath)
  /\ UNCHANGED <<machine, phase, crashes, files, mining, store>>

Connect ==
  /\ phase = "connect" /\ ipfs = "none" /\ phase' = "mine"
  /\ UNCHANGED <<machine, crashes, files, mining, store, ipfsVars>>

MutantReconnect ==
  /\ phase = "mine" /\ ~(index = "building" \/ Found)
  /\ phase' = "connect" /\ block' = NoBlock
  /\ UNCHANGED <<machine, crashes, files, index, daa, store, ipfsVars>>

\* The session is over, and the workers have ended within a second.
Reconnect ==
  /\ phase = "mine" /\ ~(index = "building" \/ Found)
  /\ ToConnection /\ block' = NoBlock /\ UNCHANGED libs

\* It is over while a worker builds the index or a proof and does not look at its
\* channel: after a second the freeze handler panics in it, which aborts the process.
Freeze == phase = "mine" /\ (index = "building" \/ Found) /\ Stop

LoseDaemon ==
  /\ phase = "mine" /\ DaemonDies(machine.local)
  /\ UNCHANGED <<machine, phase, crashes, files, mining, store>>

-----------------------------------------------------------------------------
(* Proof-of-Model mining.                                                  *)

NewJob ==
  /\ phase = "mine" /\ daa' \in {d \in ToSet(Daas) : d > daa}
  /\ UNCHANGED <<machine, phase, crashes, files, index, block, store, ipfsVars>>

current_tier(score) == IF Model = Unknown THEN Unknown ELSE pom_tier_index(Model, score)

Provides == phase = "mine" /\ daa >= POM_ACTIVATION_DAA /\ current_tier(daa) # Unknown

MutantOpenIndex ==
  /\ Provides /\ index = "none"
  /\ IF tree # NoTree
     THEN /\ index' = IF TreeFits(machine.tensors, tree) THEN "ready" ELSE "none"
          /\ UNCHANGED tree
     ELSE tree' = <<>> /\ index' = "building"
  /\ UNCHANGED <<machine, phase, crashes, keyFile, libs, daa, block, store, ipfsVars>>

\* build_from_gguf with the first job that has a tier: a file that fits is used as it
\* is, another one removed and built anew.
OpenIndex ==
  /\ Provides /\ index = "none"
  /\ IF tree # NoTree /\ TreeFits(machine.tensors, tree)
     THEN index' = "ready" /\ UNCHANGED tree
     ELSE tree' = <<>> /\ index' = "building"
  /\ UNCHANGED <<machine, phase, crashes, keyFile, libs, daa, block, store, ipfsVars>>

BuildIndex ==
  /\ index = "building"
  /\ IF Built(machine.tensors, tree)
     THEN index' = "ready" /\ UNCHANGED tree
     ELSE tree' = Append(tree, NextNode(machine.tensors, tree)) /\ UNCHANGED index
  /\ UNCHANGED <<machine, phase, crashes, keyFile, libs, daa, block, store, ipfsVars>>

Ready == Provides /\ index = "ready" /\ block = NoBlock

\* The device reports a nonce whose walk ends at or below the target of the job.
FindNonce(seed, target) ==
  /\ Ready
  /\ \E stray \in Stray : DeviceWins(machine.tensors, seed, target, stray)
  /\ block' = [daa |-> daa, seed |-> seed, target |-> target]
  /\ UNCHANGED <<machine, phase, crashes, files, index, daa, store, ipfsVars>>

MutantGenerateBlock(challenges) ==
  /\ Found
  /\ block' = IF machine.pool THEN NoBlock
              ELSE [daa |-> block.daa, seed |-> block.seed, target |-> block.target,
                    challenges |-> challenges,
                    proof |-> build_proof(current_tier(block.daa), machine.tensors, tree,
                                          block.seed, challenges)]
  /\ UNCHANGED <<machine, phase, crashes, files, index, daa, store, ipfsVars>>

\* generate_block_if_pom: the host walks again, and the proof is for the tier of the job's
\* score.  A pool's PartialBlock cannot carry the proof and is dropped.
GenerateBlock(challenges) ==
  /\ Found
  /\ block' = IF machine.pool \/ ~Wins(machine.tensors, block.seed, block.target)
              THEN NoBlock
              ELSE [daa |-> block.daa, seed |-> block.seed, target |-> block.target,
                    challenges |-> challenges,
                    proof |-> build_proof(current_tier(block.daa), machine.tensors, tree,
                                          block.seed, challenges)]
  /\ UNCHANGED <<machine, phase, crashes, files, index, daa, store, ipfsVars>>

Submit ==
  /\ Proved /\ block' = NoBlock
  /\ UNCHANGED <<machine, phase, crashes, files, index, daa, store, ipfsVars>>

-----------------------------------------------------------------------------

Mine == \E seed \in Seeds, target \in Targets : FindNonce(seed, target)

Prove == \E challenges \in Challenges : GenerateBlock(challenges)

\* Steps of the program that wait for nothing outside.
Local ==
  \/ Boot \/ LoadKey \/ GenerateKey \/ Stage \/ FetchFails \/ Fetched
  \/ ProbeFails \/ Probe \/ Connect \/ OpenIndex \/ Submit

Next ==
  \/ Crash \/ Local \/ Fetch \/ InstallLibs \/ EnsureDaemon \/ Reconnect \/ Freeze \/ LoseDaemon
  \/ NewJob \/ BuildIndex \/ Mine \/ Prove

\* Nothing hangs without an end.  The libraries can be installed in the end, the chain goes
\* on, and some sessions last long enough to open the index, to build it, and to find and
\* prove a nonce that is a good one.
Fairness ==
  /\ WF_vars(Local) /\ WF_vars(Fetch) /\ WF_vars(EnsureDaemon)
  /\ GatewayServes /\ SF_ipfsVars(FetchKubo)
  /\ SF_vars(InstallLibs \/ NewJob \/ OpenIndex)
  /\ []<>(index = "building") => []<>(index = "ready")
  /\ []<>Ready => []<>Found
  /\ []<>Found => []<>(Proved \/ (machine.pool /\ ~Found))

Spec == Init /\ [][Next]_vars /\ Fairness

-----------------------------------------------------------------------------
(* Properties.                                                             *)

\* A sealed model has no weights that end early, and nobody comes to the probe, let
\* alone to mining, with weights that are not whole: whatever the gateway did, and
\* wherever earlier runs died (ensure_gguf, download_file).
WeightsWhole ==
  /\ sealed => \A w \in ToSet(Weights) : exists(w) => Whole(w)
  /\ phase \in {"probe", "connect", "mine"} /\ Model # Unknown => WeightsAreWhole

\* An index in memory is exact: its root is the root of the dense tree, every chunk is
\* read from where its leaf was hashed, and every path is the dense one; also when the
\* file is what an old version or a build that died has left.
IndexExact == index = "ready" => TreeExact(machine.tensors, tree)

\* A node that has the root of the dense tree accepts every block: its proof opens,
\* its pow value is, as a number, within the target, and its tier is the one of its
\* own score, also when the index is from before the hardfork.
BlocksAccepted ==
  Proved =>
    LET leaves == Leaves(machine.tensors) IN
    /\ verify_proof(block.seed, block.proof, Len(leaves), merkle_root(leaves),
                    block.target, block.challenges)
    /\ NumberOf(block.proof.pow_value, ByteBase) <= NumberOf(block.target, ByteBase)
    /\ block.proof.tier = NodeTier(Model, block.daa)

\* What no restart changes: a key file cut short, no GPU or libraries, no model that
\* fits, a pool.
Stuck ==
  \/ keyFile = "short" \/ ~machine.gpu \/ (~libs /\ ~machine.apt)
  \/ Model = Unknown \/ machine.pool

\* A file is whole that counts as unfinished: a gateway has no range of it left.
NothingLeft == Connecting /\ Whole(Current)

\* Whatever happened before, a miner mines again and again, unless it is stuck for one
\* of these reasons for good, or a gateway that honours ranges keeps it from sealing.
MinesUnlessStuck == []<>Proved \/ <>[]Stuck \/ []<>NothingLeft

\* A miner that connects again and again has a daemon again and again, unless the
\* daemon is remote or its binary was left half unpacked (ipfs.rs:79-99).
DaemonUnlessStuck ==
  []<>(phase = "connect") =>
    \/ []<>daemon
    \/ <>[](~machine.local \/ (kubo = "partial" /\ ~machine.inPath))

RecoversUnlessStuck == MinesUnlessStuck /\ DaemonUnlessStuck

-----------------------------------------------------------------------------
(* What the documentation says and the code does not do.                   *)

\* "an already-complete file (e.g. pre-staged with wget -c) is detected via a 416
\* response" (slm.rs:148)
CompleteFileDetected ==
  (keyFile = "whole" /\ WeightsAreWhole) ~> sealed
=============================================================================
