------------------------------ MODULE PomTree -------------------------------
(***************************************************************************)
(* WeightIndex of src/pom.rs: the Merkle tree over the chunks of a model's *)
(* weights, of which only every CheckpointInterval-th level is on disk, in *)
(* pom-tree.bin, while the levels between are computed again from the      *)
(* stored level or the chunks below.                                       *)
(*                                                                         *)
(* A hash is the tuple of what it was made from, so two nodes are equal if *)
(* and only if they were computed alike; the content of a chunk is its     *)
(* place in the file.  The tree file is a sequence of nodes, an offset the *)
(* number of nodes before it.                                              *)
(***************************************************************************)
EXTENDS Integers, Sequences, SequencesExt, Powers

CONSTANTS
  CheckpointInterval,  \* CHECKPOINT_INTERVAL: 6
  ChunkSize            \* 32

ASSUME TreeAssumption == {CheckpointInterval, ChunkSize} \subseteq Nat \ {0}

blake(x) == <<x>>
hash_pair(left, right) == <<left, right>>
ZeroNode == <<>>

-----------------------------------------------------------------------------
(* The dense tree, which is what the node has the root of.                 *)

CeilHalf(n) == (n + 1) \div 2

\* The next level: the last node is paired with itself if it has no sibling.
Parents(level) ==
  [i \in 1 .. CeilHalf(Len(level)) |->
     hash_pair(level[2 * i - 1], level[IF 2 * i <= Len(level) THEN 2 * i ELSE 2 * i - 1])]

\* Some nodes, and so many levels above them.
Levels(nodes, top) ==
  LET level[l \in 0 .. top] == IF l = 0 THEN nodes ELSE Parents(level[l - 1])
  IN  level

count_at_level(n, level) ==
  LET count[l \in Nat] == IF l = 0 THEN n ELSE CeilHalf(count[l - 1])
  IN  count[level]

\* The first level with a single node.
RootLevel(n) ==
  CHOOSE l \in 0 .. n :
    count_at_level(n, l) = 1 /\ \A k \in 0 .. l - 1 : count_at_level(n, k) # 1

DenseLevels(leaves) == Levels(leaves, RootLevel(Len(leaves)))

merkle_root(leaves) == DenseLevels(leaves)[RootLevel(Len(leaves))][1]

\* Where a leaf's ancestors are, level by level; indexes count from 0.
Above(index) ==
  LET idx[l \in Nat] == IF l = 0 THEN index ELSE idx[l - 1] \div 2
  IN  idx

Sibling(i) == IF i % 2 = 0 THEN i + 1 ELSE i - 1

\* A sibling out of range is the node itself.
SiblingIn(count, i) == IF Sibling(i) < count THEN Sibling(i) ELSE i

PathIn(levels, depth, index) ==
  [l \in 1 .. depth |->
     levels[l - 1][1 + SiblingIn(Len(levels[l - 1]), Above(index)[l - 1])]]

merkle_proof(leaves, index) ==
  PathIn(DenseLevels(leaves), RootLevel(Len(leaves)), index)

verify_merkle(leaf, index, path, root) ==
  LET acc[l \in 0 .. Len(path)] ==
        IF l = 0 THEN leaf
        ELSE IF Above(index)[l - 1] % 2 = 0
             THEN hash_pair(acc[l - 1], path[l])
             ELSE hash_pair(path[l], acc[l - 1])
  IN  acc[Len(path)] = root

-----------------------------------------------------------------------------
(* The chunks of a GGUF.  Its tensors, sorted by name, are a sequence of   *)
(* [at, size]; what is left over at the end of a tensor is no chunk.       *)

Chunks(tensor) == tensor.size \div ChunkSize

\* The chunks of the first so many tensors.
ChunksUpTo(tensors) ==
  LET sum[j \in 0 .. Len(tensors)] == IF j = 0 THEN 0 ELSE sum[j - 1] + Chunks(tensors[j])
  IN  sum

n_chunks(tensors) == ChunksUpTo(tensors)[Len(tensors)]

TensorLeaves(tensor) ==
  [c \in 1 .. Chunks(tensor) |-> blake(tensor.at + (c - 1) * ChunkSize)]

\* The leaves as the build meets them, tensor after tensor.
Leaves(tensors) ==
  LET leaves[j \in 0 .. Len(tensors)] ==
        IF j = 0 THEN <<>> ELSE leaves[j - 1] \o TensorLeaves(tensors[j])
  IN  leaves[Len(tensors)]

\* table: where the chunks of the tensors that have any begin.
Table(tensors) ==
  {[start |-> ChunksUpTo(tensors)[j - 1], at |-> tensors[j].at] :
     j \in {i \in DOMAIN tensors : Chunks(tensors[i]) > 0}}

\* partition_point(start <= off) - 1 is the last entry that starts at off or before.
read_chunk(tensors, off) ==
  LET reached == {e \in Table(tensors) : e.start <= off}
      last == CHOOSE e \in reached : \A d \in reached : d.start <= e.start
  IN  last.at + (off - last.start) * ChunkSize

-----------------------------------------------------------------------------
(* Where the levels are in the tree file.                                  *)

IsCheckpoint(n, level) ==
  \/ level > 0 /\ level % CheckpointInterval = 0
  \/ count_at_level(n, level) = 1

Checkpoints(n) == {l \in 0 .. RootLevel(n) : IsCheckpoint(n, l)}

\* The nodes that are stored of the levels below.
Offset(n, level) ==
  LET offset[l \in Nat] ==
        IF l = 0 THEN 0
        ELSE offset[l - 1]
               + (IF IsCheckpoint(n, l - 1) THEN count_at_level(n, l - 1) ELSE 0)
  IN  offset[level]

ExpectedSize(n) == Offset(n, RootLevel(n)) + 1

StoredNode(tree, n, level, i) == tree[Offset(n, level) + i + 1]

StoredLevel(tree, n, level) ==
  [i \in 1 .. count_at_level(n, level) |-> StoredNode(tree, n, level, i - 1)]

-----------------------------------------------------------------------------
(* Folding a batch of nodes into the one that is so many levels above.     *)

\* A folded level after the other until one node is left: what an earlier version did.
MutantFoldLevels(batch, rounds) ==
  LET level[r \in 0 .. rounds] ==
        IF r = 0 THEN batch
        ELSE IF Len(level[r - 1]) = 1 THEN level[r - 1] ELSE Parents(level[r - 1])
  IN  level[rounds][1]

\* Exactly so many levels up, also when a single node is left.
fold_levels(batch, rounds) == Levels(batch, rounds)[rounds][1]

\* The nodes below the i-th of so many levels above, of which the last has fewer.
Batch(level, i, rounds) ==
  LET first == i * Power[rounds]
      last == Min({first + Power[rounds], Len(level)})
  IN  [b \in 1 .. last - first |-> level[first + b]]

-----------------------------------------------------------------------------
(* Building the file, a node at a time, and opening the one that is there. *)

\* The first level is folded from the chunks, CheckpointInterval levels in any case.
FirstLevelNodes(n) ==
  (n + Power[CheckpointInterval] - 1) \div Power[CheckpointInterval]

FirstLevelNode(tensors, i) ==
  fold_levels(Batch(Leaves(tensors), i, CheckpointInterval), CheckpointInterval)

\* The i-th node of a higher checkpoint, folded from what the file has of the one below.
UpperNode(tree, n, level, i) ==
  LET below == Max({l \in Checkpoints(n) : l < level})
  IN  fold_levels(Batch(StoredLevel(tree, n, below), i, level - below), level - below)

\* What build_from_gguf and finalize_checkpoint_upper append to the nodes so far.
NextNode(tensors, tree) ==
  LET n == n_chunks(tensors)
      level == CHOOSE l \in Checkpoints(n) :
                 Len(tree) - Offset(n, l) \in 0 .. count_at_level(n, l) - 1
  IN  IF Len(tree) < FirstLevelNodes(n)
      THEN FirstLevelNode(tensors, Len(tree))
      ELSE UpperNode(tree, n, level, Len(tree) - Offset(n, level))

Built(tensors, tree) == Len(tree) = ExpectedSize(n_chunks(tensors))

\* open_existing_tree: only the size is compared, for a full tree of an old version too.
TreeFits(tensors, tree) ==
  LET expected == ExpectedSize(n_chunks(tensors))
  IN  Len(tree) <= 2 * expected /\ Len(tree) = expected

\* r_t of either way to an index.
TreeRoot(tensors, tree) ==
  LET n == n_chunks(tensors) IN StoredNode(tree, n, RootLevel(n), 0)

-----------------------------------------------------------------------------
(* Paths from the sparse tree.                                             *)

\* The nodes that a level is computed from: the chunks or a stored level.
SourceLevel(tensors, tree, source) ==
  IF source = 0
  THEN [i \in 1 .. n_chunks(tensors) |-> blake(read_chunk(tensors, i - 1))]
  ELSE StoredLevel(tree, n_chunks(tensors), source)

\* What an earlier version did at the right edge: repeat the last valid node.
MutantComputeSubtreeHash(tensors, tree, i, rounds, source) ==
  LET nodes == SourceLevel(tensors, tree, source)
      first == i * Power[rounds]
  IN  fold_levels([b \in 1 .. Power[rounds] |-> nodes[Min({first + b, Len(nodes)})]], rounds)

\* The i-th node so many rounds above the source level, from the source nodes in range.
compute_subtree_hash(tensors, tree, i, rounds, source) ==
  LET nodes == SourceLevel(tensors, tree, source)
  IN  IF i * Power[rounds] >= Len(nodes) THEN ZeroNode
      ELSE fold_levels(Batch(nodes, i, rounds), rounds)

merkle_path(tensors, tree, off) ==
  LET n == n_chunks(tensors) IN
  [l \in 1 .. RootLevel(n) |->
     LET level == l - 1
         real == SiblingIn(count_at_level(n, level), Above(off)[level])
         source == (level \div CheckpointInterval) * CheckpointInterval
     IN  IF level > 0 /\ level % CheckpointInterval = 0
         THEN StoredNode(tree, n, level, real)
         ELSE compute_subtree_hash(tensors, tree, real, level - source, source)]

-----------------------------------------------------------------------------
(* What the tree has to be.  Real models have many more chunks than one    *)
(* batch; with at most half a batch the root is stored a level too high.   *)

LargeEnough(tensors) == n_chunks(tensors) > Power[CheckpointInterval - 1]

TreeExact(tensors, tree) ==
  LET leaves == Leaves(tensors)
      levels == DenseLevels(leaves)
      top == RootLevel(Len(leaves))
  IN  /\ TreeRoot(tensors, tree) = levels[top][1]
      /\ \A off \in 0 .. Len(leaves) - 1 :
           /\ blake(read_chunk(tensors, off)) = leaves[off + 1]
           /\ merkle_path(tensors, tree, off) = PathIn(levels, top, off)
=============================================================================
