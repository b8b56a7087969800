--------------------------- MODULE Startup_proofs ---------------------------
(***************************************************************************)
(* What a miner has on disk when it mines and what it sends, for every     *)
(* model, every machine, every answer of the gateway and every number of   *)
(* crashes: whole weights, an index that is the tree of the model, and     *)
(* blocks that the node accepts.                                           *)
(***************************************************************************)
EXTENDS Startup, Powers_proofs, FiniteSetTheorems, SequenceTheorems, TLAPS

\* A stream belongs to the first of the files to download, and is read before the last
\* attempt is used up.
StoreInv == StoreTypeOK /\ (stream # "none" => todo # {} /\ attempt < MaxAttempts)

Pending == {Files[i] : i \in todo}

\* What is not pending is whole, which is so between BeginEnsure and Seal.
Settled == \A w \in ToSet(Weights) : w \in Pending \/ Whole(w)

SealedWhole == sealed => \A w \in ToSet(Weights) : exists(w) => Whole(w)

\* Nodes can be appended to it.
IsTree(nodes) == nodes \in Seq(ToSet(nodes))

\* What is not in the files of the model: types, an index that fits, and a block only with
\* an index.
Frame ==
  /\ machine \in Machines /\ phase \in Phases /\ crashes \in 0 .. MaxCrashes
  /\ keyFile \in {"absent", "short", "whole"} /\ libs \in BOOLEAN
  /\ index \in {"none", "building", "ready"} /\ daa \in ToSet(Daas) /\ IpfsTypeOK
  /\ index = "ready" => TreeFits(machine.tensors, tree)
  /\ index = "building" => IsTree(tree)
  /\ block # NoBlock => phase = "mine" /\ index = "ready"

Idle == todo = {} /\ stream = "none"

Served == phase \in {"probe", "connect", "mine"}

ServedWhole == Served /\ Model # Unknown => WeightsAreWhole

StoreIInv ==
  /\ StoreInv /\ SealedWhole /\ ServedWhole
  /\ phase = "fetch" => Settled
  /\ phase # "fetch" => Idle

\* What a build that has come so far leaves: every node is the one of the dense tree.
Begun(tensors, nodes) ==
  LET n == n_chunks(tensors) IN
  /\ IsTree(nodes) /\ Len(nodes) <= ExpectedSize(n)
  /\ \A c \in Checkpoints(n) : \A i \in 0 .. count_at_level(n, c) - 1 :
       Offset(n, c) + i + 1 <= Len(nodes)
         => StoredNode(nodes, n, c, i) = DenseLevels(Leaves(tensors))[c][i + 1]

\* What is on disk is nothing, the tree of an old version, or what a build has left.
TreeInv ==
  /\ tree = NoTree \/ tree = FullTree(machine.tensors) \/ Begun(machine.tensors, tree)
  /\ index = "building" => Begun(machine.tensors, tree)
  /\ index = "ready" =>
       Begun(machine.tensors, tree) /\ Len(tree) = ExpectedSize(n_chunks(machine.tensors))

\* A nonce that the device found, for the tier of the miner at the score of its job.
FoundInv ==
  /\ block.seed \in Seeds /\ block.target \in Targets /\ block.daa \in Nat
  /\ current_tier(block.daa) # Unknown

\* What the host made of it.
ProvedInv ==
  /\ block.challenges \in Challenges
  /\ Wins(machine.tensors, block.seed, block.target)
  /\ block.proof = build_proof(current_tier(block.daa), machine.tensors, tree, block.seed,
                               block.challenges)

BlockInv == block # NoBlock => FoundInv /\ (Proved => ProvedInv)

IInv == Frame /\ StoreIInv /\ TreeInv /\ BlockInv

-----------------------------------------------------------------------------
(* The places of the files.                                                *)

\* A set of numbers has a minimum.
LEMMA LeastOfNaturals ==
  ASSUME NEW S \in SUBSET Nat, S # {}
  PROVE  Min(S) \in S
BY Least DEF Min

\* Files are the small files and then the weights.
LEMMA FilesInOrder ==
  /\ Files \in Seq(StoredFiles) /\ DOMAIN Files \subseteq Nat \ {0}
  /\ \A w \in ToSet(Weights) : \E i \in DOMAIN Files : i > Len(SmallFiles) /\ Files[i] = w
<1>1. SmallFiles \in Seq(StoredFiles) /\ Weights \in Seq(StoredFiles)
  BY StoreAssumption
<1>2. Files \in Seq(StoredFiles) /\ Len(Files) = Len(SmallFiles) + Len(Weights)
  BY <1>1 DEF Files
<1>3. ASSUME NEW k \in DOMAIN Weights
      PROVE  \E i \in DOMAIN Files : i > Len(SmallFiles) /\ Files[i] = Weights[k]
  <2>1. k \in 1..Len(Weights) /\ Len(SmallFiles) \in Nat /\ Len(Weights) \in Nat
    BY <1>1
  <2>2. Len(SmallFiles) + k \in DOMAIN Files
    BY <1>2, <2>1
  <2>3. Files[Len(SmallFiles) + k] = Weights[k]
    BY <1>1, <2>1 DEF Files
  <2> QED
    BY <2>1, <2>2, <2>3
<1> QED
  BY <1>2, <1>3 DEF ToSet

\* The file that is being downloaded is one of the pending ones.
LEMMA CurrentIsPending ==
  ASSUME StoreInv, todo # {}
  PROVE  /\ Min(todo) \in todo /\ Current \in Pending /\ Current \in StoredFiles
         /\ Size[Current] \in Nat \ {0} /\ have[Current] \in Absent .. Size[Current]
<1>1. todo \subseteq DOMAIN Files
  BY DEF StoreInv, StoreTypeOK
<1>2. todo \in SUBSET Nat
  BY <1>1, FilesInOrder
<1>3. Min(todo) \in todo
  BY <1>2, LeastOfNaturals
<1>4. Min(todo) \in DOMAIN Files
  BY <1>1, <1>3
<1>5. Current \in StoredFiles
  BY <1>4, FilesInOrder DEF Current
<1>6. Size[Current] \in Nat \ {0}
  BY <1>5, StoreAssumption
<1> QED
  BY <1>3, <1>5, <1>6 DEF Current, Pending, StoreInv, StoreTypeOK

-----------------------------------------------------------------------------
(* Downloads.                                                              *)

\* A failed attempt.
LEMMA TryAgainKeeps ==
  ASSUME StoreInv, Settled, SealedWhole, TryAgain, todo # {}, attempt < MaxAttempts
  PROVE  (StoreInv /\ Settled /\ SealedWhole)'
<1>1. attempt + 1 \in 0 .. MaxAttempts
  BY StoreAssumption DEF StoreInv, StoreTypeOK
<1> QED
  BY <1>1 DEF TryAgain, StoreInv, StoreTypeOK, Settled, Pending, Whole, SealedWhole, exists

\* A new length of the file that is downloaded.
LEMMA LengthKeeps ==
  ASSUME StoreInv, Settled, SealedWhole, todo # {},
         NEW length \in 0 .. Size[Current],
         have' = [have EXCEPT ![Current] = length], UNCHANGED <<sealed, todo, attempt>>
  PROVE  /\ DOMAIN have' = StoredFiles
         /\ \A f \in StoredFiles : have'[f] \in Absent .. Size[f]
         /\ (Settled /\ SealedWhole)'
<1>1. Current \in Pending /\ Current \in StoredFiles /\ Size[Current] \in Nat
  BY CurrentIsPending
<1>2. DOMAIN have = StoredFiles /\ \A f \in StoredFiles : have[f] \in Absent .. Size[f]
  BY DEF StoreInv, StoreTypeOK
<1>3. length \in Absent .. Size[Current]
  BY <1>1 DEF Absent
<1>4. DOMAIN have' = StoredFiles /\ \A f \in StoredFiles : have'[f] \in Absent .. Size[f]
  BY <1>1, <1>2, <1>3
<1>5. Pending' = Pending
  BY DEF Pending
<1>6. \A w \in ToSet(Weights) : w # Current => (Whole(w) => Whole(w)')
  BY <1>2 DEF Whole, StoredFiles
<1>7. Settled'
  BY <1>1, <1>5, <1>6 DEF Settled
<1>8. ~sealed'
  BY DEF StoreInv, StoreTypeOK
<1> QED
  BY <1>4, <1>7, <1>8 DEF SealedWhole

\* Only a file that is whole leaves the pending ones.
LEMMA EndKeeps ==
  ASSUME StoreInv, Settled, SealedWhole, NEW clean \in BOOLEAN, DownloadEnds(clean)
  PROVE  (StoreInv /\ Settled /\ SealedWhole)'
<1>1. stream # "none" /\ todo # {} /\ attempt < MaxAttempts
  BY DEF DownloadEnds, StoreInv
<1>2. CASE ~(clean /\ stream = "known" /\ Whole(Current))
  BY <1>1, <1>2, TryAgainKeeps DEF DownloadEnds
<1>3. CASE clean /\ stream = "known" /\ Whole(Current)
  <2>1. /\ todo' = todo \ {Min(todo)} /\ attempt' = 0 /\ stream' = "none"
        /\ UNCHANGED <<have, sealed>>
    BY <1>3 DEF DownloadEnds
  <2>2. StoreInv'
    BY <2>1, StoreAssumption DEF StoreInv, StoreTypeOK
  <2>3. \A f \in Pending : f \in Pending' \/ f = Current
    BY <2>1 DEF Pending, Current
  <2>4. Settled'
    BY <1>3, <2>1, <2>3 DEF Settled, Whole
  <2> QED
    BY <2>1, <2>2, <2>4 DEF SealedWhole, exists, Whole
<1> QED
  BY <1>2, <1>3

\* Every step of the downloads.
LEMMA StoreStepKeeps ==
  ASSUME StoreInv, Settled, SealedWhole, StoreStep
  PROVE  (StoreInv /\ Settled /\ SealedWhole)'
<1>1. CASE Seal
  <2>1. Pending = {} /\ \A w \in ToSet(Weights) : Whole(w)
    BY <1>1 DEF Seal, Pending, Settled
  <2> QED
    BY <1>1, <2>1
    DEF Seal, inMemory, StoreInv, StoreTypeOK, Settled, Pending, Whole, SealedWhole
<1>2. CASE ConnectFails \/ RangeRefused
  BY <1>2, TryAgainKeeps DEF ConnectFails, RangeRefused, Connecting
<1>3. ASSUME NEW total \in Totals, Resume(total)
      PROVE  (StoreInv /\ Settled /\ SealedWhole)'
  BY <1>3
  DEF Resume, Connecting, StoreInv, StoreTypeOK, Settled, Pending, Whole, SealedWhole, exists
<1>4. ASSUME NEW total \in Totals, Restart(total)
      PROVE  (StoreInv /\ Settled /\ SealedWhole)'
  <2>1. todo # {} /\ attempt < MaxAttempts
    BY <1>4 DEF Restart, Connecting
  <2>2. 0 \in 0 .. Size[Current]
    BY <2>1, CurrentIsPending
  <2>3. /\ have' = [have EXCEPT ![Current] = 0] /\ stream' = total
        /\ UNCHANGED <<sealed, todo, attempt>>
    BY <1>4 DEF Restart
  <2> QED
    BY <2>1, <2>2, <2>3, LengthKeeps DEF StoreInv, StoreTypeOK
<1>5. ASSUME stream # "none", NEW length \in 1 .. Size[Current], Receive(length)
      PROVE  (StoreInv /\ Settled /\ SealedWhole)'
  <2>1. todo # {}
    BY <1>5 DEF StoreInv
  <2>2. length \in 0 .. Size[Current]
    BY <1>5, <2>1, CurrentIsPending
  <2>3. /\ have' = [have EXCEPT ![Current] = length]
        /\ UNCHANGED <<sealed, todo, attempt, stream>>
    BY <1>5 DEF Receive, inMemory
  <2> QED
    BY <2>1, <2>2, <2>3, LengthKeeps DEF StoreInv, StoreTypeOK
<1>6. ASSUME NEW clean \in BOOLEAN, DownloadEnds(clean)
      PROVE  (StoreInv /\ Settled /\ SealedWhole)'
  BY <1>6, EndKeeps
<1> QED
  BY <1>1, <1>2, <1>3, <1>4, <1>5, <1>6 DEF StoreStep

\* The start of a prefetch: a seal on files that all exist is right, or all the weights
\* are pending.
LEMMA BeginKeeps ==
  ASSUME StoreInv, SealedWhole, Idle, BeginEnsure
  PROVE  (StoreInv /\ Settled /\ SealedWhole)'
<1>1. CASE Complete
  <2>1. \A w \in ToSet(Weights) : Whole(w)
    BY <1>1 DEF Complete, StoredFiles, SealedWhole
  <2> QED
    BY <1>1, <2>1
    DEF BeginEnsure, StoreInv, StoreTypeOK, Settled, SealedWhole, Whole, exists
<1>2. CASE ~Complete
  <2>1. sealed' = FALSE /\ todo' = Wanted /\ UNCHANGED <<have, attempt, stream>>
    BY <1>2 DEF BeginEnsure
  <2>2. StoreInv'
    BY <2>1 DEF StoreInv, StoreTypeOK, Wanted, Idle
  <2>3. \A w \in ToSet(Weights) : w \in Pending'
    BY <2>1, FilesInOrder DEF Pending, Wanted
  <2> QED
    BY <2>1, <2>2, <2>3 DEF Settled, SealedWhole
<1> QED
  BY <1>1, <1>2

-----------------------------------------------------------------------------
(* Rows of nodes.                                                          *)

\* A sequence of n values of any kind.
Row(s, n) == n \in Nat /\ Len(s) = n /\ s = [i \in 1 .. n |-> s[i]]

\* A function on 1 .. n is a row of n nodes.
LEMMA RowOf ==
  ASSUME NEW n \in Nat, NEW f, f = [i \in 1 .. n |-> f[i]]
  PROVE  Row(f, n)
<1> DEFINE S == {f[i] : i \in 1 .. n}
<1>1. f \in [1 .. n -> S]
  OBVIOUS
<1>2. f \in Seq(S)
  BY <1>1, SeqDef
<1> HIDE DEF S
<1>3. Len(f) \in Nat /\ DOMAIN f = 1 .. Len(f)
  BY <1>2, LenProperties
<1>4. 1 .. n = 1 .. Len(f)
  BY <1>3
<1>5. Len(f) = n
  BY <1>3, <1>4
<1> QED
  BY <1>5 DEF Row

\* Rows are equal if their nodes are.
LEMMA RowsEqual ==
  ASSUME NEW n, NEW s, Row(s, n), NEW t, Row(t, n), \A i \in 1 .. n : s[i] = t[i]
  PROVE  s = t
  BY DEF Row

\* Halving a number of nodes and rounding up.
LEMMA Halving ==
  ASSUME NEW n \in Nat
  PROVE  CeilHalf(n) \in Nat /\ 2 * CeilHalf(n) \in {n, n + 1}
  BY DEF CeilHalf

\* The next level has half as many nodes.
LEMMA ParentsRow ==
  ASSUME NEW s, NEW n, Row(s, n)
  PROVE  /\ Row(Parents(s), CeilHalf(n))
         /\ \A i \in 1 .. CeilHalf(n) :
              Parents(s)[i] = hash_pair(s[2 * i - 1], s[IF 2 * i <= n THEN 2 * i ELSE 2 * i - 1])
<1>1. n \in Nat /\ Len(s) = n
  BY DEF Row
<1>2. CeilHalf(n) \in Nat
  BY <1>1, Halving
<1> DEFINE p == [i \in 1 .. CeilHalf(n) |->
                   hash_pair(s[2 * i - 1], s[IF 2 * i <= n THEN 2 * i ELSE 2 * i - 1])]
<1>3. Parents(s) = p
  BY <1>1 DEF Parents
<1>4. p = [i \in 1 .. CeilHalf(n) |-> p[i]]
  OBVIOUS
<1>5. \A i \in 1 .. CeilHalf(n) :
        p[i] = hash_pair(s[2 * i - 1], s[IF 2 * i <= n THEN 2 * i ELSE 2 * i - 1])
  OBVIOUS
<1> HIDE DEF p
<1>6. Row(p, CeilHalf(n))
  BY <1>2, <1>4, RowOf
<1> QED
  BY <1>3, <1>5, <1>6

\* Levels is what its recursion says.
LEMMA LevelsRecursion ==
  ASSUME NEW nodes, NEW top \in Nat
  PROVE  /\ Levels(nodes, top)[0] = nodes
         /\ \A l \in 1 .. top : Levels(nodes, top)[l] = Parents(Levels(nodes, top)[l - 1])
<1> DEFINE Is(f, m) == f = [l \in 0 .. m |-> IF l = 0 THEN nodes ELSE Parents(f[l - 1])]
           Bad == {m \in Nat : ~\E f : Is(f, m)}
<1>1. Bad = {}
  <2> SUFFICES ASSUME Bad # {} PROVE FALSE
    OBVIOUS
  <2>1. PICK m \in Bad : \A k \in Bad : m <= k
    BY Least
  <2>2. CASE m = 0
    <3> DEFINE f == [l \in 0 .. 0 |-> nodes]
    <3>1. f = [l \in 0 .. 0 |-> IF l = 0 THEN nodes ELSE Parents(f[l - 1])]
      OBVIOUS
    <3> HIDE DEF f
    <3> QED
      BY <2>1, <2>2, <3>1
  <2>3. CASE m # 0
    <3>1. m - 1 \in Nat /\ m - 1 \notin Bad
      <4>1. m \in Nat
        BY <2>1
      <4> HIDE DEF Bad
      <4> QED
        BY <2>1, <2>3, <4>1
    <3>2. PICK f : Is(f, m - 1)
      BY <3>1
    <3> DEFINE h == [l \in 0 .. m |-> IF l = m THEN Parents(f[m - 1]) ELSE f[l]]
    <3>3. ASSUME NEW l \in 0 .. m PROVE h[l] = IF l = 0 THEN nodes ELSE Parents(h[l - 1])
      <4>1. CASE l = 0
        BY <2>3, <3>1, <3>2, <4>1
      <4>2. CASE l # 0
        <5>1. l - 1 \in 0 .. m /\ l - 1 # m /\ h[l - 1] = f[l - 1]
          BY <3>1, <4>2
        <5>2. CASE l = m
          BY <5>1, <5>2
        <5>3. CASE l # m
          <6>1. l \in 0 .. m - 1
            BY <3>1, <5>3
          <6>2. f[l] = Parents(f[l - 1])
            BY <3>2, <4>2, <6>1
          <6> QED
            BY <5>1, <5>3, <6>2
        <5> QED
          BY <5>2, <5>3
      <4> QED
        BY <4>1, <4>2
    <3>4. h = [l \in 0 .. m |-> h[l]]
      OBVIOUS
    <3> HIDE DEF h
    <3>5. Is(h, m)
      BY <3>3, <3>4
    <3> QED
      BY <2>1, <3>5
  <2> QED
    BY <2>2, <2>3
<1>2. PICK f : Is(f, top)
  BY <1>1
<1> DEFINE level == CHOOSE g : Is(g, top)
<1>3. Is(level, top)
  BY <1>2
<1>4. Levels(nodes, top) = level
  BY DEF Levels
<1> HIDE DEF level
<1>5. level[0] = nodes /\ \A l \in 1 .. top : level[l] = Parents(level[l - 1])
  BY <1>3
<1> QED
  BY <1>4, <1>5

-----------------------------------------------------------------------------
(* The numbers of nodes.                                                   *)

\* count_at_level is what its recursion says.
LEMMA CountRecursion ==
  ASSUME NEW n \in Nat
  PROVE  /\ count_at_level(n, 0) = n
         /\ \A l \in Nat : /\ count_at_level(n, l) \in Nat
                           /\ count_at_level(n, l + 1) = CeilHalf(count_at_level(n, l))
<1> DEFINE g == [l \in Nat |-> [x \in Nat |-> CeilHalf(x)]]
<1>1. Steps(g, Nat, Nat)
  BY Halving DEF Steps
<1>2. \A l \in Nat, x \in Nat : g[l][x] = CeilHalf(x)
  OBVIOUS
<1> HIDE DEF g
<1>3. PICK f : Throughout(f, Nat, n, g)
  BY <1>1, Recursion
<1>4. \A l \in Nat : f[l + 1] = CeilHalf(f[l])
  BY <1>2, <1>3 DEF Throughout
<1> DEFINE Is(h) == h = [l \in Nat |-> IF l = 0 THEN n ELSE CeilHalf(h[l - 1])]
<1>5. Is(f)
  <2>1. ASSUME NEW l \in Nat PROVE f[l] = IF l = 0 THEN n ELSE CeilHalf(f[l - 1])
    <3>1. l # 0 => l - 1 \in Nat /\ (l - 1) + 1 = l
      OBVIOUS
    <3> QED
      BY <1>3, <1>4, <3>1 DEF Throughout
  <2> QED
    BY <1>3, <2>1 DEF Throughout
<1> DEFINE count == CHOOSE h : Is(h)
<1>6. Is(count)
  BY <1>5
<1>7. \A l : count_at_level(n, l) = count[l]
  BY DEF count_at_level
<1> HIDE DEF count
<1>8. count[0] = n
  BY <1>6
<1>9. ASSUME NEW l \in Nat PROVE count[l + 1] = CeilHalf(count[l])
  <2>1. l + 1 \in Nat /\ l + 1 # 0 /\ (l + 1) - 1 = l
    OBVIOUS
  <2> QED
    BY <1>6, <2>1
<1> HIDE DEF Is
<1>10. \A l \in Nat : count[l] \in Nat
  <2> DEFINE Bad == {l \in Nat : count[l] \notin Nat}
  <2> SUFFICES ASSUME Bad # {} PROVE FALSE
    OBVIOUS
  <2>1. PICK m \in Bad : \A k \in Bad : m <= k
    BY Least
  <2>2. m # 0
    BY <1>8, <2>1
  <2>3. m - 1 \in Nat /\ m - 1 \notin Bad /\ (m - 1) + 1 = m
    BY <2>1, <2>2
  <2>4. count[m - 1] \in Nat /\ count[m] = CeilHalf(count[m - 1])
    BY <1>9, <2>3
  <2> QED
    BY <2>1, <2>4, Halving
<1> QED
  BY <1>7, <1>8, <1>9, <1>10

\* As many nodes as halving so often gives, and never none.
LEMMA CountBounds ==
  ASSUME NEW n \in Nat \ {0}, NEW l \in Nat, NEW r \in Nat
  PROVE  /\ count_at_level(n, l) \in Nat \ {0}
         /\ (count_at_level(n, l + r) - 1) * Power[r] < count_at_level(n, l)
         /\ count_at_level(n, l) <= count_at_level(n, l + r) * Power[r]
<1> DEFINE C(k) == count_at_level(n, k)
<1>1. C(0) = n /\ \A k \in Nat : C(k) \in Nat /\ C(k + 1) = CeilHalf(C(k))
  BY CountRecursion
<1> HIDE DEF C
<1>2. \A k \in Nat : C(k) # 0
  <2> DEFINE Bad == {k \in Nat : C(k) = 0}
  <2> SUFFICES ASSUME Bad # {} PROVE FALSE
    OBVIOUS
  <2>1. PICK m \in Bad : \A k \in Bad : m <= k
    BY Least
  <2>2. m # 0
    BY <1>1, <2>1
  <2>3. m - 1 \in Nat /\ m - 1 \notin Bad /\ (m - 1) + 1 = m
    BY <2>1, <2>2
  <2>4. C(m - 1) \in Nat /\ C(m) = CeilHalf(C(m - 1)) /\ C(m - 1) # 0
    BY <1>1, <2>3
  <2>5. 2 * C(m) \in {C(m - 1), C(m - 1) + 1}
    BY <2>4, Halving
  <2> QED
    BY <2>1, <2>4, <2>5
<1> DEFINE Bad == {k \in Nat : ~(/\ (C(l + k) - 1) * Power[k] < C(l)
                                 /\ C(l) <= C(l + k) * Power[k])}
<1>3. Bad = {}
  <2> SUFFICES ASSUME Bad # {} PROVE FALSE
    OBVIOUS
  <2>1. PICK m \in Bad : \A k \in Bad : m <= k
    <3>1. Bad \in SUBSET Nat
      OBVIOUS
    <3> HIDE DEF Bad
    <3> QED
      BY <3>1, Least
  <2>2. m # 0
    <3>1. Power[0] = 1 /\ C(l) \in Nat /\ l + 0 = l
      BY <1>1, PowerRecursion
    <3>2. 0 \notin Bad
      BY <3>1
    <3> QED
      BY <2>1, <3>2
  <2>3. m - 1 \in Nat /\ m - 1 \notin Bad /\ (m - 1) + 1 = m /\ l + (m - 1) \in Nat
        /\ (l + (m - 1)) + 1 = l + m
    <3>1. m \in Nat
      BY <2>1
    <3> HIDE DEF Bad
    <3> QED
      BY <2>1, <2>2, <3>1
  <2> DEFINE c == C(l + (m - 1))
             d == C(l + m)
             p == Power[m - 1]
  <2>4. /\ (c - 1) * p < C(l) /\ C(l) <= c * p
        /\ ~((d - 1) * Power[m] < C(l) /\ C(l) <= d * Power[m])
    BY <2>1, <2>3
  <2>5. c \in Nat /\ d = CeilHalf(c) /\ C(l) \in Nat
    BY <1>1, <2>3
  <2>6. p \in Nat \ {0} /\ Power[m] = 2 * p
    BY <2>3, PowerRecursion
  <2> HIDE DEF c, d, p
  <2>7. d \in Nat /\ 2 * d \in {c, c + 1}
    BY <2>5, Halving
  <2>8. (d - 1) * (2 * p) <= (c - 1) * p
    <3>1. (d - 1) * (2 * p) = (2 * d - 2) * p /\ 2 * d - 2 <= c - 1
      BY <2>5, <2>6, <2>7
    <3>2. \A x, y \in Int : x <= y => x * p <= y * p
      BY <2>6
    <3> QED
      BY <2>5, <2>7, <3>1, <3>2
  <2>9. c * p <= d * (2 * p)
    <3>1. d * (2 * p) = (2 * d) * p /\ c <= 2 * d
      BY <2>5, <2>6, <2>7
    <3>2. \A x, y \in Int : x <= y => x * p <= y * p
      BY <2>6
    <3> QED
      BY <2>5, <2>7, <3>1, <3>2
  <2>10. (d - 1) * (2 * p) \in Int /\ (c - 1) * p \in Int /\ c * p \in Int /\ d * (2 * p) \in Int
    BY <2>5, <2>6, <2>7
  <2> QED
    BY <2>4, <2>5, <2>6, <2>8, <2>9, <2>10
<1>4. r \notin Bad
  BY <1>3
<1> QED
  BY <1>1, <1>2, <1>4 DEF C

\* The root is where a single node is left for the first time.
LEMMA RootReached ==
  ASSUME NEW n \in Nat \ {0}
  PROVE  /\ RootLevel(n) \in Nat /\ count_at_level(n, RootLevel(n)) = 1
         /\ \A l \in 0 .. RootLevel(n) - 1 : count_at_level(n, l) # 1
<1> DEFINE C(k) == count_at_level(n, k)
<1>1. C(0) = n /\ \A k \in Nat : C(k) \in Nat \ {0} /\ C(k + 1) = CeilHalf(C(k))
  BY CountRecursion, CountBounds
<1> HIDE DEF C
<1> DEFINE Bad == {k \in Nat : C(k) # 1 /\ C(k) + k > n}
<1>2. Bad = {}
  <2> SUFFICES ASSUME Bad # {} PROVE FALSE
    OBVIOUS
  <2>1. PICK m \in Bad : \A k \in Bad : m <= k
    <3>1. Bad \in SUBSET Nat
      OBVIOUS
    <3> HIDE DEF Bad
    <3> QED
      BY <3>1, Least
  <2>2. m # 0
    BY <1>1, <2>1
  <2>3. m - 1 \in Nat /\ m - 1 \notin Bad /\ (m - 1) + 1 = m
    <3>1. m \in Nat
      BY <2>1
    <3> HIDE DEF Bad
    <3> QED
      BY <2>1, <2>2, <3>1
  <2>4. C(m - 1) = 1 \/ C(m - 1) + (m - 1) <= n
    <3>1. C(m - 1) \in Nat
      BY <1>1, <2>3
    <3> QED
      BY <2>3, <3>1
  <2>5. C(m - 1) \in Nat \ {0} /\ C(m) \in Nat \ {0} /\ C(m) = CeilHalf(C(m - 1))
    BY <1>1, <2>3
  <2>6. 2 * C(m) \in {C(m - 1), C(m - 1) + 1}
    BY <2>5, Halving
  <2>7. C(m) # 1 /\ C(m) + m > n
    BY <2>1
  <2> QED
    BY <2>1, <2>4, <2>5, <2>6, <2>7
<1> DEFINE S == {l \in 0 .. n : C(l) = 1}
<1>3. S # {} /\ S \in SUBSET Nat
  <2>1. n \notin Bad
    BY <1>2
  <2>2. C(n) \in Nat \ {0}
    BY <1>1
  <2>3. C(n) = 1
    BY <2>1, <2>2
  <2> QED
    BY <2>3
<1>4. PICK m \in S : \A k \in S : m <= k
  <2> HIDE DEF S
  <2> QED
    BY <1>3, Least
<1>5. m \in 0 .. n /\ C(m) = 1 /\ \A k \in 0 .. m - 1 : C(k) # 1
  <2>1. m \in 0 .. n /\ C(m) = 1
    BY <1>4
  <2>2. \A k \in 0 .. m - 1 : k \in 0 .. n /\ ~(m <= k)
    BY <2>1
  <2> QED
    BY <1>4, <2>1, <2>2
<1>6. /\ RootLevel(n) \in 0 .. n /\ C(RootLevel(n)) = 1
      /\ \A k \in 0 .. RootLevel(n) - 1 : C(k) # 1
  BY <1>5 DEF RootLevel, C
<1> QED
  BY <1>6 DEF C

-----------------------------------------------------------------------------
(* The ancestors of a leaf.                                                *)

\* Above is what its recursion says.
LEMMA AboveRecursion ==
  ASSUME NEW i \in Nat
  PROVE  /\ Above(i)[0] = i
         /\ \A l \in Nat : Above(i)[l] \in Nat /\ Above(i)[l + 1] = Above(i)[l] \div 2
<1> DEFINE g == [l \in Nat |-> [x \in Nat |-> x \div 2]]
<1>1. Steps(g, Nat, Nat)
  BY DEF Steps
<1>2. \A l \in Nat, x \in Nat : g[l][x] = x \div 2
  OBVIOUS
<1> HIDE DEF g
<1>3. PICK f : Throughout(f, Nat, i, g)
  BY <1>1, Recursion
<1>4. f \in [Nat -> Nat] /\ f[0] = i /\ \A l \in Nat : f[l + 1] = f[l] \div 2
  BY <1>2, <1>3 DEF Throughout
<1> DEFINE Is(h) == h = [l \in Nat |-> IF l = 0 THEN i ELSE h[l - 1] \div 2]
<1>5. Is(f)
  <2>1. ASSUME NEW l \in Nat PROVE f[l] = IF l = 0 THEN i ELSE f[l - 1] \div 2
    <3>1. l # 0 => l - 1 \in Nat /\ (l - 1) + 1 = l
      OBVIOUS
    <3> QED
      BY <1>4, <3>1
  <2> QED
    BY <1>4, <2>1
<1> DEFINE idx == CHOOSE h : Is(h)
<1>6. Is(idx)
  BY <1>5
<1>7. Above(i) = idx
  BY DEF Above
<1> HIDE DEF idx
<1>8. idx[0] = i
  BY <1>6
<1>9. ASSUME NEW l \in Nat PROVE idx[l + 1] = idx[l] \div 2
  <2>1. l + 1 \in Nat /\ l + 1 # 0 /\ (l + 1) - 1 = l
    OBVIOUS
  <2> QED
    BY <1>6, <2>1
<1> HIDE DEF Is
<1>10. \A l \in Nat : idx[l] \in Nat
  <2> DEFINE Bad == {l \in Nat : idx[l] \notin Nat}
  <2> SUFFICES ASSUME Bad # {} PROVE FALSE
    OBVIOUS
  <2>1. PICK m \in Bad : \A k \in Bad : m <= k
    BY Least
  <2>2. m # 0
    BY <1>8, <2>1
  <2>3. m - 1 \in Nat /\ m - 1 \notin Bad /\ (m - 1) + 1 = m
    BY <2>1, <2>2
  <2>4. idx[m - 1] \in Nat /\ idx[m] = idx[m - 1] \div 2
    BY <1>9, <2>3
  <2> QED
    BY <2>1, <2>4
<1> QED
  BY <1>7, <1>8, <1>9, <1>10

\* An ancestor is one of the nodes of its level.
LEMMA AboveInRange ==
  ASSUME NEW n \in Nat, NEW i \in 0 .. n - 1, NEW l \in Nat
  PROVE  Above(i)[l] \in 0 .. count_at_level(n, l) - 1
<1> DEFINE C(k) == count_at_level(n, k)
           A == Above(i)
<1>1. C(0) = n /\ \A k \in Nat : C(k) \in Nat /\ C(k + 1) = CeilHalf(C(k))
  BY CountRecursion
<1>2. A[0] = i /\ \A k \in Nat : A[k] \in Nat /\ A[k + 1] = A[k] \div 2
  BY AboveRecursion
<1> HIDE DEF C, A
<1> DEFINE Bad == {k \in Nat : ~(A[k] < C(k))}
<1>3. Bad = {}
  <2> SUFFICES ASSUME Bad # {} PROVE FALSE
    OBVIOUS
  <2>1. PICK m \in Bad : \A k \in Bad : m <= k
    BY Least
  <2>2. m # 0
    BY <1>1, <1>2, <2>1
  <2>3. m - 1 \in Nat /\ m - 1 \notin Bad /\ (m - 1) + 1 = m
    BY <2>1, <2>2
  <2>4. A[m - 1] < C(m - 1)
    BY <2>3
  <2>5. /\ A[m - 1] \in Nat /\ A[m] = A[m - 1] \div 2 /\ A[m] \in Nat
        /\ C(m - 1) \in Nat /\ C(m) = CeilHalf(C(m - 1)) /\ C(m) \in Nat
    BY <1>1, <1>2, <2>3
  <2>6. 2 * C(m) \in {C(m - 1), C(m - 1) + 1}
    BY <2>5, Halving
  <2>7. 2 * A[m] <= A[m - 1]
    BY <2>5
  <2>8. ~(A[m] < C(m))
    BY <2>1
  <2> QED
    BY <2>4, <2>5, <2>6, <2>7, <2>8
<1>4. A[l] < C(l)
  BY <1>3
<1>5. A[l] \in Nat /\ C(l) \in Nat
  BY <1>1, <1>2
<1>6. A[l] \in 0 .. C(l) - 1
  BY <1>4, <1>5
<1> QED
  BY <1>6 DEF A, C

\* The sibling in range is a node of the level, and the pair is the one that is hashed.
LEMMA SiblingOf ==
  ASSUME NEW c \in Nat, NEW a \in 0 .. c - 1
  PROVE  /\ SiblingIn(c, a) \in 0 .. c - 1 /\ a \div 2 + 1 \in 1 .. CeilHalf(c)
         /\ a % 2 = 0 =>
              /\ 2 * (a \div 2 + 1) - 1 = a + 1
              /\ (IF 2 * (a \div 2 + 1) <= c THEN 2 * (a \div 2 + 1)
                  ELSE 2 * (a \div 2 + 1) - 1) = SiblingIn(c, a) + 1
         /\ a % 2 # 0 =>
              /\ 2 * (a \div 2 + 1) - 1 = SiblingIn(c, a) + 1
              /\ 2 * (a \div 2 + 1) <= c /\ 2 * (a \div 2 + 1) = a + 1
<1>1. PICK q \in Int, t \in 0 .. 2 - 1 : q = a \div 2 /\ t = a % 2 /\ a = 2 * q + t
  BY Division
<1>2. CeilHalf(c) \in Nat /\ 2 * CeilHalf(c) \in {c, c + 1}
  BY Halving
<1>3. q \in Nat /\ q + 1 \in 1 .. CeilHalf(c)
  BY <1>1, <1>2
<1>4. CASE t = 0
  BY <1>1, <1>3, <1>4 DEF SiblingIn, Sibling
<1>5. CASE t = 1
  BY <1>1, <1>3, <1>5 DEF SiblingIn, Sibling
<1> QED
  BY <1>1, <1>4, <1>5

-----------------------------------------------------------------------------
(* The levels of the dense tree.                                           *)

\* A level has as many nodes as count_at_level says.
LEMMA LevelsRows ==
  ASSUME NEW n \in Nat, NEW nodes, Row(nodes, n), NEW top \in Nat, NEW l \in 0 .. top
  PROVE  Row(Levels(nodes, top)[l], count_at_level(n, l))
<1> DEFINE L == Levels(nodes, top)
           C(k) == count_at_level(n, k)
<1>1. C(0) = n /\ \A k \in Nat : C(k + 1) = CeilHalf(C(k))
  BY CountRecursion
<1>2. L[0] = nodes /\ \A k \in 1 .. top : L[k] = Parents(L[k - 1])
  BY LevelsRecursion
<1> HIDE DEF C, L
<1> DEFINE Bad == {k \in 0 .. top : ~Row(L[k], C(k))}
<1>3. Bad = {}
  <2> SUFFICES ASSUME Bad # {} PROVE FALSE
    OBVIOUS
  <2>1. PICK m \in Bad : \A k \in Bad : m <= k
    <3>1. Bad \in SUBSET Nat
      OBVIOUS
    <3> HIDE DEF Bad
    <3> QED
      BY <3>1, Least
  <2>2. m # 0
    BY <1>1, <1>2, <2>1
  <2>3. m - 1 \in Nat /\ m - 1 \in 0 .. top /\ m \in 1 .. top /\ (m - 1) + 1 = m
    BY <2>1, <2>2
  <2>4. m - 1 \notin Bad
    <3> HIDE DEF Bad
    <3> QED
      BY <2>1, <2>3
  <2>5. Row(L[m - 1], C(m - 1))
    BY <2>3, <2>4
  <2>6. Row(Parents(L[m - 1]), CeilHalf(C(m - 1)))
    BY <2>5, ParentsRow
  <2> QED
    BY <1>1, <1>2, <2>1, <2>3, <2>6
<1> QED
  BY <1>3 DEF L, C

-----------------------------------------------------------------------------
(* Opening a leaf.                                                         *)

\* The siblings of its ancestors lead from a leaf to the root of the dense tree.
LEMMA PathOpens ==
  ASSUME NEW n \in Nat \ {0}, NEW leaves, Row(leaves, n), NEW i \in 0 .. n - 1
  PROVE  verify_merkle(leaves[i + 1], i,
                       PathIn(DenseLevels(leaves), RootLevel(n), i), merkle_root(leaves))
<1> DEFINE R == RootLevel(n)
           D == Levels(leaves, R)
           A == Above(i)
           C(l) == count_at_level(n, l)
<1>1. Len(leaves) = n /\ R \in Nat /\ C(R) = 1
  BY RootReached DEF Row
<1>2. DenseLevels(leaves) = D /\ merkle_root(leaves) = D[R][1]
  BY <1>1 DEF DenseLevels, merkle_root
<1>3. A[0] = i /\ \A l \in Nat : A[l] \in Nat /\ A[l + 1] = A[l] \div 2
  BY AboveRecursion
<1>4. \A l \in Nat : A[l] \in 0 .. C(l) - 1
  BY AboveInRange
<1>5. D[0] = leaves /\ \A l \in 1 .. R : D[l] = Parents(D[l - 1])
  BY <1>1, LevelsRecursion
<1>6. \A l \in 0 .. R : Row(D[l], C(l))
  BY <1>1, LevelsRows
<1>7. C(0) = n /\ \A l \in Nat : C(l) \in Nat /\ C(l + 1) = CeilHalf(C(l))
  BY CountRecursion
<1> DEFINE path == [l \in 1 .. R |-> D[l - 1][1 + SiblingIn(Len(D[l - 1]), A[l - 1])]]
<1>8. PathIn(D, R, i) = path
  BY DEF PathIn
<1> HIDE DEF R, D, A, C
<1>9. path = [l \in 1 .. R |-> path[l]] /\ \A l \in 1 .. R :
        path[l] = D[l - 1][1 + SiblingIn(C(l - 1), A[l - 1])]
  <2>1. \A l \in 1 .. R : Len(D[l - 1]) = C(l - 1)
    <3>1. ASSUME NEW l \in 1 .. R PROVE l - 1 \in 0 .. R
      BY <1>1
    <3> QED
      BY <1>6, <3>1 DEF Row
  <2> QED
    BY <2>1
<1> HIDE DEF path
<1>10. Len(path) = R
  BY <1>1, <1>9, RowOf DEF Row
<1> DEFINE next(f, l) == IF A[l - 1] % 2 = 0 THEN hash_pair(f[l - 1], path[l])
                         ELSE hash_pair(path[l], f[l - 1])
           Is(f) == f = [l \in 0 .. R |-> IF l = 0 THEN leaves[i + 1] ELSE next(f, l)]
           own == [l \in 0 .. R |-> D[l][A[l] + 1]]
\* What verify_merkle computes are the ancestors.
<1>11. ASSUME NEW l \in 1 .. R
       PROVE  D[l][A[l] + 1] =
                IF A[l - 1] % 2 = 0 THEN hash_pair(D[l - 1][A[l - 1] + 1], path[l])
                ELSE hash_pair(path[l], D[l - 1][A[l - 1] + 1])
  <2> DEFINE a == A[l - 1]
             c == C(l - 1)
             s == D[l - 1]
  <2>1. l - 1 \in 0 .. R /\ l - 1 \in Nat /\ (l - 1) + 1 = l
    BY <1>1
  <2>2. a \in 0 .. c - 1 /\ c \in Nat /\ Row(s, c) /\ D[l] = Parents(s)
        /\ A[l] = a \div 2 /\ path[l] = s[1 + SiblingIn(c, a)]
    BY <1>3, <1>4, <1>5, <1>6, <1>7, <1>9, <2>1
  <2> HIDE DEF a, c, s
  <2> DEFINE j == a \div 2 + 1
  <2>3. /\ SiblingIn(c, a) \in 0 .. c - 1 /\ j \in 1 .. CeilHalf(c)
        /\ a % 2 = 0 => /\ 2 * j - 1 = a + 1
                        /\ (IF 2 * j <= c THEN 2 * j ELSE 2 * j - 1) = SiblingIn(c, a) + 1
        /\ a % 2 # 0 => /\ 2 * j - 1 = SiblingIn(c, a) + 1
                        /\ 2 * j <= c /\ 2 * j = a + 1
    BY <2>2, SiblingOf
  <2> HIDE DEF j
  <2>4. Parents(s)[j] = hash_pair(s[2 * j - 1], s[IF 2 * j <= c THEN 2 * j ELSE 2 * j - 1])
    BY <2>2, <2>3, ParentsRow
  <2>5. 1 + SiblingIn(c, a) = SiblingIn(c, a) + 1
    BY <2>3
  <2>6. CASE a % 2 = 0
    BY <2>2, <2>3, <2>4, <2>5, <2>6 DEF a, s, j
  <2>7. CASE a % 2 # 0
    BY <2>2, <2>3, <2>4, <2>5, <2>7 DEF a, s, j
  <2> QED
    BY <2>6, <2>7
<1>12. own[0] = leaves[i + 1]
  <2>1. 0 \in 0 .. R
    BY <1>1
  <2>2. own[0] = D[0][A[0] + 1]
    BY <2>1
  <2> HIDE DEF own
  <2> QED
    BY <1>3, <1>5, <2>2
<1>13. Is(own)
  <2>1. ASSUME NEW l \in 0 .. R, l # 0 PROVE own[l] = next(own, l)
    <3>1. l \in 1 .. R /\ l - 1 \in 0 .. R
      BY <1>1, <2>1
    <3>2. own[l - 1] = D[l - 1][A[l - 1] + 1] /\ own[l] = D[l][A[l] + 1]
      BY <3>1
    <3> HIDE DEF own
    <3> QED
      BY <1>11, <3>1, <3>2
  <2>2. own = [l \in 0 .. R |-> own[l]]
    OBVIOUS
  <2> HIDE DEF own, next
  <2>3. \A l \in 0 .. R : own[l] = IF l = 0 THEN leaves[i + 1] ELSE next(own, l)
    BY <1>12, <2>1
  <2> QED
    BY <2>2, <2>3
<1> DEFINE acc == CHOOSE f : Is(f)
<1>14. Is(acc)
  BY <1>13
<1>15. verify_merkle(leaves[i + 1], i, path, D[R][1]) = (acc[R] = D[R][1])
  BY <1>10 DEF verify_merkle, A
<1> HIDE DEF acc
<1>16. acc[0] = leaves[i + 1] /\ \A l \in 1 .. R : acc[l] = next(acc, l)
  <2>1. \A l \in 1 .. R : l \in 0 .. R /\ l # 0
    OBVIOUS
  <2> HIDE DEF next
  <2>2. 0 \in 0 .. R
    BY <1>1
  <2> QED
    BY <1>14, <2>1, <2>2
<1>17. \A l \in 0 .. R : acc[l] = D[l][A[l] + 1]
  <2> DEFINE Bad == {l \in 0 .. R : acc[l] # D[l][A[l] + 1]}
  <2> SUFFICES ASSUME Bad # {} PROVE FALSE
    OBVIOUS
  <2>1. PICK m \in Bad : \A k \in Bad : m <= k
    <3>1. Bad \in SUBSET Nat
      OBVIOUS
    <3> HIDE DEF Bad
    <3> QED
      BY <3>1, Least
  <2>2. m # 0
    BY <1>12, <1>16, <2>1
  <2>3. m \in 1 .. R /\ m - 1 \in 0 .. R
    BY <1>1, <2>1, <2>2
  <2>4. m - 1 \notin Bad
    <3> HIDE DEF Bad
    <3> QED
      BY <2>1, <2>3
  <2>5. acc[m - 1] = D[m - 1][A[m - 1] + 1]
    BY <2>3, <2>4
  <2>6. acc[m] = D[m][A[m] + 1]
    BY <1>11, <1>16, <2>3, <2>5
  <2> QED
    BY <2>1, <2>6
<1>18. A[R] = 0
  BY <1>1, <1>4
<1>19. acc[R] = D[R][1]
  <2>1. R \in 0 .. R /\ 0 + 1 = 1
    BY <1>1
  <2> QED
    BY <1>17, <1>18, <2>1
<1> QED
  BY <1>2, <1>8, <1>15, <1>19 DEF R

-----------------------------------------------------------------------------
(* Folding.                                                                *)

\* The nodes of a level from one place up to another.
Clip(level, lo, hi) == [b \in 1 .. Min({hi, Len(level)}) - lo |-> level[lo + b]]

\* The minimum of two numbers.
LEMMA MinOfTwo ==
  ASSUME NEW a \in Int, NEW b \in Int
  PROVE  Min({a, b}) = IF a <= b THEN a ELSE b
BY DEF Min

\* The next level above a part that begins and ends with a pair is a part of the next.
LEMMA ParentsOfPart ==
  ASSUME NEW c \in Nat, NEW level, Row(level, c), NEW lo \in Nat, NEW hi \in Nat,
         lo < hi, 2 * lo < c
  PROVE  Parents(Clip(level, 2 * lo, 2 * hi)) = Clip(Parents(level), lo, hi)
<1> DEFINE d == CeilHalf(c)
           m == Min({2 * hi, c}) - 2 * lo
           k == Min({hi, d}) - lo
           part == Clip(level, 2 * lo, 2 * hi)
           above == Clip(Parents(level), lo, hi)
<1>1. Len(level) = c /\ d \in Nat /\ 2 * d \in {c, c + 1}
  BY Halving DEF Row
<1>2. Row(Parents(level), d) /\ Len(Parents(level)) = d
  BY ParentsRow DEF Row
<1> HIDE DEF d
<1>3. m \in Nat /\ k \in Nat /\ CeilHalf(m) = k
  <2>1. /\ Min({2 * hi, c}) = IF 2 * hi <= c THEN 2 * hi ELSE c
        /\ Min({hi, d}) = IF hi <= d THEN hi ELSE d
    BY <1>1, MinOfTwo
  <2>2. m \in Nat /\ k \in Nat
    BY <1>1, <2>1
  <2>3. 2 * k \in {m, m + 1}
    BY <1>1, <2>1
  <2> HIDE DEF m, k
  <2> QED
    BY <2>2, <2>3 DEF CeilHalf
<1>4. /\ part = [b \in 1 .. m |-> level[2 * lo + b]]
      /\ above = [b \in 1 .. k |-> Parents(level)[lo + b]]
  BY <1>1, <1>2 DEF Clip
<1>5. k <= d - lo /\ k <= hi - lo /\ (m = 2 * hi - 2 * lo \/ m = c - 2 * lo)
      /\ m <= 2 * hi - 2 * lo /\ m <= c - 2 * lo
  <2>1. /\ Min({2 * hi, c}) = IF 2 * hi <= c THEN 2 * hi ELSE c
        /\ Min({hi, d}) = IF hi <= d THEN hi ELSE d
    BY <1>1, MinOfTwo
  <2> QED
    BY <1>1, <2>1
<1> HIDE DEF m, k, part, above
<1>6. part = [b \in 1 .. m |-> part[b]] /\ above = [b \in 1 .. k |-> above[b]]
  BY <1>4
<1>7. Row(part, m) /\ Row(above, k)
  BY <1>3, <1>6, RowOf
<1>8. Row(Parents(part), k)
  BY <1>3, <1>7, ParentsRow
<1>9. ASSUME NEW b \in 1 .. k PROVE Parents(part)[b] = above[b]
  <2>1. b \in 1 .. CeilHalf(m) /\ lo + b \in 1 .. CeilHalf(c)
    BY <1>1, <1>3, <1>5 DEF d
  <2>2. Parents(part)[b] = hash_pair(part[2 * b - 1], part[IF 2 * b <= m THEN 2 * b ELSE 2 * b - 1])
    BY <1>7, <2>1, ParentsRow
  <2>3. Parents(level)[lo + b] =
          hash_pair(level[2 * (lo + b) - 1],
                    level[IF 2 * (lo + b) <= c THEN 2 * (lo + b) ELSE 2 * (lo + b) - 1])
    BY <2>1, ParentsRow
  <2>4. 2 * k \in {m, m + 1}
    BY <1>3, Halving
  <2>5. /\ 2 * b - 1 \in 1 .. m /\ 2 * lo + (2 * b - 1) = 2 * (lo + b) - 1
        /\ 2 * b <= m => 2 * b \in 1 .. m
        /\ 2 * lo + 2 * b = 2 * (lo + b)
        /\ (2 * b <= m) = (2 * (lo + b) <= c)
    BY <1>1, <1>3, <1>5, <2>4
  <2>6. part[2 * b - 1] = level[2 * (lo + b) - 1]
    BY <1>4, <2>5
  <2>7. 2 * b <= m => part[2 * b] = level[2 * (lo + b)]
    BY <1>4, <2>5
  <2>8. above[b] = Parents(level)[lo + b]
    BY <1>4
  <2> QED
    BY <2>2, <2>3, <2>5, <2>6, <2>7, <2>8
<1>10. Parents(part) = above
  BY <1>7, <1>8, <1>9, RowsEqual
<1> QED
  BY <1>10 DEF part, above

\* Folding the batch of a node of the tree gives the node, also at the right edge.
LEMMA FoldIsDense ==
  ASSUME NEW n \in Nat \ {0}, NEW nodes, Row(nodes, n), NEW top \in Nat,
         NEW s \in Nat, NEW r \in Nat, s + r <= top,
         NEW x \in 0 .. count_at_level(n, s + r) - 1
  PROVE  /\ x * Power[r] < count_at_level(n, s)
         /\ fold_levels(Batch(Levels(nodes, top)[s], x, r), r)
              = Levels(nodes, top)[s + r][x + 1]
<1> DEFINE D == Levels(nodes, top)
           C(l) == count_at_level(n, l)
           batch == Batch(D[s], x, r)
           F == Levels(batch, r)
<1>1. C(0) = n /\ \A l \in Nat : C(l) \in Nat /\ C(l + 1) = CeilHalf(C(l))
  BY CountRecursion
<1>2. \A l \in 0 .. top : Row(D[l], C(l))
  BY LevelsRows
<1>3. \A l \in 1 .. top : D[l] = Parents(D[l - 1])
  BY LevelsRecursion
<1>4. F[0] = batch /\ \A k \in 1 .. r : F[k] = Parents(F[k - 1])
  BY LevelsRecursion
<1>5. \A l, k \in Nat : (C(l + k) - 1) * Power[k] < C(l)
  BY CountBounds
<1>6. \A l, k \in Nat : Power[k] \in Nat \ {0} /\ Power[k + 1] = 2 * Power[k]
  BY PowerRecursion
<1>7. s + r \in 0 .. top /\ s \in 0 .. top
  OBVIOUS
<1>8. batch = Clip(D[s], x * Power[r], (x + 1) * Power[r])
  <2>1. Power[r] \in Nat
    BY <1>6
  <2>2. \A u, v \in Nat : (u + 1) * v = u * v + v
    OBVIOUS
  <2>3. x \in Nat
    <3>1. C(s + r) \in Nat /\ x \in 0 .. C(s + r) - 1
      BY <1>1
    <3> HIDE DEF C
    <3> QED
      BY <3>1
  <2>4. (x + 1) * Power[r] = x * Power[r] + Power[r]
    BY <2>1, <2>2, <2>3
  <2> QED
    BY <2>4 DEF Batch, Clip
\* A node has nodes below it on every level.
<1>9. ASSUME NEW k \in 0 .. r PROVE x * Power[r - k] < C(s + k)
  <2>1. s + k \in Nat /\ r - k \in Nat /\ (s + k) + (r - k) = s + r
    OBVIOUS
  <2>2. (C(s + r) - 1) * Power[r - k] < C(s + k)
    BY <1>5, <2>1
  <2>3. x <= C(s + r) - 1 /\ C(s + r) \in Nat
    BY <1>1
  <2>4. \A u, v \in Int, p \in Nat : u <= v => u * p <= v * p
    OBVIOUS
  <2>5. x * Power[r - k] <= (C(s + r) - 1) * Power[r - k] /\ Power[r - k] \in Nat
    <3>1. Power[r - k] \in Nat
      BY <1>6, <2>1
    <3>2. C(s + r) - 1 \in Int
      BY <2>3
    <3> HIDE DEF C
    <3> QED
      BY <2>3, <2>4, <3>1, <3>2
  <2>6. x * Power[r - k] \in Int /\ (C(s + r) - 1) * Power[r - k] \in Int /\ C(s + k) \in Int
    BY <1>1, <2>1, <2>3, <2>5
  <2> QED
    BY <2>2, <2>5, <2>6
<1>10. x * Power[r] < C(s)
  <2>1. 0 \in 0 .. r /\ r - 0 = r /\ s + 0 = s
    OBVIOUS
  <2> QED
    BY <1>9, <2>1
<1> HIDE DEF D, C, batch, F
<1> DEFINE Bad == {k \in 0 .. r :
                     F[k] # Clip(D[s + k], x * Power[r - k], (x + 1) * Power[r - k])}
<1>11. Bad = {}
  <2> SUFFICES ASSUME Bad # {} PROVE FALSE
    OBVIOUS
  <2>1. PICK m \in Bad : \A k \in Bad : m <= k
    <3>1. Bad \in SUBSET Nat
      OBVIOUS
    <3> HIDE DEF Bad
    <3> QED
      BY <3>1, Least
  <2>2. m # 0
    <3>1. r - 0 = r /\ s + 0 = s
      OBVIOUS
    <3> QED
      BY <1>4, <1>8, <2>1, <3>1
  <2>3. m - 1 \in 0 .. r /\ m \in 1 .. r /\ (r - m) + 1 = r - (m - 1) /\ r - m \in Nat
        /\ s + m \in 1 .. top /\ (s + m) - 1 = s + (m - 1) /\ s + (m - 1) \in 0 .. top
    BY <1>7, <2>1, <2>2
  <2>4. m - 1 \notin Bad
    <3> HIDE DEF Bad
    <3> QED
      BY <2>1, <2>3
  <2> DEFINE p == Power[r - m]
             level == D[s + (m - 1)]
             c == C(s + (m - 1))
  <2>5. F[m - 1] = Clip(level, x * Power[r - (m - 1)], (x + 1) * Power[r - (m - 1)])
    BY <2>3, <2>4
  <2>6. p \in Nat \ {0} /\ Power[r - (m - 1)] = 2 * p
    BY <1>6, <2>3
  <2>7. Row(level, c) /\ c \in Nat
    BY <1>1, <1>2, <2>3
  <2>8. F[m] = Parents(F[m - 1]) /\ D[s + m] = Parents(level)
    BY <1>3, <1>4, <2>3
  <2>9. x * Power[r - (m - 1)] < c
    BY <1>9, <2>3
  <2> HIDE DEF p, level, c
  <2> DEFINE lo == x * p
             hi == (x + 1) * p
  <2>10. x * (2 * p) = 2 * lo /\ (x + 1) * (2 * p) = 2 * hi /\ lo \in Nat /\ hi \in Nat /\ lo < hi
    <3>1. (x + 1) * p = x * p + p /\ x * p \in Nat
      BY <2>6
    <3> QED
      BY <2>6, <3>1
  <2> HIDE DEF lo, hi
  <2>11. 2 * lo < c /\ F[m - 1] = Clip(level, 2 * lo, 2 * hi)
    BY <2>5, <2>6, <2>9, <2>10
  <2>12. F[m] = Clip(Parents(level), lo, hi)
    BY <2>7, <2>8, <2>10, <2>11, ParentsOfPart
  <2> QED
    BY <2>1, <2>8, <2>12 DEF lo, hi, p
<1>12. F[r] = Clip(D[s + r], x, x + 1)
  <2>1. r \in 0 .. r /\ r - r = 0 /\ Power[0] = 1 /\ x * 1 = x /\ (x + 1) * 1 = x + 1
    BY PowerRecursion
  <2> QED
    BY <1>11, <2>1
<1>13. F[r][1] = D[s + r][x + 1]
  <2>1. Len(D[s + r]) = C(s + r) /\ C(s + r) \in Nat
    BY <1>1, <1>2, <1>7 DEF Row
  <2>2. x \in 0 .. C(s + r) - 1
    BY DEF C
  <2>3. Min({x + 1, C(s + r)}) - x = 1
    BY <2>1, <2>2, MinOfTwo
  <2>4. Clip(D[s + r], x, x + 1) = [b \in 1 .. 1 |-> D[s + r][x + b]]
    BY <2>1, <2>3 DEF Clip
  <2> QED
    BY <1>12, <2>4
<1> QED
  BY <1>10, <1>13 DEF F, D, C, batch, fold_levels

-----------------------------------------------------------------------------
(* Where the checkpoints are.                                              *)

\* What a level takes in the file.
Stored(n, l) == IF IsCheckpoint(n, l) THEN count_at_level(n, l) ELSE 0

\* Offset is what its recursion says.
LEMMA OffsetRecursion ==
  ASSUME NEW n \in Nat
  PROVE  /\ Offset(n, 0) = 0
         /\ \A l \in Nat : /\ Offset(n, l) \in Nat /\ Stored(n, l) \in Nat
                           /\ Offset(n, l + 1) = Offset(n, l) + Stored(n, l)
<1>1. \A l \in Nat : Stored(n, l) \in Nat
  BY CountRecursion DEF Stored
<1> DEFINE g == [l \in Nat |-> [x \in Nat |-> x + Stored(n, l)]]
<1>2. Steps(g, Nat, Nat)
  BY <1>1 DEF Steps
<1>3. \A l \in Nat, x \in Nat : g[l][x] = x + Stored(n, l)
  OBVIOUS
<1> HIDE DEF g
<1>4. PICK f : Throughout(f, Nat, 0, g)
  BY <1>2, Recursion
<1>5. f \in [Nat -> Nat] /\ f[0] = 0 /\ \A l \in Nat : f[l + 1] = f[l] + Stored(n, l)
  BY <1>3, <1>4 DEF Throughout
<1> DEFINE Is(h) == h = [l \in Nat |-> IF l = 0 THEN 0 ELSE h[l - 1] + Stored(n, l - 1)]
<1>6. Is(f)
  <2>1. ASSUME NEW l \in Nat PROVE f[l] = IF l = 0 THEN 0 ELSE f[l - 1] + Stored(n, l - 1)
    <3>1. l # 0 => l - 1 \in Nat /\ (l - 1) + 1 = l
      OBVIOUS
    <3> QED
      BY <1>5, <3>1
  <2> QED
    BY <1>5, <2>1
<1> DEFINE offset == CHOOSE h : Is(h)
<1>7. Is(offset)
  BY <1>6
<1>8. \A l : Offset(n, l) = offset[l]
  BY DEF Offset, Stored
<1> HIDE DEF offset
<1>9. offset[0] = 0
  BY <1>7
<1>10. ASSUME NEW l \in Nat PROVE offset[l + 1] = offset[l] + Stored(n, l)
  <2>1. l + 1 \in Nat /\ l + 1 # 0 /\ (l + 1) - 1 = l
    OBVIOUS
  <2> QED
    BY <1>7, <2>1
<1> HIDE DEF Is
<1>11. \A l \in Nat : offset[l] \in Nat
  <2> DEFINE Bad == {l \in Nat : offset[l] \notin Nat}
  <2> SUFFICES ASSUME Bad # {} PROVE FALSE
    OBVIOUS
  <2>1. PICK m \in Bad : \A k \in Bad : m <= k
    BY Least
  <2>2. m # 0
    BY <1>9, <2>1
  <2>3. m - 1 \in Nat /\ m - 1 \notin Bad /\ (m - 1) + 1 = m
    BY <2>1, <2>2
  <2>4. offset[m - 1] \in Nat /\ offset[m] = offset[m - 1] + Stored(n, m - 1)
    BY <1>10, <2>3
  <2> QED
    BY <1>1, <2>1, <2>3, <2>4
<1> QED
  BY <1>1, <1>8, <1>9, <1>10, <1>11

\* A level begins after the lower ones.
LEMMA OffsetsGrow ==
  ASSUME NEW n \in Nat, NEW k \in Nat, NEW m \in Nat, k < m
  PROVE  Offset(n, k) + Stored(n, k) <= Offset(n, m)
<1> DEFINE O(l) == Offset(n, l)
           T(l) == Stored(n, l)
<1>1. \A l \in Nat : O(l) \in Nat /\ T(l) \in Nat /\ O(l + 1) = O(l) + T(l)
  BY OffsetRecursion
<1> HIDE DEF O, T
<1> DEFINE Bad == {l \in Nat : k < l /\ ~(O(k) + T(k) <= O(l))}
<1>2. Bad = {}
  <2> SUFFICES ASSUME Bad # {} PROVE FALSE
    OBVIOUS
  <2>1. PICK l \in Bad : \A j \in Bad : l <= j
    <3>1. Bad \in SUBSET Nat
      OBVIOUS
    <3> HIDE DEF Bad
    <3> QED
      BY <3>1, Least
  <2>2. l # k + 1
    BY <1>1, <2>1
  <2>3. l - 1 \in Nat /\ k < l - 1 /\ (l - 1) + 1 = l
    BY <2>1, <2>2
  <2>4. l - 1 \notin Bad
    <3>1. l \in Nat
      BY <2>1
    <3> HIDE DEF Bad
    <3> QED
      BY <2>1, <2>3, <3>1
  <2>5. O(k) + T(k) <= O(l - 1)
    BY <2>3, <2>4
  <2>6. O(l) = O(l - 1) + T(l - 1) /\ O(l - 1) \in Nat /\ T(l - 1) \in Nat
    BY <1>1, <2>3
  <2>7. O(k) + T(k) \in Nat
    BY <1>1
  <2>8. O(k) + T(k) <= O(l)
    BY <2>5, <2>6, <2>7
  <2> QED
    BY <2>1, <2>8
<1> QED
  BY <1>2 DEF O, T

\* With more than half a batch of leaves the first level in the file is the first
\* multiple of CheckpointInterval, as the build has it.
LEMMA CheckpointLevels ==
  ASSUME NEW n \in Nat, n > Power[CheckpointInterval - 1]
  PROVE  /\ n \in Nat \ {0} /\ CheckpointInterval \in 1 .. RootLevel(n)
         /\ Checkpoints(n) = {l \in CheckpointInterval .. RootLevel(n) :
                                l % CheckpointInterval = 0 \/ l = RootLevel(n)}
         /\ {CheckpointInterval, RootLevel(n)} \subseteq Checkpoints(n)
         /\ ~IsCheckpoint(n, 0)
         /\ Offset(n, CheckpointInterval) = 0
         /\ FirstLevelNodes(n) = count_at_level(n, CheckpointInterval)
<1> DEFINE K == CheckpointInterval
           R == RootLevel(n)
           C(l) == count_at_level(n, l)
<1>1. K \in Nat \ {0}
  BY TreeAssumption
<1>2. Power[K - 1] \in Nat \ {0} /\ n \in Nat \ {0}
  <2>1. K - 1 \in Nat
    BY <1>1
  <2> QED
    BY <2>1, PowerRecursion
<1>3. R \in Nat /\ C(R) = 1 /\ \A l \in 0 .. R - 1 : C(l) # 1
  BY <1>2, RootReached
<1>4. C(0) = n /\ \A l \in Nat : C(l) \in Nat \ {0}
  BY <1>2, CountRecursion, CountBounds
<1>5. K <= R
  <2>1. SUFFICES ASSUME R <= K - 1 PROVE FALSE
    BY <1>1, <1>3
  <2>2. n <= Power[R]
    <3>1. C(0) <= C(R) * Power[R]
      <4>1. 0 \in Nat /\ 0 + R = R
        BY <1>3
      <4>2. \A r \in Nat : C(0) <= C(0 + r) * Power[r]
        BY <1>2, <4>1, CountBounds
      <4> QED
        BY <1>3, <4>1, <4>2
    <3>2. Power[R] \in Nat
      BY <1>3, PowerRecursion
    <3> QED
      BY <1>3, <1>4, <3>1, <3>2
  <2>3. Power[R] \in Nat /\ (R = K - 1 \/ 2 * Power[R] <= Power[K - 1])
    <3>1. K - 1 \in Nat
      BY <1>1
    <3>2. R < K - 1 => 2 * Power[R] <= Power[K - 1]
      BY <1>3, <3>1, PowerGrows
    <3>3. Power[R] \in Nat
      BY <1>3, PowerRecursion
    <3> QED
      BY <1>3, <2>1, <3>1, <3>2, <3>3
  <2> QED
    BY <1>2, <2>2, <2>3
<1>6. ASSUME NEW l \in 0 .. R PROVE IsCheckpoint(n, l) <=> (l >= K /\ (l % K = 0 \/ l = R))
  <2>1. C(l) = 1 <=> l = R
    BY <1>3
  <2>2. l > 0 /\ l < K => l % K # 0
    BY <1>1
  <2> QED
    BY <1>1, <1>3, <1>5, <2>1, <2>2 DEF IsCheckpoint
<1>7. Checkpoints(n) = {l \in K .. R : l % K = 0 \/ l = R}
  <2>1. \A l : l \in K .. R <=> l \in 0 .. R /\ l >= K
    BY <1>1, <1>3
  <2> QED
    BY <1>6, <2>1 DEF Checkpoints
<1>8. K % K = 0
  BY <1>1
<1>9. ~IsCheckpoint(n, 0)
  BY <1>1, <1>3, <1>6
<1>10. Offset(n, K) = 0
  <2> DEFINE Bad == {l \in 0 .. K : Offset(n, l) # 0}
  <2> SUFFICES ASSUME Bad # {} PROVE FALSE
    BY <1>1
  <2>1. PICK m \in Bad : \A k \in Bad : m <= k
    <3>1. Bad \in SUBSET Nat
      OBVIOUS
    <3> HIDE DEF Bad
    <3> QED
      BY <3>1, Least
  <2>2. m # 0
    BY <2>1, OffsetRecursion
  <2>3. m - 1 \in 0 .. K /\ m - 1 \in 0 .. R /\ m - 1 \in Nat /\ (m - 1) + 1 = m /\ ~(m - 1 >= K)
    BY <1>1, <1>3, <1>5, <2>1, <2>2
  <2>4. m - 1 \notin Bad
    <3>1. m \in Nat
      BY <2>3
    <3> HIDE DEF Bad
    <3> QED
      BY <2>1, <2>3, <3>1
  <2>5. ~IsCheckpoint(n, m - 1)
    BY <1>6, <2>3
  <2>6. Offset(n, m) = Offset(n, m - 1) + 0
    BY <2>3, <2>5, OffsetRecursion DEF Stored
  <2>7. Offset(n, m - 1) = 0
    BY <2>3, <2>4
  <2> QED
    BY <2>1, <2>6, <2>7
<1>11. FirstLevelNodes(n) = C(K)
  <2> DEFINE P == Power[K]
             c == C(K)
             x == n + P - 1
             q == x \div P
  <2>1. P \in Nat \ {0} /\ c \in Nat \ {0}
    BY <1>1, <1>4, PowerRecursion
  <2>2. (c - 1) * P < n /\ n <= c * P
    <3>1. (C(K) - 1) * P < C(0) /\ C(0) <= C(K) * P
      <4>1. 0 \in Nat /\ 0 + K = K
        BY <1>1
      <4>2. \A r \in Nat : (C(0 + r) - 1) * Power[r] < C(0) /\ C(0) <= C(0 + r) * Power[r]
        BY <1>2, <4>1, CountBounds
      <4> QED
        BY <1>1, <4>1, <4>2
    <3> QED
      BY <1>4, <3>1
  <2>3. FirstLevelNodes(n) = q
    BY DEF FirstLevelNodes
  <2> HIDE DEF P, c
  <2>4. PICK t \in 0 .. P - 1 : x = P * q + t /\ q \in Int
    <3>1. x \in Int
      BY <2>1
    <3> HIDE DEF x
    <3> QED
      BY <2>1, <3>1
  <2> HIDE DEF q
  <2>5. ASSUME q < c PROVE FALSE
    <3>1. P * q <= P * (c - 1)
      BY <2>1, <2>4, <2>5
    <3>2. P * (c - 1) = (c - 1) * P /\ P * (c - 1) \in Int /\ P * q \in Int
      BY <2>1, <2>4
    <3> QED
      BY <2>1, <2>2, <2>4, <3>1, <3>2
  <2>6. ASSUME c < q PROVE FALSE
    <3>1. P * (c + 1) <= P * q
      BY <2>1, <2>4, <2>6
    <3>2. P * (c + 1) = c * P + P /\ c * P \in Int /\ P * q \in Int
      BY <2>1, <2>4
    <3> QED
      BY <2>1, <2>2, <2>4, <3>1, <3>2
  <2>7. q = c
    BY <2>1, <2>4, <2>5, <2>6
  <2> QED
    BY <2>3, <2>7 DEF c
<1> QED
  BY <1>1, <1>2, <1>3, <1>5, <1>7, <1>8, <1>9, <1>10, <1>11

\* The levels of the file: which place belongs to which.
LEMMA PlacesOfLevels ==
  ASSUME NEW n \in Nat \ {0}
  PROVE  /\ ExpectedSize(n) \in Nat
         /\ \A c \in Checkpoints(n) :
              /\ c \in 0 .. RootLevel(n) /\ c \in Nat /\ Offset(n, c) \in Nat
              /\ Offset(n, c) + count_at_level(n, c) <= ExpectedSize(n)
         /\ \A c, d \in Checkpoints(n) :
              c < d => Offset(n, c) + count_at_level(n, c) <= Offset(n, d)
<1> DEFINE R == RootLevel(n)
<1>1. R \in Nat /\ count_at_level(n, R) = 1
  BY RootReached
<1>2. ExpectedSize(n) = Offset(n, R) + 1 /\ Offset(n, R) \in Nat
  BY <1>1, OffsetRecursion DEF ExpectedSize
<1>3. ASSUME NEW c \in Checkpoints(n)
      PROVE  /\ c \in 0 .. R /\ c \in Nat /\ Offset(n, c) \in Nat
             /\ Stored(n, c) = count_at_level(n, c) /\ count_at_level(n, c) \in Nat
  <2>1. c \in 0 .. R /\ IsCheckpoint(n, c)
    BY DEF Checkpoints
  <2>2. c \in Nat
    BY <1>1, <2>1
  <2> QED
    BY <2>1, <2>2, OffsetRecursion, CountRecursion DEF Stored
<1>4. ASSUME NEW c \in Checkpoints(n), NEW m \in 0 .. R, c < m
      PROVE  Offset(n, c) + count_at_level(n, c) <= Offset(n, m)
  <2>1. m \in Nat
    BY <1>1
  <2>2. Offset(n, c) + Stored(n, c) <= Offset(n, m)
    BY <1>3, <1>4, <2>1, OffsetsGrow
  <2> QED
    BY <1>3, <2>2
<1>5. ASSUME NEW c \in Checkpoints(n)
      PROVE  Offset(n, c) + count_at_level(n, c) <= ExpectedSize(n)
  <2>1. CASE c = R
    BY <1>1, <1>2, <2>1
  <2>2. CASE c # R
    <3>1. R \in 0 .. R /\ c < R
      BY <1>1, <1>3, <2>2
    <3>2. Offset(n, c) + count_at_level(n, c) <= Offset(n, R)
      BY <1>4, <3>1
    <3>3. Offset(n, c) + count_at_level(n, c) \in Nat
      BY <1>3
    <3> QED
      BY <1>2, <3>2, <3>3
  <2> QED
    BY <2>1, <2>2
<1>6. ExpectedSize(n) \in Nat
  BY <1>2
<1> QED
  BY <1>3, <1>4, <1>5, <1>6

\* Every place below the expected size is in one level.
LEMMA PlaceHasLevel ==
  ASSUME NEW n \in Nat \ {0}, NEW p \in 0 .. ExpectedSize(n) - 1
  PROVE  /\ \E c \in Checkpoints(n) : p - Offset(n, c) \in 0 .. count_at_level(n, c) - 1
         /\ \A c, d \in Checkpoints(n) :
              /\ p - Offset(n, c) \in 0 .. count_at_level(n, c) - 1
              /\ p - Offset(n, d) \in 0 .. count_at_level(n, d) - 1
              => c = d
<1> DEFINE R == RootLevel(n)
<1>1. R \in Nat /\ count_at_level(n, R) = 1
  BY RootReached
<1>2. ExpectedSize(n) = Offset(n, R) + 1 /\ Offset(n, 0) = 0
  BY <1>1, OffsetRecursion DEF ExpectedSize
<1>3. \A l \in 0 .. R : /\ l \in Nat /\ Offset(n, l) \in Nat /\ Stored(n, l) \in Nat
                        /\ Offset(n, l + 1) = Offset(n, l) + Stored(n, l)
                        /\ count_at_level(n, l) \in Nat
  <2>1. \A l \in 0 .. R : l \in Nat
    BY <1>1
  <2> QED
    BY <2>1, OffsetRecursion, CountRecursion
<1>4. p \in Nat /\ p <= Offset(n, R)
  BY <1>1, <1>2, <1>3
<1> DEFINE S == {l \in 0 .. R : Offset(n, l) <= p}
<1>5. S \in SUBSET (0 .. R) /\ S # {}
  BY <1>1, <1>2, <1>4
<1>6. PICK c \in S : \A l \in S : l <= c
  <2> HIDE DEF S
  <2> QED
    BY <1>1, <1>5, Greatest
<1>7. c \in 0 .. R /\ Offset(n, c) <= p
  BY <1>6
<1>8. c \in Checkpoints(n) /\ p < Offset(n, c) + count_at_level(n, c)
  <2>1. CASE c = R
    <3>1. IsCheckpoint(n, c)
      BY <1>1, <2>1 DEF IsCheckpoint
    <3>2. Offset(n, c) \in Nat
      BY <1>3, <1>7
    <3> QED
      BY <1>1, <1>4, <1>7, <2>1, <3>1, <3>2 DEF Checkpoints
  <2>2. CASE c # R
    <3>1. c + 1 \in 0 .. R /\ ~(c + 1 <= c)
      BY <1>1, <1>7, <2>2
    <3>2. c + 1 \notin S
      <4> HIDE DEF S
      <4> QED
        BY <1>6, <3>1
    <3>3. ~(Offset(n, c + 1) <= p)
      BY <3>1, <3>2
    <3>4. /\ Offset(n, c + 1) = Offset(n, c) + Stored(n, c)
          /\ Offset(n, c) \in Nat /\ Stored(n, c) \in Nat
      BY <1>3, <1>7
    <3>5. Stored(n, c) # 0 /\ p < Offset(n, c) + Stored(n, c)
      BY <1>4, <1>7, <3>3, <3>4
    <3> QED
      BY <1>7, <3>5 DEF Stored, Checkpoints
  <2> QED
    BY <2>1, <2>2
<1>9. p - Offset(n, c) \in 0 .. count_at_level(n, c) - 1
  BY <1>3, <1>4, <1>7, <1>8
<1>10. ASSUME NEW d \in Checkpoints(n), NEW e \in Checkpoints(n),
              p - Offset(n, d) \in 0 .. count_at_level(n, d) - 1,
              p - Offset(n, e) \in 0 .. count_at_level(n, e) - 1, d < e
       PROVE  FALSE
  <2>1. Offset(n, d) + count_at_level(n, d) <= Offset(n, e)
    BY <1>10, PlacesOfLevels
  <2>2. /\ Offset(n, d) \in Nat /\ Offset(n, e) \in Nat
        /\ count_at_level(n, d) \in Nat /\ count_at_level(n, e) \in Nat
    BY <1>3, PlacesOfLevels
  <2> QED
    BY <1>4, <1>10, <2>1, <2>2
<1>11. \A d \in Checkpoints(n) : d \in Nat
  BY PlacesOfLevels
<1> QED
  BY <1>8, <1>9, <1>10, <1>11

-----------------------------------------------------------------------------
(* The chunks of the tensors.                                              *)

Tensors == Seq([at : Nat, size : Nat])

\* A tensor of a GGUF begins somewhere and has some number of chunks.
LEMMA TensorChunks ==
  ASSUME NEW tensors \in Tensors, NEW j \in 1 .. Len(tensors)
  PROVE  Chunks(tensors[j]) \in Nat /\ tensors[j].at \in Nat
<1> DEFINE S == [at : Nat, size : Nat]
<1>1. tensors[j] \in S
  <2>1. tensors \in Seq(S)
    BY DEF Tensors
  <2> HIDE DEF S
  <2> QED
    BY <2>1, ElementOfSeq
<1>2. ChunkSize \in Nat \ {0}
  BY TreeAssumption
<1>3. tensors[j].at \in Nat /\ tensors[j].size \in Nat
  BY <1>1
<1>4. \A x \in Nat : x \div ChunkSize \in Nat
  BY <1>2
<1> QED
  BY <1>3, <1>4 DEF Chunks

\* ChunksUpTo is what its recursion says.
LEMMA ChunksRecursion ==
  ASSUME NEW tensors \in Tensors
  PROVE  /\ Len(tensors) \in Nat /\ ChunksUpTo(tensors)[0] = 0
         /\ \A j \in 0 .. Len(tensors) : ChunksUpTo(tensors)[j] \in Nat
         /\ \A j \in 1 .. Len(tensors) :
              ChunksUpTo(tensors)[j] = ChunksUpTo(tensors)[j - 1] + Chunks(tensors[j])
<1> DEFINE T == Len(tensors)
           g == [j \in 1 .. T |-> [x \in Nat |-> x + Chunks(tensors[j])]]
           Is(h) == h = [j \in 0 .. T |-> IF j = 0 THEN 0 ELSE h[j - 1] + Chunks(tensors[j])]
           sum == CHOOSE h : Is(h)
<1>1. T \in Nat
  BY DEF Tensors
<1>2. ChunksUpTo(tensors) = sum
  BY DEF ChunksUpTo
<1>3. \A j \in 1 .. T : Chunks(tensors[j]) \in Nat
  BY TensorChunks
<1> HIDE DEF T
<1>4. Steps(g, 1 .. T, Nat)
  BY <1>3 DEF Steps
<1>5. \A j \in 1 .. T, x \in Nat : g[j][x] = x + Chunks(tensors[j])
  OBVIOUS
<1> HIDE DEF g
<1>6. PICK f : UpTo(f, T, Nat, 0, g)
  BY <1>1, <1>4, RecursionUpTo
<1>7. Is(f)
  <2>1. f \in [0 .. T -> Nat] /\ f[0] = 0
    BY <1>6 DEF UpTo
  <2>2. ASSUME NEW j \in 0 .. T, j # 0 PROVE f[j] = f[j - 1] + Chunks(tensors[j])
    <3>1. j \in 1 .. T /\ j - 1 \in 0 .. T
      BY <1>1, <2>2
    <3> QED
      BY <1>5, <1>6, <2>1, <3>1 DEF UpTo
  <2> QED
    BY <2>1, <2>2
<1>8. Is(sum)
  BY <1>7
<1> HIDE DEF sum
<1>9. sum[0] = 0
  <2>1. 0 \in 0 .. T
    BY <1>1
  <2> QED
    BY <1>8, <2>1
<1>10. \A j \in 1 .. T : sum[j] = sum[j - 1] + Chunks(tensors[j])
  <2>1. \A j \in 1 .. T : j \in 0 .. T /\ j # 0
    OBVIOUS
  <2> QED
    BY <1>8, <2>1
<1> HIDE DEF Is
<1>11. \A j \in 0 .. T : sum[j] \in Nat
  <2> DEFINE Bad == {j \in 0 .. T : sum[j] \notin Nat}
  <2> SUFFICES ASSUME Bad # {} PROVE FALSE
    OBVIOUS
  <2>1. PICK m \in Bad : \A k \in Bad : m <= k
    <3>1. Bad \in SUBSET Nat
      OBVIOUS
    <3> HIDE DEF Bad
    <3> QED
      BY <3>1, Least
  <2>2. m # 0
    BY <1>9, <2>1
  <2>3. m \in 1 .. T /\ m - 1 \in 0 .. T
    BY <1>1, <2>1, <2>2
  <2>4. m - 1 \notin Bad
    <3> HIDE DEF Bad
    <3> QED
      BY <2>1, <2>3
  <2>5. sum[m - 1] \in Nat /\ sum[m] = sum[m - 1] + Chunks(tensors[m])
    BY <1>10, <2>3, <2>4
  <2> QED
    BY <1>3, <2>1, <2>3, <2>5
<1> QED
  BY <1>1, <1>2, <1>9, <1>10, <1>11 DEF T

\* A tensor begins after the ones before it.
LEMMA ChunksGrow ==
  ASSUME NEW tensors \in Tensors,
         NEW i \in 0 .. Len(tensors), NEW j \in 0 .. Len(tensors), i <= j
  PROVE  ChunksUpTo(tensors)[i] <= ChunksUpTo(tensors)[j]
<1> DEFINE T == Len(tensors)
           U == ChunksUpTo(tensors)
           Bad == {k \in 0 .. T : i <= k /\ ~(U[i] <= U[k])}
<1>1. T \in Nat /\ \A k \in 0 .. T : U[k] \in Nat
  BY ChunksRecursion
<1>2. \A k \in 1 .. T : U[k] = U[k - 1] + Chunks(tensors[k]) /\ Chunks(tensors[k]) \in Nat
  BY ChunksRecursion, TensorChunks
<1> HIDE DEF T, U
<1>3. Bad = {}
  <2> SUFFICES ASSUME Bad # {} PROVE FALSE
    OBVIOUS
  <2>1. PICK m \in Bad : \A k \in Bad : m <= k
    <3>1. Bad \in SUBSET Nat
      OBVIOUS
    <3> HIDE DEF Bad
    <3> QED
      BY <3>1, Least
  <2>2. i \in 0 .. T /\ U[i] \in Nat
    BY <1>1 DEF T
  <2>3. m # i
    BY <2>1, <2>2
  <2>4. m \in 1 .. T /\ m - 1 \in 0 .. T /\ i <= m - 1
    BY <1>1, <2>1, <2>2, <2>3
  <2>5. m - 1 \notin Bad
    <3> HIDE DEF Bad
    <3> QED
      BY <2>1, <2>4
  <2>6. U[i] <= U[m - 1] /\ U[m] = U[m - 1] + Chunks(tensors[m])
    BY <1>2, <2>4, <2>5
  <2>7. U[m - 1] \in Nat /\ Chunks(tensors[m]) \in Nat
    BY <1>1, <1>2, <2>4
  <2>8. U[i] <= U[m]
    BY <2>2, <2>6, <2>7
  <2> QED
    BY <2>1, <2>8
<1> QED
  BY <1>3 DEF T, U

\* Two sequences in one.
LEMMA Joined ==
  ASSUME NEW S, NEW s \in Seq(S), NEW t \in Seq(S)
  PROVE  /\ \A i \in 1 .. Len(s) : (s \o t)[i] = s[i]
         /\ \A i \in 1 .. Len(t) : (s \o t)[Len(s) + i] = t[i]
OBVIOUS

\* What leaves and chunks are made of.
LeafValues == {blake(x) : x \in Nat}

\* The leaves are the chunks of the tensors, one tensor after the other.
LEMMA LeavesInOrder ==
  ASSUME NEW tensors \in Tensors
  PROVE  /\ Leaves(tensors) \in Seq(LeafValues) /\ Len(Leaves(tensors)) = n_chunks(tensors)
         /\ \A k \in 1 .. Len(tensors) : \A c \in 1 .. Chunks(tensors[k]) :
              Leaves(tensors)[ChunksUpTo(tensors)[k - 1] + c]
                = blake(tensors[k].at + (c - 1) * ChunkSize)
<1> DEFINE T == Len(tensors)
           U == ChunksUpTo(tensors)
           own(j) == TensorLeaves(tensors[j])
           g == [j \in 1 .. T |-> [x \in Seq(LeafValues) |-> x \o own(j)]]
           Is(h) == h = [j \in 0 .. T |-> IF j = 0 THEN <<>> ELSE h[j - 1] \o own(j)]
           leaves == CHOOSE h : Is(h)
<1>1. T \in Nat /\ U[0] = 0 /\ \A k \in 0 .. T : U[k] \in Nat
  BY ChunksRecursion
<1>2. \A k \in 1 .. T : U[k] = U[k - 1] + Chunks(tensors[k]) /\ Chunks(tensors[k]) \in Nat
  BY ChunksRecursion, TensorChunks
<1>3. ASSUME NEW j \in 1 .. T
      PROVE  /\ own(j) \in Seq(LeafValues) /\ Len(own(j)) = Chunks(tensors[j])
             /\ \A c \in 1 .. Chunks(tensors[j]) :
                  own(j)[c] = blake(tensors[j].at + (c - 1) * ChunkSize)
  <2> DEFINE m == Chunks(tensors[j])
             at == tensors[j].at
  <2>1. m \in Nat /\ at \in Nat /\ ChunkSize \in Nat
    BY TensorChunks, TreeAssumption
  <2>2. own(j) = [c \in 1 .. m |-> blake(at + (c - 1) * ChunkSize)]
    BY DEF TensorLeaves
  <2> HIDE DEF m, at
  <2>3. \A c \in 1 .. m : at + (c - 1) * ChunkSize \in Nat
    <3>1. \A x \in Nat : x * ChunkSize \in Nat
      BY <2>1
    <3>2. \A c \in 1 .. m : c - 1 \in Nat
      BY <2>1
    <3> QED
      BY <2>1, <3>1, <3>2
  <2>4. own(j) \in [1 .. m -> LeafValues]
    BY <2>2, <2>3 DEF LeafValues
  <2>5. own(j) \in Seq(LeafValues)
    BY <2>1, <2>4, SeqDef
  <2>6. own(j) = [c \in 1 .. m |-> own(j)[c]]
    BY <2>2
  <2>7. Len(own(j)) = m
    BY <2>1, <2>6, RowOf DEF Row
  <2> QED
    BY <2>2, <2>5, <2>7 DEF m, at
<1>4. Leaves(tensors) = leaves[T]
  BY DEF Leaves
<1>5. n_chunks(tensors) = U[T]
  BY DEF n_chunks
<1> HIDE DEF T, U, own
<1>6. Steps(g, 1 .. T, Seq(LeafValues)) /\ <<>> \in Seq(LeafValues)
  <2>1. \A j \in 1 .. T, x \in Seq(LeafValues) : x \o own(j) \in Seq(LeafValues)
    BY <1>3
  <2> QED
    BY <2>1 DEF Steps
<1>7. \A j \in 1 .. T, x \in Seq(LeafValues) : g[j][x] = x \o own(j)
  OBVIOUS
<1> HIDE DEF g
<1>8. PICK f : UpTo(f, T, Seq(LeafValues), <<>>, g)
  BY <1>1, <1>6, RecursionUpTo
<1>9. Is(f)
  <2>1. f \in [0 .. T -> Seq(LeafValues)] /\ f[0] = <<>>
    BY <1>8 DEF UpTo
  <2>2. ASSUME NEW j \in 0 .. T, j # 0 PROVE f[j] = f[j - 1] \o own(j)
    <3>1. j \in 1 .. T /\ j - 1 \in 0 .. T
      BY <1>1, <2>2
    <3>2. f[j - 1] \in Seq(LeafValues)
      BY <2>1, <3>1
    <3> QED
      BY <1>7, <1>8, <3>1, <3>2 DEF UpTo
  <2> QED
    BY <2>1, <2>2
<1>10. Is(leaves)
  BY <1>9
<1> HIDE DEF leaves
<1>11. leaves[0] = <<>>
  <2>1. 0 \in 0 .. T
    BY <1>1
  <2> QED
    BY <1>10, <2>1
<1>12. \A j \in 1 .. T : leaves[j] = leaves[j - 1] \o own(j)
  <2>1. \A j \in 1 .. T : j \in 0 .. T /\ j # 0
    OBVIOUS
  <2> QED
    BY <1>10, <2>1
<1> HIDE DEF Is
<1> DEFINE Good(j) == /\ leaves[j] \in Seq(LeafValues) /\ Len(leaves[j]) = U[j]
                      /\ \A k \in 1 .. j : \A c \in 1 .. Chunks(tensors[k]) :
                           leaves[j][U[k - 1] + c] = blake(tensors[k].at + (c - 1) * ChunkSize)
           Bad == {j \in 0 .. T : ~Good(j)}
<1>13. Bad = {}
  <2> SUFFICES ASSUME Bad # {} PROVE FALSE
    OBVIOUS
  <2>1. PICK m \in Bad : \A k \in Bad : m <= k
    <3>1. Bad \in SUBSET Nat
      OBVIOUS
    <3> HIDE DEF Bad
    <3> QED
      BY <3>1, Least
  <2>2. m # 0
    <3>1. Good(0)
      BY <1>1, <1>11
    <3> HIDE DEF Good
    <3> QED
      BY <2>1, <3>1
  <2>3. m \in 1 .. T /\ m - 1 \in 0 .. T /\ m \in 0 .. T /\ m \in Nat
    BY <1>1, <2>1, <2>2
  <2>4. m - 1 \notin Bad
    <3> HIDE DEF Bad
    <3> QED
      BY <2>1, <2>3
  <2>5. Good(m - 1)
    <3> HIDE DEF Good
    <3> QED
      BY <2>3, <2>4
  <2> DEFINE s == leaves[m - 1]
             o == own(m)
  <2>6. /\ s \in Seq(LeafValues) /\ Len(s) = U[m - 1]
        /\ o \in Seq(LeafValues) /\ Len(o) = Chunks(tensors[m])
        /\ leaves[m] = s \o o
    BY <1>3, <1>12, <2>3, <2>5
  <2>7. U[m] = U[m - 1] + Chunks(tensors[m]) /\ U[m - 1] \in Nat /\ Chunks(tensors[m]) \in Nat
    BY <1>1, <1>2, <2>3
  <2>8. leaves[m] \in Seq(LeafValues) /\ Len(leaves[m]) = U[m]
    BY <2>6, <2>7
  <2>9. ASSUME NEW k \in 1 .. m, NEW c \in 1 .. Chunks(tensors[k])
        PROVE  leaves[m][U[k - 1] + c] = blake(tensors[k].at + (c - 1) * ChunkSize)
    <3>1. k \in 1 .. T /\ k - 1 \in 0 .. T
      BY <1>1, <2>3
    <3>2. /\ U[k] = U[k - 1] + Chunks(tensors[k]) /\ U[k - 1] \in Nat
          /\ Chunks(tensors[k]) \in Nat /\ c \in Nat \ {0} /\ U[k] \in Nat
      BY <1>1, <1>2, <3>1
    <3>3. CASE k = m
      <4>1. c \in 1 .. Len(o)
        BY <2>6, <3>3
      <4>2. leaves[m][Len(s) + c] = o[c]
        <5> HIDE DEF s, o, Bad
        <5> QED
          BY <2>6, <4>1, Joined
      <4>3. o[c] = blake(tensors[k].at + (c - 1) * ChunkSize)
        BY <1>3, <2>3, <3>3
      <4> QED
        BY <2>6, <3>3, <4>2, <4>3
    <3>4. CASE k # m
      <4>1. k \in 1 .. m - 1
        BY <2>3, <3>4
      <4>2. U[k] <= U[m - 1]
        <5>1. k \in 0 .. T /\ k <= m - 1
          BY <2>3, <3>1, <4>1
        <5> QED
          BY <2>3, <5>1, ChunksGrow DEF T, U
      <4>3. U[k - 1] + c \in 1 .. Len(s)
        <5>1. c <= Chunks(tensors[k])
          OBVIOUS
        <5>2. Len(s) = U[m - 1]
          BY <2>6
        <5> HIDE DEF s, o, Bad
        <5> QED
          BY <2>7, <3>2, <4>2, <5>1, <5>2
      <4>4. leaves[m][U[k - 1] + c] = s[U[k - 1] + c]
        <5> HIDE DEF s, o, Bad
        <5> QED
          BY <2>6, <4>3, Joined
      <4> QED
        BY <2>5, <4>1, <4>4
    <3> QED
      BY <3>3, <3>4
  <2>10. Good(m)
    BY <2>8, <2>9
  <2> HIDE DEF Good
  <2> QED
    BY <2>1, <2>10
<1>14. Good(T)
  <2> HIDE DEF Good
  <2>1. T \in 0 .. T
    BY <1>1
  <2> QED
    BY <1>13, <2>1
<1> QED
  BY <1>4, <1>5, <1>14 DEF T, U

\* There are as many leaves as chunks.
LEMMA LeavesRow ==
  ASSUME NEW tensors \in Tensors
  PROVE  Row(Leaves(tensors), n_chunks(tensors)) /\ n_chunks(tensors) \in Nat
<1>1. Leaves(tensors) \in Seq(LeafValues) /\ Len(Leaves(tensors)) = n_chunks(tensors)
  BY LeavesInOrder
<1> DEFINE s == Leaves(tensors)
           n == n_chunks(tensors)
<1> HIDE DEF s, n
<1>2. s \in Seq(LeafValues) /\ Len(s) = n
  BY <1>1 DEF s, n
<1>3. n \in Nat /\ s = [i \in 1 .. n |-> s[i]]
  BY <1>2
<1> QED
  BY <1>2, <1>3 DEF Row, s, n

\* A chunk is read from where its leaf was hashed, whatever tensor it is in.
LEMMA ChunkOfLeaf ==
  ASSUME NEW tensors \in Tensors, NEW off \in 0 .. n_chunks(tensors) - 1
  PROVE  /\ blake(read_chunk(tensors, off)) = Leaves(tensors)[off + 1]
         /\ read_chunk(tensors, off) \in Nat
<1> DEFINE T == Len(tensors)
           U == ChunksUpTo(tensors)
<1>1. T \in Nat /\ U[0] = 0 /\ \A k \in 0 .. T : U[k] \in Nat
  BY ChunksRecursion
<1>2. \A k \in 1 .. T : /\ U[k] = U[k - 1] + Chunks(tensors[k]) /\ Chunks(tensors[k]) \in Nat
                        /\ tensors[k].at \in Nat
  BY ChunksRecursion, TensorChunks
<1>3. \A i, j \in 0 .. T : i <= j => U[i] <= U[j]
  BY ChunksGrow
<1>4. DOMAIN tensors = 1 .. T
  BY DEF Tensors
<1>5. off \in Nat /\ off < U[T]
  BY <1>1 DEF n_chunks
<1>6. \A k \in 1 .. T : \A c \in 1 .. Chunks(tensors[k]) :
        Leaves(tensors)[U[k - 1] + c] = blake(tensors[k].at + (c - 1) * ChunkSize)
  BY LeavesInOrder
<1>7. ChunkSize \in Nat
  BY TreeAssumption
<1> DEFINE table == {[start |-> U[j - 1], at |-> tensors[j].at] :
                       j \in {i \in 1 .. T : Chunks(tensors[i]) > 0}}
           reached == {e \in table : e.start <= off}
           last == CHOOSE e \in reached : \A d \in reached : d.start <= e.start
<1>8. read_chunk(tensors, off) = last.at + (off - last.start) * ChunkSize
  BY <1>4 DEF read_chunk, Table
<1> HIDE DEF T, U
\* The tensor with the chunk.
<1>9. PICK j \in 1 .. T : U[j - 1] <= off /\ off < U[j]
  <2> DEFINE S == {k \in 0 .. T : off < U[k]}
  <2>1. S \in SUBSET Nat /\ S # {}
    BY <1>1, <1>5
  <2>2. PICK k \in S : \A i \in S : k <= i
    <3> HIDE DEF S
    <3> QED
      BY <2>1, Least
  <2>3. k \in 1 .. T /\ k - 1 \in 0 .. T
    BY <1>1, <1>5, <2>2
  <2>4. k - 1 \notin S
    <3> HIDE DEF S
    <3> QED
      BY <2>2, <2>3
  <2>5. U[k - 1] \in Nat /\ ~(off < U[k - 1])
    BY <1>1, <2>3, <2>4
  <2> QED
    BY <1>5, <2>2, <2>3, <2>5
<1>10. /\ j - 1 \in 0 .. T /\ j \in 0 .. T /\ U[j - 1] \in Nat /\ Chunks(tensors[j]) \in Nat
       /\ U[j] = U[j - 1] + Chunks(tensors[j]) /\ Chunks(tensors[j]) > 0
  <2>1. j - 1 \in 0 .. T /\ j \in 0 .. T
    BY <1>1
  <2>2. U[j - 1] \in Nat /\ Chunks(tensors[j]) \in Nat /\ U[j] = U[j - 1] + Chunks(tensors[j])
    BY <1>1, <1>2, <2>1
  <2> QED
    BY <1>5, <1>9, <2>1, <2>2
<1> DEFINE entry == [start |-> U[j - 1], at |-> tensors[j].at]
<1>11. entry \in reached
  BY <1>9, <1>10
\* Another one that has begun ends before it.
<1>12. ASSUME NEW e \in reached, e # entry PROVE e.start < entry.start
  <2>1. PICK k \in 1 .. T : /\ Chunks(tensors[k]) > 0 /\ U[k - 1] <= off
                            /\ e = [start |-> U[k - 1], at |-> tensors[k].at]
    OBVIOUS
  <2>2. k # j
    BY <1>12, <2>1
  <2>3. k - 1 \in 0 .. T /\ k \in 0 .. T /\ k \in Nat /\ j \in Nat
    BY <1>1
  <2>4. U[k - 1] \in Nat /\ U[k] = U[k - 1] + Chunks(tensors[k]) /\ Chunks(tensors[k]) \in Nat
    BY <1>1, <1>2, <2>3
  <2>5. k < j
    <3>1. SUFFICES ASSUME j <= k - 1 PROVE FALSE
      BY <2>2, <2>3
    <3>2. U[j] <= U[k - 1]
      BY <1>3, <1>10, <2>3, <3>1
    <3>3. U[j] \in Nat
      BY <1>1, <1>10
    <3> QED
      BY <1>5, <1>9, <2>1, <2>4, <3>2, <3>3
  <2>6. U[k] <= U[j - 1]
    <3>1. k <= j - 1
      BY <2>3, <2>5
    <3> QED
      BY <1>3, <1>10, <2>3, <3>1
  <2>7. U[k - 1] < U[j - 1]
    BY <1>10, <2>1, <2>4, <2>6
  <2> QED
    BY <2>1, <2>7
<1>13. last = entry
  <2>1. entry.start \in Nat
    BY <1>10
  <2> HIDE DEF entry, reached
  <2>2. \A d \in reached : d.start <= entry.start
    <3>1. SUFFICES ASSUME NEW d \in reached, d # entry PROVE d.start <= entry.start
      BY <2>1
    <3>2. d.start < entry.start
      BY <1>12, <3>1
    <3>3. d.start \in Nat
      <4>1. PICK k \in 1 .. T : d = [start |-> U[k - 1], at |-> tensors[k].at]
        BY <3>1 DEF reached
      <4>2. k - 1 \in 0 .. T
        BY <1>1
      <4> QED
        BY <1>1, <4>1, <4>2
    <3> QED
      BY <2>1, <3>2, <3>3
  <2>3. last \in reached /\ \A d \in reached : d.start <= last.start
    BY <1>11, <2>2
  <2> HIDE DEF last
  <2>4. ASSUME last # entry PROVE FALSE
    <3>1. last.start < entry.start
      BY <1>12, <2>3, <2>4
    <3>2. entry.start <= last.start
      BY <1>11, <2>3
    <3>3. last.start \in Nat
      <4>1. PICK k \in 1 .. T : last = [start |-> U[k - 1], at |-> tensors[k].at]
        BY <2>3 DEF reached
      <4>2. k - 1 \in 0 .. T
        BY <1>1
      <4> QED
        BY <1>1, <4>1, <4>2
    <3> QED
      BY <2>1, <3>1, <3>2, <3>3
  <2> QED
    BY <2>4
<1> DEFINE c == off - U[j - 1] + 1
<1>14. c \in 1 .. Chunks(tensors[j]) /\ U[j - 1] + c = off + 1 /\ c - 1 = off - U[j - 1]
       /\ off - U[j - 1] \in Nat
  BY <1>5, <1>9, <1>10
<1>15. Leaves(tensors)[off + 1] = blake(tensors[j].at + (off - U[j - 1]) * ChunkSize)
  <2> HIDE DEF c
  <2>1. Leaves(tensors)[U[j - 1] + c] = blake(tensors[j].at + (c - 1) * ChunkSize)
    BY <1>6, <1>14
  <2> QED
    BY <1>14, <2>1
<1> HIDE DEF last
<1>16. last.at = tensors[j].at /\ last.start = U[j - 1]
  BY <1>13
<1>17. read_chunk(tensors, off) \in Nat
  <2>1. (off - U[j - 1]) * ChunkSize \in Nat
    BY <1>7, <1>14
  <2>2. tensors[j].at \in Nat
    BY <1>2
  <2> QED
    BY <1>8, <1>16, <2>1, <2>2
<1> QED
  BY <1>8, <1>15, <1>16, <1>17

\* A node more.
LEMMA AppendTree ==
  ASSUME NEW nodes, IsTree(nodes), NEW node
  PROVE  IsTree(Append(nodes, node))
<1> DEFINE longer == Append(nodes, node)
           S == ToSet(nodes) \cup {node}
<1>1. nodes \in Seq(S)
  BY DEF IsTree, ToSet
<1>2. longer \in Seq(S) /\ Len(longer) = Len(nodes) + 1 /\ DOMAIN longer = 1..Len(longer)
  BY <1>1, AppendProperties
<1>3. \A i \in 1..Len(longer) : longer[i] \in ToSet(longer)
  BY <1>2 DEF ToSet
<1>4. longer = [i \in 1..Len(longer) |-> longer[i]] /\ Len(longer) \in Nat
  BY <1>2, LenProperties
<1> HIDE DEF longer
<1>5. longer \in [1..Len(longer) -> ToSet(longer)]
  BY <1>3, <1>4
<1>6. longer \in Seq(ToSet(longer))
  BY <1>4, <1>5, SeqDef
<1> QED
  BY <1>6 DEF IsTree, longer

\* A tree that is built fits.
LEMMA BuiltFits ==
  ASSUME NEW tensors, NEW nodes, IsTree(nodes), Built(tensors, nodes)
  PROVE  TreeFits(tensors, nodes)
<1>1. Len(nodes) \in Nat
  BY DEF IsTree
<1> QED
  BY <1>1 DEF Built, TreeFits

-----------------------------------------------------------------------------
(* The tree in the file.                                                   *)

\* The dense tree of a model.
LEMMA DenseTree ==
  ASSUME NEW tensors \in Tensors, LargeEnough(tensors)
  PROVE  LET n == n_chunks(tensors)
             dense == Levels(Leaves(tensors), RootLevel(n))
         IN  /\ n \in Nat \ {0} /\ n > Power[CheckpointInterval - 1]
             /\ Len(Leaves(tensors)) = n /\ Row(Leaves(tensors), n)
             /\ RootLevel(n) \in Nat
             /\ DenseLevels(Leaves(tensors)) = dense
             /\ dense[0] = Leaves(tensors)
             /\ \A l \in 0 .. RootLevel(n) : Row(dense[l], count_at_level(n, l))
<1> DEFINE n == n_chunks(tensors)
           dense == Levels(Leaves(tensors), RootLevel(n))
<1>1. n \in Nat /\ Row(Leaves(tensors), n) /\ Len(Leaves(tensors)) = n
  BY LeavesRow DEF Row
<1>2. n > Power[CheckpointInterval - 1]
  BY DEF LargeEnough
<1>3. n \in Nat \ {0} /\ RootLevel(n) \in Nat
  <2> HIDE DEF n
  <2>1. n \in Nat \ {0}
    BY <1>1, <1>2, CheckpointLevels
  <2> QED
    BY <2>1, RootReached
<1>4. DenseLevels(Leaves(tensors)) = dense
  BY <1>1 DEF DenseLevels
<1>5. dense[0] = Leaves(tensors) /\ \A l \in 0 .. RootLevel(n) : Row(dense[l], count_at_level(n, l))
  BY <1>1, <1>3, LevelsRecursion, LevelsRows
<1> QED
  BY <1>1, <1>2, <1>3, <1>4, <1>5

\* A file that has just been created.
LEMMA EmptyBegun ==
  ASSUME NEW tensors \in Tensors, LargeEnough(tensors)
  PROVE  Begun(tensors, <<>>)
<1> DEFINE n == n_chunks(tensors)
<1>1. n \in Nat \ {0}
  BY DenseTree
<1>2. IsTree(<<>>) /\ Len(<<>>) = 0
  BY DEF IsTree
<1> HIDE DEF n
<1>3. ExpectedSize(n) \in Nat /\ \A c \in Checkpoints(n) : c \in Nat /\ Offset(n, c) \in Nat
  BY <1>1, PlacesOfLevels
<1>4. ASSUME NEW c \in Checkpoints(n), NEW i \in 0 .. count_at_level(n, c) - 1
      PROVE  ~(Offset(n, c) + i + 1 <= 0)
  <2>1. count_at_level(n, c) \in Nat
    BY <1>1, <1>3, CountRecursion
  <2> QED
    BY <1>3, <2>1
<1> QED
  BY <1>2, <1>3, <1>4 DEF Begun, n

\* A level that is all there is the one of the dense tree.
LEMMA StoredLevelDense ==
  ASSUME NEW tensors \in Tensors, LargeEnough(tensors), NEW file, Begun(tensors, file),
         NEW c \in Checkpoints(n_chunks(tensors)),
         Offset(n_chunks(tensors), c) + count_at_level(n_chunks(tensors), c) <= Len(file)
  PROVE  StoredLevel(file, n_chunks(tensors), c) = DenseLevels(Leaves(tensors))[c]
<1> DEFINE n == n_chunks(tensors)
           level == DenseLevels(Leaves(tensors))[c]
           m == count_at_level(n, c)
           stored == StoredLevel(file, n, c)
<1>1. n \in Nat \ {0} /\ \A l \in 0 .. RootLevel(n) :
                            Row(DenseLevels(Leaves(tensors))[l], count_at_level(n, l))
  BY DenseTree
<1>2. Len(file) \in Nat
  BY DEF Begun, IsTree
<1>3. \A i \in 0 .. m - 1 :
        Offset(n, c) + i + 1 <= Len(file) => StoredNode(file, n, c, i) = level[i + 1]
  BY DEF Begun
<1>4. Offset(n, c) + m <= Len(file) /\ c \in Checkpoints(n)
  OBVIOUS
<1>5. stored = [i \in 1 .. m |-> StoredNode(file, n, c, i - 1)]
  BY DEF StoredLevel
<1> HIDE DEF n
<1>6. c \in 0 .. RootLevel(n) /\ c \in Nat /\ Offset(n, c) \in Nat
  BY <1>1, <1>4, PlacesOfLevels
<1>7. m \in Nat /\ Row(level, m)
  BY <1>1, <1>6, CountRecursion
<1> HIDE DEF m, level, stored
<1>8. ASSUME NEW i \in 1 .. m PROVE stored[i] = level[i]
  <2>1. i - 1 \in 0 .. m - 1 /\ Offset(n, c) + (i - 1) + 1 <= Len(file) /\ (i - 1) + 1 = i
    BY <1>2, <1>4, <1>6, <1>7
  <2> QED
    BY <1>3, <1>5, <2>1
<1>9. stored = [i \in 1 .. m |-> stored[i]]
  BY <1>5
<1>10. Row(stored, m)
  BY <1>7, <1>9, RowOf
<1>11. stored = level
  BY <1>7, <1>8, <1>10, RowsEqual
<1> QED
  BY <1>11 DEF stored, level, n

\* What is appended is the node of the place, folded from the chunks or from the level below.
LEMMA NextNodeDense ==
  ASSUME NEW tensors \in Tensors, LargeEnough(tensors), NEW file, Begun(tensors, file),
         ~Built(tensors, file)
  PROVE  LET n == n_chunks(tensors) IN
         /\ Len(file) \in 0 .. ExpectedSize(n) - 1
         /\ \A c \in Checkpoints(n) :
              Len(file) - Offset(n, c) \in 0 .. count_at_level(n, c) - 1
                => NextNode(tensors, file)
                     = DenseLevels(Leaves(tensors))[c][Len(file) - Offset(n, c) + 1]
<1> DEFINE n == n_chunks(tensors)
           R == RootLevel(n)
           K == CheckpointInterval
           leaves == Leaves(tensors)
           dense == Levels(leaves, R)
           p == Len(file)
           O(l) == Offset(n, l)
           C(l) == count_at_level(n, l)
           there(l) == p - O(l) \in 0 .. C(l) - 1
           level == CHOOSE l \in Checkpoints(n) : there(l)
<1>1. /\ n \in Nat \ {0} /\ n > Power[K - 1] /\ R \in Nat /\ Row(leaves, n)
      /\ DenseLevels(leaves) = dense /\ dense[0] = leaves
  BY DenseTree
<1>2. p \in Nat /\ p <= ExpectedSize(n) /\ p # ExpectedSize(n)
  BY DEF Begun, IsTree, Built
<1>3. NextNode(tensors, file) =
        IF p < FirstLevelNodes(n) THEN FirstLevelNode(tensors, p)
        ELSE UpperNode(file, n, level, p - O(level))
  BY DEF NextNode
<1>4. FirstLevelNode(tensors, p) = fold_levels(Batch(leaves, p, K), K)
  BY DEF FirstLevelNode
<1>5. \A c \in Checkpoints(n) : O(c) + C(c) <= p => StoredLevel(file, n, c) = dense[c]
  BY <1>1, StoredLevelDense
<1> HIDE DEF n, R, leaves, dense, p
<1>6. p \in 0 .. ExpectedSize(n) - 1
  BY <1>1, <1>2, PlacesOfLevels
<1>7. /\ K \in 1 .. R /\ Checkpoints(n) = {l \in K .. R : l % K = 0 \/ l = R}
      /\ K \in Checkpoints(n) /\ O(K) = 0 /\ FirstLevelNodes(n) = C(K)
  BY <1>1, CheckpointLevels DEF R
<1>8. /\ \A c \in Checkpoints(n) : c \in 0 .. R /\ c \in Nat /\ O(c) \in Nat
      /\ \A c, d \in Checkpoints(n) : c < d => O(c) + C(c) <= O(d)
  BY <1>1, PlacesOfLevels DEF R
<1>9. \A c, d \in Checkpoints(n) : there(c) /\ there(d) => c = d
  BY <1>1, <1>6, PlaceHasLevel
<1>10. \A l \in Nat : C(l) \in Nat
  BY <1>1, CountRecursion
<1>11. K \in Nat
  BY TreeAssumption
<1> HIDE DEF O, C
<1>12. ASSUME NEW c \in Checkpoints(n), there(c)
       PROVE  NextNode(tensors, file) = dense[c][p - O(c) + 1]
  <2>1. c \in 0 .. R /\ c \in Nat /\ O(c) \in Nat /\ C(c) \in Nat /\ C(K) \in Nat
    BY <1>8, <1>10, <1>11
  <2>2. CASE p < C(K)
    <3>1. there(K)
      BY <1>2, <1>7, <2>1, <2>2
    <3>2. c = K
      BY <1>7, <1>9, <1>12, <3>1
    <3>3. p - O(c) = p
      BY <1>2, <1>7, <3>2
    <3>4. p \in 0 .. C(0 + K) - 1 /\ 0 + K <= R /\ 0 + K = K
      BY <1>2, <1>7, <1>11, <2>1, <2>2
    <3>5. fold_levels(Batch(leaves, p, K), K) = dense[K][p + 1]
      <4> DEFINE zero == 0
      <4>1. zero \in Nat /\ zero + K <= R /\ p \in 0 .. count_at_level(n, zero + K) - 1
            /\ zero + K = K
        BY <3>4 DEF C
      <4>2. Levels(leaves, R)[zero] = leaves
        BY <1>1 DEF dense
      <4> HIDE DEF zero
      <4>3. fold_levels(Batch(Levels(leaves, R)[zero], p, K), K) = Levels(leaves, R)[zero + K][p + 1]
        BY <1>1, <1>11, <4>1, FoldIsDense
      <4> QED
        BY <4>1, <4>2, <4>3 DEF dense
    <3> QED
      BY <1>3, <1>4, <1>7, <2>2, <3>2, <3>3, <3>5
  <2>3. CASE ~(p < C(K))
    <3>1. level = c
      <4> HIDE DEF there
      <4>1. level \in Checkpoints(n) /\ there(level)
        BY <1>12
      <4> QED
        BY <1>9, <1>12, <4>1
    <3> HIDE DEF level
    <3>2. K < c
      <4>1. c # K
        BY <1>2, <1>7, <1>12, <2>1, <2>3
      <4> QED
        BY <1>7, <1>11, <2>1, <4>1
    <3> DEFINE lower == {l \in Checkpoints(n) : l < c}
               b == Max(lower)
    <3>3. b \in lower /\ \A l \in lower : b >= l
      <4>1. lower \in SUBSET (0 .. R) /\ K \in lower
        BY <1>7, <1>8, <3>2
      <4> HIDE DEF lower
      <4>2. PICK g \in lower : \A l \in lower : l <= g
        BY <1>1, <4>1, Greatest
      <4>3. g \in lower /\ \A l \in lower : g >= l
        <5>1. \A l \in lower : l \in Int
          BY <1>1, <4>1
        <5> QED
          BY <4>2, <5>1
      <4> QED
        BY <4>3 DEF Max
    <3> HIDE DEF b
    <3>4. b \in Checkpoints(n) /\ b < c /\ b \in Nat
      BY <1>8, <3>3
    <3>5. StoredLevel(file, n, b) = dense[b]
      <4>1. O(b) + C(b) <= O(c) /\ O(b) \in Nat /\ C(b) \in Nat
        BY <1>8, <1>10, <3>4
      <4>2. O(b) + C(b) <= p
        BY <1>2, <1>12, <2>1, <4>1
      <4> QED
        BY <1>5, <3>4, <4>2
    <3>6. UpperNode(file, n, c, p - O(c)) = fold_levels(Batch(dense[b], p - O(c), c - b), c - b)
      BY <3>5 DEF UpperNode, b, lower
    <3>7. fold_levels(Batch(dense[b], p - O(c), c - b), c - b) = dense[c][p - O(c) + 1]
      <4>1. c - b \in Nat /\ b + (c - b) = c /\ b + (c - b) <= R
        BY <1>1, <2>1, <3>4
      <4> DEFINE r == c - b
                 x == p - O(c)
      <4>2. r \in Nat /\ b + r = c /\ b + r <= R /\ x \in 0 .. count_at_level(n, b + r) - 1
        BY <1>12, <4>1 DEF C
      <4> HIDE DEF r, x
      <4>3. fold_levels(Batch(Levels(leaves, R)[b], x, r), r) = Levels(leaves, R)[b + r][x + 1]
        BY <1>1, <3>4, <4>2, FoldIsDense
      <4> QED
        BY <4>2, <4>3 DEF dense, r, x
    <3> QED
      BY <1>3, <1>7, <2>3, <3>1, <3>6, <3>7
  <2> QED
    BY <2>2, <2>3
<1> QED
  BY <1>1, <1>6, <1>12 DEF n, p, O, C, leaves

\* A node more is one more of the dense tree.
LEMMA NextNodeKeeps ==
  ASSUME NEW tensors \in Tensors, LargeEnough(tensors), NEW file, Begun(tensors, file),
         ~Built(tensors, file)
  PROVE  Begun(tensors, Append(file, NextNode(tensors, file)))
<1> DEFINE n == n_chunks(tensors)
           p == Len(file)
           node == NextNode(tensors, file)
           longer == Append(file, node)
           dense == DenseLevels(Leaves(tensors))
<1>1. n \in Nat \ {0}
  BY DenseTree
<1>2. /\ p \in 0 .. ExpectedSize(n) - 1
      /\ \A c \in Checkpoints(n) :
           p - Offset(n, c) \in 0 .. count_at_level(n, c) - 1
             => node = dense[c][p - Offset(n, c) + 1]
  BY NextNodeDense
<1>3. /\ IsTree(file)
      /\ \A c \in Checkpoints(n) : \A i \in 0 .. count_at_level(n, c) - 1 :
           Offset(n, c) + i + 1 <= p => file[Offset(n, c) + i + 1] = dense[c][i + 1]
  BY DEF Begun, StoredNode
<1>4. IsTree(longer)
  BY <1>3, AppendTree
<1>5. /\ Len(longer) = p + 1 /\ longer[p + 1] = node
      /\ \A k \in 1 .. p : longer[k] = file[k]
  <2> DEFINE S == ToSet(file) \cup {node}
  <2>1. file \in Seq(S)
    BY <1>3 DEF IsTree, ToSet
  <2> HIDE DEF node, S
  <2> QED
    BY <2>1, AppendProperties DEF S
<1> HIDE DEF n, node, longer, dense
<1>6. ExpectedSize(n) \in Nat /\ \A c \in Checkpoints(n) : c \in Nat /\ Offset(n, c) \in Nat
  BY <1>1, PlacesOfLevels
<1>7. p \in Nat /\ p + 1 <= ExpectedSize(n)
  BY <1>2, <1>6
<1>8. ASSUME NEW c \in Checkpoints(n), NEW i \in 0 .. count_at_level(n, c) - 1,
             Offset(n, c) + i + 1 <= p + 1
      PROVE  longer[Offset(n, c) + i + 1] = dense[c][i + 1]
  <2>1. count_at_level(n, c) \in Nat /\ Offset(n, c) \in Nat /\ i \in Nat
    BY <1>1, <1>6, CountRecursion
  <2>2. CASE Offset(n, c) + i + 1 <= p
    <3>1. Offset(n, c) + i + 1 \in 1 .. p
      BY <1>7, <2>1, <2>2
    <3> QED
      BY <1>3, <1>5, <2>2, <3>1
  <2>3. CASE Offset(n, c) + i + 1 = p + 1
    <3>1. p - Offset(n, c) = i
      BY <1>7, <2>1, <2>3
    <3> QED
      BY <1>2, <1>5, <2>3, <3>1
  <2> QED
    BY <1>7, <1>8, <2>1, <2>2, <2>3
<1> QED
  BY <1>4, <1>5, <1>7, <1>8 DEF Begun, StoredNode, n, longer, node, dense

\* A node of a path comes from the file, or is folded from what is below in the file or in
\* the model.
LEMMA PathNode ==
  ASSUME NEW tensors \in Tensors, LargeEnough(tensors), NEW file,
         \A c \in Checkpoints(n_chunks(tensors)) :
           StoredLevel(file, n_chunks(tensors), c) = DenseLevels(Leaves(tensors))[c],
         NEW off \in 0 .. n_chunks(tensors) - 1,
         NEW l \in 1 .. RootLevel(n_chunks(tensors))
  PROVE  merkle_path(tensors, file, off)[l] =
           PathIn(DenseLevels(Leaves(tensors)), RootLevel(n_chunks(tensors)), off)[l]
<1> DEFINE n == n_chunks(tensors)
           R == RootLevel(n)
           K == CheckpointInterval
           leaves == Leaves(tensors)
           dense == Levels(leaves, R)
           level == l - 1
           C(k) == count_at_level(n, k)
           real == SiblingIn(C(level), Above(off)[level])
           source == (level \div K) * K
           nodes == SourceLevel(tensors, file, source)
<1>1. /\ n \in Nat \ {0} /\ n > Power[K - 1] /\ R \in Nat /\ Row(leaves, n)
      /\ DenseLevels(leaves) = dense /\ dense[0] = leaves
      /\ \A k \in 0 .. R : Row(dense[k], C(k))
  BY DenseTree
<1>2. merkle_path(tensors, file, off)[l] =
        IF level > 0 /\ level % K = 0 THEN StoredNode(file, n, level, real)
        ELSE compute_subtree_hash(tensors, file, real, level - source, source)
  BY DEF merkle_path
<1>3. PathIn(dense, R, off)[l] = dense[level][1 + SiblingIn(Len(dense[level]), Above(off)[level])]
  BY DEF PathIn
<1>4. \A c \in Checkpoints(n) : StoredLevel(file, n, c) = dense[c]
  BY <1>1
<1>5. ASSUME source = 0 PROVE nodes = leaves
  <2>1. nodes = [i \in 1 .. n |-> blake(read_chunk(tensors, i - 1))]
    BY <1>5 DEF SourceLevel
  <2>2. ASSUME NEW i \in 1 .. n PROVE blake(read_chunk(tensors, i - 1)) = leaves[i]
    <3>1. i - 1 \in 0 .. n - 1 /\ (i - 1) + 1 = i
      BY <1>1
    <3> QED
      BY <3>1, ChunkOfLeaf
  <2>3. leaves = [i \in 1 .. n |-> leaves[i]]
    BY <1>1 DEF Row
  <2> QED
    BY <2>1, <2>2, <2>3
<1>6. source # 0 => nodes = StoredLevel(file, n, source)
  BY DEF SourceLevel
<1>7. compute_subtree_hash(tensors, file, real, level - source, source) =
        IF real * Power[level - source] >= Len(nodes) THEN ZeroNode
        ELSE fold_levels(Batch(nodes, real, level - source), level - source)
  BY DEF compute_subtree_hash
<1>8. off \in 0 .. n - 1 /\ l \in 1 .. R
  OBVIOUS
<1> HIDE DEF n, R, leaves, nodes, source
<1>9. level \in 0 .. R /\ level \in Nat /\ C(level) \in Nat /\ Len(dense[level]) = C(level)
  <2>1. level \in 0 .. R /\ level \in Nat
    BY <1>1, <1>8
  <2> HIDE DEF level
  <2> QED
    BY <1>1, <2>1 DEF Row
<1>10. real \in 0 .. C(level) - 1
  <2>1. Above(off)[level] \in 0 .. C(level) - 1
    BY <1>1, <1>8, <1>9, AboveInRange
  <2> HIDE DEF level
  <2> QED
    BY <1>9, <2>1, SiblingOf
<1>11. PathIn(dense, R, off)[l] = dense[level][real + 1]
  <2>1. 1 + real = real + 1
    BY <1>9, <1>10
  <2> QED
    BY <1>3, <1>9, <2>1
<1> HIDE DEF real, dense
<1>12. /\ K \in 1 .. R /\ Checkpoints(n) = {k \in K .. R : k % K = 0 \/ k = R}
  BY <1>1, CheckpointLevels DEF R
<1>13. K \in Nat \ {0}
  BY TreeAssumption
<1>14. CASE level > 0 /\ level % K = 0
  <2>1. level >= K
    BY <1>9, <1>13, <1>14
  <2>2. level \in Checkpoints(n)
    BY <1>8, <1>9, <1>12, <1>14, <2>1
  <2> HIDE DEF level
  <2>3. StoredLevel(file, n, level) = dense[level]
    BY <1>4, <2>2
  <2>4. real + 1 \in 1 .. C(level) /\ (real + 1) - 1 = real
    BY <1>9, <1>10
  <2>5. StoredLevel(file, n, level)[real + 1] = StoredNode(file, n, level, real)
    BY <2>4 DEF StoredLevel
  <2> QED
    BY <1>1, <1>2, <1>11, <1>14, <2>3, <2>5 DEF n, R, leaves
<1>15. CASE ~(level > 0 /\ level % K = 0)
  <2>1. PICK q \in Int, t \in 0 .. K - 1 : q = level \div K /\ t = level % K /\ level = K * q + t
    <3>1. level \in Int
      BY <1>9
    <3> HIDE DEF level
    <3> QED
      BY <1>13, <3>1, Division
  <2>2. source \in Nat /\ level - source \in Nat /\ source + (level - source) = level
        /\ source <= level /\ (source # 0 => source >= K /\ source % K = 0)
    <3> HIDE DEF level
    <3>1. q \in Nat
      BY <1>9, <1>13, <2>1
    <3>2. source = K * q /\ source \in Nat
      BY <1>13, <2>1, <3>1 DEF source
    <3>3. source # 0 => source >= K
      BY <1>13, <3>1, <3>2
    <3>4. source % K = 0
      <4>1. 0 \in 0 .. K - 1 /\ K * q + 0 = K * q
        BY <1>13, <3>1
      <4>2. (K * q + 0) % K = 0
        BY <1>13, <3>1, <4>1, Remainders
      <4> QED
        BY <3>2, <4>1, <4>2
    <3> QED
      BY <1>9, <1>13, <2>1, <3>2, <3>3, <3>4
  <2>3. nodes = dense[source]
    <3>1. CASE source = 0
      BY <1>1, <1>5, <3>1
    <3>2. CASE source # 0
      <4>1. source \in Checkpoints(n)
        <5> HIDE DEF level
        <5> QED
          BY <1>1, <1>9, <1>12, <1>13, <2>2, <3>2
      <4> QED
        BY <1>4, <1>6, <3>2, <4>1
    <3> QED
      BY <3>1, <3>2
  <2>4. Len(nodes) = C(source) /\ C(source) \in Nat
    <3> HIDE DEF level
    <3>1. source \in 0 .. R
      BY <1>1, <1>9, <2>2
    <3>2. Row(nodes, C(source))
      BY <1>1, <2>3, <3>1
    <3> QED
      BY <3>2 DEF Row
  <2> DEFINE r == level - source
  <2>5. r \in Nat /\ source + r = level /\ source + r <= R
        /\ real \in 0 .. count_at_level(n, source + r) - 1
    BY <1>9, <1>10, <2>2
  <2> HIDE DEF r, level
  <2>6. /\ real * Power[r] < count_at_level(n, source)
        /\ fold_levels(Batch(Levels(leaves, R)[source], real, r), r)
             = Levels(leaves, R)[source + r][real + 1]
    BY <1>1, <2>2, <2>5, FoldIsDense
  <2>7. Power[r] \in Nat /\ real \in Nat
    <3>1. Power[r] \in Nat
      BY <2>5, PowerRecursion
    <3> HIDE DEF C
    <3>2. real \in Nat
      BY <1>9, <1>10
    <3> QED
      BY <3>1, <3>2
  <2>8. ~(real * Power[r] >= Len(nodes))
    <3>1. real * Power[r] \in Int
      BY <2>7
    <3> QED
      BY <2>4, <2>6, <3>1
  <2>9. compute_subtree_hash(tensors, file, real, r, source) = dense[level][real + 1]
    BY <1>7, <2>3, <2>5, <2>6, <2>8 DEF r, dense
  <2> QED
    BY <1>1, <1>2, <1>11, <1>15, <2>9 DEF r, n, R, leaves
<1> QED
  BY <1>14, <1>15

\* A file of the full length has the root of the dense tree and leads to all its paths.
LEMMA BuiltExact ==
  ASSUME NEW tensors \in Tensors, LargeEnough(tensors), NEW file, Begun(tensors, file),
         Len(file) = ExpectedSize(n_chunks(tensors))
  PROVE  TreeExact(tensors, file)
<1> DEFINE n == n_chunks(tensors)
           R == RootLevel(n)
           leaves == Leaves(tensors)
           dense == DenseLevels(leaves)
<1>1. n \in Nat \ {0} /\ n > Power[CheckpointInterval - 1] /\ R \in Nat /\ Len(leaves) = n
  BY DenseTree
<1>2. \A c \in Checkpoints(n) : Offset(n, c) + count_at_level(n, c) <= Len(file)
  BY <1>1, PlacesOfLevels
<1>3. \A c \in Checkpoints(n) : StoredLevel(file, n, c) = dense[c]
  BY <1>2, StoredLevelDense
<1>4. TreeRoot(tensors, file) = dense[R][1]
  <2>1. R \in Checkpoints(n)
    <3> HIDE DEF n
    <3> QED
      BY <1>1, CheckpointLevels
  <2>2. count_at_level(n, R) = 1 /\ 1 - 1 = 0
    BY <1>1, RootReached
  <2>3. StoredLevel(file, n, R)[1] = StoredNode(file, n, R, 0)
    BY <2>2 DEF StoredLevel
  <2> QED
    BY <1>3, <2>1, <2>3 DEF TreeRoot
<1>5. ASSUME NEW off \in 0 .. n - 1
      PROVE  merkle_path(tensors, file, off) = PathIn(dense, R, off)
  <2>1. ASSUME NEW l \in 1 .. R
        PROVE  merkle_path(tensors, file, off)[l] = PathIn(dense, R, off)[l]
    BY <1>3, PathNode
  <2> DEFINE path == merkle_path(tensors, file, off)
             densePath == PathIn(dense, R, off)
  <2>2. path = [l \in 1 .. R |-> path[l]]
    BY DEF merkle_path
  <2>3. densePath = [l \in 1 .. R |-> densePath[l]]
    BY DEF PathIn
  <2> HIDE DEF path, densePath
  <2>4. \A l \in 1 .. R : path[l] = densePath[l]
    BY <2>1 DEF path, densePath
  <2>5. path = densePath
    BY <2>2, <2>3, <2>4
  <2> QED
    BY <2>5 DEF path, densePath
<1>6. \A off \in 0 .. n - 1 : blake(read_chunk(tensors, off)) = leaves[off + 1]
  BY ChunkOfLeaf
<1> QED
  BY <1>1, <1>4, <1>5, <1>6 DEF TreeExact

-----------------------------------------------------------------------------
(* The proof of a block.                                                   *)

\* A step of the walk leads from words to words.
Closed(tensors, S) == \A s \in S : Step(tensors, s) \in S

\* The words on the way from the seed.
Walks(trace, tensors, seed, S) ==
  /\ trace[0] = seed
  /\ \A i \in 0 .. WalkSteps : trace[i] \in S
  /\ \A i \in 1 .. WalkSteps : trace[i] = Step(tensors, trace[i - 1])

\* The states of the walk are what the recursion says.
LEMMA TraceRecursion ==
  ASSUME NEW tensors, NEW S, Closed(tensors, S), NEW seed \in S
  PROVE  Walks(Trace(tensors, seed), tensors, seed, S)
<1> USE DEF Closed
<1> DEFINE g == [i \in 1 .. WalkSteps |-> [s \in S |-> Step(tensors, s)]]
           Is(h) == h = [i \in 0 .. WalkSteps |->
                           IF i = 0 THEN seed ELSE Step(tensors, h[i - 1])]
           state == CHOOSE h : Is(h)
<1>1. WalkSteps \in Nat
  BY WalkAssumption
<1>2. Trace(tensors, seed) = state
  BY DEF Trace
<1>3. Steps(g, 1 .. WalkSteps, S)
  BY DEF Steps
<1>4. \A i \in 1 .. WalkSteps, s \in S : g[i][s] = Step(tensors, s)
  OBVIOUS
<1> HIDE DEF g
<1>5. PICK f : UpTo(f, WalkSteps, S, seed, g)
  BY <1>1, <1>3, RecursionUpTo
<1>6. Is(f)
  <2>1. f \in [0 .. WalkSteps -> S] /\ f[0] = seed
    BY <1>5 DEF UpTo
  <2>2. ASSUME NEW i \in 0 .. WalkSteps, i # 0 PROVE f[i] = Step(tensors, f[i - 1])
    <3>1. i \in 1 .. WalkSteps /\ i - 1 \in 0 .. WalkSteps
      BY <1>1, <2>2
    <3>2. f[i - 1] \in S
      BY <2>1, <3>1
    <3> QED
      BY <1>4, <1>5, <3>1, <3>2 DEF UpTo
  <2> QED
    BY <2>1, <2>2
<1>7. Is(state)
  BY <1>6
<1> HIDE DEF state
<1>8. state[0] = seed
  <2>1. 0 \in 0 .. WalkSteps
    BY <1>1
  <2> QED
    BY <1>7, <2>1
<1>9. \A i \in 1 .. WalkSteps : state[i] = Step(tensors, state[i - 1])
  <2>1. \A i \in 1 .. WalkSteps : i \in 0 .. WalkSteps /\ i # 0
    OBVIOUS
  <2> QED
    BY <1>7, <2>1
<1> HIDE DEF Is
<1>10. \A i \in 0 .. WalkSteps : state[i] \in S
  <2> DEFINE Bad == {i \in 0 .. WalkSteps : state[i] \notin S}
  <2> SUFFICES ASSUME Bad # {} PROVE FALSE
    OBVIOUS
  <2>1. PICK m \in Bad : \A k \in Bad : m <= k
    <3>1. Bad \in SUBSET Nat
      OBVIOUS
    <3> HIDE DEF Bad
    <3> QED
      BY <3>1, Least
  <2>2. m # 0
    BY <1>8, <2>1
  <2>3. m \in 1 .. WalkSteps /\ m - 1 \in 0 .. WalkSteps
    BY <1>1, <2>1, <2>2
  <2>4. m - 1 \notin Bad
    <3> HIDE DEF Bad
    <3> QED
      BY <2>1, <2>3
  <2>5. state[m - 1] \in S
    BY <2>3, <2>4
  <2>6. state[m] \in S
    BY <1>9, <2>3, <2>5
  <2> QED
    BY <2>1, <2>6
<1> QED
  BY <1>2, <1>8, <1>9, <1>10 DEF Walks

\* Every state of a trace opens to the root of the trace.
LEMMA TraceOpens ==
  ASSUME NEW trace, NEW i \in 0 .. WalkSteps
  PROVE  verify_merkle(trace_leaf(trace[i]), i, merkle_proof(TraceLeaves(trace), i),
                       merkle_root(TraceLeaves(trace)))
<1> DEFINE leaves == TraceLeaves(trace)
           n == WalkSteps + 1
<1>1. WalkSteps \in Nat /\ n \in Nat \ {0} /\ i \in 0 .. n - 1 /\ i + 1 \in 1 .. n
      /\ (i + 1) - 1 = i
  BY WalkAssumption
<1>2. leaves = [k \in 1 .. n |-> leaves[k]] /\ leaves[i + 1] = trace_leaf(trace[i])
  BY <1>1 DEF TraceLeaves
<1> HIDE DEF leaves, n
<1>3. Row(leaves, n) /\ Len(leaves) = n
  BY <1>1, <1>2, RowOf DEF Row
<1>4. verify_merkle(leaves[i + 1], i, PathIn(DenseLevels(leaves), RootLevel(n), i),
                    merkle_root(leaves))
  BY <1>1, <1>3, PathOpens
<1>5. merkle_proof(leaves, i) = PathIn(DenseLevels(leaves), RootLevel(n), i)
  BY <1>3 DEF merkle_proof
<1> QED
  BY <1>2, <1>4, <1>5 DEF leaves

\* A proof over an exact index, of a walk that wins, passes every check of the node.
LEMMA ProofVerifies ==
  ASSUME NEW tensors \in Tensors, LargeEnough(tensors), NEW file, TreeExact(tensors, file),
         NEW S \in SUBSET Nat, NEW seed \in S, Closed(tensors, S),
         NEW target, Wins(tensors, seed, target), NEW challenges \in Challenges, NEW tier
  PROVE  verify_proof(seed, build_proof(tier, tensors, file, seed, challenges),
                      Len(Leaves(tensors)), merkle_root(Leaves(tensors)), target, challenges)
<1> DEFINE leaves == Leaves(tensors)
           n == n_chunks(tensors)
           trace == Trace(tensors, seed)
           proof == build_proof(tier, tensors, file, seed, challenges)
           opening(j) == Opening(tensors, file, trace, challenges[j])
<1>1. WalkSteps \in Nat \ {0} /\ Openings \in Nat
  BY WalkAssumption
<1>2. n \in Nat \ {0} /\ Len(leaves) = n /\ Row(leaves, n)
  BY DenseTree
<1>3. /\ trace[0] = seed /\ \A i \in 0 .. WalkSteps : trace[i] \in S
      /\ \A i \in 1 .. WalkSteps : trace[i] = Step(tensors, trace[i - 1])
  BY TraceRecursion DEF Walks
<1>4. /\ proof.trace_root = merkle_root(TraceLeaves(trace))
      /\ proof.pow_value = PowValue(trace[WalkSteps]) /\ proof.final_state = trace[WalkSteps]
      /\ proof.initial_trace_path = merkle_proof(TraceLeaves(trace), 0)
      /\ proof.final_trace_path = merkle_proof(TraceLeaves(trace), WalkSteps)
      /\ proof.openings = [j \in 1 .. Openings |-> opening(j)]
  BY DEF build_proof
<1>5. \A off \in 0 .. n - 1 :
        /\ blake(read_chunk(tensors, off)) = leaves[off + 1]
        /\ merkle_path(tensors, file, off) = PathIn(DenseLevels(leaves), RootLevel(n), off)
  BY <1>2 DEF TreeExact
<1>6. le_leq(PowValue(trace[WalkSteps]), target)
  BY DEF Wins, walk_final
<1>7. ASSUME NEW j \in 1 .. Openings
      PROVE  OpeningVerifies(opening(j), challenges[j], proof, n, merkle_root(leaves))
  <2> DEFINE i == challenges[j]
             off == trace[i] % n
  <2>1. i \in 0 .. WalkSteps - 1
    BY DEF Challenges
  <2>2. /\ opening(j).state_before = trace[i] /\ opening(j).chunk = read_chunk(tensors, off)
        /\ opening(j).weight_path = merkle_path(tensors, file, off)
        /\ opening(j).trace_path_before = merkle_proof(TraceLeaves(trace), i)
        /\ opening(j).trace_path_after = merkle_proof(TraceLeaves(trace), i + 1)
    BY DEF Opening
  <2> HIDE DEF i, trace, n, leaves, opening
  <2>3. i \in 0 .. WalkSteps /\ i + 1 \in 0 .. WalkSteps /\ i + 1 \in 1 .. WalkSteps
        /\ (i + 1) - 1 = i
    BY <1>1, <2>1
  <2>4. trace[i] \in Nat
    BY <1>3, <2>3
  <2>5. off \in 0 .. n - 1
    BY <1>2, <2>4
  <2>6. Transition(trace[i], read_chunk(tensors, off)) = trace[i + 1]
    BY <1>3, <2>3 DEF Step, n
  <2> HIDE DEF off
  <2>7. verify_merkle(trace_leaf(trace[i]), i, merkle_proof(TraceLeaves(trace), i),
                      merkle_root(TraceLeaves(trace)))
    BY <2>3, TraceOpens
  <2>8. verify_merkle(trace_leaf(trace[i + 1]), i + 1, merkle_proof(TraceLeaves(trace), i + 1),
                      merkle_root(TraceLeaves(trace)))
    BY <2>3, TraceOpens
  <2>9. verify_merkle(leaves[off + 1], off, PathIn(DenseLevels(leaves), RootLevel(n), off),
                      merkle_root(leaves))
    BY <1>2, <2>5, PathOpens
  <2>10. opening(j).state_before % n = off
    BY <2>2 DEF off
  <2> HIDE DEF proof
  <2> QED
    BY <1>4, <1>5, <2>2, <2>5, <2>6, <2>7, <2>8, <2>9, <2>10 DEF OpeningVerifies, i
<1>8. Len(proof.openings) = Openings /\ \A j \in 1 .. Openings : proof.openings[j] = opening(j)
  <2> DEFINE o == proof.openings
  <2>1. o = [j \in 1 .. Openings |-> o[j]] /\ \A j \in 1 .. Openings : o[j] = opening(j)
    <3> HIDE DEF opening, proof
    <3> QED
      BY <1>4
  <2> HIDE DEF o
  <2>2. Len(o) = Openings
    BY <1>1, <2>1, RowOf DEF Row
  <2> QED
    BY <2>1, <2>2 DEF o
<1> HIDE DEF proof, opening, trace, n
<1>9. verify_merkle(trace_leaf(seed), 0, proof.initial_trace_path, proof.trace_root)
  <2>1. 0 \in 0 .. WalkSteps
    BY <1>1
  <2>2. verify_merkle(trace_leaf(trace[0]), 0, merkle_proof(TraceLeaves(trace), 0),
                      merkle_root(TraceLeaves(trace)))
    BY <2>1, TraceOpens
  <2> QED
    BY <1>3, <1>4, <2>2
<1>10. verify_merkle(trace_leaf(proof.final_state), WalkSteps, proof.final_trace_path,
                     proof.trace_root)
  <2>1. WalkSteps \in 0 .. WalkSteps
    BY <1>1
  <2>2. verify_merkle(trace_leaf(trace[WalkSteps]), WalkSteps,
                      merkle_proof(TraceLeaves(trace), WalkSteps),
                      merkle_root(TraceLeaves(trace)))
    BY <2>1, TraceOpens
  <2> QED
    BY <1>4, <2>2
<1>11. verify_proof(seed, proof, n, merkle_root(leaves), target, challenges)
  BY <1>4, <1>6, <1>7, <1>8, <1>9, <1>10 DEF verify_proof
<1> QED
  BY <1>2, <1>11 DEF proof

-----------------------------------------------------------------------------
(* The pow value as a number.                                              *)

\* The numbers of the highest bytes, up to the number of all n.
Numbers(number, bytes, n, base) ==
  /\ NumberOf(bytes, base) = number[n] /\ number[0] = 0
  /\ \A i \in 0 .. n : number[i] \in Nat
  /\ \A i \in 1 .. n : number[i] = number[i - 1] * base + bytes[n - i + 1]

\* NumberOf is what its recursion says.
LEMMA NumberRecursion ==
  ASSUME NEW base \in Nat \ {0}, NEW bytes \in Seq(0 .. base - 1)
  PROVE  \E number : Numbers(number, bytes, Len(bytes), base)
<1> DEFINE N == Len(bytes)
           g == [i \in 1 .. N |-> [x \in Nat |-> x * base + bytes[N - i + 1]]]
           Is(h) == h = [i \in 0 .. N |-> IF i = 0 THEN 0 ELSE h[i - 1] * base + bytes[N - i + 1]]
           number == CHOOSE h : Is(h)
<1>1. N \in Nat /\ \A k \in 1 .. N : bytes[k] \in Nat
  <2> DEFINE S == 0 .. base - 1
  <2>1. bytes \in Seq(S) /\ \A x \in S : x \in Nat
    OBVIOUS
  <2> HIDE DEF S
  <2> QED
    BY <2>1, ElementOfSeq, LenProperties
<1>2. NumberOf(bytes, base) = number[N]
  BY DEF NumberOf
<1> HIDE DEF N
<1>3. \A i \in 1 .. N, x \in Nat : x * base + bytes[N - i + 1] \in Nat
  <2>1. \A x \in Nat : x * base \in Nat
    OBVIOUS
  <2>2. \A i \in 1 .. N : N - i + 1 \in 1 .. N
    BY <1>1
  <2>3. \A x, y \in Nat : x + y \in Nat
    OBVIOUS
  <2> QED
    BY <1>1, <2>1, <2>2, <2>3
<1>4. Steps(g, 1 .. N, Nat)
  BY <1>3 DEF Steps
<1>5. \A i \in 1 .. N, x \in Nat : g[i][x] = x * base + bytes[N - i + 1]
  OBVIOUS
<1> HIDE DEF g
<1>6. PICK f : UpTo(f, N, Nat, 0, g)
  BY <1>1, <1>4, RecursionUpTo
<1>7. Is(f)
  <2>1. f \in [0 .. N -> Nat] /\ f[0] = 0
    BY <1>6 DEF UpTo
  <2>2. ASSUME NEW i \in 0 .. N, i # 0 PROVE f[i] = f[i - 1] * base + bytes[N - i + 1]
    <3>1. i \in 1 .. N /\ i - 1 \in 0 .. N
      BY <1>1, <2>2
    <3>2. f[i - 1] \in Nat
      BY <2>1, <3>1
    <3> QED
      BY <1>5, <1>6, <3>1, <3>2 DEF UpTo
  <2> QED
    BY <2>1, <2>2
<1>8. Is(number)
  BY <1>7
<1> HIDE DEF number
<1>9. number[0] = 0
  <2>1. 0 \in 0 .. N
    BY <1>1
  <2> QED
    BY <1>8, <2>1
<1>10. \A i \in 1 .. N : number[i] = number[i - 1] * base + bytes[N - i + 1]
  <2>1. \A i \in 1 .. N : i \in 0 .. N /\ i # 0
    OBVIOUS
  <2> QED
    BY <1>8, <2>1
<1> HIDE DEF Is
<1>11. \A i \in 0 .. N : number[i] \in Nat
  <2> DEFINE Bad == {i \in 0 .. N : number[i] \notin Nat}
  <2> SUFFICES ASSUME Bad # {} PROVE FALSE
    OBVIOUS
  <2>1. PICK m \in Bad : \A k \in Bad : m <= k
    <3>1. Bad \in SUBSET Nat
      OBVIOUS
    <3> HIDE DEF Bad
    <3> QED
      BY <3>1, Least
  <2>2. m # 0
    BY <1>9, <2>1
  <2>3. m \in 1 .. N /\ m - 1 \in 0 .. N
    BY <1>1, <2>1, <2>2
  <2>4. m - 1 \notin Bad
    <3> HIDE DEF Bad
    <3> QED
      BY <2>1, <2>3
  <2>5. number[m - 1] \in Nat
    BY <2>3, <2>4
  <2>6. number[m] \in Nat
    BY <1>3, <1>10, <2>3, <2>5
  <2> QED
    BY <2>1, <2>6
<1> QED
  BY <1>2, <1>9, <1>10, <1>11 DEF N, Numbers

\* What le_leq compares are the numbers.
LEMMA LowerNumber ==
  ASSUME NEW base \in Nat \ {0}, NEW a \in Seq(0 .. base - 1), NEW b \in Seq(0 .. base - 1),
         Len(a) = Len(b), le_leq(a, b)
  PROVE  NumberOf(a, base) <= NumberOf(b, base)
<1> DEFINE N == Len(a)
           below(i) == \E k \in N - i + 1 .. N : a[k] < b[k]
<1>1. N \in Nat /\ \A k \in 1 .. N : a[k] \in 0 .. base - 1 /\ b[k] \in 0 .. base - 1
  <2> DEFINE S == 0 .. base - 1
  <2>1. a \in Seq(S) /\ b \in Seq(S)
    OBVIOUS
  <2> HIDE DEF S
  <2>2. N \in Nat /\ \A k \in 1 .. N : a[k] \in S /\ b[k] \in S
    BY <2>1, ElementOfSeq, LenProperties
  <2> QED
    BY <2>2 DEF S
<1>2. \A k \in 1 .. N : a[k] <= b[k] \/ \E j \in k + 1 .. N : a[j] < b[j]
  <2>1. DOMAIN a = 1 .. N
    <3> DEFINE S == 0 .. base - 1
    <3>1. a \in Seq(S)
      OBVIOUS
    <3> HIDE DEF S
    <3> QED
      BY <3>1, LenProperties
  <2> QED
    BY <2>1 DEF le_leq
<1>3. PICK x : Numbers(x, a, N, base)
  BY NumberRecursion
<1>4. PICK y : Numbers(y, b, N, base)
  <2>1. N = Len(b)
    OBVIOUS
  <2> HIDE DEF N
  <2> QED
    BY <2>1, NumberRecursion
<1> HIDE DEF N
<1> DEFINE Good(i) == x[i] <= y[i] /\ (below(i) => x[i] < y[i])
           Bad == {i \in 0 .. N : ~Good(i)}
<1>5. Bad = {}
  <2> SUFFICES ASSUME Bad # {} PROVE FALSE
    OBVIOUS
  <2>1. PICK m \in Bad : \A k \in Bad : m <= k
    <3>1. Bad \in SUBSET Nat
      OBVIOUS
    <3> HIDE DEF Bad
    <3> QED
      BY <3>1, Least
  <2>2. m # 0
    <3>1. ~below(0)
      BY <1>1
    <3>2. Good(0)
      BY <1>3, <1>4, <3>1 DEF Numbers
    <3> HIDE DEF Good
    <3> QED
      BY <2>1, <3>2
  <2>3. m \in 1 .. N /\ m - 1 \in 0 .. N /\ m \in 0 .. N /\ m \in Nat
    BY <1>1, <2>1, <2>2
  <2>4. Good(m - 1)
    <3>1. m - 1 \notin Bad
      <4> HIDE DEF Bad
      <4> QED
        BY <2>1, <2>3
    <3> HIDE DEF Good
    <3> QED
      BY <2>3, <3>1
  <2> DEFINE k == N - m + 1
             u == x[m - 1]
             v == y[m - 1]
  <2>5. k \in 1 .. N /\ k + 1 = N - (m - 1) + 1 /\ k \in Int
    BY <1>1, <2>3
  <2>6. /\ a[k] \in 0 .. base - 1 /\ b[k] \in 0 .. base - 1 /\ u \in Nat /\ v \in Nat
        /\ x[m] = u * base + a[k] /\ y[m] = v * base + b[k]
        /\ x[m] \in Nat /\ y[m] \in Nat
    BY <1>1, <1>3, <1>4, <2>3, <2>5 DEF Numbers
  <2>7. u <= v /\ (below(m - 1) => u < v)
    BY <2>4
  <2>8. below(m) => below(m - 1) \/ a[k] < b[k]
    <3>1. SUFFICES ASSUME NEW j \in k .. N, a[j] < b[j] PROVE below(m - 1) \/ a[k] < b[k]
      OBVIOUS
    <3>2. j = k \/ j \in k + 1 .. N
      BY <1>1, <2>5, <3>1
    <3> QED
      BY <2>5, <3>1, <3>2
  <2>9. a[k] <= b[k] \/ below(m - 1)
    BY <1>2, <2>5
  <2> HIDE DEF below, k, u, v
  <2>10. CASE u < v
    <3>1. (u + 1) * base <= v * base /\ (u + 1) * base = u * base + base
          /\ u * base \in Int /\ v * base \in Int
      BY <2>6, <2>10
    <3> DEFINE p == u * base
               q == v * base
    <3>2. /\ p + base <= q /\ p \in Int /\ q \in Int
          /\ x[m] = p + a[k] /\ y[m] = q + b[k]
      BY <2>6, <3>1
    <3> HIDE DEF p, q
    <3>3. a[k] <= base - 1 /\ b[k] >= 0 /\ a[k] \in Int /\ b[k] \in Int
      BY <2>6
    <3>4. p + a[k] < q + b[k]
      BY <3>2, <3>3
    <3>5. x[m] < y[m]
      BY <3>2, <3>4
    <3> QED
      BY <2>1, <2>6, <3>5
  <2>11. CASE ~(u < v)
    <3>1. u = v /\ ~below(m - 1)
      BY <2>6, <2>7, <2>11
    <3>2. u * base \in Int
      BY <2>6
    <3>3. x[m] <= y[m] /\ (below(m) => x[m] < y[m])
      BY <2>6, <2>8, <2>9, <3>1, <3>2
    <3> QED
      BY <2>1, <3>3
  <2> QED
    BY <2>10, <2>11
<1>6. x[N] <= y[N]
  <2>1. N \in 0 .. N
    BY <1>1
  <2>2. Good(N)
    <3> HIDE DEF Good
    <3> QED
      BY <1>5, <2>1
  <2> QED
    BY <2>2
<1> QED
  BY <1>3, <1>4, <1>6 DEF Numbers

-----------------------------------------------------------------------------
(* The tier of a block.                                                    *)

\* The models that some miner proves are the ones that have a tier.
LEMMA ProvableModels ==
  ASSUME NEW score \in Nat
  PROVE  Provable(score) =
           IF score >= VERY_LIGHT_ACTIVATION_DAA
           THEN {"Qwen3-1.7B", "Gemma-3-4B", "Dolphin-Llama3-8B", "Qwen3-32B",
                 "Llama-3.3-70B-Q2"}
           ELSE {"Gemma-3-4B", "Dolphin-Llama3-8B", "Qwen3-32B", "Llama-3.3-70B"}
<1>1. Provable(score) = {specs_for(score, "VeryLight")[1], specs_for(score, "Light")[1],
                         specs_for(score, "Default")[1], specs_for(score, "High")[1],
                         specs_for(score, "VeryHigh")[1]}
  BY DEF Provable, Tiers
<1>2. /\ specs_for(score, "Light")[1] = "Gemma-3-4B"
      /\ specs_for(score, "Default")[1] = "Dolphin-Llama3-8B"
      /\ specs_for(score, "High")[1] = "Qwen3-32B"
  BY DEF specs_for
<1>3. CASE score >= VERY_LIGHT_ACTIVATION_DAA
  <2>1. /\ specs_for(score, "VeryLight")[1] = "Qwen3-1.7B"
        /\ specs_for(score, "VeryHigh")[1] = "Llama-3.3-70B-Q2"
    BY <1>3 DEF specs_for, VERY_LIGHT_ACTIVATION_DAA
  <2> QED
    BY <1>1, <1>2, <1>3, <2>1
<1>4. CASE ~(score >= VERY_LIGHT_ACTIVATION_DAA)
  <2>1. /\ specs_for(score, "VeryLight")[1] = "Gemma-3-4B"
        /\ specs_for(score, "VeryHigh")[1] = "Llama-3.3-70B"
    BY <1>4 DEF specs_for, VERY_LIGHT_ACTIVATION_DAA
  <2> QED
    BY <1>1, <1>2, <1>4, <2>1
<1> QED
  BY <1>3, <1>4

\* A finite set with one element more.
LEMMA Adding ==
  ASSUME NEW S, IsFiniteSet(S), NEW x, x \notin S, NEW n, Cardinality(S) = n
  PROVE  IsFiniteSet(S \cup {x}) /\ Cardinality(S \cup {x}) = n + 1
BY FS_AddElement

\* How many names there are in a list of different ones.
LEMMA OneName ==
  ASSUME NEW a
  PROVE  IsFiniteSet({a}) /\ Cardinality({a}) = 1
BY FS_Singleton

\* Two of them.
LEMMA TwoNames ==
  ASSUME NEW a, NEW b, a # b
  PROVE  IsFiniteSet({a, b}) /\ Cardinality({a, b}) = 2
<1> DEFINE S == {a}
<1>1. IsFiniteSet(S) /\ Cardinality(S) = 1 /\ b \notin S /\ {a, b} = S \cup {b}
  BY OneName
<1> HIDE DEF S
<1>2. IsFiniteSet(S \cup {b}) /\ Cardinality(S \cup {b}) = 1 + 1
  BY <1>1, Adding
<1> QED
  BY <1>1, <1>2

\* Three of them.
LEMMA ThreeNames ==
  ASSUME NEW a, NEW b, NEW c, a # b, a # c, b # c
  PROVE  IsFiniteSet({a, b, c}) /\ Cardinality({a, b, c}) = 3
<1> DEFINE S == {a, b}
<1>1. IsFiniteSet(S) /\ Cardinality(S) = 2 /\ c \notin S /\ {a, b, c} = S \cup {c}
  BY TwoNames
<1> HIDE DEF S
<1>2. IsFiniteSet(S \cup {c}) /\ Cardinality(S \cup {c}) = 2 + 1
  BY <1>1, Adding
<1> QED
  BY <1>1, <1>2

\* Four of them.
LEMMA FourNames ==
  ASSUME NEW a, NEW b, NEW c, NEW d, a # b, a # c, b # c, a # d, b # d, c # d
  PROVE  Cardinality({a, b, c, d}) = 4
<1> DEFINE S == {a, b, c}
<1>1. IsFiniteSet(S) /\ Cardinality(S) = 3 /\ d \notin S /\ {a, b, c, d} = S \cup {d}
  BY ThreeNames
<1> HIDE DEF S
<1>2. Cardinality(S \cup {d}) = 3 + 1
  BY <1>1, Adding
<1> QED
  BY <1>1, <1>2

\* A tier that a miner has is the one of the node.
LEMMA TierIsOfNode ==
  ASSUME NEW score \in Nat, NEW model, pom_tier_index(model, score) # Unknown
  PROVE  pom_tier_index(model, score) = NodeTier(model, score)
<1> DEFINE order == TierOrder(score)
           places == {i \in DOMAIN order : order[i] = model}
<1>1. pom_tier_index(model, score) =
        IF places = {} THEN Unknown ELSE (CHOOSE i \in places : TRUE) - 1
  BY DEF pom_tier_index
<1>2. places # {}
  BY <1>1
<1> DEFINE lighter == {m \in Provable(score) : Weight(m) < Weight(model)}
<1>3. NodeTier(model, score) =
        IF model \notin Provable(score) THEN Unknown ELSE Cardinality(lighter)
  BY DEF NodeTier
<1>4. ASSUME NEW i \in Nat, model \in Provable(score), places = {i}, Cardinality(lighter) = i - 1
      PROVE  pom_tier_index(model, score) = NodeTier(model, score)
  <2> HIDE DEF places, lighter
  <2>1. (CHOOSE k \in places : TRUE) = i
    BY <1>4
  <2> QED
    BY <1>1, <1>3, <1>4, <2>1
<1>5. CASE score >= VERY_LIGHT_ACTIVATION_DAA
  <2>1. order = <<"Qwen3-1.7B", "Gemma-3-4B", "Dolphin-Llama3-8B", "Qwen3-32B", "Llama-3.3-70B-Q2">>
    BY <1>5 DEF TierOrder
  <2>2. Provable(score) = {"Qwen3-1.7B", "Gemma-3-4B", "Dolphin-Llama3-8B", "Qwen3-32B",
                           "Llama-3.3-70B-Q2"}
    BY <1>5, ProvableModels
  <2>3. model \in Provable(score)
    BY <1>2, <2>1, <2>2
  <2> HIDE DEF order
  <2>4. CASE model = "Qwen3-1.7B"
    <3>1. places = {1}
      BY <2>1, <2>4
    <3>2. lighter = {}
      BY <2>2, <2>4 DEF Weight
    <3>3. Cardinality({}) = 0
      BY FS_EmptySet
    <3> QED
      BY <1>4, <2>3, <3>1, <3>2, <3>3
  <2>5. CASE model = "Gemma-3-4B"
    <3>1. places = {2}
      BY <2>1, <2>5
    <3>2. lighter = {"Qwen3-1.7B"}
      BY <2>2, <2>5 DEF Weight
    <3>3. Cardinality({"Qwen3-1.7B"}) = 1
      BY OneName
    <3> QED
      BY <1>4, <2>3, <3>1, <3>2, <3>3
  <2>6. CASE model = "Dolphin-Llama3-8B"
    <3>1. places = {3}
      BY <2>1, <2>6
    <3>2. lighter = {"Qwen3-1.7B", "Gemma-3-4B"}
      BY <2>2, <2>6 DEF Weight
    <3>3. Cardinality({"Qwen3-1.7B", "Gemma-3-4B"}) = 2
      BY TwoNames
    <3> QED
      BY <1>4, <2>3, <3>1, <3>2, <3>3
  <2>7. CASE model = "Qwen3-32B"
    <3>1. places = {4}
      BY <2>1, <2>7
    <3>2. lighter = {"Qwen3-1.7B", "Gemma-3-4B", "Dolphin-Llama3-8B"}
      BY <2>2, <2>7 DEF Weight
    <3>3. Cardinality({"Qwen3-1.7B", "Gemma-3-4B", "Dolphin-Llama3-8B"}) = 3
      BY ThreeNames
    <3> QED
      BY <1>4, <2>3, <3>1, <3>2, <3>3
  <2>8. CASE model = "Llama-3.3-70B-Q2"
    <3>1. places = {5}
      BY <2>1, <2>8
    <3>2. lighter = {"Qwen3-1.7B", "Gemma-3-4B", "Dolphin-Llama3-8B", "Qwen3-32B"}
      BY <2>2, <2>8 DEF Weight
    <3>3. Cardinality({"Qwen3-1.7B", "Gemma-3-4B", "Dolphin-Llama3-8B", "Qwen3-32B"}) = 4
      BY FourNames
    <3> QED
      BY <1>4, <2>3, <3>1, <3>2, <3>3
  <2> QED
    BY <2>2, <2>3, <2>4, <2>5, <2>6, <2>7, <2>8
<1>6. CASE ~(score >= VERY_LIGHT_ACTIVATION_DAA)
  <2>1. order = <<"Gemma-3-4B", "Dolphin-Llama3-8B", "Qwen3-32B", "Llama-3.3-70B">>
    BY <1>6 DEF TierOrder
  <2>2. Provable(score) = {"Gemma-3-4B", "Dolphin-Llama3-8B", "Qwen3-32B", "Llama-3.3-70B"}
    BY <1>6, ProvableModels
  <2>3. model \in Provable(score)
    BY <1>2, <2>1, <2>2
  <2> HIDE DEF order
  <2>4. CASE model = "Gemma-3-4B"
    <3>1. places = {1}
      BY <2>1, <2>4
    <3>2. lighter = {}
      BY <2>2, <2>4 DEF Weight
    <3>3. Cardinality({}) = 0
      BY FS_EmptySet
    <3> QED
      BY <1>4, <2>3, <3>1, <3>2, <3>3
  <2>5. CASE model = "Dolphin-Llama3-8B"
    <3>1. places = {2}
      BY <2>1, <2>5
    <3>2. lighter = {"Gemma-3-4B"}
      BY <2>2, <2>5 DEF Weight
    <3>3. Cardinality({"Gemma-3-4B"}) = 1
      BY OneName
    <3> QED
      BY <1>4, <2>3, <3>1, <3>2, <3>3
  <2>6. CASE model = "Qwen3-32B"
    <3>1. places = {3}
      BY <2>1, <2>6
    <3>2. lighter = {"Gemma-3-4B", "Dolphin-Llama3-8B"}
      BY <2>2, <2>6 DEF Weight
    <3>3. Cardinality({"Gemma-3-4B", "Dolphin-Llama3-8B"}) = 2
      BY TwoNames
    <3> QED
      BY <1>4, <2>3, <3>1, <3>2, <3>3
  <2>7. CASE model = "Llama-3.3-70B"
    <3>1. places = {4}
      BY <2>1, <2>7
    <3>2. lighter = {"Gemma-3-4B", "Dolphin-Llama3-8B", "Qwen3-32B"}
      BY <2>2, <2>7 DEF Weight
    <3>3. Cardinality({"Gemma-3-4B", "Dolphin-Llama3-8B", "Qwen3-32B"}) = 3
      BY ThreeNames
    <3> QED
      BY <1>4, <2>3, <3>1, <3>2, <3>3
  <2> QED
    BY <2>2, <2>3, <2>4, <2>5, <2>6, <2>7
<1> QED
  BY <1>5, <1>6

-----------------------------------------------------------------------------
(* Trees of old versions.                                                  *)

\* A full tree of an old version is longer than the file of its model.
LEMMA FullTreeDoesNotFit ==
  ASSUME NEW tensors \in Tensors, LargeEnough(tensors)
  PROVE  ~TreeFits(tensors, FullTree(tensors))
<1> DEFINE n == n_chunks(tensors)
           R == RootLevel(n)
           dense == Levels(Leaves(tensors), R)
           C(l) == count_at_level(n, l)
           U == UNION {ToSet(dense[l]) : l \in 0 .. R}
           g == [l \in 1 .. R |-> [x \in Seq(U) |-> x \o dense[l]]]
           Is(h) == h = [l \in 0 .. R |-> IF l = 0 THEN dense[0] ELSE h[l - 1] \o dense[l]]
           full == CHOOSE h : Is(h)
<1>1. /\ n \in Nat \ {0} /\ n > Power[CheckpointInterval - 1] /\ R \in Nat
      /\ DenseLevels(Leaves(tensors)) = dense
      /\ \A l \in 0 .. R : Row(dense[l], C(l))
  BY DenseTree
<1>2. FullTree(tensors) = full[R]
  BY <1>1 DEF FullTree
<1>3. ASSUME NEW l \in 0 .. R
      PROVE  dense[l] \in Seq(U) /\ Len(dense[l]) = C(l) /\ C(l) \in Nat
  <2> DEFINE s == dense[l]
  <2>1. C(l) \in Nat /\ Len(s) = C(l) /\ s = [i \in 1 .. C(l) |-> s[i]]
    BY <1>1 DEF Row
  <2>2. \A i \in 1 .. C(l) : s[i] \in U
    <3> HIDE DEF s
    <3>1. \A i \in 1 .. C(l) : s[i] \in ToSet(s)
      BY <2>1 DEF ToSet
    <3> QED
      BY <3>1 DEF s
  <2> HIDE DEF s, U, C
  <2>3. s \in [1 .. C(l) -> U]
    BY <2>1, <2>2
  <2>4. s \in Seq(U)
    BY <2>1, <2>3, SeqDef
  <2> QED
    BY <2>1, <2>4 DEF s
<1>4. ExpectedSize(n) = Offset(n, R) + 1 /\ C(R) = 1 /\ C(0) = n
  BY <1>1, RootReached, CountRecursion DEF ExpectedSize
<1>5. /\ Offset(n, 0) = 0
      /\ \A l \in Nat : /\ Offset(n, l) \in Nat /\ Offset(n, l + 1) = Offset(n, l) + Stored(n, l)
                        /\ Stored(n, l) \in Nat /\ (Stored(n, l) = C(l) \/ Stored(n, l) = 0)
  BY <1>1, OffsetRecursion DEF Stored
<1>6. Stored(n, 0) = 0
  BY <1>1, CheckpointLevels DEF Stored
<1>7. ExpectedSize(n) \in Nat
  BY <1>1, PlacesOfLevels
<1>8. TreeFits(tensors, FullTree(tensors)) => Len(FullTree(tensors)) = ExpectedSize(n)
  BY DEF TreeFits
<1> HIDE DEF n, R, dense, C, U
<1>9. Steps(g, 1 .. R, Seq(U))
  <2>1. \A l \in 1 .. R : l \in 0 .. R
    BY <1>1
  <2>2. \A l \in 1 .. R, x \in Seq(U) : x \o dense[l] \in Seq(U)
    BY <1>3, <2>1
  <2> QED
    BY <2>2 DEF Steps
<1>10. \A l \in 1 .. R, x \in Seq(U) : g[l][x] = x \o dense[l]
  OBVIOUS
<1> HIDE DEF g
<1>11. 0 \in 0 .. R /\ dense[0] \in Seq(U)
  BY <1>1, <1>3
<1>12. PICK f : UpTo(f, R, Seq(U), dense[0], g)
  BY <1>1, <1>9, <1>11, RecursionUpTo
<1>13. Is(f)
  <2>1. f \in [0 .. R -> Seq(U)] /\ f[0] = dense[0]
    BY <1>12 DEF UpTo
  <2>2. ASSUME NEW l \in 0 .. R, l # 0 PROVE f[l] = f[l - 1] \o dense[l]
    <3>1. l \in 1 .. R /\ l - 1 \in 0 .. R
      BY <1>1, <2>2
    <3>2. f[l - 1] \in Seq(U)
      BY <2>1, <3>1
    <3> QED
      BY <1>10, <1>12, <3>1, <3>2 DEF UpTo
  <2> QED
    BY <2>1, <2>2
<1>14. Is(full)
  BY <1>13
<1> HIDE DEF full
<1>15. full[0] = dense[0]
  BY <1>11, <1>14
<1>16. \A l \in 1 .. R : full[l] = full[l - 1] \o dense[l]
  <2>1. \A l \in 1 .. R : l \in 0 .. R /\ l # 0
    OBVIOUS
  <2> QED
    BY <1>14, <2>1
<1> HIDE DEF Is
<1> DEFINE Good(l) == full[l] \in Seq(U) /\ Len(full[l]) >= n + Offset(n, l + 1)
           Bad == {l \in 0 .. R : ~Good(l)}
<1>17. Bad = {}
  <2> SUFFICES ASSUME Bad # {} PROVE FALSE
    OBVIOUS
  <2>1. PICK m \in Bad : \A k \in Bad : m <= k
    <3>1. Bad \in SUBSET Nat
      OBVIOUS
    <3> HIDE DEF Bad
    <3> QED
      BY <3>1, Least
  <2>2. m # 0
    <3>1. Offset(n, 0 + 1) = 0
      BY <1>5, <1>6
    <3>2. Len(full[0]) = n
      BY <1>3, <1>4, <1>11, <1>15
    <3>3. Good(0)
      BY <1>1, <1>11, <1>15, <3>1, <3>2
    <3> HIDE DEF Good
    <3> QED
      BY <2>1, <3>3
  <2>3. m \in 1 .. R /\ m - 1 \in 0 .. R /\ m \in 0 .. R /\ m \in Nat /\ (m - 1) + 1 = m
    BY <1>1, <2>1, <2>2
  <2>4. Good(m - 1)
    <3>1. m - 1 \notin Bad
      <4> HIDE DEF Bad
      <4> QED
        BY <2>1, <2>3
    <3> HIDE DEF Good
    <3> QED
      BY <2>3, <3>1
  <2>5. full[m - 1] \in Seq(U) /\ Len(full[m - 1]) >= n + Offset(n, m)
    BY <2>3, <2>4
  <2>6. dense[m] \in Seq(U) /\ Len(dense[m]) = C(m) /\ C(m) \in Nat
    BY <1>3, <2>3
  <2>7. full[m] \in Seq(U) /\ Len(full[m]) = Len(full[m - 1]) + C(m)
    <3>1. full[m] = full[m - 1] \o dense[m]
      BY <1>16, <2>3
    <3> DEFINE s == full[m - 1]
               t == dense[m]
    <3>2. s \in Seq(U) /\ t \in Seq(U) /\ Len(t) = C(m) /\ full[m] = s \o t
      BY <2>5, <2>6, <3>1
    <3> HIDE DEF s, t, Good, Bad
    <3>3. full[m] \in Seq(U) /\ Len(full[m]) = Len(s) + Len(t)
      BY <3>2, ConcatProperties
    <3> QED
      BY <3>2, <3>3 DEF s
  <2>8. /\ Offset(n, m) \in Nat /\ Stored(n, m) \in Nat /\ Stored(n, m) <= C(m)
        /\ Offset(n, m + 1) = Offset(n, m) + Stored(n, m)
    <3> HIDE DEF Good, Bad
    <3>1. /\ Offset(n, m) \in Nat /\ Offset(n, m + 1) = Offset(n, m) + Stored(n, m)
          /\ Stored(n, m) \in Nat /\ (Stored(n, m) = C(m) \/ Stored(n, m) = 0)
      BY <1>5, <2>3
    <3> QED
      BY <2>6, <3>1
  <2>9. Len(full[m - 1]) \in Nat
    BY <2>5, LenProperties
  <2>10. Len(full[m]) >= n + Offset(n, m + 1)
    BY <1>1, <2>5, <2>6, <2>7, <2>8, <2>9
  <2>11. Good(m)
    BY <2>7, <2>10
  <2> HIDE DEF Good
  <2> QED
    BY <2>1, <2>11
<1>18. Good(R)
  <2>1. R \in 0 .. R
    BY <1>1
  <2> HIDE DEF Good
  <2> QED
    BY <1>17, <2>1
<1>19. Stored(n, R) = 1
  BY <1>4 DEF Stored, IsCheckpoint, C
<1>20. Offset(n, R + 1) = ExpectedSize(n)
  BY <1>1, <1>4, <1>5, <1>19
<1> QED
  BY <1>1, <1>2, <1>7, <1>8, <1>18, <1>20

-----------------------------------------------------------------------------
(* The index and everything else.                                          *)

\* ensure_daemon.
LEMMA IpfsKeeps ==
  ASSUME IpfsTypeOK, NEW local, NEW inPath, IpfsStep(local, inPath)
  PROVE  IpfsTypeOK'
<1>1. CASE CheckDaemon(local, inPath) \/ KuboFails
  BY <1>1 DEF CheckDaemon, KuboFails, GiveUpIpfs, To, IpfsTypeOK
<1>2. CASE FetchKubo \/ UnpackEnds
  BY <1>2 DEF FetchKubo, UnpackEnds, To, IpfsTypeOK
<1>3. CASE StartDaemon(inPath)
  <2>1. (inPath \/ kubo = "whole") \in BOOLEAN
    OBVIOUS
  <2> QED
    BY <1>3, <2>1 DEF StartDaemon, To, IpfsTypeOK
<1> QED
  BY <1>1, <1>2, <1>3 DEF IpfsStep

\* The end of the process.
LEMMA HaltFrame ==
  ASSUME Frame, Halt, crashes' \in 0 .. MaxCrashes
  PROVE  Frame'
  BY DEF Frame, Halt, Phases, IpfsTypeOK, files, NoBlock

\* Start-up, until the first connection.
LEMMA StartFrame ==
  ASSUME Frame, Boot \/ LoadKey \/ GenerateKey \/ Stage \/ Fetch \/ FetchFails \/ Fetched
  PROVE  Frame'
<1>1. CASE Boot
  BY <1>1 DEF Boot, Frame, Phases, IpfsTypeOK, ipfsVars, files, mining
<1>2. CASE LoadKey
  <2>1. CASE keyFile = "short"
    BY <1>2, <2>1, HaltFrame DEF LoadKey, Stop, Frame
  <2>2. CASE keyFile # "short"
    BY <1>2, <2>2 DEF LoadKey, Frame, Phases, IpfsTypeOK, ipfsVars, files, mining
  <2> QED
    BY <2>1, <2>2
<1>3. CASE GenerateKey
  BY <1>3 DEF GenerateKey, Frame, Phases, IpfsTypeOK, ipfsVars, mining
<1>4. CASE Stage
  BY <1>4 DEF Stage, Frame, Phases, IpfsTypeOK, ipfsVars, files, mining
<1>5. CASE Fetch
  BY <1>5 DEF Fetch, Frame, Phases, IpfsTypeOK, ipfsVars, files, mining
<1>6. CASE FetchFails
  BY <1>6, HaltFrame DEF FetchFails, Stop, Frame
<1>7. CASE Fetched
  BY <1>7 DEF Fetched, Frame, Phases, IpfsTypeOK, ipfsVars, files, mining
<1> QED
  BY <1>1, <1>2, <1>3, <1>4, <1>5, <1>6, <1>7

\* The probe and the connections.
LEMMA SessionFrame ==
  ASSUME Frame,
         \/ ProbeFails \/ Probe \/ InstallLibs \/ EnsureDaemon \/ Connect \/ Reconnect
         \/ Freeze \/ LoseDaemon
  PROVE  Frame'
<1>1. CASE ProbeFails \/ Freeze
  BY <1>1, HaltFrame DEF ProbeFails, Freeze, Stop, Frame
<1>2. CASE Probe \/ InstallLibs
  <2>1. block = NoBlock
    BY <1>2 DEF Probe, InstallLibs, Frame
  <2> QED
    BY <1>2, <2>1
    DEF Probe, InstallLibs, ToConnection, Frame, Phases, IpfsTypeOK, ipfsVars, mining
<1>3. CASE EnsureDaemon
  <2>1. IpfsTypeOK'
    BY <1>3, IpfsKeeps DEF EnsureDaemon, Frame
  <2> QED
    BY <1>3, <2>1 DEF EnsureDaemon, Frame, files, mining
<1>4. CASE Connect
  BY <1>4 DEF Connect, Frame, Phases, IpfsTypeOK, ipfsVars, files, mining
<1>5. CASE Reconnect
  BY <1>5 DEF Reconnect, ToConnection, Frame, Phases, IpfsTypeOK
<1>6. CASE LoseDaemon
  BY <1>6 DEF LoseDaemon, DaemonDies, Frame, IpfsTypeOK, files, mining
<1> QED
  BY <1>1, <1>2, <1>3, <1>4, <1>5, <1>6

\* Proof of Model.
LEMMA MiningFrame ==
  ASSUME Frame, NewJob \/ OpenIndex \/ BuildIndex \/ Mine \/ Prove \/ Submit
  PROVE  Frame'
<1>1. CASE NewJob
  BY <1>1 DEF NewJob, Frame, IpfsTypeOK, ipfsVars, files
<1>2. CASE OpenIndex
  <2>1. IsTree(<<>>)
    BY DEF IsTree
  <2>2. block = NoBlock
    BY <1>2 DEF OpenIndex, Frame
  <2> QED
    BY <1>2, <2>1, <2>2 DEF OpenIndex, Frame, IpfsTypeOK, ipfsVars
<1>3. CASE BuildIndex
  <2>1. index = "building" /\ IsTree(tree) /\ block = NoBlock
    BY <1>3 DEF BuildIndex, Frame
  <2>2. CASE Built(machine.tensors, tree)
    BY <1>3, <2>1, <2>2, BuiltFits DEF BuildIndex, Frame, IpfsTypeOK, ipfsVars
  <2>3. CASE ~Built(machine.tensors, tree)
    BY <1>3, <2>1, <2>3, AppendTree DEF BuildIndex, Frame, IpfsTypeOK, ipfsVars
  <2> QED
    BY <2>2, <2>3
<1>4. CASE Mine
  <2>1. phase = "mine" /\ index = "ready"
    BY <1>4 DEF Mine, FindNonce, Ready, Provides
  <2> QED
    BY <1>4, <2>1 DEF Mine, FindNonce, Frame, IpfsTypeOK, ipfsVars, files
<1>5. CASE Prove
  <2>1. phase = "mine" /\ index = "ready"
    BY <1>5 DEF Prove, GenerateBlock, Found, Frame
  <2> QED
    BY <1>5, <2>1 DEF Prove, GenerateBlock, Frame, IpfsTypeOK, ipfsVars, files
<1>6. CASE Submit
  BY <1>6 DEF Submit, Frame, IpfsTypeOK, ipfsVars, files
<1> QED
  BY <1>1, <1>2, <1>3, <1>4, <1>5, <1>6

\* Types, the fit of an index and the place of a block are kept by every step.
LEMMA StepFrame == Frame /\ [Next]_vars => Frame'
<1> SUFFICES ASSUME Frame, [Next]_vars PROVE Frame'
  OBVIOUS
<1>1. CASE Crash
  <2>1. crashes' \in 0 .. MaxCrashes
    BY <1>1, MachinesAssumption DEF Crash, Frame
  <2> QED
    BY <1>1, <2>1, HaltFrame DEF Crash
<1>2. CASE UNCHANGED vars
  BY <1>2 DEF vars, files, mining, ipfsVars, Frame, IpfsTypeOK
<1> QED
  BY <1>1, <1>2, StartFrame, SessionFrame, MiningFrame DEF Next, Local

-----------------------------------------------------------------------------
(* The model files over start-up, sessions and crashes.                    *)

\* Whoever leaves the files alone and comes to no later phase without them keeps them.
LEMMA OthersKeep ==
  ASSUME StoreIInv, Idle, UNCHANGED <<machine, store>>, phase' # "fetch",
         Served' => Served \/ Model = Unknown \/ WeightsAreWhole
  PROVE  StoreIInv'
<1>1. UNCHANGED <<StoreInv, SealedWhole, WeightsAreWhole, Model, Idle>>
  BY DEF store, StoreInv, StoreTypeOK, SealedWhole, exists, Whole, WeightsAreWhole, Model, Idle
<1> QED
  BY <1>1 DEF StoreIInv, ServedWhole

\* Whoever leaves the files, the machine and the phase alone keeps them.
LEMMA UnchangedStore ==
  ASSUME StoreIInv, UNCHANGED <<machine, phase, store>>
  PROVE  StoreIInv'
<1>1. UNCHANGED <<StoreInv, SealedWhole, WeightsAreWhole, Model, Idle, Settled>>
  BY DEF store, StoreInv, StoreTypeOK, SealedWhole, exists, Whole, WeightsAreWhole, Model,
     Idle, Settled, Pending
<1> QED
  BY <1>1 DEF StoreIInv, ServedWhole, Served

\* A download that is cut off is forgotten, and its seal was gone before.
LEMMA HaltStore ==
  ASSUME StoreIInv, Halt
  PROVE  StoreIInv'
<1>1. phase' = "off" /\ UNCHANGED <<have, sealed>> /\ todo' = {} /\ attempt' = 0 /\ stream' = "none"
  BY DEF Halt, Forget
<1>2. StoreInv' /\ Idle'
  BY <1>1, StoreAssumption DEF StoreIInv, StoreInv, StoreTypeOK, Idle
<1> QED
  BY <1>1, <1>2 DEF StoreIInv, SealedWhole, exists, Whole, ServedWhole, Served

\* Without a model to stage there is none to mine.
LEMMA NothingToMine ==
  ASSUME StagedSpecs(machine.tier, machine.vram) = <<>>
  PROVE  Model = Unknown
<1>1. {i \in DOMAIN <<>> : <<>>[i] \in PomModels} = {}
  OBVIOUS
<1> QED
  BY <1>1 DEF Model, PomSpec

\* The weights are kept whole, or pending, by every step.
LEMMA StepStore == StoreIInv /\ [Next]_vars => StoreIInv'
<1> SUFFICES ASSUME StoreIInv, [Next]_vars PROVE StoreIInv'
  OBVIOUS
<1> USE DEF Served
<1>1. CASE Crash \/ FetchFails \/ ProbeFails \/ Freeze
  BY <1>1, HaltStore DEF Crash, FetchFails, ProbeFails, Freeze, Stop
<1>2. CASE Boot \/ LoadKey \/ GenerateKey
  <2>1. CASE Halt
    BY <2>1, HaltStore
  <2>2. CASE ~Halt
    <3>1. Idle /\ UNCHANGED <<machine, store>> /\ phase' \in {"key", "write key", "stage"}
      BY <1>2, <2>2 DEF Boot, LoadKey, GenerateKey, Stop, StoreIInv
    <3> QED
      BY <3>1, OthersKeep
  <2> QED
    BY <2>1, <2>2
<1>3. CASE Stage
  <2>1. Idle /\ UNCHANGED machine
    BY <1>3 DEF Stage, StoreIInv
  <2>2. CASE StagedSpecs(machine.tier, machine.vram) = <<>>
    BY <1>3, <2>1, <2>2, NothingToMine, OthersKeep DEF Stage
  <2>3. CASE StagedSpecs(machine.tier, machine.vram) # <<>>
    <3>1. phase' = "fetch" /\ BeginEnsure
      BY <1>3, <2>3 DEF Stage
    <3> QED
      BY <2>1, <3>1, BeginKeeps DEF StoreIInv, ServedWhole
  <2> QED
    BY <2>2, <2>3
<1>4. CASE Fetch
  BY <1>4, StoreStepKeeps DEF Fetch, StoreIInv, ServedWhole
<1>5. CASE Fetched
  <2>1. todo = {} /\ Settled /\ StoreInv
    BY <1>5 DEF Fetched, Ensured, StoreIInv
  <2>2. WeightsAreWhole /\ Idle
    BY <2>1 DEF Settled, Pending, WeightsAreWhole, Idle, StoreInv
  <2> QED
    BY <1>5, <2>2, OthersKeep DEF Fetched
<1>6. CASE Probe \/ InstallLibs \/ EnsureDaemon \/ Connect \/ Reconnect \/ LoseDaemon
  <2>1. Served /\ Idle /\ UNCHANGED <<machine, store>> /\ phase' # "fetch"
    BY <1>6
    DEF Probe, InstallLibs, ToConnection, EnsureDaemon, Connect, Reconnect, LoseDaemon, StoreIInv
  <2> QED
    BY <2>1, OthersKeep
<1>7. CASE NewJob \/ OpenIndex \/ Mine \/ Prove \/ Submit
  <2>1. UNCHANGED <<machine, phase, store>>
    BY <1>7 DEF NewJob, OpenIndex, Mine, FindNonce, Prove, GenerateBlock, Submit
  <2> QED
    BY <2>1, UnchangedStore
<1>8. CASE BuildIndex \/ UNCHANGED vars
  <2>1. UNCHANGED <<machine, phase, store>>
    BY <1>8 DEF BuildIndex, vars
  <2> QED
    BY <2>1, UnchangedStore
<1> QED
  BY <1>1, <1>2, <1>3, <1>4, <1>5, <1>6, <1>7, <1>8 DEF Next, Local

-----------------------------------------------------------------------------
(* The index on disk and the block.                                        *)

\* Whoever leaves the file alone and has no new index or block.
LEMMA OthersKeepTree ==
  ASSUME TreeInv, BlockInv, UNCHANGED <<machine, tree>>,
         index' \in {index, "none"}, block' \in {block, NoBlock}
  PROVE  TreeInv' /\ BlockInv'
<1>1. TreeInv'
  BY DEF TreeInv
<1>2. CASE block' = NoBlock
  BY <1>1, <1>2 DEF BlockInv
<1>3. CASE block' = block
  <2>1. UNCHANGED <<FoundInv, Proved, ProvedInv>>
    BY <1>3 DEF FoundInv, current_tier, Model, Proved, ProvedInv
  <2> QED
    BY <1>1, <1>3, <2>1 DEF BlockInv
<1> QED
  BY <1>2, <1>3

\* Opening the index, and every node that a build writes.
LEMMA IndexKeepsTree ==
  ASSUME Frame, TreeInv, BlockInv, OpenIndex \/ BuildIndex
  PROVE  TreeInv' /\ BlockInv'
<1>1. machine.tensors \in Tensors /\ LargeEnough(machine.tensors) /\ machine' = machine
  <2>1. machine \in Machines /\ machine' = machine
    BY DEF Frame, OpenIndex, BuildIndex
  <2> QED
    BY <2>1, MachinesAssumption DEF Tensors
<1>2. block = NoBlock /\ block' = NoBlock
  BY DEF Frame, OpenIndex, BuildIndex
<1>3. BlockInv'
  BY <1>2 DEF BlockInv
<1>4. CASE OpenIndex
  <2>1. CASE tree # NoTree /\ TreeFits(machine.tensors, tree)
    <3>1. index' = "ready" /\ tree' = tree
      BY <1>4, <2>1 DEF OpenIndex
    <3>2. tree # FullTree(machine.tensors)
      BY <1>1, <2>1, FullTreeDoesNotFit
    <3>3. Begun(machine.tensors, tree)
      BY <2>1, <3>2 DEF TreeInv
    <3>4. Len(tree) = ExpectedSize(n_chunks(machine.tensors))
      BY <2>1 DEF TreeFits
    <3> QED
      BY <1>1, <1>3, <3>1, <3>3, <3>4 DEF TreeInv
  <2>2. CASE ~(tree # NoTree /\ TreeFits(machine.tensors, tree))
    <3>1. index' = "building" /\ tree' = <<>>
      BY <1>4, <2>2 DEF OpenIndex
    <3> QED
      BY <1>1, <1>3, <3>1, EmptyBegun DEF TreeInv
  <2> QED
    BY <2>1, <2>2
<1>5. CASE BuildIndex
  <2>1. Begun(machine.tensors, tree)
    BY <1>5 DEF BuildIndex, TreeInv
  <2>2. CASE Built(machine.tensors, tree)
    <3>1. index' = "ready" /\ tree' = tree
      BY <1>5, <2>2 DEF BuildIndex
    <3> QED
      BY <1>1, <1>3, <2>1, <2>2, <3>1 DEF TreeInv, Built
  <2>3. CASE ~Built(machine.tensors, tree)
    <3>1. index' = "building" /\ tree' = Append(tree, NextNode(machine.tensors, tree))
      BY <1>5, <2>3 DEF BuildIndex
    <3>2. Begun(machine.tensors, tree')
      BY <1>1, <2>1, <2>3, <3>1, NextNodeKeeps
    <3> QED
      BY <1>1, <1>3, <3>1, <3>2 DEF TreeInv
  <2> QED
    BY <2>2, <2>3
<1> QED
  BY <1>4, <1>5

\* A nonce is found for a job that has a tier, and proved over the tree that is there.
LEMMA BlockKeepsTree ==
  ASSUME Frame, TreeInv, BlockInv, Mine \/ Prove
  PROVE  TreeInv' /\ BlockInv'
<1>1. UNCHANGED <<machine, tree, index>>
  BY DEF Mine, FindNonce, Prove, GenerateBlock, files
<1>2. TreeInv'
  BY <1>1 DEF TreeInv
<1>3. daa \in Nat
  <2>1. daa \in ToSet(Daas)
    BY DEF Frame
  <2> QED
    BY <2>1, MachinesAssumption DEF ToSet
<1>4. \A score : current_tier(score)' = current_tier(score)
  BY <1>1 DEF current_tier, Model
<1>5. CASE Mine
  <2>1. PICK seed \in Seeds, target \in Targets : FindNonce(seed, target)
    BY <1>5 DEF Mine
  <2>2. block' = [daa |-> daa, seed |-> seed, target |-> target] /\ current_tier(daa) # Unknown
    BY <2>1 DEF FindNonce, Ready, Provides
  <2>3. ~Proved'
    BY <2>2 DEF Proved
  <2>4. FoundInv'
    BY <1>3, <1>4, <2>2 DEF FoundInv
  <2> QED
    BY <1>2, <2>3, <2>4 DEF BlockInv
<1>6. CASE Prove
  <2>1. PICK challenges \in Challenges : GenerateBlock(challenges)
    BY <1>6 DEF Prove
  <2>2. CASE block' = NoBlock
    BY <1>2, <2>2 DEF BlockInv
  <2>3. CASE block' # NoBlock
    <3>1. /\ FoundInv /\ Wins(machine.tensors, block.seed, block.target)
          /\ block' = [daa |-> block.daa, seed |-> block.seed, target |-> block.target,
                       challenges |-> challenges,
                       proof |-> build_proof(current_tier(block.daa), machine.tensors, tree,
                                             block.seed, challenges)]
      BY <2>1, <2>3 DEF GenerateBlock, Found, BlockInv
    <3>2. /\ block'.daa = block.daa /\ block'.seed = block.seed /\ block'.target = block.target
          /\ block'.challenges = challenges
          /\ block'.proof = build_proof(current_tier(block.daa), machine.tensors, tree,
                                        block.seed, challenges)
      BY <3>1
    <3>3. FoundInv'
      BY <1>4, <3>1, <3>2 DEF FoundInv
    <3>4. ProvedInv'
      BY <1>1, <1>4, <2>1, <3>1, <3>2 DEF ProvedInv
    <3> QED
      BY <1>2, <3>3, <3>4 DEF BlockInv
  <2> QED
    BY <2>2, <2>3
<1> QED
  BY <1>5, <1>6

\* What is on disk as an index, and the block, are kept by every step.
LEMMA StepTree == Frame /\ TreeInv /\ BlockInv /\ [Next]_vars => TreeInv' /\ BlockInv'
<1> SUFFICES ASSUME Frame, TreeInv, BlockInv, [Next]_vars PROVE TreeInv' /\ BlockInv'
  OBVIOUS
<1>1. CASE OpenIndex \/ BuildIndex
  BY <1>1, IndexKeepsTree
<1>2. CASE Mine \/ Prove
  BY <1>2, BlockKeepsTree
<1>3. CASE Crash \/ LoadKey \/ FetchFails \/ ProbeFails \/ Freeze
  <2>1. UNCHANGED <<machine, tree>> /\ index' \in {index, "none"} /\ block' \in {block, NoBlock}
    BY <1>3 DEF Crash, LoadKey, FetchFails, ProbeFails, Freeze, Stop, Halt, files, mining
  <2> QED
    BY <2>1, OthersKeepTree
<1>4. CASE Boot \/ GenerateKey \/ Stage \/ Fetch \/ Fetched \/ UNCHANGED vars
  <2>1. UNCHANGED <<machine, tree, index, block>>
    BY <1>4 DEF Boot, GenerateKey, Stage, Fetch, Fetched, vars, files, mining
  <2> QED
    BY <2>1, OthersKeepTree
<1>5. CASE Probe \/ InstallLibs \/ EnsureDaemon \/ Connect \/ Reconnect \/ LoseDaemon
  <2>1. UNCHANGED <<machine, tree, index>> /\ block' \in {block, NoBlock}
    BY <1>5
    DEF Probe, InstallLibs, ToConnection, EnsureDaemon, Connect, Reconnect, LoseDaemon, files,
        mining
  <2> QED
    BY <2>1, OthersKeepTree
<1>6. CASE NewJob \/ Submit
  <2>1. UNCHANGED <<machine, tree, index>> /\ block' \in {block, NoBlock}
    BY <1>6 DEF NewJob, Submit, files
  <2> QED
    BY <2>1, OthersKeepTree
<1> QED
  BY <1>1, <1>2, <1>3, <1>4, <1>5, <1>6 DEF Next, Local

\* The index of a machine.
LEMMA ReadyIsExact ==
  ASSUME Frame, TreeInv, index = "ready"
  PROVE  /\ machine.tensors \in Tensors /\ LargeEnough(machine.tensors)
         /\ TreeExact(machine.tensors, tree)
<1>1. machine.tensors \in Tensors /\ LargeEnough(machine.tensors)
  <2>1. machine \in Machines
    BY DEF Frame
  <2> QED
    BY <2>1, MachinesAssumption DEF Tensors
<1>2. /\ Begun(machine.tensors, tree)
      /\ Len(tree) = ExpectedSize(n_chunks(machine.tensors))
  BY DEF TreeInv
<1> QED
  BY <1>1, <1>2, BuiltExact

\* A block that is proved passes at the node.
LEMMA ProvedIsAccepted ==
  ASSUME Frame, TreeInv, BlockInv
  PROVE  BlocksAccepted
<1> DEFINE tensors == machine.tensors
           S == 0 .. Word - 1
           leaves == Leaves(tensors)
           tier == current_tier(block.daa)
           final == Trace(tensors, block.seed)[WalkSteps]
<1> SUFFICES ASSUME Proved
             PROVE  /\ verify_proof(block.seed, block.proof, Len(leaves), merkle_root(leaves),
                                    block.target, block.challenges)
                    /\ NumberOf(block.proof.pow_value, ByteBase)
                         <= NumberOf(block.target, ByteBase)
                    /\ block.proof.tier = NodeTier(Model, block.daa)
  BY DEF BlocksAccepted
<1>1. FoundInv /\ ProvedInv /\ index = "ready" /\ machine \in Machines
  BY DEF Proved, BlockInv, Frame
<1>2. tensors \in Tensors /\ LargeEnough(tensors) /\ TreeExact(tensors, tree)
  BY <1>1, ReadyIsExact
<1>3. S \in SUBSET Nat /\ block.seed \in S /\ Closed(tensors, S)
  <2>1. Word \in Nat
    BY DeviceAssumption, PowerRecursion DEF Word
  <2>2. S \in SUBSET Nat
    BY <2>1
  <2>3. block.seed \in S /\ Closed(tensors, S)
    BY <1>1, StatesAssumption DEF FoundInv, Closed
  <2> QED
    BY <2>2, <2>3
<1>4. /\ Wins(tensors, block.seed, block.target) /\ block.challenges \in Challenges
      /\ block.proof = build_proof(tier, tensors, tree, block.seed, block.challenges)
  BY <1>1 DEF ProvedInv
<1>5. block.proof.tier = tier /\ block.proof.pow_value = PowValue(final)
  BY <1>4 DEF build_proof
<1>6. final \in S /\ le_leq(PowValue(final), block.target) /\ block.target \in Targets
  <2>1. WalkSteps \in 0 .. WalkSteps
    BY WalkAssumption
  <2>2. final \in S
    <3> HIDE DEF S
    <3> QED
      BY <1>3, <2>1, TraceRecursion DEF Walks
  <2>3. le_leq(PowValue(final), block.target)
    BY <1>4 DEF Wins, walk_final
  <2> QED
    BY <1>1, <2>2, <2>3 DEF FoundInv
<1> HIDE DEF S, final, tensors
<1>7. verify_proof(block.seed, block.proof, Len(leaves), merkle_root(leaves), block.target,
                   block.challenges)
  BY <1>2, <1>3, <1>4, ProofVerifies
<1>8. NumberOf(block.proof.pow_value, ByteBase) <= NumberOf(block.target, ByteBase)
  <2> DEFINE value == PowValue(final)
             target == block.target
  <2>1. /\ ByteBase \in Nat \ {0} /\ Len(value) = Len(target)
        /\ value \in Seq(0 .. ByteBase - 1) /\ target \in Seq(0 .. ByteBase - 1)
    BY <1>6, BytesAssumption DEF S
  <2>2. le_leq(value, target)
    BY <1>6
  <2> HIDE DEF value, target
  <2>3. NumberOf(value, ByteBase) <= NumberOf(target, ByteBase)
    BY <2>1, <2>2, LowerNumber
  <2> QED
    BY <1>5, <2>3 DEF value, target
<1>9. block.proof.tier = NodeTier(Model, block.daa)
  <2>1. tier # Unknown /\ block.daa \in Nat
    BY <1>1 DEF FoundInv
  <2>2. tier = pom_tier_index(Model, block.daa)
    BY <2>1 DEF current_tier
  <2> QED
    BY <1>5, <2>1, <2>2, TierIsOfNode
<1> QED
  BY <1>7, <1>8, <1>9

-----------------------------------------------------------------------------
(* What the runs check, for every instance.                                *)

\* A first start, with whatever files it finds, is in the invariant.
LEMMA InitIInv == Init => IInv
<1> SUFFICES ASSUME Init PROVE IInv
  OBVIOUS
<1>1. Frame
  <2>1. Daas[1] \in ToSet(Daas) /\ 0 \in 0 .. MaxCrashes /\ machine.libs \in BOOLEAN
    BY MachinesAssumption DEF Init, ToSet
  <2>2. IpfsTypeOK
    BY DEF Init, IpfsInit, IpfsTypeOK
  <2> QED
    BY <2>1, <2>2 DEF Init, Frame, Phases
<1>2. StoreInv /\ SealedWhole
  <2>1. PICK brought \in SUBSET StoredFiles :
          have = [f \in StoredFiles |-> IF f \in brought THEN Size[f] ELSE Absent]
    BY DEF Init, StoreInit
  <2>2. \A f \in StoredFiles : have[f] \in Absent .. Size[f] /\ (exists(f) => Whole(f))
    BY <2>1, StoreAssumption DEF Absent, exists, Whole
  <2>3. DOMAIN have = StoredFiles /\ \A f \in StoredFiles : have[f] \in Absent .. Size[f]
    BY <2>1, <2>2
  <2>4. todo = {} /\ attempt = 0 /\ stream = "none" /\ sealed \in BOOLEAN
    BY DEF Init, StoreInit
  <2>5. StoreInv
    BY <2>3, <2>4, StoreAssumption DEF StoreInv, StoreTypeOK
  <2> QED
    BY <2>2, <2>5 DEF SealedWhole, StoredFiles
<1>3. TreeInv /\ BlockInv
  BY DEF Init, TreeInv, BlockInv
<1> QED
  BY <1>1, <1>2, <1>3 DEF Init, StoreInit, IInv, StoreIInv, ServedWhole, Served, Idle

\* The inductive invariant holds in every reachable state.
THEOREM BootInvariant == Spec => []IInv
<1>1. IInv /\ [Next]_vars => IInv'
  BY StepFrame, StepStore, StepTree DEF IInv
<1> QED
  BY <1>1, InitIInv, PTL DEF Spec

\* Every variable has its type, an index that is ready has the size of the tree of its
\* model, and a block is there only while an index is.
THEOREM BootTypeCorrect == Spec => []TypeOK
<1>1. IInv => TypeOK
  BY DEF IInv, Frame, StoreIInv, StoreInv, TypeOK
<1> QED
  BY <1>1, BootInvariant, PTL

\* Whatever the gateway answered and wherever earlier runs died, a sealed model has no
\* weights that end early, and a miner that goes on to the probe, to a session or to mining
\* has the weights of its model whole.
THEOREM MinesWholeWeights == Spec => []WeightsWhole
<1>1. IInv => WeightsWhole
  BY DEF IInv, StoreIInv, SealedWhole, ServedWhole, Served, WeightsWhole
<1> QED
  BY <1>1, BootInvariant, PTL

\* A tree that is opened or built as the index of a machine is the dense tree of its model's
\* chunks: root, nodes that are stored and nodes that are left out, whatever was on the disk
\* before, and wherever earlier builds were killed.
THEOREM IndexIsExact == Spec => []IndexExact
<1>1. IInv => IndexExact
  BY ReadyIsExact DEF IInv, IndexExact
<1> QED
  BY <1>1, BootInvariant, PTL

\* A block with a proof passes the node's check: every opened chunk, the root, the proof of
\* work as a number, and the tier of the model at the score of the block.
THEOREM BlocksAreAccepted == Spec => []BlocksAccepted
<1>1. IInv => BlocksAccepted
  BY ProvedIsAccepted DEF IInv
<1> QED
  BY <1>1, BootInvariant, PTL
=============================================================================
