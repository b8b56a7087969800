------------------------- MODULE EscrowClaims_proofs -------------------------
(***************************************************************************)
(* First the escrow watcher alone, for every set of blocks in every order, *)
(* every disk and every answer: an output is in the list once, and the     *)
(* indexes say what the list says.                                         *)
(*                                                                         *)
(* Then the watcher at work over a connection, whatever else is submitted  *)
(* over it.  A claim that meets no other request there gets the answer     *)
(* that is for it: what is claimed was spent, what is given up was lost.   *)
(* A claim that does may get another's, as the run escrow_routing shows;   *)
(* even then the watcher never waits for an answer that cannot come.       *)
(***************************************************************************)
EXTENDS EscrowClaims, FiniteSetTheorems, FunctionTheorems, SequenceTheorems, TLAPS

\* The three are inductive together: deduplication trusts the index, and the index is
\* kept by pushes only if it was exact.
IInv == TypeOK /\ OneEntryPerOutpoint /\ IndexesExact

-----------------------------------------------------------------------------
(* Ascending numberings.                                                   *)

\* No element is numbered twice, and they are few enough to number.
LEMMA AscendingIsInjective ==
  ASSUME NEW n \in Nat, NEW S \in SUBSET (1..n), NEW f \in Ascending(S)
  PROVE  /\ Cardinality(S) \in 0..n /\ f \in [1..Cardinality(S) -> S]
         /\ \A i, j \in 1..Cardinality(S) : f[i] = f[j] => i = j
<1>1. IsFiniteSet(1..n) /\ Cardinality(1..n) = n
  BY FS_Interval
<1>2. Cardinality(S) \in 0..n
  <2>1. IsFiniteSet(S) /\ Cardinality(S) <= Cardinality(1..n)
    BY <1>1, FS_Subset
  <2>2. Cardinality(S) \in Nat
    BY <2>1, FS_CardinalityType
  <2> QED
    BY <1>1, <2>1, <2>2
<1>3. /\ f \in [1..Cardinality(S) -> S]
      /\ \A i, j \in 1..Cardinality(S) : i < j => f[i] < f[j]
  BY DEF Ascending
<1>4. ASSUME NEW i \in 1..Cardinality(S), NEW j \in 1..Cardinality(S), f[i] = f[j]
      PROVE  i = j
  <2>1. f[i] \in S /\ f[j] \in S
    BY <1>3
  <2>2. f[i] \in 1..n /\ f[j] \in 1..n
    BY <2>1
  <2>3. ~(i < j) /\ ~(j < i)
    BY <1>3, <1>4, <2>2
  <2> QED
    BY <1>2, <2>3
<1> QED
  BY <1>2, <1>3, <1>4

\* The ascending numbering of 1..n is the identity: as many numbers fit below f[i] as
\* below i, and as many above.
LEMMA AscendingOfAll ==
  ASSUME NEW n \in Nat, NEW S \in SUBSET (1..n), NEW f \in Ascending(S), Cardinality(S) = n,
         NEW i \in 1..n
  PROVE  f[i] = i
<1>1. f \in [1..n -> 1..n]
  BY DEF Ascending
<1>2. \A j, k \in 1..n : j < k => f[j] < f[k]
  BY DEF Ascending
<1>3. \A j, k \in 1..n : f[j] = f[k] => j = k
  BY AscendingIsInjective
<1>4. i \in Nat /\ f[i] \in 1..n
  BY <1>1
<1>5. i <= f[i]
  <2> DEFINE g == [k \in 1..i |-> f[k]]
  <2>1. g \in [1..i -> 1..f[i]]
    <3>1. ASSUME NEW k \in 1..i
          PROVE  f[k] \in 1..f[i]
      <4>1. k \in 1..n /\ f[k] \in 1..n
        BY <1>1, <1>4
      <4> QED
        BY <1>2, <1>4, <4>1
    <3> QED
      BY <3>1
  <2>2. \A j, k \in 1..i : g[j] = g[k] => j = k
    BY <1>3, <1>4
  <2> HIDE DEF g
  <2>3. g \in Injection(1..i, 1..f[i])
    BY <2>1, <2>2, Fun_IsInj
  <2>4. Cardinality(1..i) <= Cardinality(1..f[i])
    BY <1>4, <2>3, FS_Injection, FS_Interval
  <2> QED
    BY <1>4, <2>4, FS_Interval
<1>6. f[i] <= i
  <2> DEFINE g == [k \in i..n |-> f[k]]
  <2>1. g \in [i..n -> f[i]..n]
    <3>1. ASSUME NEW k \in i..n
          PROVE  f[k] \in f[i]..n
      <4>1. k \in 1..n /\ f[k] \in 1..n
        BY <1>1, <1>4
      <4> QED
        BY <1>2, <1>4, <4>1
    <3> QED
      BY <3>1
  <2>2. \A j, k \in i..n : g[j] = g[k] => j = k
    BY <1>3, <1>4
  <2> HIDE DEF g
  <2>3. g \in Injection(i..n, f[i]..n)
    BY <2>1, <2>2, Fun_IsInj
  <2>4. Cardinality(i..n) <= Cardinality(f[i]..n)
    BY <1>4, <2>3, FS_Injection, FS_Interval
  <2> QED
    BY <1>4, <2>4, FS_Interval
<1> QED
  BY <1>4, <1>5, <1>6

-----------------------------------------------------------------------------
(* Lists of entries.                                                       *)

\* compact leaves a list of the same entries without repetitions, and if it is as long as
\* before it is the same list: the indexes need not be rebuilt.
LEMMA CompactedKeeps ==
  ASSUME NEW es \in Seq(Entry), Distinct(es), NEW due \in BOOLEAN, NEW kept \in Compacted(es, due)
  PROVE  /\ kept \in Seq(Entry) /\ Distinct(kept)
         /\ Len(kept) = Len(es) => kept = es
<1>1. CASE ~due
  BY <1>1 DEF Compacted
<1>2. CASE due
  <2> DEFINE keep == {i \in DOMAIN es : Open(es[i])}
             n == Cardinality(keep)
  <2>1. PICK f \in Ascending(keep) : kept = [k \in 1..n |-> es[f[k]]]
    BY <1>2 DEF Compacted
  <2>2. DOMAIN es = 1..Len(es) /\ Len(es) \in Nat /\ \A i \in 1..Len(es) : es[i] \in Entry
    BY LenProperties
  <2>3. keep \in SUBSET (1..Len(es))
    BY <2>2
  <2> HIDE DEF keep
  <2>4. /\ n \in 0..Len(es) /\ f \in [1..n -> keep]
        /\ \A i, j \in 1..n : f[i] = f[j] => i = j
    BY <2>2, <2>3, AscendingIsInjective
  <2> HIDE DEF n
  <2>5. \A k \in 1..n : f[k] \in DOMAIN es /\ es[f[k]] \in Entry
    BY <2>2, <2>3, <2>4
  <2>6. Len(kept) = n /\ DOMAIN kept = 1..n /\ kept \in Seq(Entry)
    BY <2>1, <2>4, <2>5
  <2>7. Distinct(kept)
    BY <2>1, <2>4, <2>6, <2>5 DEF Distinct
  <2>8. ASSUME Len(kept) = Len(es)
        PROVE  kept = es
    <3>1. \A i \in 1..Len(es) : f[i] = i
      BY <2>2, <2>3, <2>6, <2>8, AscendingOfAll DEF n
    <3> QED
      BY <2>1, <2>2, <2>6, <2>8, <3>1
  <2> QED
    BY <2>6, <2>7, <2>8
<1> QED
  BY <1>1, <1>2

\* What changes neither outpoints nor blocks changes no index.
LEMMA SameNames ==
  ASSUME NEW es \in Seq(Entry), NEW fs \in Seq(Entry), DOMAIN fs = DOMAIN es,
         \A i \in DOMAIN es : fs[i].outpoint = es[i].outpoint /\ fs[i].block = es[i].block
  PROVE  /\ OutpointsOf(fs) = OutpointsOf(es) /\ IndexOf(fs) = IndexOf(es)
         /\ Distinct(es) => Distinct(fs)
  BY DEF OutpointsOf, IndexOf, Distinct

\* A change of entries in their places.
LEMMA SlashedKeeps ==
  ASSUME NEW es \in Seq(Entry), NEW positions
  PROVE  /\ Slashed(es, positions) \in Seq(Entry) /\ Len(Slashed(es, positions)) = Len(es)
         /\ OutpointsOf(Slashed(es, positions)) = OutpointsOf(es)
         /\ IndexOf(Slashed(es, positions)) = IndexOf(es)
         /\ Distinct(es) => Distinct(Slashed(es, positions))
<1> DEFINE fs == Slashed(es, positions)
<1>1. DOMAIN es = 1..Len(es) /\ Len(es) \in Nat /\ \A i \in 1..Len(es) : es[i] \in Entry
  BY LenProperties
<1>2. /\ DOMAIN fs = DOMAIN es /\ fs = [i \in 1..Len(es) |-> fs[i]]
      /\ \A i \in DOMAIN es :
           /\ fs[i] \in Entry
           /\ fs[i].outpoint = es[i].outpoint /\ fs[i].block = es[i].block
  BY <1>1 DEF Slashed, Entry
<1> HIDE DEF fs
<1>3. fs \in Seq(Entry) /\ Len(fs) = Len(es)
  BY <1>1, <1>2
<1>4. /\ OutpointsOf(fs) = OutpointsOf(es) /\ IndexOf(fs) = IndexOf(es)
      /\ Distinct(es) => Distinct(fs)
  BY <1>2, <1>3, SameNames
<1> QED
  BY <1>3, <1>4 DEF fs

\* New entries of one block behind the others: the indexes follow.
LEMMA PushedKeeps ==
  ASSUME NEW es \in Seq(Entry), NEW fs \in Seq(Entry), NEW hash \in Hashes \cup {NoHash},
         Distinct(es), Distinct(fs), OutpointsOf(es) \cap OutpointsOf(fs) = {},
         \A k \in DOMAIN fs : fs[k].block = hash
  PROVE  /\ es \o fs \in Seq(Entry) /\ Distinct(es \o fs)
         /\ OutpointsOf(es \o fs) = OutpointsOf(es) \cup OutpointsOf(fs)
         /\ IndexOf(es \o fs) = Indexed(IndexOf(es), hash, Len(es), Len(fs))
<1> DEFINE all == es \o fs
<1>1. /\ DOMAIN es = 1..Len(es) /\ Len(es) \in Nat
      /\ DOMAIN fs = 1..Len(fs) /\ Len(fs) \in Nat
  BY LenProperties
<1>2. /\ all \in Seq(Entry) /\ DOMAIN all = 1..(Len(es) + Len(fs))
      /\ \A i \in 1..Len(es) : all[i] = es[i]
      /\ \A i \in 1..Len(fs) : all[Len(es) + i] = fs[i]
  BY <1>1, ConcatProperties, LenProperties
<1> HIDE DEF all
<1>3. \A i \in DOMAIN all : i \in DOMAIN es \/ (i \in Nat /\ i - Len(es) \in DOMAIN fs
                                                  /\ all[i] = fs[i - Len(es)])
  BY <1>1, <1>2
<1>4. Distinct(all)
  <2> SUFFICES ASSUME NEW i \in DOMAIN all, NEW j \in DOMAIN all, all[i].outpoint = all[j].outpoint
               PROVE  i = j
    BY DEF Distinct
  <2>1. \A k \in DOMAIN es, l \in DOMAIN fs : es[k].outpoint # fs[l].outpoint
    BY DEF OutpointsOf
  <2>2. CASE i \in DOMAIN es /\ j \in DOMAIN es
    BY <1>1, <1>2, <2>2 DEF Distinct
  <2>3. CASE i \notin DOMAIN es /\ j \notin DOMAIN es
    <3>1. i - Len(es) = j - Len(es) /\ i \in Nat /\ j \in Nat
      BY <1>3, <2>3 DEF Distinct
    <3> QED
      BY <1>1, <3>1
  <2>4. CASE i \in DOMAIN es <=> j \notin DOMAIN es
    BY <1>1, <1>2, <1>3, <2>1, <2>4
  <2> QED
    BY <2>2, <2>3, <2>4
<1>5. OutpointsOf(all) = OutpointsOf(es) \cup OutpointsOf(fs)
  <2>1. OutpointsOf(all) \subseteq OutpointsOf(es) \cup OutpointsOf(fs)
    <3>1. ASSUME NEW i \in DOMAIN all
          PROVE  all[i].outpoint \in OutpointsOf(es) \cup OutpointsOf(fs)
      BY <1>1, <1>2, <1>3 DEF OutpointsOf
    <3> QED
      BY <3>1 DEF OutpointsOf
  <2>2. \A k \in DOMAIN fs : Len(es) + k \in DOMAIN all /\ all[Len(es) + k] = fs[k]
    BY <1>1, <1>2
  <2>3. \A k \in DOMAIN es : k \in DOMAIN all /\ all[k] = es[k]
    BY <1>1, <1>2
  <2>4. OutpointsOf(es) \subseteq OutpointsOf(all)
    BY <2>3 DEF OutpointsOf
  <2>5. OutpointsOf(fs) \subseteq OutpointsOf(all)
    <3>1. ASSUME NEW k \in DOMAIN fs
          PROVE  fs[k].outpoint \in OutpointsOf(all)
      BY <2>2 DEF OutpointsOf
    <3> QED
      BY <3>1 DEF OutpointsOf
  <2> QED
    BY <2>1, <2>4, <2>5
<1>6. IndexOf(all) = Indexed(IndexOf(es), hash, Len(es), Len(fs))
  <2>1. ASSUME NEW h \in Hashes
        PROVE  {i \in DOMAIN all : all[i].block = h}
                 = IF h = hash THEN {i \in DOMAIN es : es[i].block = h} \cup ((Len(es) + 1)..(Len(es) + Len(fs)))
                               ELSE {i \in DOMAIN es : es[i].block = h}
    BY <1>1, <1>2, <1>3
  <2> QED
    BY <2>1 DEF IndexOf, Indexed
<1> QED
  BY <1>2, <1>4, <1>5, <1>6 DEF all

\* What is in the file was once in memory, or the file is empty.
LEMMA FlushKeeps ==
  ASSUME NEW es \in Seq(Entry), Distinct(es), NEW changed \in BOOLEAN,
         TypeOK, OneEntryPerOutpoint, MaybeFlush(es, changed)
  PROVE  file' \in Seq(Entry) /\ Distinct(file') /\ dirty' \in BOOLEAN /\ saveDue' \in BOOLEAN
<1>1. <<>> \in Seq(Entry) /\ Distinct(<<>>)
  BY EmptySeq DEF Distinct
<1>2. file' \in {es, file, <<>>}
  BY DEF MaybeFlush, Written
<1>3. dirty' \in BOOLEAN /\ saveDue' \in BOOLEAN
  BY DEF MaybeFlush, TypeOK
<1> QED
  BY <1>1, <1>2, <1>3 DEF TypeOK, OneEntryPerOutpoint

-----------------------------------------------------------------------------
(* The parts of handle_block.                                              *)

\* After compact the indexes are those of what it has left, rebuilt or not.
LEMMA AfterCompactionExact ==
  ASSUME IInv, NEW kept \in Compacted(entries, CompactDue)
  PROVE  /\ kept \in Seq(Entry) /\ Distinct(kept)
         /\ AfterCompaction(kept).outpoints = OutpointsOf(kept)
         /\ AfterCompaction(kept).index = IndexOf(kept)
         /\ AfterCompaction(kept).changed \in BOOLEAN
<1>1. CompactDue \in BOOLEAN
  BY DEF CompactDue
<1>2. /\ kept \in Seq(Entry) /\ Distinct(kept)
      /\ Len(kept) = Len(entries) => kept = entries
  BY <1>1, CompactedKeeps DEF IInv, TypeOK, OneEntryPerOutpoint
<1>3. outpointSet = OutpointsOf(entries) /\ blockIndex = IndexOf(entries)
  BY DEF IInv, IndexesExact
<1> QED
  BY <1>2, <1>3 DEF AfterCompaction

\* The outputs of a coinbase become entries that nobody has seen.
LEMMA NewEntriesFor ==
  ASSUME NEW b \in Block, b.txid # NoTxid, NEW known, NEW f \in Ascending(NewOutputs(b, known))
  PROVE  /\ EntriesFor(b, f) \in Seq(Entry) /\ Distinct(EntriesFor(b, f))
         /\ Len(EntriesFor(b, f)) = Len(f)
         /\ OutpointsOf(EntriesFor(b, f)) = {<<b.txid, f[k] - 1>> : k \in DOMAIN f}
         /\ OutpointsOf(EntriesFor(b, f)) \cap known = {}
         /\ \A k \in DOMAIN EntriesFor(b, f) : EntriesFor(b, f)[k].block = b.hash
<1> DEFINE S == NewOutputs(b, known)
           n == Cardinality(S)
           fs == EntriesFor(b, f)
<1>1. /\ b.hash \in Hashes \cup {NoHash} /\ b.daa \in Nat /\ b.txid \in Txids
      /\ b.outs \in Seq(Nat)
  BY DEF Block
<1>2. DOMAIN b.outs = 1..Len(b.outs) /\ Len(b.outs) \in Nat /\ \A k \in DOMAIN b.outs : b.outs[k] \in Nat
  BY <1>1, LenProperties
<1>3. /\ S \in SUBSET (1..Len(b.outs))
      /\ \A k \in S : b.outs[k] \in Nat /\ <<b.txid, k - 1>> \notin known
  BY <1>2 DEF NewOutputs
<1> HIDE DEF S
<1>4. /\ n \in 0..Len(b.outs) /\ f \in [1..n -> S]
      /\ \A i, j \in 1..n : f[i] = f[j] => i = j
  BY <1>2, <1>3, AscendingIsInjective DEF S
<1> HIDE DEF n
<1>5. \A k \in 1..n : /\ f[k] \in S /\ f[k] \in 1..Len(b.outs) /\ f[k] - 1 \in Nat
                      /\ b.outs[f[k]] \in Nat /\ <<b.txid, f[k] - 1>> \notin known
  <2> TAKE k \in 1..n
  <2>1. f[k] \in S
    BY <1>4
  <2>2. f[k] \in 1..Len(b.outs)
    BY <1>3, <2>1
  <2> QED
    BY <1>2, <1>3, <2>1, <2>2
<1>6. DOMAIN f = 1..n /\ Len(f) = n
  BY <1>4
<1>7. /\ fs = [k \in 1..n |-> fs[k]]
      /\ \A k \in 1..n : fs[k] = NewEntry(<<b.txid, f[k] - 1>>, b.hash, b.daa, b.outs[f[k]], FALSE)
  BY <1>6 DEF EntriesFor
<1>8. \A k \in 1..n : /\ fs[k] \in Entry
                      /\ fs[k].outpoint = <<b.txid, f[k] - 1>> /\ fs[k].block = b.hash
  <2> TAKE k \in 1..n
  <2>1. <<b.txid, f[k] - 1>> \in Outpoint
    BY <1>1, <1>5 DEF Outpoint
  <2> DEFINE o == <<b.txid, f[k] - 1>>
             amount == b.outs[f[k]]
  <2>2. fs[k] = NewEntry(o, b.hash, b.daa, amount, FALSE) /\ o \in Outpoint /\ amount \in Nat
    BY <1>5, <1>7, <2>1
  <2> HIDE DEF o, amount, fs
  <2>3. fs[k] \in Entry /\ fs[k].outpoint = o /\ fs[k].block = b.hash
    BY <1>1, <2>2 DEF NewEntry, Entry
  <2> QED
    BY <2>3 DEF o
<1> HIDE DEF fs
<1>9. fs \in Seq(Entry) /\ Len(fs) = n /\ DOMAIN fs = 1..n
  BY <1>4, <1>7, <1>8
<1>10. Distinct(fs)
  <2> SUFFICES ASSUME NEW i \in 1..n, NEW j \in 1..n, fs[i].outpoint = fs[j].outpoint
               PROVE  i = j
    BY <1>9 DEF Distinct
  <2>1. f[i] - 1 = f[j] - 1
    BY <1>8
  <2>2. f[i] - 1 \in Nat /\ f[j] - 1 \in Nat /\ f[i] \in 1..Len(b.outs) /\ f[j] \in 1..Len(b.outs)
    BY <1>5
  <2>3. f[i] = f[j]
    BY <2>1, <2>2
  <2> QED
    BY <1>4, <2>3
<1>11. OutpointsOf(fs) = {<<b.txid, f[k] - 1>> : k \in DOMAIN f}
  BY <1>6, <1>8, <1>9 DEF OutpointsOf
<1>12. OutpointsOf(fs) \cap known = {}
  BY <1>5, <1>6, <1>11
<1> QED
  BY <1>6, <1>8, <1>9, <1>10, <1>11, <1>12 DEF fs

\* A claim is for an entry.
LEMMA ClaimOfEntry ==
  ASSUME TypeOK, NEW es \in Seq(Entry), NEW daa, FindClaim(es, daa)
  PROVE  pending' \in Outpoint \cup {NoClaim}
<1>1. \A i \in ClaimChoice(es, daa) : es[i] \in Entry
  BY LenProperties DEF ClaimChoice, Eligible
<1> QED
  BY <1>1 DEF FindClaim, TypeOK, Entry

\* The indexes have their types if they are exact.
LEMMA ExactTypes ==
  ASSUME NEW es \in Seq(Entry)
  PROVE  OutpointsOf(es) \subseteq Outpoint /\ IndexOf(es) \in [Hashes -> SUBSET Nat]
<1>1. DOMAIN es = 1..Len(es) /\ Len(es) \in Nat /\ \A i \in 1..Len(es) : es[i] \in Entry
  BY LenProperties
<1> QED
  BY <1>1 DEF OutpointsOf, IndexOf, Entry

-----------------------------------------------------------------------------
(* One lemma per action.                                                   *)

\* What an action has to show.
LEMMA ListKept ==
  ASSUME entries' \in Seq(Entry), Distinct(entries'), file' \in Seq(Entry), Distinct(file'),
         outpointSet' = OutpointsOf(entries'), blockIndex' = IndexOf(entries'),
         pending' \in Outpoint \cup {NoClaim}, lastDaa' \in Nat, dirty' \in BOOLEAN,
         saveDue' \in BOOLEAN, blocksSinceCompact' \in 0..(CompactEvery - 1)
  PROVE  IInv'
<1>1. outpointSet' \subseteq Outpoint /\ blockIndex' \in [Hashes -> SUBSET Nat]
  BY ExactTypes
<1> QED
  BY <1>1 DEF IInv, TypeOK, OneEntryPerOutpoint, IndexesExact

\* A block: compaction, red blocks, new entries, a claim, in this order.
LEMMA BlockIInv ==
  ASSUME IInv, NEW b \in Blocks, HandleBlock(b)
  PROVE  IInv'
<1>1. b \in Block /\ b.daa \in Nat /\ b.hash \in Hashes \cup {NoHash}
  BY BlocksAssumption DEF Block
<1>2. lastDaa' = b.daa /\ blocksSinceCompact' \in 0..(CompactEvery - 1)
  BY NumbersAssumption DEF HandleBlock, CompactDue, IInv, TypeOK
<1> DEFINE known(kept) == AfterCompaction(kept)
           reds(kept) == Reddened(kept, known(kept).index, b.reds)
           es(kept) == Slashed(kept, reds(kept))
           changed(kept) == known(kept).changed \/ reds(kept) # {}
<1>3. PICK kept \in Compacted(entries, CompactDue) :
        \/ /\ entries' = es(kept)
           /\ outpointSet' = known(kept).outpoints
           /\ blockIndex' = known(kept).index
           /\ dirty' = (dirty \/ changed(kept))
           /\ UNCHANGED <<pending, saveDue, file>>
        \/ /\ b.txid # NoTxid
           /\ \E f \in Ascending(NewOutputs(b, known(kept).outpoints)) :
                /\ entries' = es(kept) \o EntriesFor(b, f)
                /\ outpointSet' = known(kept).outpoints \cup {<<b.txid, f[k] - 1>> : k \in DOMAIN f}
                /\ blockIndex' = Indexed(known(kept).index, b.hash, Len(es(kept)), Len(f))
                /\ FindClaim(entries', b.daa)
                /\ MaybeFlush(entries', changed(kept) \/ f # <<>>)
  BY DEF HandleBlock
<1>4. /\ kept \in Seq(Entry) /\ Distinct(kept)
      /\ known(kept).outpoints = OutpointsOf(kept) /\ known(kept).index = IndexOf(kept)
  BY AfterCompactionExact
<1>5. changed(kept) \in BOOLEAN
  OBVIOUS
<1> HIDE DEF known, reds, changed
<1>6. /\ es(kept) \in Seq(Entry) /\ Distinct(es(kept))
      /\ OutpointsOf(es(kept)) = OutpointsOf(kept) /\ IndexOf(es(kept)) = IndexOf(kept)
  BY <1>4, SlashedKeeps
<1> HIDE DEF es
<1>7. CASE /\ entries' = es(kept)
           /\ outpointSet' = known(kept).outpoints
           /\ blockIndex' = known(kept).index
           /\ dirty' = (dirty \/ changed(kept))
           /\ UNCHANGED <<pending, saveDue, file>>
  <2>1. dirty' \in BOOLEAN
    BY <1>7
  <2> QED
    BY <1>1, <1>2, <1>4, <1>6, <1>7, <2>1, ListKept DEF IInv, TypeOK, OneEntryPerOutpoint
<1>8. ASSUME b.txid # NoTxid,
             NEW f \in Ascending(NewOutputs(b, known(kept).outpoints)),
             entries' = es(kept) \o EntriesFor(b, f),
             outpointSet' = known(kept).outpoints \cup {<<b.txid, f[k] - 1>> : k \in DOMAIN f},
             blockIndex' = Indexed(known(kept).index, b.hash, Len(es(kept)), Len(f)),
             FindClaim(entries', b.daa),
             MaybeFlush(entries', changed(kept) \/ f # <<>>)
      PROVE  IInv'
  <2> DEFINE fs == EntriesFor(b, f)
  <2>1. /\ fs \in Seq(Entry) /\ Distinct(fs) /\ Len(fs) = Len(f)
        /\ OutpointsOf(fs) = {<<b.txid, f[k] - 1>> : k \in DOMAIN f}
        /\ OutpointsOf(fs) \cap known(kept).outpoints = {}
        /\ \A k \in DOMAIN fs : fs[k].block = b.hash
    BY <1>1, <1>8, NewEntriesFor
  <2> HIDE DEF fs
  <2>2. /\ es(kept) \o fs \in Seq(Entry) /\ Distinct(es(kept) \o fs)
        /\ OutpointsOf(es(kept) \o fs) = OutpointsOf(es(kept)) \cup OutpointsOf(fs)
        /\ IndexOf(es(kept) \o fs) = Indexed(IndexOf(es(kept)), b.hash, Len(es(kept)), Len(fs))
    BY <1>1, <1>4, <1>6, <2>1, PushedKeeps
  <2>3. /\ entries' \in Seq(Entry) /\ Distinct(entries')
        /\ outpointSet' = OutpointsOf(entries') /\ blockIndex' = IndexOf(entries')
    BY <1>4, <1>6, <1>8, <2>1, <2>2 DEF fs
  <2>4. pending' \in Outpoint \cup {NoClaim}
    BY <1>8, <2>3, ClaimOfEntry DEF IInv
  <2>5. file' \in Seq(Entry) /\ Distinct(file') /\ dirty' \in BOOLEAN /\ saveDue' \in BOOLEAN
    <3>1. (changed(kept) \/ f # <<>>) \in BOOLEAN
      OBVIOUS
    <3> QED
      BY <1>8, <2>3, <3>1, FlushKeeps DEF IInv
  <2> QED
    BY <1>1, <1>2, <2>3, <2>4, <2>5, ListKept
<1> QED
  BY <1>3, <1>7, <1>8

\* An answer: an entry changes in its place.
LEMMA AnswerIInv ==
  ASSUME IInv, NEW verdict \in Verdicts, OnSubmitResponse(verdict)
  PROVE  IInv'
<1> DEFINE es == [i \in DOMAIN entries |->
                   IF IsPending(entries[i]) /\ (\A j \in 1..(i - 1) : ~IsPending(entries[j]))
                   THEN Resolved(entries[i], verdict)
                   ELSE entries[i]]
<1>1. /\ entries' = es /\ pending' = NoClaim /\ MaybeFlush(entries', TRUE)
      /\ UNCHANGED <<lastDaa, outpointSet, blockIndex, blocksSinceCompact>>
  BY DEF OnSubmitResponse
<1>2. /\ entries \in Seq(Entry) /\ DOMAIN entries = 1..Len(entries) /\ Len(entries) \in Nat
      /\ \A i \in 1..Len(entries) : entries[i] \in Entry
  BY LenProperties DEF IInv, TypeOK
<1>3. ASSUME NEW e \in Entry
      PROVE  /\ Resolved(e, verdict) \in Entry
             /\ Resolved(e, verdict).outpoint = e.outpoint /\ Resolved(e, verdict).block = e.block
  <2>1. lastDaa + OrphanCooldown \in Nat /\ lastDaa + SeqLockCooldown \in Nat
    BY NumbersAssumption DEF IInv, TypeOK
  <2>2. CASE verdict = "orphan"
    <3>1. e.retries + 1 \in Nat
      BY DEF Entry
    <3>2. \/ Resolved(e, verdict) = [e EXCEPT !.retries = e.retries + 1, !.slashed = TRUE]
          \/ Resolved(e, verdict) = [e EXCEPT !.retries = e.retries + 1,
                                              !.retryAfter = lastDaa + OrphanCooldown]
      BY <2>2 DEF Resolved
    <3> QED
      BY <2>1, <3>1, <3>2 DEF Entry
  <2>3. CASE verdict # "orphan"
    <3>1. \/ Resolved(e, verdict) = [e EXCEPT !.claimed = TRUE]
          \/ Resolved(e, verdict) = [e EXCEPT !.retryAfter = lastDaa + SeqLockCooldown]
          \/ Resolved(e, verdict) = [e EXCEPT !.slashed = TRUE]
      BY <2>3 DEF Resolved, Verdicts
    <3> QED
      BY <2>1, <3>1 DEF Entry
  <2> QED
    BY <2>2, <2>3
<1>4. /\ DOMAIN es = DOMAIN entries /\ es = [i \in 1..Len(entries) |-> es[i]]
      /\ \A i \in DOMAIN entries :
           es[i] \in Entry /\ es[i].outpoint = entries[i].outpoint /\ es[i].block = entries[i].block
  BY <1>2, <1>3
<1> HIDE DEF es
<1>5. es \in Seq(Entry)
  BY <1>2, <1>4
<1>6. /\ Distinct(es)
      /\ OutpointsOf(es) = OutpointsOf(entries) /\ IndexOf(es) = IndexOf(entries)
  BY <1>2, <1>4, <1>5, SameNames DEF IInv, OneEntryPerOutpoint
<1>7. file' \in Seq(Entry) /\ Distinct(file') /\ dirty' \in BOOLEAN /\ saveDue' \in BOOLEAN
  BY <1>1, <1>5, <1>6, FlushKeeps DEF IInv
<1> QED
  BY <1>1, <1>5, <1>6, <1>7, ListKept DEF IInv, TypeOK, IndexesExact

\* The escrow of an answered request, unless it is known.
LEMMA TrackIInv ==
  ASSUME IInv, NEW t \in DOMAIN Reward, NEW daa \in Nat, TrackInferenceEscrow(t, daa)
  PROVE  IInv'
<1>1. CASE UNCHANGED vars
  BY <1>1 DEF vars, IInv, TypeOK, OneEntryPerOutpoint, IndexesExact
<1>2. CASE ~UNCHANGED vars
  <2> DEFINE e == NewEntry(<<t, 1>>, NoHash, daa, Reward[t], TRUE)
  <2>1. /\ <<t, 1>> \notin outpointSet
        /\ entries' = Append(entries, e)
        /\ outpointSet' = outpointSet \cup {<<t, 1>>}
        /\ MaybeFlush(entries', TRUE)
        /\ UNCHANGED <<pending, lastDaa, blockIndex, blocksSinceCompact>>
    BY <1>2 DEF TrackInferenceEscrow
  <2>2. e \in Entry /\ e.outpoint = <<t, 1>> /\ e.block = NoHash
    BY RewardAssumption DEF NewEntry, Entry, Outpoint
  <2> HIDE DEF e
  <2>3. /\ <<e>> \in Seq(Entry) /\ Len(<<e>>) = 1 /\ DOMAIN <<e>> = {1} /\ <<e>>[1] = e
    BY <2>2
  <2>4. /\ Distinct(<<e>>) /\ OutpointsOf(<<e>>) = {<<t, 1>>}
        /\ \A k \in DOMAIN <<e>> : <<e>>[k].block = NoHash
    BY <2>2, <2>3 DEF Distinct, OutpointsOf
  <2>5. entries \in Seq(Entry) /\ Distinct(entries) /\ entries' = entries \o <<e>>
    BY <2>1, <2>2, AppendIsConcat DEF IInv, TypeOK, OneEntryPerOutpoint
  <2>6. OutpointsOf(entries) \cap OutpointsOf(<<e>>) = {}
    BY <2>1, <2>4 DEF IInv, IndexesExact
  <2>7. /\ entries' \in Seq(Entry) /\ Distinct(entries')
        /\ OutpointsOf(entries') = OutpointsOf(entries) \cup {<<t, 1>>}
        /\ IndexOf(entries') = Indexed(IndexOf(entries), NoHash, Len(entries), 1)
    BY <2>3, <2>4, <2>5, <2>6, PushedKeeps
  <2>8. IndexOf(entries') = IndexOf(entries)
    BY <2>7, NamesAssumption DEF Indexed, IndexOf
  <2>9. file' \in Seq(Entry) /\ Distinct(file') /\ dirty' \in BOOLEAN /\ saveDue' \in BOOLEAN
    BY <2>1, <2>7, FlushKeeps DEF IInv
  <2> QED
    BY <2>1, <2>7, <2>8, <2>9, ListKept DEF IInv, TypeOK, IndexesExact
<1> QED
  BY <1>1, <1>2

\* A new watcher.
LEMMA LoadIInv ==
  ASSUME IInv, Load
  PROVE  IInv'
<1>1. 0 \in 0..(CompactEvery - 1)
  BY NumbersAssumption
<1> QED
  BY <1>1, ListKept DEF Load, IInv, TypeOK, OneEntryPerOutpoint

LEMMA InitIInv == Init => IInv
<1> SUFFICES ASSUME Init PROVE IInv
  OBVIOUS
<1>1. <<>> \in Seq(Entry) /\ DOMAIN <<>> = {} /\ 0 \in 0..(CompactEvery - 1)
  BY EmptySeq, NumbersAssumption
<1> QED
  BY <1>1 DEF Init, IInv, TypeOK, OneEntryPerOutpoint, IndexesExact, Distinct, OutpointsOf, IndexOf

LEMMA StepIInv == IInv /\ [Next]_vars => IInv'
<1> SUFFICES ASSUME IInv, [Next]_vars PROVE IInv'
  OBVIOUS
<1>1. ASSUME NEW b \in Blocks, HandleBlock(b) PROVE IInv'
  BY <1>1, BlockIInv
<1>2. ASSUME NEW verdict \in Verdicts, OnSubmitResponse(verdict) PROVE IInv'
  BY <1>2, AnswerIInv
<1>3. ASSUME NEW t \in DOMAIN Reward, NEW b \in Blocks, TrackInferenceEscrow(t, b.daa) PROVE IInv'
  <2>1. b.daa \in Nat
    BY BlocksAssumption DEF Block
  <2> QED
    BY <1>3, <2>1, TrackIInv
<1>4. CASE SaveIntervalElapses
  BY <1>4 DEF SaveIntervalElapses, IInv, TypeOK, OneEntryPerOutpoint, IndexesExact
<1>5. CASE Restart
  BY <1>5, LoadIInv DEF Restart
<1>6. CASE UNCHANGED vars
  BY <1>6 DEF vars, IInv, TypeOK, OneEntryPerOutpoint, IndexesExact
<1> QED
  BY <1>1, <1>2, <1>3, <1>4, <1>5, <1>6 DEF Next

-----------------------------------------------------------------------------
(* What the run checks, for every instance.                                *)

\* The inductive invariant holds in every reachable state.
THEOREM WatcherInvariant == Spec => []IInv
  BY InitIInv, StepIInv, PTL DEF Spec

\* Every variable has its type.
THEOREM WatcherTypeCorrect == Spec => []TypeOK
<1>1. IInv => TypeOK
  BY DEF IInv
<1> QED
  BY <1>1, WatcherInvariant, PTL

\* An output is tracked once, in memory and in the file, whatever blocks come again,
\* whatever is compacted and whichever file is loaded: no claim is a double spend of the
\* miner's own.
THEOREM OutputsTrackedOnce == Spec => []OneEntryPerOutpoint
<1>1. IInv => OneEntryPerOutpoint
  BY DEF IInv
<1> QED
  BY <1>1, WatcherInvariant, PTL

\* outpoint_set and block_index say what the entries say, also where compact has removed
\* nothing and leaves them alone.
THEOREM IndexesSayWhatEntriesSay == Spec => []IndexesExact
<1>1. IInv => IndexesExact
  BY DEF IInv
<1> QED
  BY <1>1, WatcherInvariant, PTL

-----------------------------------------------------------------------------
(* The invariant of the watcher at work.                                   *)

\* Whatever the connection does, the watcher takes a step of its own or none.
LEMMA WatcherStep == IInv /\ [ClaimsNext]_allVars => IInv'
<1> SUFFICES ASSUME IInv, [ClaimsNext]_allVars PROVE IInv'
  OBVIOUS
<1>1. ASSUME NEW b \in Blocks, BlockArrives(b) PROVE IInv'
  BY <1>1, BlockIInv DEF BlockArrives
<1>2. ASSUME NEW t \in DOMAIN Reward, AiResponseSubmitted(t) PROVE IInv'
  BY <1>2, TrackIInv DEF AiResponseSubmitted, IInv, TypeOK
<1>3. ASSUME NEW verdict \in Verdicts, NodeAnswers(verdict) PROVE IInv'
  <2>1. CASE OnSubmitResponse(verdict)
    BY <2>1, AnswerIInv
  <2>2. CASE UNCHANGED vars
    BY <2>2, StepIInv
  <2> QED
    BY <1>3, <2>1, <2>2 DEF NodeAnswers
<1>4. CASE Reconnect
  BY <1>4, LoadIInv DEF Reconnect, Restart
<1>5. CASE TimePasses
  <2>1. Next
    BY <1>5 DEF TimePasses, Next
  <2> QED
    BY <2>1, StepIInv
<1>6. CASE UNCHANGED allVars
  <2>1. UNCHANGED vars
    BY <1>6 DEF allVars
  <2> QED
    BY <2>1, StepIInv
<1> QED
  BY <1>1, <1>2, <1>3, <1>4, <1>5, <1>6 DEF ClaimsNext

-----------------------------------------------------------------------------
(* What the entries of the list come from.                                 *)

\* compact keeps entries, ...
LEMMA KeptFromEntries ==
  ASSUME NEW es \in Seq(Entry), NEW due, NEW kept \in Compacted(es, due)
  PROVE  \A k \in DOMAIN kept : \E j \in DOMAIN es : kept[k] = es[j]
<1>1. CASE ~due
  BY <1>1 DEF Compacted
<1>2. CASE due
  <2> DEFINE keep == {i \in DOMAIN es : Open(es[i])}
             n == Cardinality(keep)
  <2>1. PICK f \in Ascending(keep) : kept = [k \in 1..n |-> es[f[k]]]
    BY <1>2 DEF Compacted
  <2>2. f \in [1..n -> keep]
    BY DEF Ascending
  <2> QED
    BY <2>1, <2>2
<1> QED
  BY <1>1, <1>2

\* ... and so do lists put one behind the other.
LEMMA Joined ==
  ASSUME NEW es \in Seq(Entry), NEW fs \in Seq(Entry)
  PROVE  /\ es \o fs \in Seq(Entry)
         /\ \A i \in DOMAIN (es \o fs) : \/ \E k \in DOMAIN es : (es \o fs)[i] = es[k]
                                        \/ \E k \in DOMAIN fs : (es \o fs)[i] = fs[k]
<1> DEFINE all == es \o fs
<1>1. /\ DOMAIN es = 1..Len(es) /\ Len(es) \in Nat
      /\ DOMAIN fs = 1..Len(fs) /\ Len(fs) \in Nat
  BY LenProperties
<1>2. /\ all \in Seq(Entry) /\ DOMAIN all = 1..(Len(es) + Len(fs))
      /\ \A i \in 1..(Len(es) + Len(fs)) : all[i] = IF i <= Len(es) THEN es[i] ELSE fs[i - Len(es)]
  BY <1>1, ConcatProperties, LenProperties
<1> HIDE DEF all
<1>3. \A i \in DOMAIN all : \/ i \in DOMAIN es /\ all[i] = es[i]
                            \/ i - Len(es) \in DOMAIN fs /\ all[i] = fs[i - Len(es)]
  BY <1>1, <1>2
<1> QED
  BY <1>2, <1>3 DEF all

\* What a block leaves or adds: entries of before, some slashed for it, and open ones;
\* and a claim only if none is in flight.
LEMMA EntriesAfterBlock ==
  ASSUME IInv, NEW b \in Blocks, HandleBlock(b)
  PROVE  /\ \A i \in DOMAIN entries' :
              \/ Open(entries'[i])
              \/ \E j \in DOMAIN entries : entries'[i] = entries[j]
              \/ \E j \in DOMAIN entries : /\ entries[j].block \in b.reds
                                           /\ entries'[i] = [entries[j] EXCEPT !.slashed = TRUE]
         /\ file' \in {entries', file, <<>>}
         /\ pending' = pending \/ (pending = NoClaim /\ pending' \in Outpoint)
<1>1. b \in Block /\ b.hash \in Hashes \cup {NoHash} /\ b.reds \subseteq Hashes
  BY BlocksAssumption DEF Block
<1> DEFINE known(kept) == AfterCompaction(kept)
           reds(kept) == Reddened(kept, known(kept).index, b.reds)
           es(kept) == Slashed(kept, reds(kept))
           changed(kept) == known(kept).changed \/ reds(kept) # {}
<1>2. PICK kept \in Compacted(entries, CompactDue) :
        \/ entries' = es(kept) /\ UNCHANGED <<pending, file>>
        \/ /\ b.txid # NoTxid
           /\ \E f \in Ascending(NewOutputs(b, known(kept).outpoints)) :
                /\ entries' = es(kept) \o EntriesFor(b, f)
                /\ FindClaim(entries', b.daa)
                /\ MaybeFlush(entries', changed(kept) \/ f # <<>>)
  BY DEF HandleBlock
<1>3. kept \in Seq(Entry) /\ known(kept).index = IndexOf(kept)
  BY AfterCompactionExact
<1>4. \A k \in DOMAIN kept : \E j \in DOMAIN entries : kept[k] = entries[j]
  BY KeptFromEntries DEF IInv, TypeOK
<1>5. es(kept) \in Seq(Entry) /\ DOMAIN es(kept) = DOMAIN kept
  BY <1>3, SlashedKeeps DEF Slashed
<1>6. \A k \in DOMAIN kept :
        \/ es(kept)[k] = kept[k]
        \/ kept[k].block \in b.reds /\ es(kept)[k] = [kept[k] EXCEPT !.slashed = TRUE]
  <2>1. \A k \in reds(kept) : kept[k].block \in b.reds
    BY <1>1, <1>3 DEF Reddened, IndexOf
  <2> QED
    BY <2>1 DEF Slashed
<1> HIDE DEF known, reds, es, changed
<1>7. \A k \in DOMAIN es(kept) :
        \/ \E j \in DOMAIN entries : es(kept)[k] = entries[j]
        \/ \E j \in DOMAIN entries : /\ entries[j].block \in b.reds
                                     /\ es(kept)[k] = [entries[j] EXCEPT !.slashed = TRUE]
  <2> TAKE k \in DOMAIN es(kept)
  <2>1. PICK j \in DOMAIN entries : kept[k] = entries[j]
    BY <1>4, <1>5
  <2> QED
    BY <1>5, <1>6, <2>1
<1>8. CASE entries' = es(kept) /\ UNCHANGED <<pending, file>>
  BY <1>7, <1>8
<1>9. ASSUME b.txid # NoTxid,
             NEW f \in Ascending(NewOutputs(b, known(kept).outpoints)),
             entries' = es(kept) \o EntriesFor(b, f),
             FindClaim(entries', b.daa),
             MaybeFlush(entries', changed(kept) \/ f # <<>>)
      PROVE  /\ \A i \in DOMAIN entries' :
                  Open(entries'[i]) \/ \E k \in DOMAIN es(kept) : entries'[i] = es(kept)[k]
             /\ file' \in {entries', file, <<>>}
             /\ pending' = pending \/ (pending = NoClaim /\ pending' \in Outpoint)
  <2> DEFINE fs == EntriesFor(b, f)
  <2>1. fs \in Seq(Entry)
    BY <1>1, <1>9, NewEntriesFor
  <2>2. \A k \in DOMAIN fs : Open(fs[k])
    BY DEF EntriesFor, NewEntry, Open
  <2> HIDE DEF fs
  <2>3. /\ entries' \in Seq(Entry)
        /\ \A i \in DOMAIN entries' : \/ \E k \in DOMAIN es(kept) : entries'[i] = es(kept)[k]
                                      \/ \E k \in DOMAIN fs : entries'[i] = fs[k]
    BY <1>5, <1>9, <2>1, Joined DEF fs
  <2>4. file' \in {entries', file, <<>>}
    BY <1>9 DEF MaybeFlush, Written
  <2>5. pending' = pending \/ (pending = NoClaim /\ pending' \in Outpoint)
    <3>1. \A i \in ClaimChoice(entries', b.daa) : entries'[i].outpoint \in Outpoint
      <4> TAKE i \in ClaimChoice(entries', b.daa)
      <4>1. i \in DOMAIN entries'
        BY DEF ClaimChoice, Eligible
      <4>2. entries'[i] \in Entry
        BY <2>3, <4>1, LenProperties
      <4> QED
        BY <4>2 DEF Entry
    <3> QED
      BY <1>9, <3>1 DEF FindClaim
  <2> QED
    BY <2>2, <2>3, <2>4, <2>5
<1> QED
  <2>1. \/ entries' = es(kept) /\ UNCHANGED <<pending, file>>
        \/ /\ \A i \in DOMAIN entries' :
                Open(entries'[i]) \/ \E k \in DOMAIN es(kept) : entries'[i] = es(kept)[k]
           /\ file' \in {entries', file, <<>>}
           /\ pending' = pending \/ (pending = NoClaim /\ pending' \in Outpoint)
    BY <1>2, <1>9
  <2> QED
    BY <1>7, <1>8, <2>1

-----------------------------------------------------------------------------
(* The inductive invariant.                                                *)

\* What a claimed or slashed entry has behind it; a claim that has met another request may
\* have got the answer to that one, whether it was accepted or not.
CausedBy(e, accepted, rejected, blocks) ==
  /\ e.claimed => e.outpoint \in accepted
  /\ e.slashed => \/ e.outpoint \in accepted \cup rejected
                  \/ \E b \in blocks : e.block \in b.reds
                  \/ e.retries >= MaxOrphanRetries

Caused(e) == CausedBy(e, spent \cup crossed, refused, shown)
CausedThen(e) == CausedBy(e, spent' \cup crossed', refused', shown')

AllCaused(es) == \A i \in DOMAIN es : Caused(es[i])

\* AnswerToCome holds of claims and AiResponses.
Waiting == requests \in Seq(Outpoint \cup {AiResponse}) /\ AnswerToCome

ClaimsInv == AllCaused(entries) /\ AllCaused(file) /\ Waiting

\* What was a cause stays one.
LEMMA CauseStays ==
  ASSUME NEW e, Caused(e), spent \subseteq spent', refused \subseteq refused', shown \subseteq shown',
         crossed \subseteq crossed'
  PROVE  CausedThen(e)
  BY DEF Caused, CausedThen, CausedBy

\* So do the causes of a whole list.
LEMMA CausesStay ==
  ASSUME NEW es, AllCaused(es), spent \subseteq spent', refused \subseteq refused',
         shown \subseteq shown', crossed \subseteq crossed'
  PROVE  \A i \in DOMAIN es : CausedThen(es[i])
  BY CauseStays DEF AllCaused

\* An entry that is open needs no cause.
LEMMA OpenCaused == ASSUME NEW e, Open(e) PROVE CausedThen(e)
  BY DEF Open, CausedThen, CausedBy

\* A request is a claim or an AiResponse; while the watcher waits for nothing, every claim
\* under way has met another request.
LEMMA WaitingParts ==
  ASSUME IInv, Waiting
  PROVE  /\ DOMAIN requests = 1..Len(requests) /\ Len(requests) \in Nat
         /\ Claims = {k \in 1..Len(requests) : requests[k] \in Outpoint}
         /\ pending = NoClaim => \A k \in Claims : requests[k] \in crossed
<1>1. DOMAIN requests = 1..Len(requests) /\ Len(requests) \in Nat
  BY LenProperties DEF Waiting
<1>2. \A k \in DOMAIN requests : requests[k] \in Outpoint \cup {AiResponse}
  BY <1>1, ElementOfSeq DEF Waiting
<1>3. Claims = {k \in 1..Len(requests) : requests[k] \in Outpoint}
  BY <1>1, <1>2, RequestAssumption DEF Claims
<1>4. ASSUME pending = NoClaim, NEW k \in Claims, requests[k] \notin crossed
      PROVE  FALSE
  <2>1. requests = <<NoClaim>>
    BY <1>4 DEF Waiting, AnswerToCome
  <2>2. requests[k] = NoClaim
    BY <1>3, <2>1
  <2> QED
    BY <1>3, <2>2, NamesAssumption
<1> QED
  BY <1>1, <1>3, <1>4

\* A request more: a claim is pending from then on and, unless it is alone, crossed; an
\* AiResponse crosses the pending claim.
LEMMA SubmittedKeeps ==
  ASSUME IInv, Waiting, NEW r \in Outpoint \cup {AiResponse}, requests' = Append(requests, r),
         crossed \subseteq crossed', \A k \in Claims : requests[k] \in crossed',
         r # AiResponse => pending' = r /\ (requests = <<>> \/ r \in crossed'),
         r = AiResponse => pending' = pending
  PROVE  Waiting'
<1> DEFINE n == Len(requests)
<1>1. /\ n \in Nat /\ DOMAIN requests = 1..n
      /\ Claims = {k \in 1..n : requests[k] \in Outpoint}
  BY WaitingParts
<1>2. /\ requests' \in Seq(Outpoint \cup {AiResponse}) /\ DOMAIN requests' = 1..(n + 1)
      /\ \A k \in 1..n : requests'[k] = requests[k]
      /\ requests'[n + 1] = r
  BY <1>1, AppendProperties, LenProperties DEF Waiting
<1>3. Claims' = IF r = AiResponse THEN Claims ELSE Claims \cup {n + 1}
  BY <1>1, <1>2, RequestAssumption DEF Claims
<1> HIDE DEF n
<1>4. pending' # NoClaim => \E k \in Claims' : requests'[k] = pending'
  <2>1. CASE r = AiResponse
    BY <1>1, <1>2, <1>3, <2>1 DEF Waiting, AnswerToCome
  <2>2. CASE r # AiResponse
    BY <1>2, <1>3, <2>2
  <2> QED
    BY <2>1, <2>2
<1>5. ASSUME NEW k \in Claims', requests'[k] \notin crossed'
      PROVE  requests' = <<pending'>>
  <2>1. k \notin Claims
    BY <1>1, <1>2, <1>5
  <2>2. r # AiResponse /\ k = n + 1
    BY <1>3, <1>5, <2>1
  <2>3. requests = <<>> /\ pending' = r
    BY <1>2, <1>5, <2>2
  <2> QED
    BY <2>3
<1> QED
  BY <1>2, <1>4, <1>5 DEF Waiting, AnswerToCome

\* A block.
LEMMA BlockClaims ==
  ASSUME IInv, ClaimsInv, NEW b \in Blocks, BlockArrives(b)
  PROVE  ClaimsInv'
<1>1. /\ HandleBlock(b)
      /\ requests' = IF pending' # pending THEN Append(requests, pending') ELSE requests
      /\ crossed' = IF pending' # pending /\ requests # <<>>
                    THEN crossed \cup {pending'} ELSE crossed
      /\ crossed \subseteq crossed'
      /\ shown' = shown \cup {b} /\ UNCHANGED <<spent, refused>>
  BY DEF BlockArrives
<1>2. /\ \A i \in DOMAIN entries' :
           \/ Open(entries'[i])
           \/ \E j \in DOMAIN entries : entries'[i] = entries[j]
           \/ \E j \in DOMAIN entries : /\ entries[j].block \in b.reds
                                        /\ entries'[i] = [entries[j] EXCEPT !.slashed = TRUE]
      /\ file' \in {entries', file, <<>>}
      /\ pending' = pending \/ (pending = NoClaim /\ pending' \in Outpoint)
  BY <1>1, EntriesAfterBlock
<1>3. AllCaused(entries)'
  <2> SUFFICES ASSUME NEW i \in DOMAIN entries' PROVE CausedThen(entries'[i])
    BY DEF AllCaused, Caused, CausedThen
  <2>1. CASE Open(entries'[i])
    BY <2>1, OpenCaused
  <2>2. ASSUME NEW j \in DOMAIN entries, entries'[i] = entries[j]
        PROVE  CausedThen(entries'[i])
    BY <1>1, <2>2 DEF ClaimsInv, AllCaused, Caused, CausedThen, CausedBy
  <2>3. ASSUME NEW j \in DOMAIN entries, entries[j].block \in b.reds,
               entries'[i] = [entries[j] EXCEPT !.slashed = TRUE]
        PROVE  CausedThen(entries'[i])
    <3>1. entries[j] \in Entry
      BY LenProperties DEF IInv, TypeOK
    <3>2. /\ entries'[i].claimed = entries[j].claimed /\ entries'[i].block = entries[j].block
          /\ entries'[i].outpoint = entries[j].outpoint
      BY <2>3, <3>1 DEF Entry
    <3> QED
      BY <1>1, <2>3, <3>2 DEF ClaimsInv, AllCaused, Caused, CausedThen, CausedBy
  <2> QED
    BY <1>2, <2>1, <2>2, <2>3
<1>4. AllCaused(file)'
  BY <1>1, <1>2, <1>3 DEF ClaimsInv, AllCaused, Caused, CausedThen, CausedBy
<1>5. CASE pending' = pending
  BY <1>1, <1>3, <1>4, <1>5 DEF ClaimsInv, Waiting, AnswerToCome, Claims
<1>6. CASE pending' # pending
  <2>1. pending = NoClaim /\ pending' \in Outpoint /\ requests' = Append(requests, pending')
    BY <1>1, <1>2, <1>6
  <2>2. \A k \in Claims : requests[k] \in crossed
    BY <2>1, WaitingParts DEF ClaimsInv
  <2>3. Waiting'
    <3>1. requests = <<>> \/ pending' \in crossed'
      BY <1>1, <1>6
    <3>2. \A k \in Claims : requests[k] \in crossed'
      BY <1>1, <2>2
    <3>3. pending' \in Outpoint \cup {AiResponse} /\ pending' # AiResponse
      BY <2>1, RequestAssumption
    <3> DEFINE r == pending'
    <3> HIDE DEF r
    <3>4. /\ r \in Outpoint \cup {AiResponse} /\ requests' = Append(requests, r)
          /\ r # AiResponse => pending' = r /\ (requests = <<>> \/ r \in crossed')
          /\ r = AiResponse => pending' = pending
      BY <2>1, <3>1, <3>3 DEF r
    <3> QED
      BY <1>1, <3>2, <3>4, SubmittedKeeps DEF ClaimsInv
  <2> QED
    BY <1>3, <1>4, <2>3 DEF ClaimsInv
<1> QED
  BY <1>5, <1>6

\* The escrow of an AiResponse: a fresh entry, or none.
LEMMA AiResponseClaims ==
  ASSUME IInv, ClaimsInv, NEW t \in DOMAIN Reward, AiResponseSubmitted(t)
  PROVE  ClaimsInv'
<1>1. /\ requests' = Append(requests, AiResponse)
      /\ crossed' = crossed \cup ({pending} \ {NoClaim})
      /\ crossed \subseteq crossed'
      /\ TrackInferenceEscrow(t, lastDaa)
      /\ UNCHANGED <<spent, refused, shown>>
  BY DEF AiResponseSubmitted
<1>2. UNCHANGED pending
  BY <1>1 DEF TrackInferenceEscrow, vars
<1>3. \A k \in Claims : requests[k] \in crossed'
  <2>1. CASE pending = NoClaim
    BY <1>1, <2>1, WaitingParts DEF ClaimsInv
  <2>2. ASSUME pending # NoClaim, NEW k \in Claims, requests[k] \notin crossed
        PROVE  requests[k] \in crossed'
    <3>1. requests = <<pending>> /\ k \in DOMAIN requests
      BY <2>2 DEF ClaimsInv, Waiting, AnswerToCome, Claims
    <3>2. requests[k] = pending
      BY <3>1
    <3> QED
      BY <1>1, <2>2, <3>2
  <2> QED
    BY <1>1, <2>1, <2>2
<1>4. Waiting'
  BY <1>1, <1>2, <1>3, SubmittedKeeps DEF ClaimsInv
<1>5. CASE UNCHANGED <<entries, file>>
  BY <1>1, <1>4, <1>5 DEF ClaimsInv, AllCaused, Caused, CausedThen, CausedBy
<1>6. CASE ~UNCHANGED <<entries, file>>
  <2> DEFINE e == NewEntry(<<t, 1>>, NoHash, lastDaa, Reward[t], TRUE)
  <2>1. entries' = Append(entries, e) /\ file' \in {entries', file, <<>>}
    BY <1>1, <1>6 DEF TrackInferenceEscrow, MaybeFlush, Written, vars
  <2>2. e \in Entry /\ Open(e)
    BY RewardAssumption DEF NewEntry, Entry, Outpoint, Open, IInv, TypeOK
  <2> HIDE DEF e
  <2>3. /\ DOMAIN entries' = 1..(Len(entries) + 1) /\ Len(entries) \in Nat
        /\ DOMAIN entries = 1..Len(entries)
        /\ \A i \in 1..Len(entries) : entries'[i] = entries[i]
        /\ entries'[Len(entries) + 1] = e
    BY <2>1, <2>2, AppendProperties, LenProperties DEF IInv, TypeOK
  <2>4. \A i \in DOMAIN entries' : (i \in DOMAIN entries /\ entries'[i] = entries[i]) \/ entries'[i] = e
    BY <2>3
  <2>5. AllCaused(entries)'
    BY <1>1, <2>2, <2>4 DEF ClaimsInv, AllCaused, Caused, CausedThen, CausedBy, Open
  <2>6. AllCaused(file)'
    BY <1>1, <2>1, <2>5 DEF ClaimsInv, AllCaused, Caused, CausedThen, CausedBy
  <2> QED
    BY <1>4, <2>5, <2>6 DEF ClaimsInv
<1> QED
  BY <1>5, <1>6

\* An answer to a claim reaches the entry that it is for, unless the claim is crossed.
LEMMA AnswerClaims ==
  ASSUME IInv, ClaimsInv, NEW verdict \in Verdicts, NodeAnswers(verdict)
  PROVE  ClaimsInv'
<1>1. /\ requests # <<>> /\ NodeDecides(Head(requests), verdict) /\ requests' = Tail(requests)
      /\ IF pending # NoClaim THEN OnSubmitResponse(verdict) ELSE UNCHANGED vars
      /\ UNCHANGED <<shown, crossed>>
  BY DEF NodeAnswers
<1>2. ASSUME pending # NoClaim, pending \notin crossed
      PROVE  Head(requests) = pending /\ pending # AiResponse
  <2>1. requests = <<pending>>
    BY <1>2 DEF ClaimsInv, Waiting, AnswerToCome
  <2>2. Head(<<pending>>) = pending
    <3>1. <<pending>> = Append(<<>>, pending) /\ <<>> \in Seq({})
      BY EmptySeq
    <3> QED
      BY <3>1, HeadTailAppend
  <2> QED
    BY <1>2, <2>1, <2>2, RequestAssumption DEF IInv, TypeOK
<1>3. spent \subseteq spent' /\ refused \subseteq refused'
  BY <1>1 DEF NodeDecides
<1>4. Waiting'
  <2> DEFINE R == Outpoint \cup {AiResponse}
  <2>1. pending' = NoClaim
    BY <1>1 DEF OnSubmitResponse, vars
  <2>2. requests \in Seq(R)
    BY DEF ClaimsInv, Waiting
  <2>3. /\ requests' \in Seq(R) /\ Len(requests') = Len(requests) - 1
        /\ \A k \in 1..Len(requests') : requests'[k] = requests[k + 1]
    BY <1>1, <2>2, HeadTailProperties
  <2>4. DOMAIN requests' = 1..Len(requests') /\ Len(requests) \in Nat
    BY <2>2, <2>3, LenProperties
  <2>5. ASSUME NEW k \in Claims', requests'[k] \notin crossed'
        PROVE  FALSE
    <3>1. k \in 1..Len(requests') /\ requests'[k] # AiResponse
      BY <2>4, <2>5 DEF Claims
    <3>2. k + 1 \in 1..Len(requests) /\ requests'[k] = requests[k + 1]
      BY <2>3, <2>4, <3>1
    <3>3. k + 1 \in Claims
      BY <3>1, <3>2, <2>2, LenProperties DEF Claims
    <3>4. requests = <<pending>>
      BY <1>1, <2>5, <3>2, <3>3 DEF ClaimsInv, Waiting, AnswerToCome
    <3>5. Len(requests) = 1
      BY <3>4
    <3> QED
      BY <3>1, <3>2, <3>5
  <2> QED
    BY <2>1, <2>3, <2>5 DEF Waiting, AnswerToCome
<1>5. CASE pending = NoClaim
  BY <1>1, <1>3, <1>4, <1>5 DEF vars, ClaimsInv, AllCaused, Caused, CausedThen, CausedBy
<1>6. CASE pending # NoClaim
  <2>1. /\ verdict = "accepted" => pending \in spent' \cup crossed'
        /\ verdict = "other" => pending \in refused' \cup crossed'
    BY <1>1, <1>2, <1>6 DEF NodeDecides
  <2>2. OnSubmitResponse(verdict)
    BY <1>1, <1>6
  <2>3. /\ DOMAIN entries' = DOMAIN entries
        /\ \A i \in DOMAIN entries :
             \/ entries'[i] = entries[i]
             \/ entries[i].outpoint = pending /\ entries'[i] = Resolved(entries[i], verdict)
    BY <2>2 DEF OnSubmitResponse, IsPending
  <2>4. ASSUME NEW e \in Entry, e.outpoint = pending, Caused(e)
        PROVE  CausedThen(Resolved(e, verdict))
    <3>1. e.retries \in Nat /\ MaxOrphanRetries \in Nat
      BY NumbersAssumption DEF Entry
    <3>2. CASE verdict = "accepted"
      <4>1. Resolved(e, verdict) = [e EXCEPT !.claimed = TRUE]
        BY <3>2 DEF Resolved
      <4> QED
        BY <1>1, <1>3, <2>1, <2>4, <3>2, <4>1 DEF Caused, CausedThen, CausedBy, Entry
    <3>3. CASE verdict = "other"
      <4>1. Resolved(e, verdict) = [e EXCEPT !.slashed = TRUE]
        BY <3>3 DEF Resolved
      <4> QED
        BY <1>1, <1>3, <2>1, <2>4, <3>3, <4>1 DEF Caused, CausedThen, CausedBy, Entry
    <3>4. CASE verdict = "sequence lock"
      <4>1. Resolved(e, verdict) = [e EXCEPT !.retryAfter = lastDaa + SeqLockCooldown]
        BY <3>4 DEF Resolved
      <4> QED
        BY <1>1, <1>3, <2>4, <4>1 DEF Caused, CausedThen, CausedBy, Entry
    <3>5. CASE verdict = "orphan" /\ e.retries + 1 >= MaxOrphanRetries
      <4>1. Resolved(e, verdict) = [e EXCEPT !.retries = e.retries + 1, !.slashed = TRUE]
        BY <3>5 DEF Resolved
      <4> QED
        BY <1>1, <1>3, <2>4, <3>1, <3>5, <4>1 DEF Caused, CausedThen, CausedBy, Entry
    <3>6. CASE verdict = "orphan" /\ ~(e.retries + 1 >= MaxOrphanRetries)
      <4>1. Resolved(e, verdict) = [e EXCEPT !.retries = e.retries + 1,
                                             !.retryAfter = lastDaa + OrphanCooldown]
        BY <3>6 DEF Resolved
      <4>2. e.retries + 1 >= e.retries
        BY <3>1
      <4> QED
        BY <1>1, <1>3, <2>4, <3>1, <4>1, <4>2 DEF Caused, CausedThen, CausedBy, Entry
    <3> QED
      BY <3>2, <3>3, <3>4, <3>5, <3>6 DEF Verdicts
  <2>5. AllCaused(entries)'
    <3> SUFFICES ASSUME NEW i \in DOMAIN entries' PROVE CausedThen(entries'[i])
      BY DEF AllCaused, Caused, CausedThen
    <3>1. i \in DOMAIN entries /\ entries[i] \in Entry /\ Caused(entries[i])
      BY <2>3, LenProperties DEF IInv, TypeOK, ClaimsInv, AllCaused
    <3>2. CASE entries'[i] = entries[i]
      BY <1>1, <1>3, <3>1, <3>2 DEF Caused, CausedThen, CausedBy
    <3>3. CASE entries[i].outpoint = pending /\ entries'[i] = Resolved(entries[i], verdict)
      BY <2>4, <3>1, <3>3 DEF Caused, CausedThen, CausedBy
    <3> QED
      BY <2>3, <3>1, <3>2, <3>3
  <2>6. file' \in {entries', file, <<>>}
    BY <2>2 DEF OnSubmitResponse, MaybeFlush, Written
  <2>7. AllCaused(file)'
    BY <1>1, <1>3, <2>5, <2>6 DEF ClaimsInv, AllCaused, Caused, CausedThen, CausedBy
  <2> QED
    BY <1>4, <2>5, <2>7 DEF ClaimsInv
<1> QED
  BY <1>5, <1>6

LEMMA ClaimsStep == IInv /\ ClaimsInv /\ [ClaimsNext]_allVars => ClaimsInv'
<1> SUFFICES ASSUME IInv, ClaimsInv, [ClaimsNext]_allVars PROVE ClaimsInv'
  OBVIOUS
<1>1. ASSUME NEW b \in Blocks, BlockArrives(b) PROVE ClaimsInv'
  BY <1>1, BlockClaims
<1>2. ASSUME NEW t \in DOMAIN Reward, AiResponseSubmitted(t) PROVE ClaimsInv'
  BY <1>2, AiResponseClaims
<1>3. ASSUME NEW verdict \in Verdicts, NodeAnswers(verdict) PROVE ClaimsInv'
  BY <1>3, AnswerClaims
<1>4. CASE Reconnect
  <2>1. /\ entries' = file /\ file' = file /\ pending' = NoClaim /\ requests' = <<>>
        /\ spent \subseteq spent' /\ UNCHANGED <<refused, shown, crossed>>
    BY <1>4 DEF Reconnect, Restart, Load
  <2>2. AllCaused(entries)' /\ AllCaused(file)'
    BY <2>1 DEF ClaimsInv, AllCaused, Caused, CausedThen, CausedBy
  <2>3. Waiting'
    BY <2>1, EmptySeq DEF Waiting, AnswerToCome, Claims
  <2> QED
    BY <2>2, <2>3 DEF ClaimsInv
<1>5. CASE TimePasses \/ UNCHANGED allVars
  <2>1. UNCHANGED <<entries, file, pending, requests, spent, refused, shown, crossed>>
    BY <1>5 DEF TimePasses, SaveIntervalElapses, allVars, vars
  <2> QED
    BY <2>1 DEF ClaimsInv, AllCaused, Caused, CausedThen, CausedBy, Waiting, AnswerToCome, Claims
<1> QED
  BY <1>1, <1>2, <1>3, <1>4, <1>5 DEF ClaimsNext

LEMMA ClaimsInitInv == ClaimsInit => IInv /\ ClaimsInv
<1> SUFFICES ASSUME ClaimsInit PROVE IInv /\ ClaimsInv
  OBVIOUS
<1>1. Waiting
  BY EmptySeq DEF ClaimsInit, Init, Waiting, AnswerToCome, Claims
<1> QED
  BY <1>1, InitIInv DEF ClaimsInit, Init, ClaimsInv, AllCaused

-----------------------------------------------------------------------------
(* What the runs check, for every instance.                                *)

\* The list and its indexes stay exact when the watcher works over a connection, however
\* promptly the node answers.
THEOREM WatcherHoldsAtWork == ClaimsSpec => [](OneEntryPerOutpoint /\ IndexesExact)
<1>1. ClaimsInit => IInv
  BY ClaimsInitInv
<1>2. IInv => OneEntryPerOutpoint /\ IndexesExact
  BY DEF IInv
<1> QED
  BY <1>1, <1>2, WatcherStep, PTL DEF ClaimsSpec

\* What is marked has its cause, and what is waited for is under way, through all answers,
\* reconnections and retries.
THEOREM ClaimsInvariant == ClaimsSpec => [](IInv /\ ClaimsInv)
<1>1. IInv /\ ClaimsInv /\ [ClaimsNext]_allVars => (IInv /\ ClaimsInv)'
  BY WatcherStep, ClaimsStep
<1> QED
  BY <1>1, ClaimsInitInv, PTL DEF ClaimsSpec

\* on_submit_response marks an entry as claimed only if the node has accepted the claim of
\* that very output, or the claim has met another request on the connection.
THEOREM ClaimedWasSpent == ClaimsSpec => []ClaimedUnlessCrossed
<1>1. ClaimsInv => ClaimedUnlessCrossed
  BY DEF ClaimsInv, AllCaused, Caused, CausedBy, ClaimedUnlessCrossed
<1> QED
  BY <1>1, ClaimsInvariant, PTL

\* The watcher never waits in vain, and the next answer is the one to its claim unless that
\* claim has met another request.
THEOREM ClaimIsUnderWay == ClaimsSpec => []AnswerToCome
<1>1. ClaimsInv => AnswerToCome
  BY DEF ClaimsInv, Waiting
<1> QED
  BY <1>1, ClaimsInvariant, PTL

\* No escrow is given up without cause.
THEOREM GivenUpWithCause == ClaimsSpec => []GivenUpForCause
<1>1. ClaimsInv => GivenUpForCause
  BY DEF ClaimsInv, AllCaused, Caused, CausedBy, GivenUpForCause
<1> QED
  BY <1>1, ClaimsInvariant, PTL
=============================================================================
