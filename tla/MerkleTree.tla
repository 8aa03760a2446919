------------------------------ MODULE MerkleTree ------------------------------
(***************************************************************************)
(* The Merkle tree of provenance/merkle.py.  A SHA-256 hash is taken to be *)
(* free of collisions: it is the term that was hashed, a leaf of some data *)
(* or a node over two hashes, so that two hashes are equal exactly when    *)
(* they were made from the same thing.                                     *)
(***************************************************************************)
EXTENDS Integers, Sequences, SequencesExt

Leaf(data) == [of |-> {data}, kids |-> <<>>]
Node(left, right) == [of |-> {}, kids |-> <<left, right>>]
NoData == [of |-> {}, kids |-> <<>>]          \* _hash(b"")

(* The level above; the last node of an odd level is paired with itself.   *)
Above(level) ==
    [k \in 1 .. (Len(level) + 1) \div 2 |->
        LET left == level[2 * k - 1]
        IN  Node(left, IF 2 * k <= Len(level) THEN level[2 * k] ELSE left)]

Levels(leaves) ==
    LET level[h \in 0 .. Len(leaves)] ==
            IF h = 0 THEN leaves ELSE Above(level[h - 1])
    IN  level

Height(leaves) ==
    CHOOSE h \in 0 .. Len(leaves) :
        /\ Len(Levels(leaves)[h]) = 1
        /\ \A lower \in 0 .. h - 1 : Len(Levels(leaves)[lower]) > 1

RootOf(leaves) ==
    IF leaves = <<>> THEN NoData ELSE Levels(leaves)[Height(leaves)][1]

(* A tree keeps the root it computed last until a leaf is added; cached is *)
(* that root, or {} when there is none.                                    *)
NoTree == [leaves |-> <<>>, cached |-> {}]

(* A wrong form of Grow: the root is not forgotten.                        *)
Grow_KeepsRoot(tree, data) ==
    [leaves |-> Append(tree.leaves, Leaf(data)), cached |-> tree.cached]

Grow(tree, data) == [leaves |-> Append(tree.leaves, Leaf(data)), cached |-> {}]
RootHash(tree) ==
    IF tree.cached # {} THEN CHOOSE root \in tree.cached : TRUE
    ELSE RootOf(tree.leaves)
Asked(tree) ==
    [tree EXCEPT !.cached = IF tree.leaves = <<>> THEN @ ELSE {RootHash(tree)}]

(* The indices, level by level, of the nodes over the leaf of this index;  *)
(* indices count from 0.                                                   *)
Way(index, height) ==
    LET at[h \in 0 .. height] == IF h = 0 THEN index ELSE at[h - 1] \div 2
    IN  at

(* The sibling of a node; the last one of an odd level is its own.         *)
Beside(level, at) ==
    LET pair == IF at % 2 = 0 THEN at + 1 ELSE at - 1
    IN  level[(IF pair >= Len(level) THEN at ELSE pair) + 1]

(* A wrong form of ProofFor: the side is that of the leaf at every level.  *)
ProofFor_LeafSide(leaves, index) ==
    LET at == Way(index, Height(leaves))
    IN  [h \in 1 .. Height(leaves) |->
            [sibling |-> Beside(Levels(leaves)[h - 1], at[h - 1]),
             side |-> IF index % 2 = 0 THEN "right" ELSE "left"]]

ProofFor(leaves, index) ==
    LET at == Way(index, Height(leaves))
    IN  [h \in 1 .. Height(leaves) |->
            [sibling |-> Beside(Levels(leaves)[h - 1], at[h - 1]),
             side |-> IF at[h - 1] % 2 = 0 THEN "right" ELSE "left"]]

Combine(current, step) ==
    IF step.side = "right" THEN Node(current, step.sibling)
    ELSE Node(step.sibling, current)
Verify(data, proof, root) == FoldLeft(Combine, Leaf(data), proof) = root
===============================================================================
