------------------------- MODULE OfflineSyncProofs -------------------------
(***************************************************************************)
(* Proofs about OfflineSync, for any number of products, days, revisions,  *)
(* operations and documents on a page.                                     *)
(***************************************************************************)
EXTENDS OfflineSync, FiniteSetTheorems, WellFoundedInduction, TLAPS

-----------------------------------------------------------------------------
(* What a page takes of a collection.                                      *)

\* A set of versions has a smallest element.
LEMMA Smallest ==
  ASSUME NEW T \in SUBSET Nat, T # {}
  PROVE  \E x \in T : \A y \in T : x <= y
<1>1. PICK x \in T : \A y \in T : ~(<<y, x>> \in OpToRel(<, Nat))
  BY NatLessThanWellFounded, WFMin, Zenon
<1>2. \A y \in T : ~(y < x)
  BY <1>1 DEF OpToRel
<1> QED
  BY <1>2

\* What the assumptions give.
LEMMA Bounds ==
  /\ MaxProduct \in Nat /\ MaxDay \in Nat /\ PageSize \in Nat /\ PageSize > 0 /\ None \notin Nat
  /\ \A c \in Collections : Ids(c) \subseteq Nat /\ IsFiniteSet(Ids(c))
  /\ \A c \in Collections : \A i \in Ids(c) : <<c, i>> \in Docs
<1>1. /\ MaxProduct \in Nat /\ MaxDay \in Nat /\ PageSize \in Nat /\ PageSize > 0 /\ None \notin Nat
  BY BoundsAssumption, NoneAssumption
<1>2. IsFiniteSet(1..MaxProduct) /\ IsFiniteSet(1..MaxDay)
  BY <1>1, FS_Interval
<1>3. \A c \in Collections : Ids(c) \subseteq Nat /\ IsFiniteSet(Ids(c))
  BY <1>1, <1>2 DEF Ids, Days, Products
<1>4. \A c \in Collections : \A i \in Ids(c) : <<c, i>> \in Docs
  BY DEF Docs
<1> QED
  BY <1>1, <1>3, <1>4

\* The matching documents are in a strict order, in which a rank grows.
LEMMA Ranks ==
  ASSUME docs \in [Docs -> Version], NEW t, NEW c \in Collections
  PROVE  /\ Matching(t, c) \subseteq Ids(c) /\ IsFiniteSet(Matching(t, c))
         /\ \A i \in Matching(t, c) : Rank(t, c, i) \in Nat /\ docs[<<c, i>>] \in Nat
         /\ \A i, j \in Matching(t, c) :
              /\ i = j \/ Precedes(t, c, i, j) \/ Precedes(t, c, j, i)
              /\ Precedes(t, c, i, j) => Rank(t, c, i) < Rank(t, c, j)
<1> DEFINE M == Matching(t, c)
           Before(i) == {j \in M : Precedes(t, c, j, i)}
<1>1. M \subseteq Ids(c) /\ IsFiniteSet(M) /\ M \subseteq Nat
  <2>1. M \in SUBSET Ids(c)
    BY DEF Matching
  <2> QED
    BY <2>1, Bounds, FS_Subset
<1>2. \A i \in M : docs[<<c, i>>] \in Nat
  BY Bounds DEF Matching, Version
<1>3. \A i \in M : Rank(t, c, i) = Cardinality(Before(i))
  BY DEF Rank
<1>4. \A i \in M : Before(i) \in SUBSET M
  OBVIOUS
<1>5. \A i \in M : IsFiniteSet(Before(i)) /\ Cardinality(Before(i)) \in Nat
  BY <1>1, <1>4, FS_Subset, FS_CardinalityType
<1>6. ASSUME NEW i \in M, NEW j \in M
      PROVE  /\ i = j \/ Precedes(t, c, i, j) \/ Precedes(t, c, j, i)
             /\ ~Precedes(t, c, i, i)
             /\ Precedes(t, c, i, j) => \A k \in M : Precedes(t, c, k, i) => Precedes(t, c, k, j)
  <2>1. i \in Nat /\ j \in Nat /\ docs[<<c, i>>] \in Nat /\ docs[<<c, j>>] \in Nat
    BY <1>1, <1>2
  <2>2. i = j \/ Precedes(t, c, i, j) \/ Precedes(t, c, j, i)
    BY <2>1 DEF Precedes
  <2>3. ~Precedes(t, c, i, i)
    BY <2>1 DEF Precedes
  <2>4. ASSUME Precedes(t, c, i, j), NEW k \in M, Precedes(t, c, k, i) PROVE Precedes(t, c, k, j)
    <3>1. k \in Nat /\ docs[<<c, k>>] \in Nat
      BY <1>1, <1>2
    <3> QED
      BY <2>1, <2>4, <3>1 DEF Precedes
  <2> QED
    BY <2>2, <2>3, <2>4
<1>7. ASSUME NEW i \in M, NEW j \in M, Precedes(t, c, i, j) PROVE Rank(t, c, i) < Rank(t, c, j)
  <2>1. Before(i) \in SUBSET Before(j) /\ i \in Before(j) /\ i \notin Before(i)
    BY <1>6, <1>7
  <2> HIDE DEF Before
  <2>2. Cardinality(Before(i)) <= Cardinality(Before(j))
    BY <1>5, <2>1, FS_Subset
  <2>3. Cardinality(Before(i)) # Cardinality(Before(j))
    BY <1>5, <2>1, FS_Subset
  <2> QED
    BY <1>3, <1>5, <2>2, <2>3
<1> QED
  BY <1>1, <1>2, <1>3, <1>5, <1>6, <1>7

\* A page takes the first documents: none is left out when there is room, and those left out
\* come after all that are taken.
LEMMA PageTakes ==
  ASSUME docs \in [Docs -> Version], NEW t, NEW c \in Collections
  PROVE  /\ PageOf(t, c) \subseteq Matching(t, c)
         /\ PageOf(t, c) = {} => Matching(t, c) = {}
         /\ PageOf(t, c) # {} =>
              \E i \in PageOf(t, c) : \A j \in PageOf(t, c) : i = j \/ Precedes(t, c, j, i)
         /\ \A i \in Matching(t, c) \ PageOf(t, c), j \in PageOf(t, c) : Precedes(t, c, j, i)
         /\ Cardinality(PageOf(t, c)) <= PageSize
<1> DEFINE M == Matching(t, c)
           P == PageOf(t, c)
           rank(i) == Rank(t, c, i)
<1>1. /\ IsFiniteSet(M)
      /\ \A i \in M : rank(i) \in Nat
      /\ \A i, j \in M : /\ i = j \/ Precedes(t, c, i, j) \/ Precedes(t, c, j, i)
                         /\ Precedes(t, c, i, j) => rank(i) < rank(j)
  BY Ranks
<1>2. P = {i \in M : rank(i) < PageSize}
  BY DEF PageOf
<1>3. \A i \in M : rank(i) = Cardinality({j \in M : Precedes(t, c, j, i)})
  BY DEF Rank
<1> HIDE DEF M, P, rank
<1>4. ASSUME M # {} PROVE P # {}
  <2> DEFINE T == {rank(i) : i \in M}
  <2>1. T \in SUBSET Nat /\ T # {}
    BY <1>1, <1>4
  <2>a. PICK x \in T : \A y \in T : x <= y
    BY <2>1, Smallest
  <2>b. PICK i \in M : x = rank(i)
    OBVIOUS
  <2>2. \A j \in M : rank(i) <= rank(j)
    BY <2>a, <2>b
  <2>3. {j \in M : Precedes(t, c, j, i)} = {}
    BY <1>1, <2>2
  <2>4. rank(i) = 0
    BY <1>3, <2>3, FS_EmptySet
  <2> QED
    BY <1>2, <2>4, Bounds
<1>5. ASSUME P # {} PROVE \E i \in P : \A j \in P : i = j \/ Precedes(t, c, j, i)
  <2> DEFINE T == {PageSize - rank(i) : i \in P}
  <2>1. T \in SUBSET Nat /\ T # {}
    BY <1>1, <1>2, <1>5, Bounds
  <2>2. PICK x \in T : \A y \in T : x <= y
    BY <2>1, Smallest
  <2>3. PICK i \in P : x = PageSize - rank(i)
    OBVIOUS
  <2>4. ASSUME NEW j \in P PROVE rank(j) <= rank(i)
    <3>1. PageSize - rank(i) <= PageSize - rank(j)
      BY <2>2, <2>3
    <3>2. rank(i) \in Nat /\ rank(j) \in Nat
      BY <1>1, <1>2
    <3> QED
      BY <3>1, <3>2, Bounds
  <2>5. ASSUME NEW j \in P PROVE i = j \/ Precedes(t, c, j, i)
    <3>1. i \in M /\ j \in M
      BY <1>2
    <3>2. rank(i) \in Nat /\ rank(j) \in Nat /\ ~(rank(i) < rank(j))
      BY <1>1, <2>4, <3>1
    <3> QED
      BY <1>1, <3>1, <3>2
  <2> QED
    BY <2>5
<1>6. ASSUME NEW i \in M \ P, NEW j \in P PROVE Precedes(t, c, j, i)
  <2>1. i \in M /\ j \in M /\ rank(j) < PageSize /\ ~(rank(i) < PageSize) /\ i # j
    BY <1>2, <1>6
  <2>2. rank(i) \in Nat /\ rank(j) \in Nat
    BY <1>1, <2>1
  <2>3. ~(rank(i) < rank(j))
    BY <2>1, <2>2, Bounds
  <2> QED
    BY <1>1, <2>1, <2>3
<1>7. Cardinality(P) <= PageSize
  <2> DEFINE f == [i \in P |-> rank(i)]
             S == 0..PageSize - 1
  <2>1. \A i \in P : rank(i) \in S
    BY <1>1, <1>2, Bounds
  <2>2. \A i, j \in P : rank(i) = rank(j) => i = j
    BY <1>1, <1>2
  <2>3. f \in Injection(P, S)
    BY <2>1, <2>2 DEF Injection, IsInjective
  <2>4. IsFiniteSet(S) /\ Cardinality(S) = PageSize
    <3>1. \A a, b \in Int : ~(a > b) => IsFiniteSet(a..b) /\ Cardinality(a..b) = b - a + 1
      BY FS_Interval
    <3>2. 0 \in Int /\ PageSize - 1 \in Int /\ ~(0 > PageSize - 1)
      BY Bounds
    <3>3. IsFiniteSet(S) /\ Cardinality(S) = (PageSize - 1) - 0 + 1
      BY <3>1, <3>2, Zenon
    <3> QED
      BY <3>3, Bounds
  <2> HIDE DEF f, S
  <2>5. IsFiniteSet(P) /\ Cardinality(P) <= Cardinality(S)
    BY <2>3, <2>4, FS_Injection
  <2> QED
    BY <2>4, <2>5
<1> QED
  BY <1>2, <1>4, <1>5, <1>6, <1>7 DEF M, P

-----------------------------------------------------------------------------
(* The invariant.                                                          *)

\* Documents are no newer than the revision; a deleted product is not there.
DocsInv ==
  /\ \A d \in Docs : docs[d] # None => docs[d] <= rev
  /\ \A p \in Products : docs[Tomb(p)] # None => docs[Row(p)] = None

\* The copy is of what was committed, and lags behind it.
ReplicaInv ==
  /\ \A d \in Docs : replica[d] # None =>
       replica[d] <= rev /\ (docs[d] # None => replica[d] <= docs[d])
  /\ \A p \in Products : replica[Tomb(p)] # None =>
       docs[Tomb(p)] # None /\ replica[Row(p)] = None

\* What is on a page was committed when its collection was read, is in the window, and is not
\* older than the copy; a product on it has not been deleted in the window.
ItemInv(t, i) ==
  /\ i.version <= t.high /\ i.version <= rev
  /\ docs[i.doc] # None => i.version <= docs[i.doc]
  /\ replica[i.doc] # None => replica[i.doc] <= i.version
  /\ \A p \in Products :
       /\ i.doc = Row(p) => /\ docs[Tomb(p)] # None => docs[Tomb(p)] > t.high
                            /\ replica[Tomb(p)] = None
       /\ i.doc = Tomb(p) => docs[Tomb(p)] = i.version

PageInv ==
  pull # None =>
    /\ \A c \in Collections : pull.token.done[c] => c \in pull.read
    /\ \A i \in pull.items : ItemInv(pull.token, i) /\ i.doc[1] \in pull.read
    /\ \A i, j \in pull.items : i.doc = j.doc => i = j

Wanted(t, d) == docs[d] # None /\ docs[d] <= t.high /\ InScope(d, t.scope)

\* The token will still come to the document.
Ahead(t, d) ==
  ~t.done[d[1]] /\ (t.low # None => docs[d] > t.low) /\ After(t, d[1], d[2])

\* Whatever the window wants is in a copy already, or is still to come.
Covered(t, copy) ==
  /\ \A d \in Docs : Wanted(t, d) => copy[d] = docs[d] \/ Ahead(t, d)
  /\ \A p \in Products :
       Wanted(t, Tomb(p)) => copy[Row(p)] = None \/ Ahead(t, Tomb(p))

\* A pull ends at a revision that has been, and not before the last completed one.
TokenInv(t, copy) ==
  t.high <= rev /\ (checkpoint # None => checkpoint.high <= t.high) /\ Covered(t, copy)

PullInv ==
  /\ checkpoint # None => checkpoint.high <= rev
  /\ cursor # None => TokenInv(cursor, replica)
  /\ pull # None => TokenInv(pull.token, Merged(pull.items))

SyncInv == TypeOK /\ DocsInv /\ ReplicaInv /\ PageInv /\ PullInv /\ NothingMissed

\* A conflict is final: the version the edit was made on never comes back.
Doomed(o) ==
  LET op == ops[o] IN
  IF Exists(op.product) THEN ~BaseHolds(op)
  ELSE op.kind = "delete" \/ op.base # 0 \/ ~FreshId(op.product)

VerdictInv ==
  \A o \in Ops :
    /\ ops[o] # None => ops[o].base <= rev
    /\ o \in receipts => ops[o] # None
    /\ applied[o] = IF o \in receipts THEN 1 ELSE 0
    /\ "acknowledged" \in verdicts[o] => o \in receipts
    /\ "conflict" \in verdicts[o] => o \notin receipts /\ ops[o] # None /\ Doomed(o)

-----------------------------------------------------------------------------
(* Writers.                                                                *)

\* A document is a row or a tombstone of one product, or neither.
LEMMA DocShape ==
  /\ \A d \in Docs : /\ d[1] \in Collections /\ d[2] \in Ids(d[1]) /\ d = <<d[1], d[2]>>
                     /\ d[1] = "products" => d[2] \in Products /\ d = Row(d[2])
                     /\ d[1] = "deletedProducts" => d[2] \in Products /\ d = Tomb(d[2])
  /\ \A p \in Products : Row(p) \in Docs /\ Tomb(p) \in Docs
  /\ \A p, q \in Products : /\ Row(p) # Tomb(q)
                            /\ Row(p) = Row(q) => p = q
                            /\ Tomb(p) = Tomb(q) => p = q
  /\ "products" \in Collections /\ "deletedProducts" \in Collections
<1>1. "products" \in Collections /\ "deletedProducts" \in Collections
  BY CollectionsAssumption
<1>2. Ids("products") = Products /\ Ids("deletedProducts") = Products
  BY DEF Ids, Dated
<1>3. ASSUME NEW d \in Docs
      PROVE  /\ d[1] \in Collections /\ d[2] \in Ids(d[1]) /\ d = <<d[1], d[2]>>
  <2>1. PICK c \in Collections : d \in {c} \X Ids(c)
    BY DEF Docs
  <2> QED
    BY <2>1
<1>4. \A p \in Products : Row(p) \in Docs /\ Tomb(p) \in Docs
  BY <1>1, <1>2 DEF Docs, Row, Tomb
<1>5. \A p, q \in Products : /\ Row(p) # Tomb(q)
                             /\ Row(p) = Row(q) => p = q
                             /\ Tomb(p) = Tomb(q) => p = q
  BY DEF Row, Tomb
<1> QED
  BY <1>1, <1>2, <1>3, <1>4, <1>5 DEF Row, Tomb

\* What any transaction does to the documents: those it changes get a version above all
\* windows, tombstones stay, and a product goes only as its tombstone comes.
Moves ==
  /\ rev' = rev + 1
  /\ docs' \in [Docs -> Version]
  /\ \A d \in Docs : docs'[d] # None => docs'[d] = docs[d] \/ docs'[d] = rev + 1
  /\ \A p \in Products :
       /\ docs[Tomb(p)] # None => docs'[Tomb(p)] = docs[Tomb(p)]
       /\ docs'[Tomb(p)] # None => docs'[Row(p)] = None
       /\ docs[Row(p)] # None /\ docs'[Row(p)] = None => docs'[Tomb(p)] # None

\* A write that keeps rows and tombstones apart moves what it writes above every window.
LEMMA StampMoves ==
  ASSUME rev \in Nat, docs \in [Docs -> Version], DocsInv,
         NEW written, NEW gone, Stamp(written, gone),
         \A p \in Products :
           /\ Row(p) \in written => docs[Tomb(p)] = None /\ Tomb(p) \notin written
           /\ Tomb(p) \in written => docs[Tomb(p)] = None /\ Row(p) \in gone
           /\ Row(p) \in gone => Tomb(p) \in written
           /\ Tomb(p) \notin gone
  PROVE  Moves /\ UNCHANGED <<today, tier, turns>>
<1>1. /\ rev' = rev + 1
      /\ docs' = [d \in Docs |-> IF d \in gone THEN None
                                 ELSE IF d \in written THEN rev + 1 ELSE docs[d]]
      /\ UNCHANGED <<today, tier, turns>>
  BY DEF Stamp
<1>2. \A d \in Docs : docs'[d] = IF d \in gone THEN None
                                 ELSE IF d \in written THEN rev + 1 ELSE docs[d]
  BY <1>1
<1>3. docs' \in [Docs -> Version]
  BY <1>1 DEF Version
<1>4. \A d \in Docs : docs'[d] # None => docs'[d] = docs[d] \/ docs'[d] = rev + 1
  BY <1>2
<1>5. rev + 1 # None
  BY NoneAssumption
<1>6. ASSUME NEW p \in Products
      PROVE  /\ docs[Tomb(p)] # None => docs'[Tomb(p)] = docs[Tomb(p)]
             /\ docs'[Tomb(p)] # None => docs'[Row(p)] = None
             /\ docs[Row(p)] # None /\ docs'[Row(p)] = None => docs'[Tomb(p)] # None
  <2>1. Row(p) \in Docs /\ Tomb(p) \in Docs
    BY DocShape
  <2>2. docs[Tomb(p)] # None => docs[Row(p)] = None
    BY DEF DocsInv
  <2> QED
    BY <1>2, <1>5, <2>1, <2>2
<1> QED
  BY <1>1, <1>3, <1>4, <1>6 DEF Moves

\* The types, spelled out.
LEMMA Types ==
  ASSUME TypeOK
  PROVE  /\ rev \in Nat /\ docs \in [Docs -> Version] /\ replica \in [Docs -> Version]
         /\ checkpoint # None => checkpoint \in Checkpoint
         /\ cursor # None => cursor \in Token
         /\ pull # None => pull \in Page /\ pull.token \in Token /\ pull.read \subseteq Collections
         /\ pull # None => \A i \in pull.items : i.doc \in Docs /\ i.version \in Nat
         /\ \A o \in Ops : ops[o] # None => ops[o] \in Op
         /\ Scope \in Nat
<1>1. today \in Nat
  BY BoundsAssumption DEF TypeOK, Days
<1> QED
  BY <1>1 DEF TypeOK, Page, Scope

\* The page's effect on the copy, document by document.
LEMMA MergedIs ==
  ASSUME NEW items, \A i, j \in items : i.doc = j.doc => i = j, NEW d \in Docs
  PROVE  /\ \A i \in items : i.doc = d => Merged(items)[d] = i.version
         /\ (\A i \in items : i.doc # d) =>
              Merged(items)[d] = IF d[1] = "products" /\ \E i \in items : i.doc = Tomb(d[2])
                                 THEN None ELSE replica[d]
<1>1. Merged(items)[d] =
        IF \E i \in items : i.doc = d THEN (CHOOSE i \in items : i.doc = d).version
        ELSE IF d[1] = "products" /\ \E i \in items : i.doc = Tomb(d[2]) THEN None
        ELSE replica[d]
  BY DEF Merged
<1>2. ASSUME NEW i \in items, i.doc = d PROVE Merged(items)[d] = i.version
  <2>1. (CHOOSE j \in items : j.doc = d) = i
    BY <1>2
  <2> QED
    BY <1>1, <1>2, <2>1
<1> QED
  BY <1>1, <1>2

\* A document that is not written stays ahead of a token.
LEMMA AheadStays ==
  ASSUME NEW t, NEW d \in Docs, docs'[d] = docs[d], Ahead(t, d)
  PROVE  Ahead(t, d)'
<1>1. d = <<d[1], d[2]>>
  BY DocShape
<1> DEFINE c == d[1]
           i == d[2]
<1>2. docs'[<<c, i>>] = docs[<<c, i>>]
  BY <1>1
<1> HIDE DEF c, i
<1>3. After(t, c, i) => After(t, c, i)'
  BY <1>2 DEF After
<1> QED
  BY <1>3 DEF Ahead, c, i

\* A write takes nothing from what a token has covered.
LEMMA MovesKeepTokens ==
  ASSUME rev \in Nat, docs \in [Docs -> Version], DocsInv, Moves,
         NEW t \in Token, NEW copy, t.high <= rev, Covered(t, copy)
  PROVE  Covered(t, copy)'
<1>1. t.high \in Nat /\ rev + 1 # None
  BY NoneAssumption DEF Token
<1>2. ASSUME NEW d \in Docs, docs'[d] # None, docs'[d] <= t.high PROVE docs'[d] = docs[d]
  BY <1>1, <1>2 DEF Moves
<1>3. ASSUME NEW d \in Docs, Wanted(t, d)' PROVE Wanted(t, d) /\ docs'[d] = docs[d]
  BY <1>2, <1>3 DEF Wanted, InScope
<1>4. ASSUME NEW d \in Docs, Wanted(t, d)' PROVE copy[d] = docs'[d] \/ Ahead(t, d)'
  BY <1>3, <1>4, AheadStays DEF Covered
<1>5. ASSUME NEW p \in Products, Wanted(t, Tomb(p))'
      PROVE  copy[Row(p)] = None \/ Ahead(t, Tomb(p))'
  <2>1. Tomb(p) \in Docs
    BY DocShape
  <2>2. Wanted(t, Tomb(p)) /\ docs'[Tomb(p)] = docs[Tomb(p)]
    BY <1>3, <1>5, <2>1
  <2> QED
    BY <2>1, <2>2, AheadStays DEF Covered
<1> QED
  BY <1>4, <1>5 DEF Covered

\* Whatever is written, the copy, the pages and the tokens stay as good as they were.
LEMMA MovesKeep ==
  ASSUME SyncInv, Moves, UNCHANGED <<device, pull>>
  PROVE  DocsInv' /\ ReplicaInv' /\ PageInv' /\ PullInv' /\ NothingMissed'
<1> USE DEF SyncInv
<1>1. /\ UNCHANGED <<replica, checkpoint, cursor, pull>>
      /\ rev \in Nat /\ rev' = rev + 1 /\ rev + 1 # None
      /\ docs \in [Docs -> Version] /\ replica \in [Docs -> Version]
  BY Types, NoneAssumption DEF device, Moves
<1>2. \A d \in Docs : /\ docs[d] # None => docs[d] \in Nat /\ docs[d] <= rev
                      /\ replica[d] # None => replica[d] \in Nat
                      /\ docs'[d] # None => docs'[d] = docs[d] \/ docs'[d] = rev + 1
  BY <1>1 DEF DocsInv, Version, Moves
<1>3. \A p \in Products : /\ Row(p) \in Docs /\ Tomb(p) \in Docs
                          /\ docs[Tomb(p)] # None => docs'[Tomb(p)] = docs[Tomb(p)]
                          /\ docs'[Tomb(p)] # None => docs'[Row(p)] = None
  BY DocShape DEF Moves
<1>4. DocsInv'
  <2>1. \A d \in Docs : docs'[d] # None => docs'[d] <= rev'
    BY <1>1, <1>2
  <2> QED
    BY <1>3, <2>1 DEF DocsInv
<1>5. ReplicaInv'
  <2>1. \A d \in Docs : replica[d] # None =>
          replica[d] <= rev' /\ (docs'[d] # None => replica[d] <= docs'[d])
    BY <1>1, <1>2 DEF ReplicaInv
  <2>2. \A p \in Products : replica[Tomb(p)] # None =>
          docs'[Tomb(p)] # None /\ replica[Row(p)] = None
    BY <1>3 DEF ReplicaInv
  <2> QED
    BY <1>1, <2>1, <2>2 DEF ReplicaInv
<1>6. PageInv'
  <2> SUFFICES ASSUME pull # None PROVE PageInv'
    BY <1>1 DEF PageInv
  <2> DEFINE t == pull.token
  <2>1. t \in Token /\ t.high \in Nat /\ t.high <= rev
    BY Types DEF Token, PullInv, TokenInv
  <2>2. ASSUME NEW i \in pull.items PROVE ItemInv(t, i)'
    <3>1. ItemInv(t, i) /\ i.doc \in Docs /\ i.version \in Nat
      BY Types DEF PageInv
    <3>2. /\ i.version <= t.high /\ i.version <= rev'
          /\ docs'[i.doc] # None => i.version <= docs'[i.doc]
      BY <1>1, <1>2, <2>1, <3>1 DEF ItemInv
    <3>3. ASSUME NEW p \in Products, i.doc = Row(p), docs'[Tomb(p)] # None
          PROVE  docs'[Tomb(p)] > t.high
      <4>1. docs[Tomb(p)] # None => docs[Tomb(p)] > t.high
        BY <3>1, <3>3 DEF ItemInv
      <4> QED
        BY <1>1, <1>2, <1>3, <2>1, <3>3, <4>1
    <3>4. ASSUME NEW p \in Products, i.doc = Tomb(p) PROVE docs'[Tomb(p)] = i.version
      BY <1>3, <3>1, <3>4, NoneAssumption DEF ItemInv
    <3>5. /\ replica[i.doc] # None => replica[i.doc] <= i.version
          /\ \A p \in Products : i.doc = Row(p) => replica[Tomb(p)] = None
      BY <3>1 DEF ItemInv
    <3>6. /\ pull'.token = pull.token /\ replica' = replica
      BY <1>1
    <3> QED
      BY <3>2, <3>3, <3>4, <3>5, <3>6 DEF ItemInv
  <2> QED
    BY <1>1, <2>2 DEF PageInv
<1>7. NothingMissed'
  <2> SUFFICES ASSUME checkpoint # None PROVE NothingMissed'
    BY <1>1 DEF NothingMissed
  <2>1. checkpoint.high \in Nat /\ checkpoint.high <= rev
    BY Types DEF Checkpoint, PullInv
  <2>2. ASSUME NEW d \in Docs, docs'[d] # None, docs'[d] <= checkpoint.high
        PROVE  docs'[d] = docs[d]
    BY <1>1, <1>2, <2>1, <2>2
  <2>3. ASSUME NEW d \in Docs
        PROVE  /\ docs'[d] # None /\ docs'[d] <= checkpoint.high /\ InScope(d, checkpoint.scope)
                    => replica[d] = docs'[d]
               /\ d[1] = "products" /\ docs'[Tomb(d[2])] # None
                  /\ docs'[Tomb(d[2])] <= checkpoint.high => replica[d] = None
    <3>1. d[1] = "products" => Tomb(d[2]) \in Docs
      BY DocShape
    <3> QED
      BY <2>2, <3>1 DEF NothingMissed
  <2> QED
    BY <1>1, <2>3 DEF NothingMissed, InScope
<1>8. PullInv'
  <2>1. checkpoint # None => checkpoint.high \in Nat /\ checkpoint.high <= rev'
    BY <1>1, Types DEF Checkpoint, PullInv
  <2>2. ASSUME NEW t \in Token, NEW copy, TokenInv(t, copy) PROVE TokenInv(t, copy)'
    <3>1. t.high \in Nat /\ t.high <= rev /\ Covered(t, copy)
      BY <2>2 DEF Token, TokenInv
    <3>2. Covered(t, copy)'
      BY <1>1, <3>1, MovesKeepTokens
    <3> QED
      BY <1>1, <2>2, <3>1, <3>2 DEF TokenInv
  <2>3. cursor # None => TokenInv(cursor, replica)'
    BY <1>1, <2>2, Types DEF PullInv, TokenInv, Covered, Ahead, After, Wanted, InScope
  <2>4. pull # None => TokenInv(pull.token, Merged(pull.items))'
    <3> SUFFICES ASSUME pull # None PROVE TokenInv(pull.token, Merged(pull.items))'
      OBVIOUS
    <3>1. PICK t, copy : t = pull.token /\ copy = Merged(pull.items)
      OBVIOUS
    <3>2. TokenInv(t, copy)'
      BY <2>2, <3>1, Types DEF PullInv
    <3>3. pull'.token = t /\ Merged(pull.items)' = copy
      BY <1>1, <3>1 DEF Merged
    <3> QED
      BY <3>2, <3>3 DEF TokenInv, Covered, Ahead, After, Wanted, InScope
  <2> QED
    BY <1>1, <2>1, <2>3, <2>4 DEF PullInv
<1> QED
  BY <1>4, <1>5, <1>6, <1>7, <1>8

\* Removing a product is such a write.
LEMMA RemovedMoves ==
  ASSUME rev \in Nat, docs \in [Docs -> Version], DocsInv,
         NEW q \in Products, NEW written \in SUBSET Entries, Exists(q), Removed(q, written)
  PROVE  Moves /\ UNCHANGED <<today, tier, turns>>
<1>1. docs[Tomb(q)] = None
  BY DEF DocsInv, Exists
<1>2. Stamp(written \cup {Tomb(q)}, {Row(q)})
  BY DEF Removed
<1>3. \A p \in Products : Row(p) \notin written /\ Tomb(p) \notin written
  BY DEF Entries, Row, Tomb
<1> DEFINE W == written \cup {Tomb(q)}
           G == {Row(q)}
<1>4. ASSUME NEW p \in Products
      PROVE  /\ Row(p) \in W => docs[Tomb(p)] = None /\ Tomb(p) \notin W
             /\ Tomb(p) \in W => docs[Tomb(p)] = None /\ Row(p) \in G
             /\ Row(p) \in G => Tomb(p) \in W
             /\ Tomb(p) \notin G
  BY <1>1, <1>3, DocShape
<1> HIDE DEF W, G
<1>5. Stamp(W, G)
  BY <1>2 DEF W, G
<1> QED
  BY <1>4, <1>5, StampMoves

\* So is any write that makes no tombstone.
LEMMA WriteMoves ==
  ASSUME rev \in Nat, docs \in [Docs -> Version], DocsInv, NEW W, Stamp(W, {}),
         \A p \in Products : /\ Tomb(p) \notin W
                             /\ Row(p) \in W => Exists(p) \/ FreshId(p)
  PROVE  Moves /\ UNCHANGED <<today, tier, turns>>
<1>1. \A p \in Products :
        /\ Row(p) \in W => docs[Tomb(p)] = None /\ Tomb(p) \notin W
        /\ Tomb(p) \in W => docs[Tomb(p)] = None /\ Row(p) \in {}
        /\ Row(p) \in {} => Tomb(p) \in W
        /\ Tomb(p) \notin {}
  BY DEF DocsInv, Exists, FreshId
<1> QED
  BY <1>1, StampMoves

\* Every action that commits a transaction.
LEMMA Writers ==
  ASSUME SyncInv, Write \/ Remove \/ \E o \in Ops : Put(o) \/ Delete(o)
  PROVE  Moves /\ UNCHANGED <<today, tier, turns, replica, checkpoint, cursor, pull>>
<1>1. rev \in Nat /\ docs \in [Docs -> Version] /\ DocsInv
  BY Types DEF SyncInv
<1>2. CASE Write
  <2>1. PICK W : /\ W \subseteq {Row(p) : p \in {q \in Products : Exists(q) \/ FreshId(q)}}
                                  \cup (Dated \X (1..today))
                 /\ Stamp(W, {}) /\ UNCHANGED <<device, pull>>
    BY <1>2 DEF Write
  <2>2. ASSUME NEW p \in Products
        PROVE  Tomb(p) \notin W /\ (Row(p) \in W => Exists(p) \/ FreshId(p))
    BY <2>1 DEF Row, Tomb, Dated
  <2> QED
    BY <1>1, <2>1, <2>2, WriteMoves DEF device
<1>3. CASE Remove
  BY <1>1, <1>3, RemovedMoves DEF Remove, device
<1>4. ASSUME NEW o \in Ops, Put(o)
      PROVE  Moves /\ UNCHANGED <<today, tier, turns, replica, checkpoint, cursor, pull>>
  <2> DEFINE q == ops[o].product
             W == {Row(q)} \cup (Dated \X {today})
  <2>1. Stamp(W, {}) /\ UNCHANGED <<device, pull>> /\ (Exists(q) \/ FreshId(q))
    BY <1>4 DEF Put, Acknowledge
  <2>2. ASSUME NEW p \in Products
        PROVE  Tomb(p) \notin W /\ (Row(p) \in W => Exists(p) \/ FreshId(p))
    <3>1. Row(p) \in W => p = q
      BY DEF Row, Dated
    <3>2. Tomb(p) \notin W
      BY DEF Row, Tomb, Dated
    <3> QED
      BY <2>1, <3>1, <3>2
  <2> HIDE DEF W
  <2> QED
    BY <1>1, <2>1, <2>2, WriteMoves DEF device
<1>5. ASSUME NEW o \in Ops, Delete(o)
      PROVE  Moves /\ UNCHANGED <<today, tier, turns, replica, checkpoint, cursor, pull>>
  <2> DEFINE q == ops[o].product
  <2>1. Exists(q) /\ UNCHANGED <<device, pull>>
    BY <1>5 DEF Delete, Acknowledge
  <2>2. PICK W \in SUBSET Entries : Removed(q, W)
    BY <1>5 DEF Delete
  <2>3. q \in Products
    BY <1>5, Types DEF SyncInv, Delete, Undone, Op
  <2> QED
    BY <1>1, <2>1, <2>2, <2>3, RemovedMoves DEF device
<1> QED
  BY <1>2, <1>3, <1>4, <1>5

-----------------------------------------------------------------------------
(* Operations.                                                             *)

\* A conflict is not undone by later writes.
LEMMA DoomedStays ==
  ASSUME TypeOK, Moves, NEW o \in Ops, ops[o] # None, ops[o].base <= rev, Doomed(o),
         ops'[o] = ops[o]
  PROVE  Doomed(o)'
<1> DEFINE op == ops[o]
           p == op.product
<1>1. op \in Op /\ p \in Products /\ op.base \in Nat /\ rev \in Nat /\ rev + 1 # None
  BY Types, NoneAssumption DEF Op
<1>2. /\ Row(p) \in Docs /\ Tomb(p) \in Docs
      /\ docs'[Row(p)] # None => docs'[Row(p)] = docs[Row(p)] \/ docs'[Row(p)] = rev + 1
      /\ docs[Tomb(p)] # None => docs'[Tomb(p)] = docs[Tomb(p)]
      /\ docs[Row(p)] # None /\ docs'[Row(p)] = None => docs'[Tomb(p)] # None
  BY <1>1, DocShape DEF Moves
<1>3. op.base # rev + 1
  BY <1>1
<1>4. Doomed(o)' <=> IF docs'[Row(p)] # None THEN docs'[Row(p)] # op.base
                     ELSE op.kind = "delete" \/ op.base # 0 \/ docs'[Tomb(p)] # None
  BY DEF Doomed, Exists, BaseHolds, FreshId
<1>5. IF docs[Row(p)] # None THEN docs[Row(p)] # op.base
      ELSE op.kind = "delete" \/ op.base # 0 \/ docs[Tomb(p)] # None
  BY DEF Doomed, Exists, BaseHolds, FreshId
<1> HIDE DEF op, p
<1> QED
  BY <1>2, <1>3, <1>4, <1>5

QueueTypes ==
  /\ ops \in [Ops -> Op \cup {None}]
  /\ receipts \subseteq Ops
  /\ verdicts \in [Ops -> SUBSET {"acknowledged", "conflict"}]
  /\ applied \in [Ops -> Nat]

\* What is said of one operation.
OpInv(o) ==
  /\ ops[o] # None => ops[o].base <= rev
  /\ o \in receipts => ops[o] # None
  /\ applied[o] = IF o \in receipts THEN 1 ELSE 0
  /\ "acknowledged" \in verdicts[o] => o \in receipts
  /\ "conflict" \in verdicts[o] => o \notin receipts /\ ops[o] # None /\ Doomed(o)

\* An operation to which nothing happens.
LEMMA OpKept ==
  ASSUME TypeOK, Moves \/ UNCHANGED <<rev, docs>>, NEW o \in Ops, OpInv(o),
         ops'[o] = ops[o], o \in receipts' <=> o \in receipts,
         verdicts'[o] = verdicts[o], applied'[o] = applied[o]
  PROVE  OpInv(o)'
<1>1. ops[o] # None => ops[o].base \in Nat /\ rev \in Nat
  BY Types DEF Op
<1>2. rev' = rev \/ rev' = rev + 1
  BY DEF Moves
<1>3. ops'[o] # None => ops'[o].base <= rev'
  BY <1>1, <1>2 DEF OpInv
<1>4. ASSUME ops[o] # None, Doomed(o) PROVE Doomed(o)'
  <2>1. CASE Moves
    BY <1>4, <2>1, DoomedStays DEF OpInv
  <2>2. CASE UNCHANGED <<rev, docs>>
    BY <1>4, <2>2 DEF Doomed, Exists, BaseHolds, FreshId
  <2> QED
    BY <2>1, <2>2
<1> QED
  BY <1>3, <1>4 DEF OpInv

\* The invariant of verdicts, per operation.
LEMMA VerdictInvIs == VerdictInv <=> \A o \in Ops : OpInv(o)
BY DEF VerdictInv, OpInv

\* An operation that changes its entry of the queue's tables leaves the others alone.
LEMMA Told ==
  ASSUME QueueTypes, NEW o \in Ops, NEW v \in {"acknowledged", "conflict"}, Tell(o, v)
  PROVE  /\ verdicts' \in [Ops -> SUBSET {"acknowledged", "conflict"}]
         /\ verdicts'[o] = verdicts[o] \/ verdicts'[o] = verdicts[o] \cup {v}
         /\ \A q \in Ops \ {o} : verdicts'[q] = verdicts[q]
         /\ losses' = losses \/ losses' = losses + 1
<1>1. CASE verdicts' = [verdicts EXCEPT ![o] = @ \cup {v}] /\ UNCHANGED losses
  BY <1>1 DEF QueueTypes
<1>2. CASE losses' = losses + 1 /\ UNCHANGED verdicts
  BY <1>2 DEF QueueTypes
<1> QED
  BY <1>1, <1>2 DEF Tell

\* An operation is applied.
LEMMA Acknowledged ==
  ASSUME SyncInv, VerdictInv, NEW o \in Ops, Put(o) \/ Delete(o)
  PROVE  VerdictInv' /\ QueueTypes'
<1>1. TypeOK /\ QueueTypes /\ Moves
  BY Writers DEF SyncInv, TypeOK, QueueTypes
<1>2. /\ o \notin receipts /\ ops[o] # None /\ ~Doomed(o)
      /\ receipts' = receipts \cup {o} /\ applied' = [applied EXCEPT ![o] = @ + 1]
      /\ ops' = ops /\ Tell(o, "acknowledged")
  <2>1. CASE Put(o)
    BY <2>1 DEF Put, Undone, Acknowledge, Doomed
  <2>2. CASE Delete(o)
    BY <2>2 DEF Delete, Undone, Acknowledge, Doomed
  <2> QED
    BY <2>1, <2>2
<1>3. /\ verdicts' \in [Ops -> SUBSET {"acknowledged", "conflict"}]
      /\ verdicts'[o] = verdicts[o] \/ verdicts'[o] = verdicts[o] \cup {"acknowledged"}
      /\ \A q \in Ops \ {o} : verdicts'[q] = verdicts[q]
  BY <1>1, <1>2, Told
<1>4. /\ applied' \in [Ops -> Nat] /\ applied'[o] = applied[o] + 1
      /\ \A q \in Ops \ {o} : applied'[q] = applied[q]
  BY <1>1, <1>2 DEF QueueTypes
<1>5. \A q \in Ops : OpInv(q)
  BY VerdictInvIs
<1>6. ASSUME NEW q \in Ops \ {o} PROVE OpInv(q)'
  BY <1>1, <1>2, <1>3, <1>4, <1>5, <1>6, OpKept
<1>7. OpInv(o)'
  <2>1. ops[o].base \in Nat /\ rev \in Nat /\ rev' = rev + 1 /\ ops[o].base <= rev
    BY <1>1, <1>2, <1>5, Types DEF Op, OpInv, Moves
  <2>2. ops'[o].base <= rev'
    BY <1>2, <2>1
  <2>3. applied[o] = 0 /\ "conflict" \notin verdicts[o]
    BY <1>2, <1>5 DEF OpInv
  <2> QED
    BY <1>2, <1>3, <1>4, <2>2, <2>3 DEF OpInv
<1>8. QueueTypes'
  BY <1>1, <1>2, <1>3, <1>4 DEF QueueTypes
<1> QED
  BY <1>6, <1>7, <1>8, VerdictInvIs DEF VerdictInv, OpInv

\* An operation is refused, or answered from its receipt.
LEMMA Answered ==
  ASSUME SyncInv, VerdictInv, NEW o \in Ops, Conflict(o) \/ Replay(o)
  PROVE  VerdictInv' /\ QueueTypes'
<1>1. TypeOK /\ QueueTypes
  BY DEF SyncInv, TypeOK, QueueTypes
<1>2. UNCHANGED <<rev, docs, ops, receipts, applied>>
  BY DEF Conflict, Replay, server
<1>3. PICK v \in {"acknowledged", "conflict"} :
        /\ Tell(o, v)
        /\ v = "acknowledged" => o \in receipts
        /\ v = "conflict" => o \notin receipts /\ ops[o] # None /\ Doomed(o)
  BY DEF Conflict, Replay, Undone, Doomed
<1>4. /\ verdicts' \in [Ops -> SUBSET {"acknowledged", "conflict"}]
      /\ verdicts'[o] = verdicts[o] \/ verdicts'[o] = verdicts[o] \cup {v}
      /\ \A q \in Ops \ {o} : verdicts'[q] = verdicts[q]
  BY <1>1, <1>3, Told
<1>5. \A q \in Ops : OpInv(q)
  BY VerdictInvIs
<1>6. ASSUME NEW q \in Ops \ {o} PROVE OpInv(q)'
  BY <1>1, <1>2, <1>4, <1>5, <1>6, OpKept
<1>7. OpInv(o)'
  <2>1. Doomed(o)' <=> Doomed(o)
    BY <1>2 DEF Doomed, Exists, BaseHolds, FreshId
  <2> QED
    BY <1>2, <1>3, <1>4, <1>5, <2>1 DEF OpInv
<1>8. QueueTypes'
  BY <1>1, <1>2, <1>4 DEF QueueTypes
<1> QED
  BY <1>6, <1>7, <1>8, VerdictInvIs DEF VerdictInv, OpInv

\* The device queues an operation.
LEMMA Queued ==
  ASSUME SyncInv, VerdictInv, NEW o \in Ops, Queue(o)
  PROVE  VerdictInv' /\ QueueTypes'
<1>1. TypeOK /\ QueueTypes /\ rev \in Nat /\ replica \in [Docs -> Version]
  BY DEF SyncInv, TypeOK, QueueTypes
<1>2. UNCHANGED <<rev, docs, receipts, verdicts, applied>> /\ ops[o] = None
  BY DEF Queue, server
<1>3. PICK p \in Products, kind \in {"put", "delete"} :
        ops' = [ops EXCEPT ![o] = [kind |-> kind, product |-> p,
                                   base |-> IF replica[Row(p)] = None THEN 0
                                            ELSE replica[Row(p)]]]
  BY DEF Queue
<1> DEFINE base == IF replica[Row(p)] = None THEN 0 ELSE replica[Row(p)]
<1>4. base \in Nat /\ base <= rev
  <2>1. Row(p) \in Docs
    BY DocShape
  <2> QED
    BY <1>1, <2>1 DEF Version, SyncInv, ReplicaInv
<1> DEFINE new == [kind |-> kind, product |-> p, base |-> base]
<1>5. new \in Op /\ new.base = base
  BY <1>4 DEF Op
<1>6. ops' = [ops EXCEPT ![o] = new]
  BY <1>3
<1> HIDE DEF base, new
<1>7. ops' \in [Ops -> Op \cup {None}] /\ ops'[o] = new /\ \A q \in Ops \ {o} : ops'[q] = ops[q]
  BY <1>1, <1>5, <1>6 DEF QueueTypes
<1>8. \A q \in Ops : OpInv(q)
  BY VerdictInvIs
<1>9. ASSUME NEW q \in Ops \ {o} PROVE OpInv(q)'
  BY <1>1, <1>2, <1>7, <1>8, <1>9, OpKept
<1>10. OpInv(o)'
  BY <1>2, <1>4, <1>5, <1>7, <1>8 DEF OpInv
<1>11. QueueTypes'
  BY <1>1, <1>2, <1>7 DEF QueueTypes
<1> QED
  BY <1>9, <1>10, <1>11, VerdictInvIs DEF VerdictInv, OpInv

-----------------------------------------------------------------------------
(* Pulling.                                                                *)

\* A page that is just opened holds nothing, and is as good as its token.
LEMMA Opened ==
  ASSUME SyncInv, NEW t \in Token, t.high <= rev,
         checkpoint # None => checkpoint.high <= t.high, Covered(t, replica),
         Open(t), UNCHANGED <<rev, docs, replica, checkpoint, cursor>>
  PROVE  /\ PageInv' /\ PullInv'
         /\ pull' \in Page /\ pull'.items = {}
<1> DEFINE R == {c \in Collections : t.done[c]}
<1>1. pull' = [token |-> t, items |-> {}, read |-> R]
  BY DEF Open
<1>2. pull'.token = t /\ pull'.items = {} /\ pull'.read = R
  BY <1>1
<1>3. pull' \in Page
  BY <1>1 DEF Page
<1>4. PageInv'
  BY <1>2 DEF PageInv
<1>5. Merged({}) = replica /\ Merged({})' = replica
  <2>1. replica \in [Docs -> Version]
    BY Types DEF SyncInv
  <2>2. \A d \in Docs : Merged({})[d] = replica[d]
    BY DEF Merged
  <2>3. \A d \in Docs : Merged({})'[d] = replica'[d]
    BY DEF Merged
  <2>4. Merged({}) = [d \in Docs |-> Merged({})[d]] /\ Merged({})' = [d \in Docs |-> Merged({})'[d]]
    BY DEF Merged
  <2> QED
    BY <2>1, <2>2, <2>3, <2>4
<1>6. TokenInv(t, replica)'
  BY DEF TokenInv, Covered, Ahead, After, Wanted, InScope
<1>7. Merged(pull.items)' = replica
  BY <1>2, <1>5 DEF Merged
<1>8. TokenInv(pull.token, Merged(pull.items))'
  BY <1>2, <1>6, <1>7 DEF TokenInv, Covered, Ahead, After, Wanted, InScope
<1>9. cursor # None => TokenInv(cursor, replica)'
  BY DEF SyncInv, PullInv, TokenInv, Covered, Ahead, After, Wanted, InScope
<1>10. PullInv'
  BY <1>8, <1>9 DEF SyncInv, PullInv
<1> QED
  BY <1>2, <1>3, <1>4, <1>10

\* A pull opens a window.
LEMMA Begun ==
  ASSUME SyncInv, BeginPull
  PROVE  /\ PageInv' /\ PullInv'
         /\ pull' \in Page /\ pull'.items = {}
<1> DEFINE t == [scope |-> Scope, high |-> rev, low |-> LowerBound,
                 at |-> [c \in Collections |-> None], done |-> [c \in Collections |-> FALSE]]
<1>1. /\ Open(t) /\ UNCHANGED <<rev, docs, replica, checkpoint, cursor>>
  BY DEF BeginPull, server, device
<1>2. /\ rev \in Nat /\ Scope \in Nat
      /\ checkpoint # None => checkpoint.high \in Nat /\ checkpoint.high <= rev
  BY Types DEF SyncInv, PullInv, Checkpoint
<1>3. LowerBound \in Version
  BY <1>2 DEF LowerBound, Version
<1>4. t \in Token
  BY <1>2, <1>3 DEF Token
<1>5. /\ t.high = rev /\ t.scope = Scope /\ t.low = LowerBound
      /\ \A c \in Collections : t.at[c] = None /\ ~t.done[c]
  OBVIOUS
<1> HIDE DEF t
<1>6. ASSUME NEW d \in Docs, t.low # None => docs[d] > t.low PROVE Ahead(t, d)
  BY <1>5, <1>6, DocShape DEF Ahead, After
<1>7. LowerBound # None => checkpoint # None /\ checkpoint.scope = Scope /\ LowerBound = checkpoint.high
  BY DEF LowerBound
<1>8. ASSUME NEW d \in Docs, Wanted(t, d), ~Ahead(t, d)
      PROVE  checkpoint # None /\ checkpoint.scope = Scope /\ docs[d] <= checkpoint.high
  <2>1. t.low # None /\ ~(docs[d] > t.low)
    BY <1>6, <1>8
  <2>2. docs[d] \in Nat
    <3>1. docs[d] \in Version /\ docs[d] # None
      BY <1>8, Types DEF SyncInv, Wanted
    <3> QED
      BY <3>1 DEF Version
  <2> QED
    BY <1>2, <1>5, <1>7, <2>1, <2>2
<1>9. Covered(t, replica)
  <2>1. ASSUME NEW d \in Docs, Wanted(t, d), ~Ahead(t, d) PROVE replica[d] = docs[d]
    BY <1>5, <1>8, <2>1 DEF SyncInv, NothingMissed, Wanted
  <2>2. ASSUME NEW p \in Products, Wanted(t, Tomb(p)), ~Ahead(t, Tomb(p))
        PROVE  replica[Row(p)] = None
    <3>1. Tomb(p) \in Docs /\ Row(p) \in Docs /\ Row(p)[1] = "products" /\ Row(p)[2] = p
      BY DocShape DEF Row
    <3>2. checkpoint # None /\ docs[Tomb(p)] # None /\ docs[Tomb(p)] <= checkpoint.high
      BY <1>8, <2>2, <3>1 DEF Wanted
    <3> QED
      BY <3>1, <3>2 DEF SyncInv, NothingMissed
  <2> QED
    BY <2>1, <2>2 DEF Covered
<1> QED
  BY <1>1, <1>2, <1>4, <1>5, <1>9, Opened

\* A pull goes on where its token stands.
LEMMA Continued ==
  ASSUME SyncInv, ContinuePull
  PROVE  /\ PageInv' /\ PullInv'
         /\ pull' \in Page /\ pull'.items = {}
<1>1. cursor # None /\ Open(cursor) /\ UNCHANGED <<rev, docs, replica, checkpoint, cursor>>
  BY DEF ContinuePull, server, device
<1>2. cursor \in Token /\ TokenInv(cursor, replica)
  BY <1>1, Types DEF SyncInv, PullInv
<1> QED
  BY <1>1, <1>2, Opened DEF TokenInv

\* What reading a collection adds to the page, and where it leaves the token.
LEMMA ReadDoes ==
  ASSUME SyncInv, NEW c \in Collections, Read(c)
  PROVE  /\ UNCHANGED <<rev, docs, replica, checkpoint, cursor>>
         /\ pull # None /\ c \notin pull.read
         /\ pull' \in Page /\ pull'.token \in Token
         /\ pull'.items = pull.items \cup
              {[doc |-> <<c, i>>, version |-> docs[<<c, i>>]] : i \in PageOf(pull.token, c)}
         /\ pull'.read = pull.read \cup {c}
         /\ pull'.token.scope = pull.token.scope /\ pull'.token.high = pull.token.high
         /\ pull'.token.low = pull.token.low
         /\ \A k \in Collections \ {c} :
              pull'.token.done[k] = pull.token.done[k] /\ pull'.token.at[k] = pull.token.at[k]
         /\ pull'.token.done[c] <=> Matching(pull.token, c) = PageOf(pull.token, c)
         /\ PageOf(pull.token, c) # {} =>
              \E last \in PageOf(pull.token, c) :
                /\ \A j \in PageOf(pull.token, c) : last = j \/ Precedes(pull.token, c, j, last)
                /\ pull'.token.at[c] = [id |-> last, revision |-> docs[<<c, last>>]]
<1> DEFINE t == pull.token
           page == PageOf(t, c)
           done == (Matching(t, c) = page)
           last == CHOOSE i \in page : \A j \in page : i = j \/ Precedes(t, c, j, i)
           place == IF page = {} THEN t.at[c] ELSE [id |-> last, revision |-> docs[<<c, last>>]]
           new == {[doc |-> <<c, i>>, version |-> docs[<<c, i>>]] : i \in page}
           moved == [t EXCEPT !.done = [t.done EXCEPT ![c] = done],
                              !.at = [t.at EXCEPT ![c] = place]]
<1>1. /\ UNCHANGED <<rev, docs, replica, checkpoint, cursor>>
      /\ pull # None /\ c \notin pull.read
  BY DEF Read, server, device
<1>2. pull' = [pull EXCEPT !.token.done[c] = done, !.token.at[c] = place,
                           !.items = @ \cup new, !.read = @ \cup {c}]
  BY DEF Read
<1>3. /\ pull \in Page /\ t \in Token /\ docs \in [Docs -> Version]
      /\ pull.items \in SUBSET [doc : Docs, version : Nat] /\ pull.read \subseteq Collections
  BY <1>1, Types DEF SyncInv, Page
<1> HIDE DEF t, done, place, new, page
<1>4. pull' = [token |-> [t EXCEPT !.done = [t.done EXCEPT ![c] = done],
                                   !.at = [t.at EXCEPT ![c] = place]],
               items |-> pull.items \cup new, read |-> pull.read \cup {c}]
  BY <1>2, <1>3 DEF Page, Token, t
<1>5. /\ Matching(t, c) \subseteq Nat /\ page \subseteq Matching(t, c) /\ page \subseteq Ids(c)
      /\ \A i \in page : docs[<<c, i>>] \in Nat /\ <<c, i>> \in Docs
      /\ page # {} => last \in page /\ \A j \in page : last = j \/ Precedes(t, c, j, last)
  BY <1>3, Ranks, PageTakes, Bounds DEF page
<1> HIDE DEF last
<1>6. new \subseteq [doc : Docs, version : Nat]
  <2> SUFFICES ASSUME NEW x \in new PROVE x \in [doc : Docs, version : Nat]
    OBVIOUS
  <2>1. PICK i \in page : x = [doc |-> <<c, i>>, version |-> docs[<<c, i>>]]
    BY DEF new
  <2> QED
    BY <1>5, <2>1
<1>7. place \in Position \cup {None} /\ done \in BOOLEAN
  BY <1>3, <1>5 DEF place, done, Position, Token
<1>8. /\ [t.done EXCEPT ![c] = done] \in [Collections -> BOOLEAN]
      /\ [t.at EXCEPT ![c] = place] \in [Collections -> Position \cup {None}]
      /\ [t.done EXCEPT ![c] = done][c] = done /\ [t.at EXCEPT ![c] = place][c] = place
      /\ \A k \in Collections \ {c} : /\ [t.done EXCEPT ![c] = done][k] = t.done[k]
                                     /\ [t.at EXCEPT ![c] = place][k] = t.at[k]
  BY <1>3, <1>7 DEF Token
<1>9. /\ moved.scope = t.scope /\ moved.high = t.high /\ moved.low = t.low
      /\ moved.done = [t.done EXCEPT ![c] = done] /\ moved.at = [t.at EXCEPT ![c] = place]
  BY <1>3 DEF Token
<1>10. moved \in Token
  BY <1>3, <1>8, Zenon DEF Token
<1> HIDE DEF moved
<1>11. pull' = [token |-> moved, items |-> pull.items \cup new, read |-> pull.read \cup {c}]
  BY <1>4 DEF moved
<1>12. pull' \in Page
  BY <1>3, <1>6, <1>10, <1>11 DEF Page
<1>13. /\ pull'.token = moved /\ pull'.items = pull.items \cup new
       /\ pull'.read = pull.read \cup {c}
  BY <1>11
<1>14. /\ moved.scope = t.scope /\ moved.high = t.high /\ moved.low = t.low
       /\ moved.done[c] = done /\ moved.at[c] = place
       /\ \A k \in Collections \ {c} : moved.done[k] = t.done[k] /\ moved.at[k] = t.at[k]
  BY <1>8, <1>9
<1>15. page # {} =>
         \E l \in page :
           /\ \A j \in page : l = j \/ Precedes(t, c, j, l)
           /\ pull'.token.at[c] = [id |-> l, revision |-> docs[<<c, l>>]]
  BY <1>5, <1>13, <1>14 DEF place
<1> QED
  BY <1>1, <1>10, <1>12, <1>13, <1>14, <1>15 DEF done, new, page, t

\* The documents read now are good items, and none was on the page before.
LEMMA ReadItems ==
  ASSUME SyncInv, NEW c \in Collections, Read(c)
  PROVE  /\ PageInv'
         /\ \A i, j \in pull'.items : i.doc = j.doc => i = j
         /\ \A i \in pull'.items : ItemInv(pull'.token, i)
<1> PICK t : t = pull.token
  OBVIOUS
<1> DEFINE page == PageOf(t, c)
<1>1. /\ UNCHANGED <<rev, docs, replica, checkpoint, cursor>>
      /\ pull # None /\ c \notin pull.read
      /\ pull'.items = pull.items \cup
           {[doc |-> <<c, i>>, version |-> docs[<<c, i>>]] : i \in page}
      /\ pull'.read = pull.read \cup {c}
      /\ pull'.token.high = t.high
      /\ \A k \in Collections \ {c} : pull'.token.done[k] = t.done[k]
  BY ReadDoes
<1>2. /\ docs \in [Docs -> Version] /\ replica \in [Docs -> Version] /\ rev \in Nat
      /\ t \in Token /\ t.high \in Nat /\ t.high <= rev
  BY <1>1, Types DEF SyncInv, Token, PullInv, TokenInv
<1>3. \A i \in page : /\ docs[<<c, i>>] \in Nat /\ docs[<<c, i>>] <= t.high /\ <<c, i>> \in Docs
  <2>1. page \subseteq Matching(t, c) /\ Matching(t, c) \subseteq Ids(c)
    BY <1>2, Ranks, PageTakes
  <2>2. \A i \in Matching(t, c) :
          docs[<<c, i>>] \in Nat /\ docs[<<c, i>>] <= t.high /\ <<c, i>> \in Docs
    <3>1. \A i \in Matching(t, c) : docs[<<c, i>>] \in Nat
      BY <1>2, Ranks
    <3>2. \A i \in Matching(t, c) : docs[<<c, i>>] <= t.high
      BY DEF Matching
    <3> QED
      BY <2>1, <3>1, <3>2, Bounds
  <2> QED
    BY <2>1, <2>2
<1>4. /\ \A i \in pull.items : ItemInv(t, i) /\ i.doc[1] \in pull.read
      /\ \A i, j \in pull.items : i.doc = j.doc => i = j
      /\ \A k \in Collections : t.done[k] => k \in pull.read
  BY <1>1 DEF SyncInv, PageInv
<1> HIDE DEF page
<1>5. ASSUME NEW i \in page, NEW x, x = [doc |-> <<c, i>>, version |-> docs[<<c, i>>]]
      PROVE  ItemInv(t, x) /\ x.doc[1] = c
  <2>1. x.doc = <<c, i>> /\ x.doc \in Docs /\ x.version = docs[x.doc] /\ x.version \in Nat
    BY <1>3, <1>5
  <2>2. x.version <= t.high /\ x.version <= rev /\ x.version # None
    BY <1>2, <1>3, <2>1, NoneAssumption
  <2>3. replica[x.doc] # None => replica[x.doc] <= x.version
    BY <2>1, <2>2 DEF SyncInv, ReplicaInv
  <2>4. ASSUME NEW p \in Products, x.doc = Row(p)
        PROVE  docs[Tomb(p)] = None /\ replica[Tomb(p)] = None
    BY <2>1, <2>2, <2>4 DEF SyncInv, DocsInv, ReplicaInv
  <2>5. docs[x.doc] # None => x.version <= docs[x.doc]
    BY <2>1
  <2> QED
    BY <2>1, <2>2, <2>3, <2>4, <2>5 DEF ItemInv
<1>a. ASSUME NEW x \in pull'.items
      PROVE  \/ x \in pull.items /\ x.doc[1] # c
             \/ /\ x.doc[1] = c
                /\ \E k \in page : x = [doc |-> <<c, k>>, version |-> docs[<<c, k>>]]
  <2>1. CASE x \in pull.items
    BY <1>1, <1>4, <2>1
  <2>2. CASE x \notin pull.items
    <3>1. PICK k \in page : x = [doc |-> <<c, k>>, version |-> docs[<<c, k>>]]
      BY <1>1, <2>2
    <3> QED
      BY <1>5, <3>1
  <2> QED
    BY <2>1, <2>2
<1>6. ASSUME NEW x \in pull'.items PROVE ItemInv(t, x) /\ x.doc[1] \in pull'.read
  <2>1. CASE x \in pull.items
    BY <1>1, <1>4, <2>1
  <2>2. CASE x.doc[1] = c /\ \E k \in page : x = [doc |-> <<c, k>>, version |-> docs[<<c, k>>]]
    BY <1>1, <1>5, <2>2
  <2> QED
    BY <1>a, <2>1, <2>2
<1>7. ASSUME NEW i \in pull'.items, NEW j \in pull'.items, i.doc = j.doc PROVE i = j
  <2>1. CASE i.doc[1] = c
    <3>1. PICK k \in page : i = [doc |-> <<c, k>>, version |-> docs[<<c, k>>]]
      BY <1>a, <2>1
    <3>2. PICK l \in page : j = [doc |-> <<c, l>>, version |-> docs[<<c, l>>]]
      BY <1>a, <1>7, <2>1
    <3> QED
      BY <1>7, <3>1, <3>2
  <2>2. CASE i.doc[1] # c
    <3>1. i \in pull.items /\ j \in pull.items
      BY <1>a, <1>7, <2>2
    <3> QED
      BY <1>4, <1>7, <3>1
  <2> QED
    BY <2>1, <2>2
<1>8. \A i \in pull'.items : ItemInv(pull'.token, i)
  BY <1>1, <1>6 DEF ItemInv
<1>9. \A k \in Collections : pull'.token.done[k] => k \in pull'.read
  BY <1>1, <1>4
<1>10. \A i \in pull'.items : ItemInv(pull.token, i)'
  BY <1>1, <1>8 DEF ItemInv
<1> QED
  BY <1>6, <1>7, <1>8, <1>9, <1>10 DEF PageInv

\* A document the token had still to come to is on the page, or the token comes to it later:
\* nothing is stepped over.
LEMMA ReadPasses ==
  ASSUME SyncInv, NEW c \in Collections, Read(c), NEW d \in Docs,
         Wanted(pull.token, d), Ahead(pull.token, d)
  PROVE  \/ d[1] = c /\ d[2] \in PageOf(pull.token, c)
         \/ Ahead(pull'.token, d)
<1> PICK t, u : t = pull.token /\ u = pull'.token
  OBVIOUS
<1> PICK i : i = d[2]
  OBVIOUS
<1>1. /\ u.low = t.low
      /\ \A k \in Collections \ {c} : u.done[k] = t.done[k] /\ u.at[k] = t.at[k]
      /\ u.done[c] <=> Matching(t, c) = PageOf(t, c)
      /\ PageOf(t, c) # {} =>
           \E last \in PageOf(t, c) :
             /\ \A j \in PageOf(t, c) : last = j \/ Precedes(t, c, j, last)
             /\ u.at[c] = [id |-> last, revision |-> docs[<<c, last>>]]
  BY ReadDoes
<1>2. docs \in [Docs -> Version]
  BY Types DEF SyncInv
<1>3. d[1] \in Collections /\ i \in Ids(d[1]) /\ d = <<d[1], i>>
  BY DocShape
<1>4. Ahead(t, d) /\ Wanted(t, d)
  OBVIOUS
<1>5. CASE d[1] # c
  <2>1. After(t, d[1], i) => After(u, d[1], i)
    BY <1>1, <1>3, <1>5 DEF After
  <2> QED
    BY <1>1, <1>3, <1>4, <1>5, <2>1 DEF Ahead
<1>6. CASE d[1] = c /\ i \notin PageOf(t, c)
  <2>1. d = <<c, i>> /\ i \in Matching(t, c)
    BY <1>3, <1>4, <1>6 DEF Matching, Ahead, Wanted
  <2>2. ~u.done[c]
    BY <1>1, <1>6, <2>1
  <2>3. PageOf(t, c) # {} /\ \A j \in PageOf(t, c) : j \in Matching(t, c) /\ Precedes(t, c, j, i)
    BY <1>2, <1>6, <2>1, PageTakes
  <2>4. PICK last \in PageOf(t, c) : u.at[c] = [id |-> last, revision |-> docs[<<c, last>>]]
    BY <1>1, <2>3
  <2>5. Precedes(t, c, last, i) /\ last \in Nat /\ i \in Nat
        /\ docs[<<c, last>>] \in Nat /\ docs[<<c, i>>] \in Nat
    <3>1. last \in Matching(t, c)
      BY <2>3
    <3>2. Matching(t, c) \subseteq Ids(c) /\ \A j \in Matching(t, c) : docs[<<c, j>>] \in Nat
      BY <1>2, Ranks
    <3> QED
      BY <2>1, <2>3, <3>1, <3>2, Bounds
  <2>6. u.at[c].id = last /\ u.at[c].revision = docs[<<c, last>>]
    BY <2>4
  <2>7. After(u, c, i)
    BY <1>1, <2>5, <2>6 DEF After, Precedes
  <2> QED
    BY <1>1, <1>4, <1>6, <2>1, <2>2, <2>7 DEF Ahead
<1> QED
  BY <1>5, <1>6

\* Reading a page loses nothing the window wants.
LEMMA ReadCovers ==
  ASSUME SyncInv, NEW c \in Collections, Read(c)
  PROVE  PullInv'
<1> PICK t, u, I, J : t = pull.token /\ u = pull'.token /\ I = pull.items /\ J = pull'.items
  OBVIOUS
<1> DEFINE page == PageOf(t, c)
<1>1. /\ UNCHANGED <<rev, docs, replica, checkpoint, cursor>>
      /\ pull # None /\ c \notin pull.read
      /\ J = I \cup {[doc |-> <<c, i>>, version |-> docs[<<c, i>>]] : i \in page}
      /\ u.scope = t.scope /\ u.high = t.high
  BY ReadDoes
<1>2. /\ docs \in [Docs -> Version] /\ t.high \in Nat
      /\ TokenInv(t, Merged(I))
  BY <1>1, Types DEF SyncInv, PullInv, Token
<1>3. \A i \in page : docs[<<c, i>>] # None
  BY DEF PageOf, Matching
<1>4. /\ \A i, j \in I : i.doc = j.doc => i = j
      /\ \A i, j \in J : i.doc = j.doc => i = j
      /\ \A x \in J : ItemInv(t, x)
  <2>1. \A x \in J : ItemInv(u, x)
    BY ReadItems
  <2>2. \A x \in J : ItemInv(t, x)
    BY <1>1, <2>1 DEF ItemInv
  <2>3. \A i, j \in J : i.doc = j.doc => i = j
    BY ReadItems
  <2> QED
    BY <1>1, <2>2, <2>3
<1> HIDE DEF page
<1>5. I \subseteq J
  BY <1>1
<1>6. ASSUME NEW x \in J \ I PROVE docs[x.doc] # None /\ x.version = docs[x.doc]
  <2>1. PICK i \in page : x = [doc |-> <<c, i>>, version |-> docs[<<c, i>>]]
    BY <1>1
  <2> QED
    BY <1>3, <2>1
<1>7. ASSUME NEW i \in page
      PROVE  \E x \in J : x.doc = <<c, i>> /\ x.version = docs[<<c, i>>]
  <2> DEFINE x == [doc |-> <<c, i>>, version |-> docs[<<c, i>>]]
  <2>1. x \in J
    BY <1>1
  <2> QED
    BY <2>1
<1>8. ASSUME NEW d \in Docs, docs[d] # None, Merged(I)[d] = docs[d]
      PROVE  Merged(J)[d] = docs[d]
  <2>1. CASE \E x \in J : x.doc = d
    <3>1. PICK x \in J : x.doc = d
      BY <2>1
    <3>2. Merged(J)[d] = x.version
      BY <1>4, <3>1, MergedIs
    <3>3. CASE x \in I
      BY <1>4, <1>8, <3>1, <3>2, <3>3, MergedIs
    <3>4. CASE x \notin I
      BY <1>6, <3>1, <3>2, <3>4
    <3> QED
      BY <3>3, <3>4
  <2>2. CASE \A x \in J : x.doc # d
    <3>1. \A x \in I : x.doc # d
      BY <1>5, <2>2
    <3>2. Merged(I)[d] = IF d[1] = "products" /\ \E i \in I : i.doc = Tomb(d[2])
                         THEN None ELSE replica[d]
      BY <1>4, <3>1, MergedIs
    <3>3. Merged(J)[d] = IF d[1] = "products" /\ \E i \in J : i.doc = Tomb(d[2])
                         THEN None ELSE replica[d]
      BY <1>4, <2>2, MergedIs
    <3>4. ASSUME d[1] = "products", NEW x \in J \ I, x.doc = Tomb(d[2]) PROVE FALSE
      <4>1. d[2] \in Products /\ d = Row(d[2]) /\ docs[Tomb(d[2])] # None
        BY <1>6, <3>4, DocShape
      <4> QED
        BY <1>8, <4>1 DEF SyncInv, DocsInv
    <3> QED
      BY <1>8, <3>2, <3>3, <3>4
  <2> QED
    BY <2>1, <2>2
<1>9. ASSUME NEW p \in Products, docs[Tomb(p)] # None, docs[Tomb(p)] <= t.high
      PROVE  \A x \in J : x.doc # Row(p)
  <2>1. docs[Tomb(p)] \in Nat
    BY <1>2, <1>9, DocShape DEF Version
  <2> QED
    BY <1>2, <1>4, <1>9, <2>1 DEF ItemInv
<1>10. ASSUME NEW p \in Products, docs[Tomb(p)] # None, docs[Tomb(p)] <= t.high,
              Merged(I)[Row(p)] = None \/ \E x \in J : x.doc = Tomb(p)
       PROVE  Merged(J)[Row(p)] = None
  <2>1. Row(p) \in Docs /\ Row(p)[1] = "products" /\ Row(p)[2] = p
    BY DocShape DEF Row
  <2>2. (\A x \in J : x.doc # Row(p)) /\ (\A x \in I : x.doc # Row(p))
    BY <1>5, <1>9, <1>10
  <2>3. Merged(I)[Row(p)] = IF \E i \in I : i.doc = Tomb(p) THEN None ELSE replica[Row(p)]
    BY <1>4, <2>1, <2>2, MergedIs
  <2>4. Merged(J)[Row(p)] = IF \E i \in J : i.doc = Tomb(p) THEN None ELSE replica[Row(p)]
    BY <1>4, <2>1, <2>2, MergedIs
  <2> QED
    BY <1>5, <1>10, <2>3, <2>4
<1>11. ASSUME NEW d \in Docs, Wanted(t, d), Ahead(t, d)
       PROVE  (\E x \in J : x.doc = d /\ x.version = docs[d]) \/ Ahead(u, d)
  <2>1. (d[1] = c /\ d[2] \in page) \/ Ahead(u, d)
    BY <1>11, ReadPasses DEF page
  <2>2. d = <<d[1], d[2]>>
    BY DocShape
  <2> QED
    BY <1>7, <2>1, <2>2
<1>12. \A d \in Docs : Wanted(u, d) <=> Wanted(t, d)
  BY <1>1 DEF Wanted
<1>13. Covered(t, Merged(I))
  BY <1>2 DEF TokenInv
<1>14. Covered(u, Merged(J))
  <2>1. ASSUME NEW d \in Docs, Wanted(u, d) PROVE Merged(J)[d] = docs[d] \/ Ahead(u, d)
    <3>1. Wanted(t, d) /\ docs[d] # None
      BY <1>12, <2>1 DEF Wanted
    <3>2. CASE Merged(I)[d] = docs[d]
      BY <1>8, <3>1, <3>2
    <3>3. CASE Ahead(t, d)
      BY <1>4, <1>11, <3>1, <3>3, MergedIs
    <3> QED
      BY <1>13, <3>1, <3>2, <3>3 DEF Covered
  <2>2. ASSUME NEW p \in Products, Wanted(u, Tomb(p))
        PROVE  Merged(J)[Row(p)] = None \/ Ahead(u, Tomb(p))
    <3>1. /\ Tomb(p) \in Docs /\ Wanted(t, Tomb(p))
          /\ docs[Tomb(p)] # None /\ docs[Tomb(p)] <= t.high
      BY <1>12, <2>2, DocShape DEF Wanted
    <3>2. Merged(I)[Row(p)] = None \/ Ahead(t, Tomb(p))
      BY <1>13, <3>1 DEF Covered
    <3> QED
      BY <1>10, <1>11, <3>1, <3>2
  <2> QED
    BY <2>1, <2>2 DEF Covered
<1>15. TokenInv(u, Merged(J))
  BY <1>1, <1>2, <1>14 DEF TokenInv
<1>16. PICK copy : copy = Merged(J)
  OBVIOUS
<1>17. TokenInv(u, copy)'
  BY <1>1, <1>15, <1>16 DEF TokenInv, Covered, Ahead, After, Wanted, InScope
<1>18. Merged(pull.items)' = copy
  BY <1>1, <1>16 DEF Merged
<1>19. TokenInv(pull.token, Merged(pull.items))'
  BY <1>17, <1>18 DEF TokenInv, Covered, Ahead, After, Wanted, InScope
<1>20. cursor # None => TokenInv(cursor, replica)'
  BY <1>1 DEF SyncInv, PullInv, TokenInv, Covered, Ahead, After, Wanted, InScope
<1> QED
  BY <1>1, <1>19, <1>20 DEF SyncInv, PullInv

\* A page has at most PageSize documents of each collection.
PageFits == pull # None =>
  /\ pull \in Page
  /\ \A c \in Collections : Cardinality({i \in pull.items : i.doc[1] = c}) <= PageSize

\* Reading a page takes no more than it may.
LEMMA ReadFits ==
  ASSUME SyncInv, NEW c \in Collections, Read(c)
  PROVE  PageFits'
<1> DEFINE page == PageOf(pull.token, c)
           doc(i) == [doc |-> <<c, i>>, version |-> docs[<<c, i>>]]
           new == {doc(i) : i \in page}
<1>1. /\ pull # None /\ c \notin pull.read /\ pull' \in Page
      /\ pull'.items = pull.items \cup new
  BY ReadDoes
<1>2. /\ \A i \in pull.items : i.doc[1] \in pull.read
      /\ \A k \in Collections : Cardinality({i \in pull.items : i.doc[1] = k}) <= PageSize
  BY <1>1 DEF SyncInv, PageInv, TypeOK
<1>3. IsFiniteSet(page) /\ Cardinality(page) <= PageSize
  <2>1. docs \in [Docs -> Version]
    BY Types DEF SyncInv
  <2>2. page \in SUBSET Matching(pull.token, c) /\ IsFiniteSet(Matching(pull.token, c))
    BY <2>1, Ranks, PageTakes
  <2>3. IsFiniteSet(page)
    BY <2>2, FS_Subset
  <2> QED
    BY <2>1, <2>3, PageTakes
<1> HIDE DEF page
<1>4. ASSUME NEW x \in new PROVE x.doc[1] = c
  <2>1. PICK i \in page : x = doc(i)
    OBVIOUS
  <2> QED
    BY <2>1
<1>5. Cardinality(new) <= PageSize
  <2> DEFINE f == [i \in page |-> doc(i)]
  <2>1. f \in Surjection(page, new)
    BY DEF Surjection
  <2>2. Cardinality(new) <= Cardinality(page) /\ IsFiniteSet(new)
    BY <1>3, <2>1, FS_Surjection, Zenon
  <2>3. Cardinality(new) \in Nat /\ Cardinality(page) \in Nat
    BY <1>3, <2>2, FS_CardinalityType
  <2> QED
    BY <1>3, <2>2, <2>3, Bounds
<1> HIDE DEF new
<1>6. ASSUME NEW k \in Collections
      PROVE  Cardinality({i \in pull'.items : i.doc[1] = k}) <= PageSize
  <2>1. CASE k = c
    <3>1. {i \in pull'.items : i.doc[1] = k} = new
      BY <1>1, <1>2, <1>4, <2>1
    <3> QED
      BY <1>5, <3>1
  <2>2. CASE k # c
    <3>1. {i \in pull'.items : i.doc[1] = k} = {i \in pull.items : i.doc[1] = k}
      BY <1>1, <1>4, <2>2
    <3> QED
      BY <1>2, <3>1
  <2> QED
    BY <2>1, <2>2
<1> QED
  BY <1>1, <1>6 DEF PageFits

\* A page that has read nothing is not too large.
LEMMA OpenedFits ==
  ASSUME BeginPull \/ ContinuePull, SyncInv
  PROVE  PageFits'
<1>1. pull' \in Page /\ pull'.items = {}
  BY Begun, Continued
<1>2. \A c \in Collections : {i \in pull'.items : i.doc[1] = c} = {}
  BY <1>1
<1>3. Cardinality({}) = 0
  BY FS_EmptySet
<1> QED
  BY <1>1, <1>2, <1>3, Bounds DEF PageFits

\* The reply's merge into the copy: never back, and what was complete stays complete.
LEMMA DeliverMerges ==
  ASSUME SyncInv, Deliver
  PROVE  /\ replica' \in [Docs -> Version] /\ ReplicaInv'
         /\ \A d \in Docs :
              /\ replica[d] # None /\ replica'[d] # None => replica'[d] >= replica[d]
              /\ d[1] = "products" /\ replica[Tomb(d[2])] # None => replica'[d] = None
<1> PICK t, I : t = pull.token /\ I = pull.items
  OBVIOUS
<1>1. /\ pull # None /\ replica' = Merged(I) /\ UNCHANGED <<rev, docs>>
  BY DEF Deliver, server
<1>2. /\ docs \in [Docs -> Version] /\ replica \in [Docs -> Version] /\ rev \in Nat
      /\ t.high \in Nat
      /\ \A x \in I : x.doc \in Docs /\ x.version \in Nat /\ x.version # None
  BY <1>1, Types, NoneAssumption DEF SyncInv, Token
<1>3. /\ \A i, j \in I : i.doc = j.doc => i = j
      /\ \A x \in I : ItemInv(t, x)
  BY <1>1 DEF SyncInv, PageInv
<1>4. ASSUME NEW d \in Docs
      PROVE  \/ \E x \in I : x.doc = d /\ replica'[d] = x.version
             \/ /\ \A x \in I : x.doc # d
                /\ replica'[d] = IF d[1] = "products" /\ \E i \in I : i.doc = Tomb(d[2])
                                 THEN None ELSE replica[d]
  BY <1>1, <1>3, MergedIs
<1>5. replica' \in [Docs -> Version]
  <2>1. replica' = [d \in Docs |-> replica'[d]]
    BY <1>1 DEF Merged
  <2>2. \A d \in Docs : replica'[d] \in Version
    BY <1>2, <1>4 DEF Version
  <2> QED
    BY <2>1, <2>2
<1>6. \A d \in Docs : replica'[d] # None =>
        replica'[d] <= rev /\ (docs[d] # None => replica'[d] <= docs[d])
  <2> SUFFICES ASSUME NEW d \in Docs, replica'[d] # None
               PROVE  replica'[d] <= rev /\ (docs[d] # None => replica'[d] <= docs[d])
    OBVIOUS
  <2>1. CASE \E x \in I : x.doc = d /\ replica'[d] = x.version
    BY <1>3, <2>1 DEF ItemInv
  <2>2. CASE replica'[d] = replica[d]
    BY <2>2 DEF SyncInv, ReplicaInv
  <2> QED
    BY <1>4, <2>1, <2>2
<1>7. ASSUME NEW p \in Products
      PROVE  /\ replica'[Tomb(p)] # None => docs[Tomb(p)] # None /\ replica'[Row(p)] = None
             /\ replica[Tomb(p)] # None => replica'[Row(p)] = None
  <2>1. /\ Row(p) \in Docs /\ Row(p)[1] = "products" /\ Row(p)[2] = p
        /\ Tomb(p) \in Docs /\ Tomb(p)[1] # "products"
    BY DocShape DEF Row, Tomb
  <2>2. ASSUME NEW x \in I, x.doc = Tomb(p)
        PROVE  docs[Tomb(p)] # None /\ replica'[Row(p)] = None
    <3>1. docs[Tomb(p)] = x.version /\ x.version <= t.high /\ x.version \in Nat /\ x.version # None
      BY <1>2, <1>3, <2>2 DEF ItemInv
    <3>2. ASSUME NEW y \in I, y.doc = Row(p) PROVE FALSE
      <4>1. docs[Tomb(p)] > t.high
        BY <1>3, <3>1, <3>2 DEF ItemInv
      <4> QED
        BY <1>2, <3>1, <4>1
    <3> QED
      BY <1>4, <2>1, <2>2, <3>1, <3>2
  <2>3. ASSUME replica[Tomb(p)] # None
        PROVE  docs[Tomb(p)] # None /\ replica'[Row(p)] = None
    <3>1. docs[Tomb(p)] # None /\ replica[Row(p)] = None
      BY <2>3 DEF SyncInv, ReplicaInv
    <3>2. \A x \in I : x.doc # Row(p)
      BY <1>3, <2>3 DEF ItemInv
    <3> QED
      BY <1>4, <2>1, <3>1, <3>2
  <2> QED
    BY <1>4, <2>1, <2>2, <2>3
<1>8. ASSUME NEW d \in Docs, replica[d] # None, replica'[d] # None
      PROVE  replica'[d] >= replica[d]
  <2>1. replica[d] \in Nat
    BY <1>2, <1>8 DEF Version
  <2>2. CASE \E x \in I : x.doc = d /\ replica'[d] = x.version
    BY <1>2, <1>3, <1>8, <2>1, <2>2 DEF ItemInv
  <2>3. CASE replica'[d] = replica[d]
    BY <2>1, <2>3
  <2> QED
    BY <1>4, <1>8, <2>2, <2>3
<1>9. ReplicaInv'
  BY <1>1, <1>6, <1>7 DEF ReplicaInv
<1> QED
  BY <1>5, <1>7, <1>8, <1>9, DocShape

\* The checkpoint that comes with the last page is complete, and the one kept with any other
\* page stays so.
LEMMA DeliverCompletes ==
  ASSUME SyncInv, Deliver
  PROVE  /\ NothingMissed' /\ PullInv'
         /\ checkpoint' \in Checkpoint \cup {None} /\ cursor' \in Token \cup {None}
<1> PICK t, I, copy : t = pull.token /\ I = pull.items /\ copy = Merged(I)
  OBVIOUS
<1>1. /\ pull # None /\ replica' = copy /\ UNCHANGED <<rev, docs>> /\ pull' = None
      /\ TokenInv(t, copy) /\ t \in Token
  BY Types DEF Deliver, server, SyncInv, PullInv
<1>2. /\ docs \in [Docs -> Version] /\ replica \in [Docs -> Version] /\ rev \in Nat
      /\ t.high \in Nat /\ t.scope \in Nat
      /\ checkpoint # None => checkpoint \in Checkpoint /\ checkpoint.high \in Nat
      /\ \A x \in I : x.doc \in Docs /\ x.version \in Nat /\ x.version # None
  BY <1>1, Types, NoneAssumption DEF SyncInv, Token, Checkpoint
<1>3. /\ \A i, j \in I : i.doc = j.doc => i = j
      /\ \A x \in I : ItemInv(t, x)
  BY <1>1 DEF SyncInv, PageInv
<1>4. TokenInv(t, replica)' <=> (/\ t.high <= rev
                                 /\ checkpoint' # None => checkpoint'.high <= t.high
                                 /\ Covered(t, copy))
  BY <1>1 DEF TokenInv, Covered, Ahead, After, Wanted, InScope
<1>5. CASE \A c \in Collections : t.done[c]
  <2>1. cursor' = None /\ checkpoint' = [scope |-> t.scope, high |-> t.high]
    BY <1>5 DEF Deliver
  <2>2. checkpoint'.high = t.high /\ checkpoint'.scope = t.scope /\ checkpoint' \in Checkpoint
    BY <1>2, <2>1 DEF Checkpoint
  <2>3. \A d \in Docs : ~Ahead(t, d)
    BY <1>5, DocShape DEF Ahead
  <2>4. ASSUME NEW d \in Docs, docs[d] # None, docs[d] <= t.high, InScope(d, t.scope)
        PROVE  copy[d] = docs[d]
    BY <1>1, <2>3, <2>4 DEF TokenInv, Covered, Wanted
  <2>5. ASSUME NEW d \in Docs, d[1] = "products", docs[Tomb(d[2])] # None,
               docs[Tomb(d[2])] <= t.high
        PROVE  copy[d] = None
    <3>1. d[2] \in Products /\ d = Row(d[2]) /\ Tomb(d[2]) \in Docs
      BY <2>5, DocShape
    <3>2. InScope(Tomb(d[2]), t.scope)
      BY DEF InScope, Tomb, Dated
    <3>3. Wanted(t, Tomb(d[2]))
      BY <2>5, <3>2 DEF Wanted
    <3> QED
      BY <1>1, <2>3, <3>1, <3>3 DEF TokenInv, Covered
  <2>6. NothingMissed'
    BY <1>1, <2>2, <2>4, <2>5 DEF NothingMissed, InScope
  <2>7. PullInv'
    BY <1>1, <2>1, <2>2 DEF PullInv, TokenInv
  <2> QED
    BY <2>1, <2>2, <2>6, <2>7
<1>6. CASE ~\A c \in Collections : t.done[c]
  <2>1. cursor' = t /\ checkpoint' = checkpoint
    BY <1>6 DEF Deliver
  <2>2. ASSUME NEW d \in Docs
        PROVE  \/ \E x \in I : x.doc = d /\ copy[d] = x.version
               \/ /\ \A x \in I : x.doc # d
                  /\ copy[d] = IF d[1] = "products" /\ \E i \in I : i.doc = Tomb(d[2])
                               THEN None ELSE replica[d]
    BY <1>1, <1>3, MergedIs
  <2>3. ASSUME checkpoint # None, NEW d \in Docs, docs[d] # None,
               docs[d] <= checkpoint.high, InScope(d, checkpoint.scope)
        PROVE  copy[d] = docs[d]
    <3>1. replica[d] = docs[d] /\ docs[d] \in Nat
      BY <1>2, <2>3 DEF SyncInv, NothingMissed, Version
    <3>2. ASSUME NEW x \in I, x.doc = d PROVE x.version = docs[d]
      BY <1>2, <1>3, <2>3, <3>1, <3>2 DEF ItemInv
    <3>3. ASSUME d[1] = "products", NEW x \in I, x.doc = Tomb(d[2]) PROVE FALSE
      <4>1. d[2] \in Products /\ d = Row(d[2])
        BY <3>3, DocShape
      <4>2. docs[Tomb(d[2])] # None
        BY <1>2, <1>3, <3>3, <4>1 DEF ItemInv
      <4> QED
        BY <2>3, <4>1, <4>2 DEF SyncInv, DocsInv
    <3> QED
      BY <2>2, <3>1, <3>2, <3>3
  <2>4. ASSUME checkpoint # None, NEW d \in Docs, d[1] = "products",
               docs[Tomb(d[2])] # None, docs[Tomb(d[2])] <= checkpoint.high
        PROVE  copy[d] = None
    <3>1. d[2] \in Products /\ d = Row(d[2]) /\ Tomb(d[2]) \in Docs
      BY <2>4, DocShape
    <3>2. replica[d] = None
      BY <2>4 DEF SyncInv, NothingMissed
    <3>3. docs[Tomb(d[2])] \in Nat /\ checkpoint.high <= t.high
      BY <1>1, <1>2, <2>4, <3>1 DEF Version, TokenInv
    <3>4. ~(docs[Tomb(d[2])] > t.high)
      BY <1>2, <2>4, <3>3
    <3>5. \A x \in I : x.doc # d
      BY <1>3, <2>4, <3>1, <3>4 DEF ItemInv
    <3> QED
      BY <2>2, <3>2, <3>5
  <2>5. NothingMissed'
    BY <1>1, <2>1, <2>3, <2>4 DEF NothingMissed, InScope
  <2>6. TokenInv(t, replica)'
    BY <1>1, <1>4, <2>1 DEF TokenInv
  <2>7. TokenInv(cursor, replica)'
    BY <2>1, <2>6 DEF TokenInv, Covered, Ahead, After, Wanted, InScope
  <2>8. PullInv'
    BY <1>1, <2>1, <2>7 DEF SyncInv, PullInv
  <2> QED
    BY <1>1, <1>2, <2>1, <2>5, <2>8
<1> QED
  BY <1>5, <1>6

-----------------------------------------------------------------------------
(* The whole.                                                              *)

ServerTypes ==
  /\ rev \in Nat /\ docs \in [Docs -> Version]
  /\ today \in Days /\ tier \in {"tekin", "bor"} /\ turns \in Nat /\ losses \in Nat

DeviceTypes ==
  /\ replica \in [Docs -> Version]
  /\ checkpoint \in Checkpoint \cup {None}
  /\ cursor \in Token \cup {None}

Agrees == DocsInv /\ ReplicaInv /\ PageInv /\ PullInv /\ NothingMissed

\* The invariant by its parts.
LEMMA SyncInvIs ==
  /\ SyncInv <=> ServerTypes /\ DeviceTypes /\ PageFits /\ QueueTypes /\ Agrees
  /\ SyncInv' <=> ServerTypes' /\ DeviceTypes' /\ PageFits' /\ QueueTypes' /\ Agrees'
<1>1. TypeOK <=> ServerTypes /\ DeviceTypes /\ PageFits /\ QueueTypes
  BY DEF TypeOK, ServerTypes, DeviceTypes, PageFits, QueueTypes
<1>2. TypeOK' <=> ServerTypes' /\ DeviceTypes' /\ PageFits' /\ QueueTypes'
  BY DEF TypeOK, ServerTypes, DeviceTypes, PageFits, QueueTypes
<1> QED
  BY <1>1, <1>2 DEF SyncInv, Agrees

\* Forgetting a page, a place or a checkpoint takes nothing from what is true of the rest.
LEMMA Forgets ==
  ASSUME SyncInv, UNCHANGED <<rev, docs, replica>>,
         cursor' \in {cursor, None}, pull' \in {pull, None},
         checkpoint' \in {checkpoint, None}, pull' # None => checkpoint' = checkpoint
  PROVE  Agrees' /\ DeviceTypes' /\ PageFits'
<1>1. DocsInv' /\ ReplicaInv'
  BY DEF SyncInv, DocsInv, ReplicaInv
<1>2. PageInv'
  <2>1. CASE pull' = pull
    BY <2>1 DEF SyncInv, PageInv, ItemInv
  <2>2. CASE pull' = None
    BY <2>2 DEF PageInv
  <2> QED
    BY <2>1, <2>2
<1>3. NothingMissed'
  BY DEF SyncInv, NothingMissed, InScope
<1>4. PullInv'
  <2>1. checkpoint' # None => checkpoint'.high <= rev'
    BY DEF SyncInv, PullInv
  <2>2. cursor' # None => TokenInv(cursor, replica)'
    <3>1. ASSUME cursor' # None PROVE TokenInv(cursor, replica)'
      <4>1. cursor' = cursor /\ TokenInv(cursor, replica)
        BY <3>1 DEF SyncInv, PullInv
      <4> QED
        BY <4>1 DEF TokenInv, Covered, Ahead, After, Wanted, InScope
    <3> QED
      BY <3>1
  <2>3. ASSUME pull' # None PROVE TokenInv(pull.token, Merged(pull.items))'
    <3>1. pull' = pull /\ TokenInv(pull.token, Merged(pull.items)) /\ checkpoint' = checkpoint
      BY <2>3 DEF SyncInv, PullInv
    <3>2. Merged(pull.items)' = Merged(pull.items)
      BY <3>1 DEF Merged
    <3>3. PICK t, copy : t = pull.token /\ copy = Merged(pull.items)
      OBVIOUS
    <3>4. TokenInv(t, copy)'
      BY <3>1, <3>3 DEF TokenInv, Covered, Ahead, After, Wanted, InScope
    <3>5. pull'.token = t /\ Merged(pull.items)' = copy
      BY <3>1, <3>2, <3>3
    <3> QED
      BY <3>4, <3>5 DEF TokenInv, Covered, Ahead, After, Wanted, InScope
  <2> QED
    BY <2>1, <2>2, <2>3 DEF PullInv
<1>5. DeviceTypes'
  BY SyncInvIs DEF DeviceTypes
<1>6. PageFits'
  <2>1. CASE pull' = pull
    BY <2>1, SyncInvIs DEF PageFits
  <2>2. CASE pull' = None
    BY <2>2 DEF PageFits
  <2> QED
    BY <2>1, <2>2
<1> QED
  BY <1>1, <1>2, <1>3, <1>4, <1>5, <1>6 DEF Agrees

\* The queue's part of the invariant outlives every write of others.
LEMMA QueueKept ==
  ASSUME SyncInv, VerdictInv, Moves \/ UNCHANGED <<rev, docs>>, UNCHANGED queue
  PROVE  VerdictInv' /\ QueueTypes'
<1>1. TypeOK /\ UNCHANGED <<ops, receipts, verdicts, applied>>
  BY DEF SyncInv, queue
<1>2. ASSUME NEW o \in Ops PROVE OpInv(o)'
  BY <1>1, OpKept, VerdictInvIs
<1>3. QueueTypes'
  BY <1>1, SyncInvIs DEF QueueTypes
<1> QED
  BY <1>2, <1>3 DEF VerdictInv, OpInv

\* Server and device are empty at first.
LEMMA SyncStarts == Init => SyncInv /\ VerdictInv
<1> SUFFICES ASSUME Init PROVE SyncInv /\ VerdictInv
  OBVIOUS
<1> USE DEF Init
<1>1. ServerTypes
  BY BoundsAssumption DEF ServerTypes, Days, Version
<1>2. DeviceTypes /\ PageFits /\ QueueTypes
  BY DEF DeviceTypes, PageFits, QueueTypes, Version
<1>3. DocsInv
  <2>1. \A d \in Docs : docs[d] # None => docs[d] = 0
    OBVIOUS
  <2>2. \A p \in Products : docs[Tomb(p)] = None
    BY DocShape DEF Row, Tomb
  <2> QED
    BY <2>1, <2>2 DEF DocsInv
<1>4. ReplicaInv
  BY DocShape DEF ReplicaInv
<1>5. PageInv /\ PullInv /\ NothingMissed
  BY DEF PageInv, PullInv, NothingMissed
<1>6. VerdictInv
  BY DEF VerdictInv
<1> QED
  BY <1>1, <1>2, <1>3, <1>4, <1>5, <1>6, SyncInvIs DEF Agrees

\* Every step of server and device.
LEMMA SyncSteps == SyncInv /\ VerdictInv /\ [Next]_vars => SyncInv' /\ VerdictInv'
<1> SUFFICES ASSUME SyncInv, VerdictInv, [Next]_vars PROVE SyncInv' /\ VerdictInv'
  OBVIOUS
<1>0. ServerTypes /\ DeviceTypes /\ PageFits /\ QueueTypes
  BY SyncInvIs
<1>1. CASE Write \/ Remove \/ \E o \in Ops : Put(o) \/ Delete(o)
  <2>1. Moves /\ UNCHANGED <<today, tier, turns, replica, checkpoint, cursor, pull>>
    BY <1>1, Writers
  <2>2. Agrees'
    BY <2>1, MovesKeep DEF device, Agrees
  <2>3. losses' \in Nat
    <3>1. CASE Write \/ Remove
      BY <1>0, <3>1 DEF Write, Remove, ServerTypes
    <3>2. ASSUME NEW o \in Ops, Put(o) \/ Delete(o) PROVE losses' \in Nat
      <4>1. Tell(o, "acknowledged")
        BY <3>2 DEF Put, Delete, Acknowledge
      <4> QED
        BY <1>0, <4>1 DEF Tell, ServerTypes
    <3> QED
      BY <1>1, <3>1, <3>2
  <2>4. ServerTypes'
    BY <1>0, <2>1, <2>3 DEF ServerTypes, Moves
  <2>5. DeviceTypes' /\ PageFits'
    BY <1>0, <2>1 DEF DeviceTypes, PageFits
  <2>6. VerdictInv' /\ QueueTypes'
    <3>1. CASE Write \/ Remove
      <4>1. UNCHANGED queue
        BY <3>1 DEF Write, Remove
      <4> QED
        BY <2>1, <4>1, QueueKept
    <3>2. CASE \E o \in Ops : Put(o) \/ Delete(o)
      BY <3>2, Acknowledged
    <3> QED
      BY <1>1, <3>1, <3>2
  <2> QED
    BY <2>2, <2>4, <2>5, <2>6, SyncInvIs
<1>2. CASE NextDay \/ ChangeTier \/ ScopeChanged \/ Lose \/ UNCHANGED vars
  <2>1. /\ UNCHANGED <<rev, docs, replica>> /\ UNCHANGED queue
        /\ cursor' \in {cursor, None} /\ pull' \in {pull, None}
        /\ checkpoint' \in {checkpoint, None}
        /\ pull' # None => checkpoint' = checkpoint
    BY <1>2 DEF NextDay, ChangeTier, ScopeChanged, Lose, server, device, vars
  <2>2. ServerTypes'
    <3>1. CASE NextDay
      BY <1>0, <3>1, BoundsAssumption DEF NextDay, ServerTypes, Days
    <3>2. CASE ChangeTier
      BY <1>0, <3>2 DEF ChangeTier, ServerTypes
    <3>3. CASE ScopeChanged \/ Lose \/ UNCHANGED vars
      BY <1>0, <3>3 DEF ScopeChanged, Lose, server, vars, ServerTypes
    <3> QED
      BY <1>2, <3>1, <3>2, <3>3
  <2> QED
    BY <2>1, <2>2, Forgets, QueueKept, SyncInvIs
<1>3. CASE BeginPull \/ ContinuePull \/ \E c \in Collections : Read(c)
  <2>1. /\ UNCHANGED <<rev, docs, today, tier, turns, losses, replica, checkpoint, cursor>>
        /\ UNCHANGED queue
    BY <1>3 DEF BeginPull, ContinuePull, Read, server, device
  <2>2. PageInv' /\ PullInv' /\ PageFits'
    BY <1>3, Begun, Continued, OpenedFits, ReadItems, ReadCovers, ReadFits
  <2>3. DocsInv' /\ ReplicaInv' /\ NothingMissed'
    BY <2>1 DEF SyncInv, DocsInv, ReplicaInv, NothingMissed, InScope
  <2>4. ServerTypes' /\ DeviceTypes'
    BY <1>0, <2>1 DEF ServerTypes, DeviceTypes
  <2> QED
    BY <2>1, <2>2, <2>3, <2>4, QueueKept, SyncInvIs DEF Agrees
<1>4. CASE Deliver
  <2>1. /\ UNCHANGED <<rev, docs, today, tier, turns, losses>> /\ UNCHANGED queue
        /\ pull' = None
    BY <1>4 DEF Deliver, server
  <2>2. PageInv' /\ PageFits'
    BY <2>1 DEF PageInv, PageFits
  <2>3. DocsInv'
    BY <2>1 DEF SyncInv, DocsInv
  <2>4. ReplicaInv' /\ NothingMissed' /\ PullInv' /\ DeviceTypes'
    BY <1>4, DeliverMerges, DeliverCompletes DEF DeviceTypes
  <2>5. ServerTypes'
    BY <1>0, <2>1 DEF ServerTypes
  <2> QED
    BY <2>1, <2>2, <2>3, <2>4, <2>5, QueueKept, SyncInvIs DEF Agrees
<1>5. CASE \E o \in Ops : Queue(o) \/ Conflict(o) \/ Replay(o)
  <2>1. UNCHANGED <<rev, docs, today, tier, turns, replica, checkpoint, cursor, pull>>
    BY <1>5 DEF Queue, Conflict, Replay, server, device
  <2>2. VerdictInv' /\ QueueTypes'
    BY <1>5, Queued, Answered
  <2>3. losses' \in Nat
    BY <1>0, <1>5 DEF Queue, Conflict, Replay, Tell, ServerTypes
  <2>4. Agrees' /\ DeviceTypes' /\ PageFits'
    BY <2>1, Forgets
  <2>5. ServerTypes'
    BY <1>0, <2>1, <2>3 DEF ServerTypes
  <2> QED
    BY <2>2, <2>4, <2>5, SyncInvIs
<1> QED
  BY <1>1, <1>2, <1>3, <1>4, <1>5 DEF Next, Pulling

\* In every state: the types and all parts of the invariant.
LEMMA SyncAlways == Spec => []SyncInv /\ []VerdictInv
BY SyncStarts, SyncSteps, PTL DEF Spec

\* Values keep their types, and no page holds more than PageSize documents of a collection,
\* whatever is written while its collections are read (sync.pull.ts 93-131).
THEOREM PagesFit == Spec => []TypeOK
<1>1. SyncInv => TypeOK
  BY DEF SyncInv
<1> QED
  BY <1>1, SyncAlways, PTL

\* A completed pull has brought everything up to its checkpoint, although writers, days and
\* tiers went on between the pages and between the collections of a page, and replies were
\* lost (sync.pull.ts 54-91).
THEOREM PullsMissNothing == Spec => []NothingMissed
<1>1. SyncInv => NothingMissed
  BY DEF SyncInv
<1> QED
  BY <1>1, SyncAlways, PTL

\* No page takes the device's copy back, to an older version or to a product it knows to be
\* deleted (product-tombstone.model.ts 11).
THEOREM CopiesNeverGoBack == Spec => NeverBack
<1> DEFINE Kept == \A d \in Docs :
             /\ replica[d] # None /\ replica'[d] # None => replica'[d] >= replica[d]
             /\ d[1] = "products" /\ replica[Tomb(d[2])] # None => replica'[d] = None
<1>1. SyncInv /\ [Next]_vars => [Kept]_vars
  <2> SUFFICES ASSUME SyncInv, Next PROVE Kept
    OBVIOUS
  <2>1. CASE Deliver
    BY <2>1, DeliverMerges
  <2>2. CASE ~Deliver
    <3>1. replica' = replica
      <4>1. Write \/ Remove \/ (\E o \in Ops : Put(o) \/ Delete(o)) => replica' = replica
        BY Writers
      <4> QED
        BY <2>2, <4>1 DEF Next, Pulling, NextDay, ChangeTier, Lose, BeginPull, ContinuePull,
           ScopeChanged, Read, Queue, Conflict, Replay, device
    <3>2. ASSUME NEW d \in Docs
          PROVE  /\ replica[d] # None => replica[d] >= replica[d]
                 /\ d[1] = "products" /\ replica[Tomb(d[2])] # None => replica[d] = None
      <4>1. replica[d] \in Version
        BY Types DEF SyncInv
      <4>2. replica[d] # None => replica[d] >= replica[d]
        BY <4>1 DEF Version
      <4> QED
        BY <4>2, DocShape DEF SyncInv, ReplicaInv
    <3> QED
      BY <3>1, <3>2
  <2> QED
    BY <2>1, <2>2
<1> QED
  BY <1>1, SyncAlways, PTL DEF Spec, NeverBack

\* What the device is told of an operation is final and true, however often it was delivered
\* and whatever was written in between (sync.service.ts 25-59).
THEOREM VerdictsAreFinal == Spec => []VerdictsTrue
<1>1. VerdictInv => VerdictsTrue
  BY DEF VerdictInv, VerdictsTrue
<1> QED
  BY <1>1, SyncAlways, PTL
=============================================================================
