---------------------------- MODULE Sections_proofs ----------------------------
(***************************************************************************)
(* Every layer of a file is read by exactly one inporter, for any number   *)
(* of layers and any choice of inporters.                                  *)
(***************************************************************************)
EXTENDS Sections, FiniteSetTheorems, TLAPS

(* The chunks of all sections together are as long as the file at least:   *)
(* the division in getExtent rounds up.                                    *)
LEMMA ChunksSuffice ==
    ASSUME NEW max \in Nat, NEW size \in Nat \ {0}
    PROVE  /\ ChunkSize(max, size) \in Nat
           /\ ChunkSize(max, size) * size >= max
           /\ max > 0 => ChunkSize(max, size) > 0
<1> DEFINE n == max + size - 1
           q == n \div size
<1>1. n \in Nat
  OBVIOUS
<1>2. /\ q \in Int
      /\ n = size * q + (n % size)
      /\ 0 <= n % size
      /\ n % size < size
  BY <1>1, Z3
<1>3. q >= 0
  <2>1. SUFFICES ASSUME q <= -1 PROVE FALSE
    BY <1>2
  <2>2. size * q <= -size
    BY <1>2, <2>1, Z3
  <2> QED
    BY <1>1, <1>2, <2>2
<1>4. q * size >= max
  BY <1>1, <1>2, Z3
<1>5. max > 0 => q > 0
  BY <1>1, <1>2, <1>3, <1>4, Z3
<1> QED
  BY <1>2, <1>3, <1>4, <1>5 DEF ChunkSize

(* Which layers a section reads: those of its chunk that the file has.  The*)
(* two minima of getExtent never cut off more than that.                   *)
LEMMA ExtentMeaning ==
    ASSUME NEW max \in Nat, NEW size \in Nat \ {0}, NEW index \in Nat, NEW layer \in Int
    PROVE  layer \in Extent(max, size, index)
             <=> /\ ChunkSize(max, size) * index <= layer
                 /\ layer < ChunkSize(max, size) * index + ChunkSize(max, size)
                 /\ layer < max
<1> DEFINE c == ChunkSize(max, size)
           start == c * index
<1>1. c \in Nat
  BY ChunksSuffice
<1>2. start \in Nat
  BY <1>1, Z3
<1> HIDE DEF c, start
<1>3. Smaller(start, max) \in Nat
  BY <1>2 DEF Smaller
<1>4. CASE start < max
  BY <1>1, <1>2, <1>4 DEF Extent, ExtentStart, ExtentSize, Smaller, c, start
<1>5. CASE ~(start < max)
  BY <1>1, <1>2, <1>5 DEF Extent, ExtentStart, ExtentSize, Smaller, c, start
<1> QED
  BY <1>4, <1>5

(* getExtent gives every layer of the file to exactly one of the sections, *)
(* and no section a layer the file does not have.                          *)
THEOREM ExtentsPartition ==
    ASSUME NEW max \in Nat, NEW size \in Nat \ {0}
    PROVE  /\ \A index \in 0..(size - 1) : Extent(max, size, index) \subseteq 0..(max - 1)
           /\ \A layer \in 0..(max - 1) :
                /\ \E index \in 0..(size - 1) : layer \in Extent(max, size, index)
                /\ \A i, j \in 0..(size - 1) :
                     layer \in Extent(max, size, i) /\ layer \in Extent(max, size, j)
                        => i = j
<1> DEFINE c == ChunkSize(max, size)
<1>1. c \in Nat /\ c * size >= max /\ (max > 0 => c > 0)
  BY ChunksSuffice
<1> HIDE DEF c
<1>2. ASSUME NEW index \in 0..(size - 1)
      PROVE  Extent(max, size, index) \subseteq 0..(max - 1)
  <2>1. SUFFICES ASSUME NEW layer \in Extent(max, size, index)
                 PROVE  layer \in 0..(max - 1)
    OBVIOUS
  <2>2. layer \in Int
    BY <2>1 DEF Extent
  <2>3. c * index <= layer /\ layer < max
    BY <2>1, <2>2, ExtentMeaning DEF c
  <2>4. c * index >= 0
    BY <1>1, Z3
  <2> QED
    BY <2>2, <2>3, <2>4, <1>1
<1>3. ASSUME NEW layer \in 0..(max - 1)
      PROVE  \E index \in 0..(size - 1) : layer \in Extent(max, size, index)
  <2> DEFINE index == layer \div c
  <2>1. c > 0
    BY <1>1
  <2>2. /\ index \in Int
        /\ c * index <= layer
        /\ layer < c * index + c
    BY <1>1, <2>1, Z3
  <2> HIDE DEF index
  <2>3. index >= 0
    <3>1. SUFFICES ASSUME index <= -1 PROVE FALSE
      BY <2>2
    <3>2. c * index <= -c
      BY <1>1, <2>1, <2>2, <3>1, Z3
    <3> QED
      BY <1>1, <2>2, <3>2
  <2>4. index <= size - 1
    <3>1. SUFFICES ASSUME index >= size PROVE FALSE
      BY <2>2
    <3>2. c * index >= c * size
      BY <1>1, <2>1, <2>2, <3>1, Z3
    <3>3. c * index \in Int /\ c * size \in Int
      BY <1>1, <2>2, Z3
    <3> QED
      BY <1>1, <2>2, <3>2, <3>3
  <2>5. index \in Nat /\ layer \in Extent(max, size, index)
    BY <2>2, <2>3, ExtentMeaning DEF c
  <2> QED
    BY <2>2, <2>3, <2>4, <2>5
<1>4. ASSUME NEW layer \in 0..(max - 1),
             NEW i \in 0..(size - 1), NEW j \in 0..(size - 1), i < j,
             layer \in Extent(max, size, i), layer \in Extent(max, size, j)
      PROVE  FALSE
  <2>1. layer < c * i + c /\ c * j <= layer
    BY <1>4, ExtentMeaning DEF c
  <2>2. c * (i + 1) <= c * j
    BY <1>1, <1>4, Z3
  <2>3. c * (i + 1) = c * i + c
    BY <1>1, Z3
  <2>4. c * i \in Int /\ c * j \in Int
    BY <1>1, Z3
  <2> QED
    BY <1>1, <2>1, <2>2, <2>3, <2>4
<1>5. ASSUME NEW layer \in 0..(max - 1),
             NEW i \in 0..(size - 1), NEW j \in 0..(size - 1),
             layer \in Extent(max, size, i), layer \in Extent(max, size, j)
      PROVE  i = j
  <2>1. ~(i < j) /\ ~(j < i)
    BY <1>4, <1>5
  <2> QED
    BY <2>1
<1> QED
  BY <1>2, <1>3, <1>5

-----------------------------------------------------------------------------

(* There is an inporter even if the configuration names none.              *)
LEMMA InportersFinite ==
    /\ Inporters \subseteq AllRanks
    /\ AllRanks \subseteq Nat
    /\ IsFiniteSet(Inporters)
    /\ SectionSize \in Nat \ {0}
<1>1. AllRanks \subseteq Nat /\ IsFiniteSet(AllRanks) /\ AllRanks # {}
  <2>1. TotalSize - 1 \in Int /\ 0 \in AllRanks
    BY SectionsAssumption DEF AllRanks
  <2> QED
    BY <2>1, FS_Interval DEF AllRanks
<1>2. Inporters \subseteq AllRanks /\ Inporters # {}
  BY <1>1 DEF Inporters, Configured
<1>3. IsFiniteSet(Inporters)
  BY <1>1, <1>2, FS_Subset
<1>4. Cardinality(Inporters) \in Nat /\ Cardinality(Inporters) # 0
  BY <1>2, <1>3, FS_CardinalityType, FS_EmptySet
<1> QED
  BY <1>1, <1>2, <1>3, <1>4 DEF SectionSize

(* The indices of the inporters are those of the sections, each used once: *)
(* an index is a number below the count, and they increase with the ranks. *)
THEOREM IndicesAreSections ==
    /\ \A r \in Inporters : SectionIndex(r) \in 0..(SectionSize - 1)
    /\ \A r, s \in Inporters : SectionIndex(r) = SectionIndex(s) => r = s
    /\ \A index \in 0..(SectionSize - 1) : \E r \in Inporters : SectionIndex(r) = index
<1> DEFINE Before(r) == {i \in Inporters : i < r}
<1>1. ASSUME NEW r \in Inporters
      PROVE  /\ SectionIndex(r) \in Nat
             /\ SectionIndex(r) < SectionSize
  <2>1. /\ Before(r) \in SUBSET Inporters
        /\ r \notin Before(r)
        /\ Before(r) # Inporters
    BY InportersFinite
  <2>2. /\ IsFiniteSet(Before(r))
        /\ Cardinality(Before(r)) <= Cardinality(Inporters)
        /\ Cardinality(Before(r)) # Cardinality(Inporters)
    BY <2>1, InportersFinite, FS_Subset
  <2>3. Cardinality(Before(r)) \in Nat /\ Cardinality(Inporters) \in Nat
    BY <2>2, InportersFinite, FS_CardinalityType
  <2> QED
    BY <2>2, <2>3 DEF SectionIndex, SectionSize
<1>2. ASSUME NEW r \in Inporters, NEW s \in Inporters, r < s
      PROVE  SectionIndex(r) < SectionIndex(s)
  <2>1. /\ Before(r) \in SUBSET Before(s)
        /\ r \in Before(s) /\ r \notin Before(r)
        /\ Before(s) \in SUBSET Inporters
    <3>1. \A i \in Inporters : i \in Int
      BY InportersFinite
    <3>2. \A i \in Inporters : i < r => i < s
      BY <1>2, <3>1
    <3>3. ~(r < r)
      BY <3>1
    <3> QED
      BY <1>2, <3>2, <3>3
  <2>2. IsFiniteSet(Before(s))
    BY <2>1, InportersFinite, FS_Subset
  <2>3. /\ Cardinality(Before(r)) <= Cardinality(Before(s))
        /\ Cardinality(Before(r)) # Cardinality(Before(s))
    BY <2>1, <2>2, FS_Subset
  <2> QED
    BY <1>1, <2>3 DEF SectionIndex
<1>3. ASSUME NEW r \in Inporters, NEW s \in Inporters,
             SectionIndex(r) = SectionIndex(s)
      PROVE  r = s
  <2>1. ~(r < s) /\ ~(s < r)
    BY <1>1, <1>2, <1>3
  <2>2. r \in Int /\ s \in Int
    BY InportersFinite
  <2> QED
    BY <2>1, <2>2
<1>4. ASSUME NEW index \in 0..(SectionSize - 1)
      PROVE  \E r \in Inporters : SectionIndex(r) = index
  <2> DEFINE Indices == 0..(SectionSize - 1)
             f == [r \in Inporters |-> SectionIndex(r)]
  <2>1. f \in Injection(Inporters, Indices)
    <3>1. f \in [Inporters -> Indices]
      BY <1>1, InportersFinite
    <3>2. \A r, s \in Inporters : f[r] = f[s] => r = s
      BY <1>3
    <3> QED
      BY <3>1, <3>2 DEF Injection, IsInjective
  <2>2. IsFiniteSet(Indices) /\ Cardinality(Indices) = Cardinality(Inporters)
    <3>1. 0 \in Int /\ SectionSize - 1 \in Int /\ ~(0 > SectionSize - 1)
      BY InportersFinite
    <3>2. Cardinality(Indices) = (SectionSize - 1) - 0 + 1 /\ IsFiniteSet(Indices)
      BY <3>1, FS_Interval
    <3> QED
      BY <3>2, InportersFinite DEF SectionSize
  <2>3. f \in Surjection(Inporters, Indices)
    BY <2>1, <2>2, FS_Injection
  <2> QED
    BY <2>3 DEF Surjection
<1> QED
  BY <1>1, <1>3, <1>4, InportersFinite

(* Each layer of a file of any length is read by exactly one inporter.     *)
THEOREM LayersReadOnce ==
    ASSUME NEW max \in Nat, NEW layer \in 0..(max - 1)
    PROVE  \E r \in Inporters :
             /\ layer \in Extent(max, SectionSize, SectionIndex(r))
             /\ \A s \in Inporters \ {r} :
                  layer \notin Extent(max, SectionSize, SectionIndex(s))
<1>1. SectionSize \in Nat \ {0}
  BY InportersFinite
<1>2. PICK index \in 0..(SectionSize - 1) : layer \in Extent(max, SectionSize, index)
  BY <1>1, ExtentsPartition
<1>3. PICK r \in Inporters : SectionIndex(r) = index
  BY <1>2, IndicesAreSections
<1>4. ASSUME NEW s \in Inporters \ {r}
      PROVE  layer \notin Extent(max, SectionSize, SectionIndex(s))
  <2>1. SectionIndex(s) \in 0..(SectionSize - 1) /\ SectionIndex(s) # index
    BY <1>3, IndicesAreSections
  <2> QED
    BY <1>1, <1>2, <2>1, ExtentsPartition
<1> QED
  BY <1>2, <1>3, <1>4
=============================================================================
