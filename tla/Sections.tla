------------------------------- MODULE Sections -------------------------------
(***************************************************************************)
(* core/application.cxx and Adaptor::getExtent: which ranks are inporters, *)
(* where each stands among them, and which part of a file it reads.        *)
(***************************************************************************)
EXTENDS Integers, FiniteSets

CONSTANTS
    TotalSize,      \* the number of MPI ranks
    Intervals       \* collectInporterNodes: <<first, last>>, both included

ASSUME SectionsAssumption ==
    /\ TotalSize \in Nat \ {0}
    /\ Intervals \subseteq Nat \X Nat

AllRanks == 0..(TotalSize - 1)

(* Ranks an interval names beyond the last are left out.  If no rank is    *)
(* left all of them are inporters.                                         *)
Configured == {r \in AllRanks : \E iv \in Intervals : iv[1] <= r /\ r <= iv[2]}

Inporters == IF Configured = {} THEN AllRanks ELSE Configured

(* An inporter's index counts the inporters before it. *)
SectionIndex(r) == Cardinality({i \in Inporters : i < r})

SectionSize == Cardinality(Inporters)

-----------------------------------------------------------------------------
(* getExtent: max layers cut into chunks of equal size, rounded up, so the *)
(* last sections can be short or empty.                                    *)

Smaller(a, b) == IF a < b THEN a ELSE b

ChunkSizeDown(max, size) == max \div size   \* mutant

ChunkSize(max, size) == (max + size - 1) \div size

ExtentStart(max, size, index) == Smaller(ChunkSize(max, size) * index, max)

ExtentSize(max, size, index) ==
    Smaller(ChunkSize(max, size), max - ExtentStart(max, size, index))

(* The layers section index reads, numbered from 0. *)
Extent(max, size, index) ==
    ExtentStart(max, size, index) ..
        (ExtentStart(max, size, index) + ExtentSize(max, size, index) - 1)
=============================================================================
