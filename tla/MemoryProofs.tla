---------------------------- MODULE MemoryProofs ----------------------------
(***************************************************************************)
(* Proofs about the memory managers, for every number of frames and pages   *)
(* and every program that leaves the kernel's pages alone: no page frame    *)
(* serves two purposes or is free while it serves one, and the frames that  *)
(* are lost are those LossesKnown counts.                                   *)
(***************************************************************************)
EXTENDS Memory, FiniteSetTheorems, TLAPS

-----------------------------------------------------------------------------
(* Members of a finite set of numbers are ranked from 1 on.                 *)
LEMMA RankRange ==
    ASSUME NEW S \in SUBSET Nat, IsFiniteSet(S), NEW x \in S
    PROVE  Rank(S, x) \in 1 .. Cardinality(S)
<1> DEFINE below == {y \in S : y < x}
<1>1. IsFiniteSet(S \ {x}) /\ Cardinality(S \ {x}) = Cardinality(S) - 1
  BY FS_RemoveElement
<1>2. below \subseteq S \ {x}
  OBVIOUS
<1>3. IsFiniteSet(below) /\ Cardinality(below) <= Cardinality(S) - 1
  BY <1>1, <1>2, FS_Subset
<1>4. Cardinality(S) \in Nat /\ Cardinality(below) \in Nat
  BY <1>3, FS_CardinalityType
<1> QED BY <1>3, <1>4 DEF Rank

(* The larger of two members has the higher rank.                           *)
LEMMA RankMonotone ==
    ASSUME NEW S \in SUBSET Nat, IsFiniteSet(S), NEW x \in S, NEW y \in S, x < y
    PROVE  Rank(S, x) < Rank(S, y)
<1> DEFINE belowX == {z \in S : z < x}
           belowY == {z \in S : z < y}
<1>1. IsFiniteSet(belowX) /\ IsFiniteSet(belowY)
  BY FS_Subset
<1>2. belowX \cup {x} \subseteq belowY /\ x \notin belowX
  <2>1. \A z \in S : z < x => z < y
    OBVIOUS
  <2>2. ~(x < x)
    OBVIOUS
  <2> QED BY <2>1, <2>2
<1>3. /\ IsFiniteSet(belowX \cup {x})
      /\ Cardinality(belowX \cup {x}) = Cardinality(belowX) + 1
  BY <1>1, <1>2, FS_AddElement
<1>4. Cardinality(belowX \cup {x}) <= Cardinality(belowY)
  BY <1>1, <1>2, FS_Subset
<1>5. Cardinality(belowX) \in Nat /\ Cardinality(belowY) \in Nat
  BY <1>1, FS_CardinalityType
<1> QED BY <1>3, <1>4, <1>5 DEF Rank

(* No two pages of a set have the same rank in it.                          *)
LEMMA RankInjective ==
    ASSUME NEW S \in SUBSET Nat, IsFiniteSet(S), NEW x \in S, NEW y \in S,
           Rank(S, x) = Rank(S, y)
    PROVE  x = y
<1>1. Rank(S, x) \in Nat /\ Rank(S, y) \in Nat
  BY RankRange
<1>2. ~(x < y) /\ ~(y < x)
  BY <1>1, RankMonotone
<1> QED BY <1>2

(* Every rank up to the number of members is taken, by the one that Lowest  *)
(* finds.                                                                   *)
LEMMA LowestRank ==
    ASSUME NEW S \in SUBSET Nat, IsFiniteSet(S), NEW k \in 1 .. Cardinality(S)
    PROVE  Lowest(S, k) \in S /\ Rank(S, Lowest(S, k)) = k
<1> DEFINE n == Cardinality(S)
           rank == [x \in S |-> Rank(S, x)]
<1>1. n \in Nat
  BY FS_CardinalityType
<1>2. rank \in [S -> 1 .. n]
  BY RankRange
<1>3. rank \in Injection(S, 1 .. n)
  BY <1>2, RankInjective DEF Injection, IsInjective
<1>4. IsFiniteSet(1 .. n) /\ Cardinality(1 .. n) = n
  BY <1>1, FS_Interval
<1>5. rank \in Surjection(S, 1 .. n)
  <2> HIDE DEF rank
  <2> QED BY <1>3, <1>4, FS_Injection
<1>6. PICK x \in S : rank[x] = k
  BY <1>5 DEF Surjection
<1>7. Cardinality({y \in S : y < x}) = k - 1
  <2>1. Cardinality({y \in S : y < x}) \in Nat
    BY FS_Subset, FS_CardinalityType
  <2> QED BY <1>6, <2>1 DEF Rank
<1>8. Lowest(S, k) \in S /\ Cardinality({y \in S : y < Lowest(S, k)}) = k - 1
  BY <1>7 DEF Lowest
<1> QED BY <1>8 DEF Rank

(* The frames pmm_alloc finds are free, differ, and are free no more.       *)
LEMMA FramesTaken ==
    ASSUME TypeOK, NEW total \in Nat, total <= Cardinality(allocatable),
           NEW j \in 1 .. total
    PROVE  /\ Frame(j) \in allocatable /\ Frame(j) \in Frames
           /\ Frame(j) \notin WithoutTaken(total)
           /\ \A k \in 1 .. total : Frame(j) = Frame(k) => j = k
<1>1. allocatable \in SUBSET Nat /\ IsFiniteSet(allocatable) /\ allocatable \subseteq Frames
  BY PagesAssumption, FS_Subset DEF TypeOK
<1>2. Cardinality(allocatable) \in Nat
  BY <1>1, FS_CardinalityType
<1>3. \A k \in 1 .. total : Frame(k) \in allocatable /\ Rank(allocatable, Frame(k)) = k
  BY <1>1, <1>2, LowestRank DEF Frame
<1>4. Frame(j) \in FirstFew(allocatable, total)
  BY <1>3 DEF FirstFew
<1> QED BY <1>1, <1>3, <1>4 DEF WithoutTaken

(* The vacant shared pages that are taken, and their ranks.                 *)
LEMMA PagesTaken ==
    ASSUME NEW k \in Nat, NEW v \in FirstFew(VacantShared, k)
    PROVE  /\ v \in SharedPages /\ shared[v] = Unmapped
           /\ Rank(VacantShared, v) \in 1 .. k
           /\ \A w \in FirstFew(VacantShared, k) :
                  Rank(VacantShared, v) = Rank(VacantShared, w) => v = w
<1>1. VacantShared \in SUBSET Nat /\ IsFiniteSet(VacantShared)
  BY PagesAssumption, FS_Subset DEF VacantShared
<1>2. Cardinality(VacantShared) \in Nat
  BY <1>1, FS_CardinalityType
<1>3. v \in VacantShared /\ Rank(VacantShared, v) <= k
  BY DEF FirstFew
<1>4. Rank(VacantShared, v) \in 1 .. k
  BY <1>1, <1>2, <1>3, RankRange
<1>5. \A w \in FirstFew(VacantShared, k) : w \in VacantShared
  BY DEF FirstFew
<1> QED BY <1>1, <1>3, <1>4, <1>5, RankInjective DEF VacantShared

-----------------------------------------------------------------------------
(* The uses of frames, kind by kind, before a step and after it.            *)
LEMMA UsesAre ==
    ASSUME NEW u
    PROVE  u \in Uses <=>
               \/ \E v \in Shareds : u = <<"shared", 0, v>>
               \/ \E d \in Directories : \/ u = <<"directory", d, 0>>
                                         \/ u = <<"context", d, 0>>
                                         \/ u = <<"tables", d, 0>>
               \/ \E d \in Directories, v \in PrivatePages :
                      spaces[d].pages[v] # Unmapped /\ u = <<"private", d, v>>
BY DEF Uses, MappedPages, Shareds

(* The same after a step.                                                   *)
LEMMA UsesWillBe ==
    ASSUME NEW u
    PROVE  u \in Uses' <=>
               \/ \E v \in Shareds' : u = <<"shared", 0, v>>
               \/ \E d \in Directories' : \/ u = <<"directory", d, 0>>
                                          \/ u = <<"context", d, 0>>
                                          \/ u = <<"tables", d, 0>>
               \/ \E d \in Directories', v \in PrivatePages :
                      spaces'[d].pages[v] # Unmapped /\ u = <<"private", d, v>>
BY DEF Uses, MappedPages, Shareds

(* The frame of each kind of use, before a step.                            *)
LEMMA FramesAre ==
    /\ \A v : FrameOf(<<"shared", 0, v>>) = shared[v]
    /\ \A d : /\ FrameOf(<<"directory", d, 0>>) = d
              /\ FrameOf(<<"context", d, 0>>) = spaces[d].context
              /\ FrameOf(<<"tables", d, 0>>) = spaces[d].tables
    /\ \A d, v : FrameOf(<<"private", d, v>>) = spaces[d].pages[v]
BY DEF FrameOf

(* The same after a step.                                                   *)
LEMMA FramesWillBe ==
    /\ \A v : FrameOf(<<"shared", 0, v>>)' = shared'[v]
    /\ \A d : /\ FrameOf(<<"directory", d, 0>>)' = d
              /\ FrameOf(<<"context", d, 0>>)' = spaces'[d].context
              /\ FrameOf(<<"tables", d, 0>>)' = spaces'[d].tables
    /\ \A d, v : FrameOf(<<"private", d, v>>)' = spaces'[d].pages[v]
BY DEF FrameOf

(* What is mapped in the shared part is a frame.                            *)
LEMMA SharedFrames ==
    ASSUME FramesOwnedOnce, NEW v \in Shareds
    PROVE  shared[v] \in Frames
<1>1. <<"shared", 0, v>> \in Uses
  BY UsesAre
<1>2. FrameOf(<<"shared", 0, v>>) \in Frames
  BY <1>1 DEF FramesOwnedOnce
<1> QED BY <1>2, FramesAre

(* The frame of a page directory is not free.                               *)
LEMMA DirectoriesNotFree ==
    ASSUME FramesOwnedOnce
    PROVE  \A d \in Directories : d \notin allocatable
<1>1. \A d \in Directories : <<"directory", d, 0>> \in Uses
  BY UsesAre
<1>2. \A d \in Directories : FrameOf(<<"directory", d, 0>>) \notin allocatable
  BY <1>1 DEF FramesOwnedOnce
<1>3. \A d : FrameOf(<<"directory", d, 0>>) = d
  BY FramesAre
<1> QED BY <1>2, <1>3, Zenon

(* A step keeps ownership when the uses it ends give their frames back or   *)
(* lose them, and the uses it begins take different frames that were free.  *)
LEMMA Ownership ==
    ASSUME TypeOK, FramesOwnedOnce, NEW Gone \in SUBSET Uses, NEW New,
           \A u \in Uses' : u \in New \/ (u \in Uses \ Gone /\ FrameOf(u)' = FrameOf(u)),
           \A u \in New : FrameOf(u)' \in allocatable /\ FrameOf(u)' \notin allocatable',
           \A u, w \in New : FrameOf(u)' = FrameOf(w)' => u = w,
           \A f \in allocatable' : f \in allocatable \/ \E u \in Gone : f = FrameOf(u)
    PROVE  FramesOwnedOnce'
<1>1. \A u \in Uses : FrameOf(u) \in Frames /\ FrameOf(u) \notin allocatable
  BY DEF FramesOwnedOnce
<1>2. \A u, w \in Uses : FrameOf(u) = FrameOf(w) => u = w
  BY DEF FramesOwnedOnce
<1>3. allocatable \subseteq Frames
  BY DEF TypeOK
<1>4. ASSUME NEW u \in Uses' PROVE FrameOf(u)' \in Frames \ allocatable'
  <2>1. CASE u \in New
    BY <2>1, <1>3
  <2>2. CASE u \in Uses \ Gone /\ FrameOf(u)' = FrameOf(u)
    BY <2>2, <1>1, <1>2
  <2> QED BY <2>1, <2>2
<1>5. ASSUME NEW u \in Uses', NEW w \in Uses', FrameOf(u)' = FrameOf(w)' PROVE u = w
  BY <1>1, <1>2, <1>5
<1> QED BY <1>4, <1>5 DEF FramesOwnedOnce

-----------------------------------------------------------------------------
(* A page that is mapped was given to somebody, and a program runs in the   *)
(* address space of a task.                                                 *)
Mappings ==
    /\ \A v \in SharedPages : holder[v] = "nobody" => shared[v] = Unmapped
    /\ current # 0 => current \in OfTasks

Inv == TypeOK /\ Mappings /\ FramesOwnedOnce

(* Shared pages that are mapped get the frames from number first on; the    *)
(* pages that were held keep theirs.                                        *)
LEMMA SharedMapped ==
    ASSUME Inv, NEW k \in Nat, NEW first \in Nat \ {0},
           first + k - 1 <= Cardinality(allocatable), NEW by \in {"kernel", "program"},
           shared' = Mapped(k, first), holder' = Held(k, by)
    PROVE  /\ shared' \in [SharedPages -> FrameOr]
           /\ holder' \in [SharedPages -> Holders]
           /\ \A v \in SharedPages : holder'[v] = "nobody" => shared'[v] = Unmapped
           /\ \A v \in Shareds' :
                  \/ /\ v \in FirstFew(VacantShared, k)
                     /\ shared'[v] = Frame(first + Rank(VacantShared, v) - 1)
                  \/ v \in Shareds /\ shared'[v] = shared[v]
<1> USE DEF Inv
<1>1. /\ shared \in [SharedPages -> FrameOr]
      /\ holder \in [SharedPages -> Holders]
  BY DEF TypeOK
<1>2. ASSUME NEW v \in FirstFew(VacantShared, k)
      PROVE  Frame(first + Rank(VacantShared, v) - 1) \in Frames
  <2>1. Rank(VacantShared, v) \in 1 .. k
    BY PagesTaken
  <2>2. first + k - 1 \in Nat /\ first + Rank(VacantShared, v) - 1 \in 1 .. first + k - 1
    BY <2>1
  <2> HIDE <1>2
  <2> QED BY <2>2, FramesTaken
<1>3. \A v \in SharedPages :
          shared'[v] = IF v \in FirstFew(VacantShared, k)
                       THEN Frame(first + Rank(VacantShared, v) - 1) ELSE shared[v]
  BY DEF Mapped
<1>4. \A v \in SharedPages :
          holder'[v] = IF v \in FirstFew(VacantShared, k) THEN by ELSE holder[v]
  BY DEF Held
<1>5. shared' \in [SharedPages -> FrameOr]
  BY <1>1, <1>2 DEF Mapped, FrameOr
<1>6. holder' \in [SharedPages -> Holders]
  BY <1>1 DEF Held, Holders
<1>7. \A v \in SharedPages : holder'[v] = "nobody" => shared'[v] = Unmapped
  BY <1>3, <1>4 DEF Mappings
<1> QED BY <1>3, <1>4, <1>5, <1>6, <1>7 DEF Shareds

(* One page in the shared part, for the kernel or for a program.            *)
LEMMA SharedPageAlloc ==
    ASSUME Inv, NEW by \in {"kernel", "program"}, Available(1, 1),
           shared' = Mapped(1, 1), holder' = Held(1, by),
           allocatable' = WithoutTaken(1), UNCHANGED <<spaces, current, history>>
    PROVE  Inv'
<1> USE DEF Inv
<1>1. 1 <= Cardinality(allocatable)
  BY DEF Available
<1>2. Frame(1) \in allocatable /\ Frame(1) \notin allocatable'
  BY <1>1, FramesTaken
<1>3. /\ shared' \in [SharedPages -> FrameOr]
      /\ holder' \in [SharedPages -> Holders]
      /\ \A v \in SharedPages : holder'[v] = "nobody" => shared'[v] = Unmapped
      /\ \A v \in Shareds' :
             \/ /\ v \in FirstFew(VacantShared, 1)
                /\ shared'[v] = Frame(1 + Rank(VacantShared, v) - 1)
             \/ v \in Shareds /\ shared'[v] = shared[v]
  <2>1. 1 + 1 - 1 <= Cardinality(allocatable) /\ 1 \in Nat \ {0} /\ 1 \in Nat
    BY <1>1
  <2> QED BY <2>1, SharedMapped
<1>4. \A v \in FirstFew(VacantShared, 1) :
          /\ 1 + Rank(VacantShared, v) - 1 = 1
          /\ \A w \in FirstFew(VacantShared, 1) : v = w
  BY PagesTaken
<1>5. allocatable' \subseteq allocatable
  BY DEF WithoutTaken
<1>6. TypeOK' /\ Mappings'
  BY <1>3, <1>5 DEF TypeOK, Mappings, Directories, OfTasks
<1>7. FramesOwnedOnce'
  <2> DEFINE New == {<<"shared", 0, v>> : v \in {w \in Shareds' : w \in FirstFew(VacantShared, 1)}}
  <2>1. \A u \in New : \E v \in FirstFew(VacantShared, 1) :
            v \in Shareds' /\ u = <<"shared", 0, v>>
    OBVIOUS
  <2>2. \A v \in Shareds' : v \in FirstFew(VacantShared, 1) => <<"shared", 0, v>> \in New
    OBVIOUS
  <2> HIDE DEF New
  <2>3. ASSUME NEW u \in New PROVE FrameOf(u)' = Frame(1)
    <3>1. PICK v \in FirstFew(VacantShared, 1) : v \in Shareds' /\ u = <<"shared", 0, v>>
      BY <2>1
    <3>2. shared'[v] = Frame(1)
      <4>1. v \notin Shareds
        <5>1. shared[v] \notin Frames
          BY PagesTaken, PagesAssumption DEF Unmapped
        <5> QED BY <5>1, SharedFrames
      <4>2. shared'[v] = Frame(1 + Rank(VacantShared, v) - 1)
        BY <1>3, <3>1, <4>1
      <4>3. 1 + Rank(VacantShared, v) - 1 = 1
        BY <1>4
      <4> QED BY <4>2, <4>3, Zenon
    <3> QED BY <3>1, <3>2, FramesWillBe
  <2>4. \A u, w \in New : FrameOf(u)' = FrameOf(w)' => u = w
    BY <1>4, <2>1
  <2>5. ASSUME NEW u \in Uses' PROVE u \in New \/ (u \in Uses \ {} /\ FrameOf(u)' = FrameOf(u))
    <3>1. CASE \E v \in Shareds' : u = <<"shared", 0, v>>
      BY <1>3, <2>2, <3>1, UsesAre, FramesAre, FramesWillBe
    <3>2. CASE ~ \E v \in Shareds' : u = <<"shared", 0, v>>
      <4>1. u \in Uses
        BY <3>2, UsesAre, UsesWillBe DEF Directories
      <4>2. FrameOf(u)' = FrameOf(u)
        BY <3>2, FramesAre, FramesWillBe, UsesWillBe
      <4> QED BY <4>1, <4>2
    <3> QED BY <3>1, <3>2
  <2>6. \A f \in allocatable' : f \in allocatable \/ \E u \in {} : f = FrameOf(u)
    BY <1>5
  <2>7. \A u \in New : FrameOf(u)' \in allocatable /\ FrameOf(u)' \notin allocatable'
    BY <1>2, <2>3
  <2> QED BY <2>4, <2>5, <2>6, <2>7, Ownership
<1> QED BY <1>6, <1>7

(* One page in the private part of the program that runs.                   *)
LEMMA PrivatePageAlloc ==
    ASSUME Inv, current # 0, Available(1, 0),
           NEW p \in PrivatePages, spaces[current].pages[p] = Unmapped,
           spaces' = [spaces EXCEPT ![current].pages[p] = Frame(1)],
           allocatable' = WithoutTaken(1), UNCHANGED <<shared, holder, current, history>>
    PROVE  Inv'
<1> USE DEF Inv
<1>1. Frame(1) \in allocatable /\ Frame(1) \notin allocatable' /\ Frame(1) \in Frames
  BY FramesTaken DEF Available
<1>2. allocatable' \subseteq allocatable
  BY DEF WithoutTaken
<1>3. current \in Directories /\ \A d \in Directories : spaces[d] \in Space
  BY DEF TypeOK
<1>4. /\ Directories' = Directories
      /\ \A d \in Directories : d # current => spaces'[d] = spaces[d]
      /\ spaces'[current] = [spaces[current] EXCEPT !.pages[p] = Frame(1)]
  BY <1>3 DEF Directories
<1>5. /\ spaces[current].task \in BOOLEAN
      /\ spaces[current].context \in Frames /\ spaces[current].tables \in Frames
      /\ spaces[current].pages \in [PrivatePages -> FrameOr]
  BY <1>3 DEF Space
<1>6. /\ spaces'[current] \in Space
      /\ spaces'[current].task = spaces[current].task
      /\ spaces'[current].context = spaces[current].context
      /\ spaces'[current].tables = spaces[current].tables
      /\ \A v \in PrivatePages : spaces'[current].pages[v] =
             IF v = p THEN Frame(1) ELSE spaces[current].pages[v]
  BY <1>1, <1>3, <1>4, <1>5 DEF Space, FrameOr
<1>7. TypeOK' /\ Mappings'
  BY <1>2, <1>3, <1>4, <1>6 DEF TypeOK, Mappings, OfTasks
<1>8. FramesOwnedOnce'
  <2> DEFINE New == {<<"private", current, p>>}
  <2>1. FrameOf(<<"private", current, p>>)' = Frame(1)
    BY <1>6, FramesWillBe
  <2>2. ASSUME NEW u \in Uses' PROVE u \in New \/ (u \in Uses \ {} /\ FrameOf(u)' = FrameOf(u))
    <3>1. CASE \E d \in Directories, v \in PrivatePages :
                   spaces'[d].pages[v] # Unmapped /\ u = <<"private", d, v>>
      BY <1>4, <1>6, <3>1, UsesAre, FramesAre, FramesWillBe
    <3>2. CASE \E v \in Shareds' : u = <<"shared", 0, v>>
      BY <3>2, UsesAre, FramesAre, FramesWillBe DEF Shareds
    <3>3. CASE \E d \in Directories : \/ u = <<"directory", d, 0>>
                                      \/ u = <<"context", d, 0>>
                                      \/ u = <<"tables", d, 0>>
      BY <1>4, <1>6, <3>3, UsesAre, FramesAre, FramesWillBe
    <3> QED BY <1>4, <3>1, <3>2, <3>3, UsesWillBe
  <2>3. \A f \in allocatable' : f \in allocatable \/ \E u \in {} : f = FrameOf(u)
    BY <1>2
  <2>4. \A u \in New : FrameOf(u)' \in allocatable /\ FrameOf(u)' \notin allocatable'
    BY <1>1, <2>1
  <2>5. \A u, w \in New : FrameOf(u)' = FrameOf(w)' => u = w
    OBVIOUS
  <2> HIDE DEF New
  <2> QED BY <2>2, <2>3, <2>4, <2>5, Ownership
<1> QED BY <1>7, <1>8

(* A page is given back.                                                    *)
LEMMA FreeKeeps ==
    ASSUME Inv, vmm_free, KernelPagesLeft
    PROVE  Inv'
<1> USE DEF Inv
<1>1. current # 0 /\ current \in Directories /\ current' = current /\ history' = history
      /\ \A d \in Directories : spaces[d] \in Space
  BY DEF TypeOK, vmm_free
<1>2. Unmapped \notin Frames
  BY PagesAssumption DEF Unmapped
<1>3. ASSUME NEW v \in SharedPages, shared[v] # Unmapped,
             allocatable' = allocatable \cup {shared[v]},
             shared' = [shared EXCEPT ![v] = Unmapped],
             holder' = [holder EXCEPT ![v] = "nobody"], UNCHANGED spaces
      PROVE  Inv'
  <2>0. holder[v] = "program"
    BY <1>3 DEF KernelPagesLeft, Mappings, TypeOK, Holders
  <2>1. v \in Shareds /\ <<"shared", 0, v>> \in Uses /\ shared[v] \in Frames
    BY <2>0, UsesAre, FramesAre DEF Shareds, FramesOwnedOnce
  <2>2. TypeOK' /\ Mappings'
    BY <1>1, <1>3, <2>1 DEF TypeOK, Mappings, Directories, OfTasks, FrameOr, Holders
  <2>3. \A w \in Shareds' : w \in Shareds /\ w # v /\ shared'[w] = shared[w]
    BY <1>3 DEF TypeOK, Shareds
  <2>4. ASSUME NEW u \in Uses'
        PROVE  u \in {} \/ (u \in Uses \ {<<"shared", 0, v>>} /\ FrameOf(u)' = FrameOf(u))
    <3>1. CASE \E w \in Shareds' : u = <<"shared", 0, w>>
      BY <2>3, <3>1, UsesAre, FramesAre, FramesWillBe
    <3>2. CASE ~ \E w \in Shareds' : u = <<"shared", 0, w>>
      <4>1. u \in Uses /\ u # <<"shared", 0, v>>
        BY <1>3, <3>2, UsesAre, UsesWillBe DEF Directories
      <4>2. FrameOf(u)' = FrameOf(u)
        BY <1>3, <3>2, FramesAre, FramesWillBe, UsesWillBe
      <4> QED BY <4>1, <4>2
    <3> QED BY <3>1, <3>2
  <2>5. \A f \in allocatable' :
            f \in allocatable \/ \E u \in {<<"shared", 0, v>>} : f = FrameOf(u)
    BY <1>3, FramesAre
  <2>6. FramesOwnedOnce'
    BY <2>1, <2>4, <2>5, Ownership
  <2> QED BY <2>2, <2>6
<1>4. ASSUME NEW p \in PrivatePages, spaces[current].pages[p] # Unmapped,
             allocatable' = allocatable \cup {spaces[current].pages[p]},
             spaces' = [spaces EXCEPT ![current].pages[p] = Unmapped],
             UNCHANGED <<shared, holder>>
      PROVE  Inv'
  <2>1. <<"private", current, p>> \in Uses /\ spaces[current].pages[p] \in Frames
    BY <1>1, <1>4, UsesAre, FramesAre DEF FramesOwnedOnce
  <2>2. /\ Directories' = Directories
        /\ \A d \in Directories : d # current => spaces'[d] = spaces[d]
        /\ spaces'[current] = [spaces[current] EXCEPT !.pages[p] = Unmapped]
    BY <1>1, <1>4 DEF Directories
  <2>3. /\ spaces[current].task \in BOOLEAN
        /\ spaces[current].context \in Frames /\ spaces[current].tables \in Frames
        /\ spaces[current].pages \in [PrivatePages -> FrameOr]
    BY <1>1 DEF Space
  <2>4. /\ spaces'[current] \in Space
        /\ spaces'[current].task = spaces[current].task
        /\ spaces'[current].context = spaces[current].context
        /\ spaces'[current].tables = spaces[current].tables
        /\ \A v \in PrivatePages : spaces'[current].pages[v] =
               IF v = p THEN Unmapped ELSE spaces[current].pages[v]
    BY <1>1, <2>2, <2>3 DEF Space, FrameOr
  <2>5. ASSUME NEW d \in Directories
        PROVE  /\ spaces'[d].context = spaces[d].context
               /\ spaces'[d].tables = spaces[d].tables
               /\ \A v \in PrivatePages :
                      \/ spaces'[d].pages[v] = spaces[d].pages[v] /\ ~(d = current /\ v = p)
                      \/ d = current /\ v = p /\ spaces'[d].pages[v] = Unmapped
    <3>1. CASE d = current
      BY <2>4, <3>1
    <3>2. CASE d # current
      <4>1. spaces'[d] = spaces[d]
        BY <2>2, <3>2
      <4> QED BY <3>2, <4>1
    <3> QED BY <3>1, <3>2
  <2>6. Directories' = Directories
    BY <2>2
  <2>7. TypeOK' /\ Mappings'
    BY <1>1, <1>4, <2>1, <2>2, <2>4 DEF TypeOK, Mappings, OfTasks
  <2>8. ASSUME NEW u \in Uses'
        PROVE  \/ u \in {}
               \/ u \in Uses \ {<<"private", current, p>>} /\ FrameOf(u)' = FrameOf(u)
    <3>1. CASE \E d \in Directories, v \in PrivatePages :
                   spaces'[d].pages[v] # Unmapped /\ u = <<"private", d, v>>
      <4>1. PICK d \in Directories, v \in PrivatePages :
                spaces'[d].pages[v] # Unmapped /\ u = <<"private", d, v>>
        BY <3>1
      <4>2. spaces'[d].pages[v] = spaces[d].pages[v] /\ ~(d = current /\ v = p)
        BY <2>5, <4>1
      <4>3. u \in Uses /\ u # <<"private", current, p>>
        BY <4>1, <4>2, UsesAre
      <4>4. FrameOf(u)' = FrameOf(u)
        BY <4>1, <4>2, FramesAre, FramesWillBe
      <4> QED BY <4>3, <4>4
    <3>2. CASE \E v \in Shareds' : u = <<"shared", 0, v>>
      <4>1. u # <<"private", current, p>>
        BY <3>2
      <4>2. u \in Uses
        BY <1>4, <3>2, UsesAre DEF Shareds
      <4>3. FrameOf(u)' = FrameOf(u)
        BY <1>4, <3>2, FramesAre, FramesWillBe
      <4> QED BY <4>1, <4>2, <4>3
    <3>3. CASE \E d \in Directories : \/ u = <<"directory", d, 0>>
                                      \/ u = <<"context", d, 0>>
                                      \/ u = <<"tables", d, 0>>
      <4>1. u # <<"private", current, p>>
        BY <3>3
      <4>2. u \in Uses
        BY <3>3, UsesAre
      <4>3. FrameOf(u)' = FrameOf(u)
        BY <2>5, <3>3, FramesAre, FramesWillBe
      <4> QED BY <4>1, <4>2, <4>3
    <3> QED BY <2>6, <3>1, <3>2, <3>3, UsesWillBe
  <2>9. \A f \in allocatable' :
            f \in allocatable \/ \E u \in {<<"private", current, p>>} : f = FrameOf(u)
    BY <1>4, FramesAre
  <2>10. FramesOwnedOnce'
    BY <2>1, <2>8, <2>9, Ownership
  <2> QED BY <2>7, <2>10
<1> QED BY <1>3, <1>4 DEF vmm_free

(***************************************************************************)
(* A new page directory, with the pages of the image in frames of their     *)
(* own and the arguments on shared pages: every new use has the number of   *)
(* the frame it takes, and no two have the same.                            *)
(***************************************************************************)
Pages(image) ==
    [v \in PrivatePages |->
        IF v \in image THEN Frame(Temporaries + Rank(image, v)) ELSE Unmapped]

NewUse(image, k, u, j) ==
    \/ j = 1 /\ u = <<"context", NewDirectory, 0>>
    \/ j = 2 /\ u = <<"directory", NewDirectory, 0>>
    \/ j = 4 /\ u = <<"tables", NewDirectory, 0>>
    \/ \E v \in image : j = 4 + Rank(image, v) /\ u = <<"private", NewDirectory, v>>
    \/ \E v \in FirstFew(VacantShared, k) :
           /\ j = 4 + Cardinality(image) + Rank(VacantShared, v)
           /\ u = <<"shared", 0, v>>

(* A frame taken from the allocatable ones gets one use.                    *)
LEMMA NewUsesDiffer ==
    ASSUME NEW image \in SUBSET PrivatePages, NEW k \in Nat, NEW u, NEW w, NEW j \in Nat,
           NewUse(image, k, u, j), NewUse(image, k, w, j)
    PROVE  u = w
<1> DEFINE size == Cardinality(image)
<1>1. image \in SUBSET Nat /\ IsFiniteSet(image) /\ size \in Nat
  BY PagesAssumption, FS_Subset, FS_CardinalityType
<1>2. \A v \in image : Rank(image, v) \in 1 .. size
  BY <1>1, RankRange
<1>3. \A v, x \in image : Rank(image, v) = Rank(image, x) => v = x
  BY <1>1, RankInjective
<1>4. \A v \in FirstFew(VacantShared, k) : Rank(VacantShared, v) \in 1 .. k
  BY PagesTaken
<1>5. \A v, x \in FirstFew(VacantShared, k) :
          Rank(VacantShared, v) = Rank(VacantShared, x) => v = x
  BY PagesTaken
<1> HIDE DEF size
<1>6. CASE j \in 5 .. 4 + size
  <2>1. PICK v \in image : j = 4 + Rank(image, v) /\ u = <<"private", NewDirectory, v>>
    BY <1>1, <1>4, <1>6 DEF NewUse, size
  <2>2. PICK x \in image : j = 4 + Rank(image, x) /\ w = <<"private", NewDirectory, x>>
    BY <1>1, <1>4, <1>6 DEF NewUse, size
  <2> QED BY <1>2, <1>3, <2>1, <2>2
<1>7. CASE j > 4 + size
  <2>1. PICK v \in FirstFew(VacantShared, k) :
            j = 4 + size + Rank(VacantShared, v) /\ u = <<"shared", 0, v>>
    BY <1>1, <1>2, <1>7 DEF NewUse, size
  <2>2. PICK x \in FirstFew(VacantShared, k) :
            j = 4 + size + Rank(VacantShared, x) /\ w = <<"shared", 0, x>>
    BY <1>1, <1>2, <1>7 DEF NewUse, size
  <2> QED BY <1>1, <1>4, <1>5, <2>1, <2>2
<1>8. CASE j <= 4
  BY <1>1, <1>2, <1>4, <1>8 DEF NewUse, size
<1> QED BY <1>1, <1>6, <1>7, <1>8

(* Making an address space gives its uses frames nobody used.               *)
LEMMA SpaceMade ==
    ASSUME Inv, NEW task \in BOOLEAN, NEW image \in SUBSET PrivatePages, NEW k \in Nat,
           4 + Cardinality(image) + k <= Cardinality(allocatable),
           spaces' = [d \in Directories \cup {NewDirectory} |->
                         IF d = NewDirectory THEN NewSpace(task, Pages(image)) ELSE spaces[d]],
           shared' = Mapped(k, 4 + Cardinality(image) + 1),
           holder' = Held(k, "program"),
           allocatable' = WithoutTaken(4 + Cardinality(image) + k),
           current' = current \/ (current' = NewDirectory /\ task),
           history' \in [started : Nat, failed : Nat, ended : Nat]
    PROVE  Inv'
<1> USE DEF Inv
<1> DEFINE size == Cardinality(image)
           total == 4 + size + k
<1>1. image \in SUBSET Nat /\ IsFiniteSet(image) /\ size \in Nat
  BY PagesAssumption, FS_Subset, FS_CardinalityType
<1>2. \A v \in image : Rank(image, v) \in 1 .. size
  BY <1>1, RankRange
<1>3. \A v \in FirstFew(VacantShared, k) : Rank(VacantShared, v) \in 1 .. k
  BY PagesTaken
<1> HIDE DEF size
<1>4. total \in Nat /\ total <= Cardinality(allocatable) /\ 1 .. 4 \subseteq 1 .. total
  BY <1>1 DEF size
<1>5. \A j \in 1 .. total :
          /\ Frame(j) \in allocatable /\ Frame(j) \in Frames /\ Frame(j) \notin allocatable'
          /\ \A i \in 1 .. total : Frame(j) = Frame(i) => j = i
  BY <1>4, FramesTaken DEF size
<1> HIDE DEF total
<1>6. allocatable' \subseteq allocatable
  BY DEF WithoutTaken
<1>7. NewDirectory \in Frames /\ NewDirectory \notin Directories
  <2>1. Frame(2) \in allocatable /\ Frame(2) \in Frames
    BY <1>4, <1>5
  <2> QED BY <2>1, DirectoriesNotFree DEF NewDirectory
<1>8. /\ Directories' = Directories \cup {NewDirectory}
      /\ \A d \in Directories : spaces'[d] = spaces[d]
      /\ spaces'[NewDirectory] = NewSpace(task, Pages(image))
  BY <1>7 DEF Directories
<1>9. /\ spaces'[NewDirectory].task = task
      /\ spaces'[NewDirectory].context = Frame(1)
      /\ spaces'[NewDirectory].tables = Frame(4)
      /\ \A v \in PrivatePages : spaces'[NewDirectory].pages[v] =
             IF v \in image THEN Frame(4 + Rank(image, v)) ELSE Unmapped
  BY <1>8 DEF NewSpace, Pages, Temporaries
<1>10. spaces'[NewDirectory] \in Space
  <2>1. Frame(1) \in Frames /\ Frame(4) \in Frames
    BY <1>4, <1>5
  <2>2. \A v \in image : 4 + Rank(image, v) \in 1 .. total
    BY <1>1, <1>2 DEF total
  <2>3. \A v \in image : Frame(4 + Rank(image, v)) \in Frames
    BY <1>5, <2>2
  <2>4. Pages(image) \in [PrivatePages -> FrameOr]
    BY <2>3 DEF Pages, FrameOr, Temporaries
  <2> QED BY <1>8, <2>1, <2>4 DEF NewSpace, Space
<1>11. /\ shared' \in [SharedPages -> FrameOr]
       /\ holder' \in [SharedPages -> Holders]
       /\ \A v \in SharedPages : holder'[v] = "nobody" => shared'[v] = Unmapped
       /\ \A v \in Shareds' :
              \/ /\ v \in FirstFew(VacantShared, k)
                 /\ shared'[v] = Frame(5 + size + Rank(VacantShared, v) - 1)
              \/ v \in Shareds /\ shared'[v] = shared[v]
  <2>1. 5 + size \in Nat \ {0} /\ 4 + size + 1 = 5 + size
    BY <1>1
  <2>2. 5 + size + k - 1 <= Cardinality(allocatable)
    BY <1>1, <1>4 DEF total
  <2>3. shared' = Mapped(k, 5 + size)
    BY <2>1 DEF size
  <2> QED BY <2>1, <2>2, <2>3, SharedMapped
<1>12. TypeOK' /\ Mappings'
  <2>1. TypeOK'
    BY <1>6, <1>7, <1>8, <1>10, <1>11 DEF TypeOK
  <2>2. current' # 0 => current' \in OfTasks'
    BY <1>8, <1>9 DEF Mappings, OfTasks
  <2> QED BY <1>11, <2>1, <2>2 DEF Mappings
<1>13. FramesOwnedOnce'
  <2> DEFINE New == {u \in Uses' : \E j \in 1 .. total : NewUse(image, k, u, j)}
  <2>1. ASSUME NEW u \in Uses', NEW j \in 1 .. total, NewUse(image, k, u, j)
        PROVE  FrameOf(u)' = Frame(j)
    <3>1. CASE j = 1 /\ u = <<"context", NewDirectory, 0>>
      BY <1>9, <3>1, FramesWillBe
    <3>2. CASE j = 2 /\ u = <<"directory", NewDirectory, 0>>
      BY <3>2, FramesWillBe DEF NewDirectory
    <3>3. CASE j = 4 /\ u = <<"tables", NewDirectory, 0>>
      BY <1>9, <3>3, FramesWillBe
    <3>4. CASE \E v \in image : j = 4 + Rank(image, v) /\ u = <<"private", NewDirectory, v>>
      <4>1. PICK v \in image : j = 4 + Rank(image, v) /\ u = <<"private", NewDirectory, v>>
        BY <3>4
      <4>2. spaces'[NewDirectory].pages[v] = Frame(j)
        BY <1>9, <4>1
      <4> QED BY <4>1, <4>2, FramesWillBe
    <3>5. CASE \E v \in FirstFew(VacantShared, k) :
                   j = 4 + size + Rank(VacantShared, v) /\ u = <<"shared", 0, v>>
      <4>1. PICK v \in FirstFew(VacantShared, k) :
                j = 4 + size + Rank(VacantShared, v) /\ u = <<"shared", 0, v>>
        BY <3>5
      <4>2. v \in Shareds'
        <5>1. \E w \in Shareds' : u = <<"shared", 0, w>>
          BY <2>1, <4>1, UsesWillBe
        <5> QED BY <4>1, <5>1
      <4>3. v \notin Shareds
        <5>1. shared[v] \notin Frames
          BY PagesTaken, PagesAssumption DEF Unmapped
        <5> QED BY <5>1, SharedFrames
      <4>4. 5 + size + Rank(VacantShared, v) - 1 = j
        BY <1>1, <1>3, <4>1
      <4>5. shared'[v] = Frame(5 + size + Rank(VacantShared, v) - 1)
        BY <1>11, <4>2, <4>3
      <4>6. shared'[v] = Frame(j)
        BY <4>4, <4>5, Zenon
      <4> QED BY <4>1, <4>6, FramesWillBe
    <3> QED BY <2>1, <3>1, <3>2, <3>3, <3>4, <3>5 DEF NewUse, size
  <2>2. ASSUME NEW u \in Uses'
        PROVE  u \in New \/ (u \in Uses \ {} /\ FrameOf(u)' = FrameOf(u))
    <3>1. CASE \E v \in Shareds' : u = <<"shared", 0, v>>
      <4>1. PICK v \in Shareds' : u = <<"shared", 0, v>>
        BY <3>1
      <4>2. CASE v \in FirstFew(VacantShared, k)
        <5>1. 4 + size + Rank(VacantShared, v) \in 1 .. total
          BY <1>1, <1>3, <4>2 DEF total
        <5>2. NewUse(image, k, u, 4 + size + Rank(VacantShared, v))
          BY <4>1, <4>2 DEF NewUse, size
        <5> QED BY <5>1, <5>2
      <4>3. CASE v \in Shareds /\ shared'[v] = shared[v]
        BY <4>1, <4>3, UsesAre, FramesAre, FramesWillBe
      <4> QED BY <1>11, <4>2, <4>3
    <3>2. CASE \E d \in Directories' : \/ u = <<"directory", d, 0>>
                                       \/ u = <<"context", d, 0>>
                                       \/ u = <<"tables", d, 0>>
      <4>1. PICK d \in Directories' : \/ u = <<"directory", d, 0>>
                                      \/ u = <<"context", d, 0>>
                                      \/ u = <<"tables", d, 0>>
        BY <3>2
      <4>2. CASE d = NewDirectory
        <5>1. \/ NewUse(image, k, u, 1)
              \/ NewUse(image, k, u, 2)
              \/ NewUse(image, k, u, 4)
          BY <4>1, <4>2 DEF NewUse
        <5> QED BY <1>4, <5>1
      <4>3. CASE d \in Directories
        <5>1. u \in Uses
          BY <4>1, <4>3, UsesAre
        <5>2. FrameOf(u)' = FrameOf(u)
          <6>1. spaces'[d] = spaces[d]
            BY <1>8, <4>3
          <6>2. CASE u = <<"directory", d, 0>>
            BY <6>2, FramesAre, FramesWillBe
          <6>3. CASE u = <<"context", d, 0>>
            BY <6>1, <6>3, FramesAre, FramesWillBe
          <6>4. CASE u = <<"tables", d, 0>>
            BY <6>1, <6>4, FramesAre, FramesWillBe
          <6> QED BY <4>1, <6>2, <6>3, <6>4
        <5> QED BY <5>1, <5>2
      <4> QED BY <1>8, <4>2, <4>3
    <3>3. CASE \E d \in Directories', v \in PrivatePages :
                   spaces'[d].pages[v] # Unmapped /\ u = <<"private", d, v>>
      <4>1. PICK d \in Directories', v \in PrivatePages :
                spaces'[d].pages[v] # Unmapped /\ u = <<"private", d, v>>
        BY <3>3
      <4>2. CASE d = NewDirectory
        <5>1. v \in image
          BY <1>9, <4>1, <4>2
        <5>2. 4 + Rank(image, v) \in 1 .. total
          BY <1>1, <1>2, <5>1 DEF total
        <5>3. NewUse(image, k, u, 4 + Rank(image, v))
          BY <4>1, <4>2, <5>1 DEF NewUse
        <5> QED BY <5>2, <5>3
      <4>3. CASE d \in Directories
        <5>1. u \in Uses
          BY <1>8, <4>1, <4>3, UsesAre
        <5>2. FrameOf(u)' = FrameOf(u)
          <6>1. spaces'[d] = spaces[d]
            BY <1>8, <4>3
          <6> QED BY <4>1, <6>1, FramesAre, FramesWillBe
        <5> QED BY <5>1, <5>2
      <4> QED BY <1>8, <4>2, <4>3
    <3> QED BY <3>1, <3>2, <3>3, UsesWillBe
  <2>3. \A u \in New : \E j \in 1 .. total : FrameOf(u)' = Frame(j) /\ NewUse(image, k, u, j)
    BY <2>1
  <2> HIDE DEF New
  <2>4. \A u \in New : FrameOf(u)' \in allocatable /\ FrameOf(u)' \notin allocatable'
    BY <1>5, <2>3
  <2>5. ASSUME NEW u \in New, NEW w \in New, FrameOf(u)' = FrameOf(w)' PROVE u = w
    <3>1. PICK i \in 1 .. total : FrameOf(u)' = Frame(i) /\ NewUse(image, k, u, i)
      BY <2>3
    <3>2. PICK j \in 1 .. total : FrameOf(w)' = Frame(j) /\ NewUse(image, k, w, j)
      BY <2>3
    <3>3. i = j
      BY <1>5, <2>5, <3>1, <3>2
    <3>4. i \in Nat
      BY <1>4
    <3> QED BY <3>1, <3>2, <3>3, <3>4, NewUsesDiffer
  <2>6. \A f \in allocatable' : f \in allocatable \/ \E u \in {} : f = FrameOf(u)
    BY <1>6
  <2> QED BY <2>2, <2>4, <2>5, <2>6, Ownership
<1> QED BY <1>12, <1>13

(* vfs_exec is such a step, whether the program is loaded or not.           *)
LEMMA ExecKeeps ==
    ASSUME Inv, vfs_exec \/ vfs_exec_failed
    PROVE  Inv'
<1>1. CASE vfs_exec
  <2>1. Image \in SUBSET PrivatePages /\ ArgPages \in Nat
    BY PagesAssumption
  <2>2. 4 + Cardinality(Image) + ArgPages <= Cardinality(allocatable)
    BY <1>1 DEF vfs_exec, Available, Temporaries
  <2>3. Loaded = Pages(Image)
    BY DEF Loaded, Pages
  <2>4. /\ spaces' = [d \in Directories \cup {NewDirectory} |->
                         IF d = NewDirectory THEN NewSpace(TRUE, Pages(Image)) ELSE spaces[d]]
        /\ shared' = Mapped(ArgPages, 4 + Cardinality(Image) + 1)
        /\ holder' = Held(ArgPages, "program")
        /\ allocatable' = WithoutTaken(4 + Cardinality(Image) + ArgPages)
        /\ current' = current \/ (current' = NewDirectory /\ TRUE)
    BY <1>1, <2>3 DEF vfs_exec, Temporaries
  <2>5. history' \in [started : Nat, failed : Nat, ended : Nat]
    BY <1>1 DEF vfs_exec, Inv, TypeOK
  <2> QED BY <2>1, <2>2, <2>4, <2>5, SpaceMade
<1>2. CASE vfs_exec_failed
  <2>1. {} \in SUBSET PrivatePages /\ Cardinality({}) = 0 /\ 0 \in Nat
    BY FS_EmptySet
  <2>2. 4 + 0 + 0 <= Cardinality(allocatable)
    BY <1>2 DEF vfs_exec_failed, Available, Temporaries
  <2>3. Empty = Pages({})
    BY DEF Empty, Pages
  <2>4. \A v \in FirstFew(VacantShared, 0) : FALSE
    BY <2>1, PagesTaken
  <2>5. Mapped(0, 4 + 0 + 1) = shared /\ Held(0, "program") = holder
    BY <2>4 DEF Mapped, Held, Inv, TypeOK
  <2>6. /\ spaces' = [d \in Directories \cup {NewDirectory} |->
                         IF d = NewDirectory THEN NewSpace(FALSE, Pages({})) ELSE spaces[d]]
        /\ shared' = Mapped(0, 4 + 0 + 1)
        /\ holder' = Held(0, "program")
        /\ allocatable' = WithoutTaken(4 + 0 + 0)
        /\ current' = current \/ (current' = NewDirectory /\ FALSE)
    BY <1>2, <2>3, <2>5 DEF vfs_exec_failed, Temporaries
  <2>7. history' \in [started : Nat, failed : Nat, ended : Nat]
    BY <1>2 DEF vfs_exec_failed, Inv, TypeOK
  <2> QED BY <2>1, <2>2, <2>6, <2>7, SpaceMade
<1> QED BY <1>1, <1>2

(* A task that ends: the frames that become free are those of its directory,*)
(* of its tables and of its pages, and nobody uses them any more.           *)
LEMMA TerminateKeeps ==
    ASSUME Inv, terminate_current
    PROVE  Inv'
<1> USE DEF Inv
<1> DEFINE ppd == Lowest(VacantShared, 1)
           ppt == Lowest(VacantShared, 2)
<1>1. /\ shared' = [shared EXCEPT ![ppd] = current, ![ppt] = spaces[current].tables]
      /\ holder' = [v \in SharedPages |->
                       IF v \in {ppd, ppt} THEN "stale" ELSE holder[v]]
      /\ allocatable' = allocatable \cup FreedFrames(current)
      /\ spaces' = [d \in Directories \ {current} |-> spaces[d]]
      /\ current' \in OfTasks \ {current}
      /\ history' = [history EXCEPT !.ended = @ + 1]
  BY DEF terminate_current, vmm_free_current_pagetables
<1>2. current \in Directories /\ \A d \in Directories : spaces[d] \in Space
  BY DEF terminate_current, TypeOK
<1>3. /\ current \in Frames /\ spaces[current].tables \in Frames
      /\ spaces[current].pages \in [PrivatePages -> FrameOr]
  BY <1>2 DEF Space, TypeOK
<1>4. /\ Directories' = Directories \ {current}
      /\ \A d \in Directories \ {current} : spaces'[d] = spaces[d]
  BY <1>1 DEF Directories
<1>5. FreedFrames(current) \subseteq Frames
  BY <1>3 DEF FreedFrames, MappedPages, FrameOr
<1>6. shared' \in [SharedPages -> FrameOr]
  BY <1>1, <1>3 DEF TypeOK, FrameOr
<1>7. /\ holder' \in [SharedPages -> Holders]
      /\ \A v \in SharedPages : holder'[v] = "nobody" => shared'[v] = Unmapped
  BY <1>1 DEF TypeOK, Mappings, Holders
<1>8. current' \in OfTasks' /\ OfTasks' \subseteq Directories'
  BY <1>1, <1>4 DEF OfTasks
<1>9. TypeOK' /\ Mappings'
  <2>1. allocatable' \subseteq Frames
    BY <1>1, <1>5 DEF TypeOK
  <2>2. Directories' \subseteq Frames
    BY <1>4 DEF TypeOK
  <2>3. \A d \in Directories' : spaces'[d] \in Space
    BY <1>2, <1>4
  <2>4. history' \in [started : Nat, failed : Nat, ended : Nat]
    BY <1>1 DEF TypeOK
  <2> QED BY <1>6, <1>7, <1>8, <2>1, <2>2, <2>3, <2>4 DEF TypeOK, Mappings
<1>10. FramesOwnedOnce'
  <2> DEFINE Gone == {u \in Uses : u[2] = current}
  <2>1. \A v \in Shareds' : v \in Shareds /\ shared'[v] = shared[v]
    <3>1. \A v \in Shareds' : v \in SharedPages /\ v \notin {ppd, ppt} /\ holder'[v] = holder[v]
      BY <1>1 DEF Shareds
    <3>2. \A v \in Shareds' : shared'[v] = shared[v]
      BY <1>1, <3>1 DEF TypeOK
    <3> QED BY <3>1, <3>2 DEF Shareds
  <2>2. current # 0
    BY DEF terminate_current
  <2>3. ASSUME NEW u \in Uses' PROVE u \in {} \/ (u \in Uses \ Gone /\ FrameOf(u)' = FrameOf(u))
    <3>1. CASE \E v \in Shareds' : u = <<"shared", 0, v>>
      <4>1. u[2] = 0 /\ u \in Uses
        BY <2>1, <3>1, UsesAre
      <4>2. FrameOf(u)' = FrameOf(u)
        BY <2>1, <3>1, FramesAre, FramesWillBe
      <4> QED BY <2>2, <4>1, <4>2
    <3>2. CASE \E d \in Directories' : \/ u = <<"directory", d, 0>>
                                       \/ u = <<"context", d, 0>>
                                       \/ u = <<"tables", d, 0>>
      <4>1. u[2] # current /\ u \in Uses
        BY <1>4, <3>2, UsesAre
      <4>2. FrameOf(u)' = FrameOf(u)
        BY <1>4, <3>2, FramesAre, FramesWillBe
      <4> QED BY <4>1, <4>2
    <3>3. CASE \E d \in Directories', v \in PrivatePages :
                   spaces'[d].pages[v] # Unmapped /\ u = <<"private", d, v>>
      <4>1. u[2] # current /\ u \in Uses
        BY <1>4, <3>3, UsesAre
      <4>2. FrameOf(u)' = FrameOf(u)
        BY <1>4, <3>3, FramesAre, FramesWillBe
      <4> QED BY <4>1, <4>2
    <3> QED BY <3>1, <3>2, <3>3, UsesWillBe
  <2>4. ASSUME NEW f \in allocatable', f \notin allocatable
        PROVE  \E u \in Gone : f = FrameOf(u)
    <3>1. \/ f = current
          \/ f = spaces[current].tables
          \/ \E v \in PrivatePages : spaces[current].pages[v] # Unmapped
                                     /\ f = spaces[current].pages[v]
      BY <1>1, <2>4 DEF FreedFrames, MappedPages
    <3>2. CASE f = current
      <4>1. <<"directory", current, 0>> \in Gone
        BY <1>2, UsesAre
      <4> QED BY <3>2, <4>1, FramesAre
    <3>3. CASE f = spaces[current].tables
      <4>1. <<"tables", current, 0>> \in Gone
        BY <1>2, UsesAre
      <4> QED BY <3>3, <4>1, FramesAre
    <3>4. ASSUME NEW v \in PrivatePages, spaces[current].pages[v] # Unmapped,
                 f = spaces[current].pages[v]
          PROVE  \E u \in Gone : f = FrameOf(u)
      <4>1. <<"private", current, v>> \in Gone
        BY <1>2, <3>4, UsesAre
      <4> QED BY <3>4, <4>1, FramesAre
    <3> QED BY <3>1, <3>2, <3>3, <3>4
  <2> HIDE DEF Gone
  <2>5. Gone \in SUBSET Uses
    BY DEF Gone
  <2>6. \A f \in allocatable' : f \in allocatable \/ \E u \in Gone : f = FrameOf(u)
    BY <2>4
  <2>7. TypeOK /\ FramesOwnedOnce
    OBVIOUS
  <2>8. \A u \in Uses' : u \in {} \/ (u \in Uses \ Gone /\ FrameOf(u)' = FrameOf(u))
    BY <2>3
  <2>9. PICK gone \in SUBSET Uses : gone = Gone
    BY <2>5
  <2>10. PICK new : new = {}
    OBVIOUS
  <2>11. /\ \A u \in Uses' : u \in new \/ (u \in Uses \ gone /\ FrameOf(u)' = FrameOf(u))
         /\ \A f \in allocatable' : f \in allocatable \/ \E u \in gone : f = FrameOf(u)
         /\ \A u \in new : FrameOf(u)' \in allocatable /\ FrameOf(u)' \notin allocatable'
         /\ \A u, w \in new : FrameOf(u)' = FrameOf(w)' => u = w
    BY <2>6, <2>8, <2>9, <2>10
  <2> QED BY ONLY <2>7, <2>9, <2>11, Ownership
<1> QED BY <1>9, <1>10

-----------------------------------------------------------------------------
(* The search of the private part finds a page of it that is vacant.        *)
LEMMA LowestVacant ==
    LET vacant == {v \in PrivatePages : spaces[current].pages[v] = Unmapped}
    IN vacant # {} => Lowest(vacant, 1) \in vacant
<1> DEFINE vacant == {v \in PrivatePages : spaces[current].pages[v] = Unmapped}
<1> SUFFICES ASSUME vacant # {} PROVE Lowest(vacant, 1) \in vacant
  OBVIOUS
<1>1. vacant \in SUBSET Nat /\ IsFiniteSet(vacant)
  BY PagesAssumption, FS_Subset
<1> HIDE DEF vacant
<1>2. 1 \in 1 .. Cardinality(vacant)
  <2>1. Cardinality(vacant) \in Nat /\ Cardinality(vacant) # 0
    BY <1>1, FS_CardinalityType, FS_EmptySet
  <2> QED BY <2>1
<1> QED BY <1>1, <1>2, LowestRank

(* Every step of programs that leave the kernel's pages alone keeps it.     *)
LEMMA Step ==
    ASSUME Inv, [Next /\ KernelPagesLeft]_vars
    PROVE  Inv'
<1>1. CASE vmm_alloc
  <2>1. "kernel" \in {"kernel", "program"}
    OBVIOUS
  <2> QED BY <1>1, <2>1, SharedPageAlloc DEF vmm_alloc
<1>2. CASE vmm_alloc_ucont
  <2>1. current # 0 /\ UNCHANGED <<current, history>> /\ allocatable' = WithoutTaken(1)
    BY <1>2 DEF vmm_alloc_ucont
  <2>2. CASE /\ Available(1, 1) /\ shared' = Mapped(1, 1)
             /\ holder' = Held(1, "program") /\ UNCHANGED spaces
    <3>1. "program" \in {"kernel", "program"}
      OBVIOUS
    <3> QED BY <2>1, <2>2, <3>1, SharedPageAlloc
  <2>3. CASE Available(1, 0) /\ UNCHANGED <<shared, holder>>
             /\ LET vacant == {v \in PrivatePages : spaces[current].pages[v] = Unmapped}
                IN /\ vacant # {}
                   /\ spaces' = [spaces EXCEPT ![current].pages[Lowest(vacant, 1)] = Frame(1)]
    <3>1. PICK p \in PrivatePages :
              /\ spaces[current].pages[p] = Unmapped
              /\ spaces' = [spaces EXCEPT ![current].pages[p] = Frame(1)]
      BY <2>3, LowestVacant
    <3> QED BY <2>1, <2>3, <3>1, PrivatePageAlloc
  <2> QED BY <1>2, <2>2, <2>3 DEF vmm_alloc_ucont
<1>3. CASE vmm_free /\ KernelPagesLeft
  BY <1>3, FreeKeeps
<1>4. CASE vfs_exec \/ vfs_exec_failed
  BY <1>4, ExecKeeps
<1>5. CASE terminate_current
  BY <1>5, TerminateKeeps
<1>6. CASE vmm_activate_pagedir \/ UNCHANGED vars
  <2>1. /\ UNCHANGED <<allocatable, shared, holder, spaces, history>>
        /\ current' = current \/ current' \in OfTasks
    BY <1>6 DEF vmm_activate_pagedir, vars
  <2>2. TypeOK' /\ Mappings'
    BY <2>1 DEF Inv, TypeOK, Mappings, Directories, OfTasks
  <2>3. Uses' = Uses /\ \A u : FrameOf(u)' = FrameOf(u)
    BY <2>1 DEF Uses, FrameOf, Directories, MappedPages, Shareds
  <2>4. FramesOwnedOnce'
    BY <2>1, <2>3 DEF Inv, FramesOwnedOnce
  <2> QED BY <2>2, <2>4 DEF Inv
<1> QED BY <1>1, <1>2, <1>3, <1>4, <1>5, <1>6 DEF Next

(* At the start all frames are free and nothing uses one.                   *)
LEMMA InitInv == Init => Inv
<1> SUFFICES ASSUME Init PROVE Inv
  OBVIOUS
<1>1. Directories = {} /\ current = 0 /\ allocatable = Frames
  BY DEF Init, Directories
<1>2. TypeOK /\ Mappings
  BY <1>1 DEF Init, TypeOK, Mappings, FrameOr, Holders
<1>3. Shareds = {}
  BY DEF Init, Shareds
<1>4. \A u : u \notin Uses
  BY <1>1, <1>3, UsesAre
<1> QED BY <1>2, <1>4 DEF Inv, FramesOwnedOnce

-----------------------------------------------------------------------------
(* The frames that are lost, and what a step must do to them.               *)
Lost == Frames \ (allocatable \cup OfUse)

Counted ==
    Cardinality(Lost) = history.started + Temporaries * history.failed + history.ended

(* The uses that are not lost, kind by kind, before a step and after it.    *)
LEMMA NeededAre ==
    ASSUME NEW u
    PROVE  u \in Needed <=>
               \/ \E v \in Shareds : u = <<"shared", 0, v>>
               \/ \E d \in OfTasks : \/ u = <<"directory", d, 0>>
                                     \/ u = <<"context", d, 0>>
                                     \/ u = <<"tables", d, 0>>
               \/ \E d \in OfTasks, v \in PrivatePages :
                      spaces[d].pages[v] # Unmapped /\ u = <<"private", d, v>>
BY UsesAre DEF Needed, OfTasks

(* The same after a step.                                                   *)
LEMMA NeededWillBe ==
    ASSUME NEW u
    PROVE  u \in Needed' <=>
               \/ \E v \in Shareds' : u = <<"shared", 0, v>>
               \/ \E d \in OfTasks' : \/ u = <<"directory", d, 0>>
                                      \/ u = <<"context", d, 0>>
                                      \/ u = <<"tables", d, 0>>
               \/ \E d \in OfTasks', v \in PrivatePages :
                      spaces'[d].pages[v] # Unmapped /\ u = <<"private", d, v>>
BY UsesWillBe DEF Needed, OfTasks

(* A frame that is free or of use is not lost, and the uses that are not    *)
(* lost have frames that are not free, each its own.                        *)
LEMMA NeededOnce ==
    ASSUME Inv
    PROVE  /\ \A u \in Needed : FrameOf(u) \in Frames \ allocatable
           /\ \A u, w \in Needed : FrameOf(u) = FrameOf(w) => u = w
BY DEF Inv, FramesOwnedOnce, Needed

(* One frame more is lost.                                                  *)
LEMMA OneLost ==
    ASSUME NEW S \in SUBSET Frames, NEW x \in Frames \ S
    PROVE  /\ Cardinality(S) \in Nat
           /\ Cardinality(S \cup {x}) = Cardinality(S) + 1
<1>1. IsFiniteSet(S)
  BY PagesAssumption, FS_Subset
<1> QED BY <1>1, FS_AddElement, FS_CardinalityType

(* A step that begins and ends uses without losing a frame.                 *)
LEMMA NothingLost ==
    ASSUME Inv, Counted, history' = history,
           \A f \in Frames : f \in allocatable' \cup OfUse' <=> f \in allocatable \cup OfUse
    PROVE  Counted'
<1>1. Lost' = Lost
  BY DEF Lost
<1> QED BY <1>1 DEF Counted

(* The frames that are taken are the first ones.                            *)
LEMMA TakenAre ==
    ASSUME TypeOK, NEW total \in Nat, total <= Cardinality(allocatable), NEW f
    PROVE  f \in WithoutTaken(total) <=>
               f \in allocatable /\ ~ \E j \in 1 .. total : f = Frame(j)
<1>1. allocatable \in SUBSET Nat /\ IsFiniteSet(allocatable)
  BY PagesAssumption, FS_Subset DEF TypeOK
<1>2. Cardinality(allocatable) \in Nat
  BY <1>1, FS_CardinalityType
<1>3. \A j \in 1 .. Cardinality(allocatable) :
          Frame(j) \in allocatable /\ Rank(allocatable, Frame(j)) = j
  BY <1>1, LowestRank DEF Frame
<1>4. \A x \in allocatable : Rank(allocatable, x) \in 1 .. Cardinality(allocatable)
  BY <1>1, RankRange
<1>5. ASSUME NEW x \in allocatable PROVE x = Frame(Rank(allocatable, x))
  <2> DEFINE y == Frame(Rank(allocatable, x))
  <2>1. y \in allocatable /\ Rank(allocatable, y) = Rank(allocatable, x)
    BY <1>3, <1>4
  <2> HIDE DEF y
  <2>2. y = x
    BY <1>1, <2>1, RankInjective
  <2> QED BY <2>2 DEF y
<1>6. ASSUME NEW x \in allocatable
      PROVE  x \in FirstFew(allocatable, total) <=> \E j \in 1 .. total : x = Frame(j)
  BY <1>2, <1>3, <1>4, <1>5 DEF FirstFew
<1> QED BY <1>6 DEF WithoutTaken, FirstFew

(* As many shared pages as there are vacant ones can be taken.              *)
LEMMA PagesSuffice ==
    ASSUME NEW k \in Nat, k <= Cardinality(VacantShared), NEW j \in 1 .. k
    PROVE  \E v \in FirstFew(VacantShared, k) : Rank(VacantShared, v) = j
<1>1. VacantShared \in SUBSET Nat /\ IsFiniteSet(VacantShared)
  BY PagesAssumption, FS_Subset DEF VacantShared
<1>2. Cardinality(VacantShared) \in Nat
  BY <1>1, FS_CardinalityType
<1>3. j \in 1 .. Cardinality(VacantShared) /\ j <= k
  BY <1>2
<1>4. Lowest(VacantShared, j) \in VacantShared /\ Rank(VacantShared, Lowest(VacantShared, j)) = j
  BY <1>1, <1>3, LowestRank
<1> QED BY <1>3, <1>4 DEF FirstFew

(* The shared pages that are held after some are mapped, and their frames.  *)
LEMMA SharedHeld ==
    ASSUME Inv, NEW k \in Nat, NEW first \in Nat, NEW by \in {"kernel", "program"},
           shared' = Mapped(k, first), holder' = Held(k, by)
    PROVE  /\ Shareds' = Shareds \cup FirstFew(VacantShared, k)
           /\ \A v \in Shareds : shared'[v] = shared[v]
           /\ \A v \in FirstFew(VacantShared, k) :
                  shared'[v] = Frame(first + Rank(VacantShared, v) - 1)
<1>1. FirstFew(VacantShared, k) \subseteq SharedPages
  BY PagesTaken
<1>2. \A v \in Shareds : v \notin FirstFew(VacantShared, k)
  <2>1. \A v \in Shareds : shared[v] \in Frames
    BY SharedFrames DEF Inv
  <2>2. \A v \in FirstFew(VacantShared, k) : shared[v] \notin Frames
    BY PagesTaken, PagesAssumption DEF Unmapped
  <2> QED BY <2>1, <2>2
<1>3. \A v \in SharedPages :
          /\ shared'[v] = IF v \in FirstFew(VacantShared, k)
                          THEN Frame(first + Rank(VacantShared, v) - 1) ELSE shared[v]
          /\ holder'[v] = IF v \in FirstFew(VacantShared, k) THEN by ELSE holder[v]
  BY DEF Mapped, Held
<1>4. Shareds' = Shareds \cup FirstFew(VacantShared, k)
  BY <1>1, <1>2, <1>3 DEF Shareds
<1>5. \A v \in Shareds : shared'[v] = shared[v]
  BY <1>2, <1>3 DEF Shareds
<1>6. \A v \in FirstFew(VacantShared, k) :
          shared'[v] = Frame(first + Rank(VacantShared, v) - 1)
  BY <1>1, <1>3
<1> QED BY <1>4, <1>5, <1>6

(* The frames of use: those of shared pages and those of each task.         *)
PartOf(d, f) ==
    \/ f = d \/ f = spaces[d].context \/ f = spaces[d].tables
    \/ \E v \in PrivatePages : spaces[d].pages[v] # Unmapped /\ f = spaces[d].pages[v]

(* A frame is of use to a shared page or to a task.                         *)
LEMMA OfUseAre ==
    ASSUME NEW f
    PROVE  f \in OfUse <=> (\E v \in Shareds : f = shared[v]) \/ \E d \in OfTasks : PartOf(d, f)
<1>1. ASSUME f \in OfUse
      PROVE  (\E v \in Shareds : f = shared[v]) \/ \E d \in OfTasks : PartOf(d, f)
  <2>1. PICK u \in Needed : f = FrameOf(u)
    BY <1>1 DEF OfUse
  <2> QED BY <2>1, NeededAre, FramesAre DEF PartOf
<1>2. ASSUME NEW v \in Shareds, f = shared[v] PROVE f \in OfUse
  <2>1. <<"shared", 0, v>> \in Needed
    BY NeededAre
  <2> QED BY <1>2, <2>1, FramesAre DEF OfUse
<1>3. ASSUME NEW d \in OfTasks, PartOf(d, f) PROVE f \in OfUse
  <2>1. <<"directory", d, 0>> \in Needed /\ <<"context", d, 0>> \in Needed
        /\ <<"tables", d, 0>> \in Needed
    BY NeededAre
  <2>2. \A v \in PrivatePages : spaces[d].pages[v] # Unmapped => <<"private", d, v>> \in Needed
    BY NeededAre
  <2>3. CASE f = d \/ f = spaces[d].context \/ f = spaces[d].tables
    <3>1. \E u \in Needed : f = FrameOf(u)
      BY <2>1, <2>3, FramesAre
    <3> QED BY <3>1 DEF OfUse
  <2>4. CASE \E v \in PrivatePages : spaces[d].pages[v] # Unmapped /\ f = spaces[d].pages[v]
    <3>1. \E u \in Needed : f = FrameOf(u)
      BY <2>2, <2>4, FramesAre
    <3> QED BY <3>1 DEF OfUse
  <2> QED BY <1>3, <2>3, <2>4 DEF PartOf
<1> QED BY <1>1, <1>2, <1>3

(* The same after a step.                                                   *)
LEMMA OfUseWillBe ==
    ASSUME NEW f
    PROVE  f \in OfUse' <=>
               (\E v \in Shareds' : f = shared'[v]) \/ \E d \in OfTasks' : PartOf(d, f)'
<1>1. ASSUME f \in OfUse'
      PROVE  (\E v \in Shareds' : f = shared'[v]) \/ \E d \in OfTasks' : PartOf(d, f)'
  <2>1. PICK u \in Needed' : f = FrameOf(u)'
    BY <1>1 DEF OfUse
  <2> QED BY <2>1, NeededWillBe, FramesWillBe DEF PartOf
<1>2. ASSUME NEW v \in Shareds', f = shared'[v] PROVE f \in OfUse'
  <2>1. <<"shared", 0, v>> \in Needed'
    BY NeededWillBe
  <2> QED BY <1>2, <2>1, FramesWillBe DEF OfUse
<1>3. ASSUME NEW d \in OfTasks', PartOf(d, f)' PROVE f \in OfUse'
  <2>1. <<"directory", d, 0>> \in Needed' /\ <<"context", d, 0>> \in Needed'
        /\ <<"tables", d, 0>> \in Needed'
    BY NeededWillBe
  <2>2. \A v \in PrivatePages :
            spaces'[d].pages[v] # Unmapped => <<"private", d, v>> \in Needed'
    BY NeededWillBe
  <2>3. CASE f = d \/ f = spaces'[d].context \/ f = spaces'[d].tables
    <3>1. \E u \in Needed' : f = FrameOf(u)'
      BY <2>1, <2>3, FramesWillBe
    <3> QED BY <3>1 DEF OfUse
  <2>4. CASE \E v \in PrivatePages :
                 spaces'[d].pages[v] # Unmapped /\ f = spaces'[d].pages[v]
    <3>1. \E u \in Needed' : f = FrameOf(u)'
      BY <2>2, <2>4, FramesWillBe
    <3> QED BY <3>1 DEF OfUse
  <2> QED BY <1>3, <2>3, <2>4 DEF PartOf
<1> QED BY <1>1, <1>2, <1>3

(* A page in the shared part: its frame was free and is now of use.         *)
LEMMA SharedPageCounted ==
    ASSUME Inv, Counted, NEW by \in {"kernel", "program"}, Available(1, 1),
           shared' = Mapped(1, 1), holder' = Held(1, by),
           allocatable' = WithoutTaken(1), UNCHANGED <<spaces, history>>
    PROVE  Counted'
<1>1. 1 <= Cardinality(allocatable) /\ 1 <= Cardinality(VacantShared)
  BY DEF Available, VacantShared
<1>2. Frame(1) \in allocatable /\ 1 .. 1 = {1} /\ 1 + 1 - 1 = 1
  BY <1>1, FramesTaken DEF Inv
<1>3. ASSUME NEW f
      PROVE  (\E v \in Shareds' : f = shared'[v]) <=>
                 (\E v \in Shareds : f = shared[v]) \/ f = Frame(1)
  <2>1. 1 \in Nat /\ 1 \in 1 .. 1
    OBVIOUS
  <2>2. /\ Shareds' = Shareds \cup FirstFew(VacantShared, 1)
        /\ \A v \in Shareds : shared'[v] = shared[v]
        /\ \A v \in FirstFew(VacantShared, 1) :
               shared'[v] = Frame(1 + Rank(VacantShared, v) - 1)
    BY <2>1, SharedHeld
  <2>3. \A v \in FirstFew(VacantShared, 1) : 1 + Rank(VacantShared, v) - 1 = 1
    BY <2>1, PagesTaken
  <2>4. PICK p \in FirstFew(VacantShared, 1) : Rank(VacantShared, p) = 1
    BY <1>1, <2>1, PagesSuffice
  <2>5. \A v \in FirstFew(VacantShared, 1) : shared'[v] = Frame(1)
    BY <2>2, <2>3, Zenon
  <2> QED BY <2>2, <2>4, <2>5
<1>4. ASSUME NEW f PROVE f \in allocatable' <=> f \in allocatable /\ f # Frame(1)
  BY <1>1, <1>2, TakenAre DEF Inv
<1>5. OfTasks' = OfTasks /\ \A d, f : PartOf(d, f)' <=> PartOf(d, f)
  BY DEF OfTasks, Directories, PartOf
<1>6. ASSUME NEW f \in Frames
      PROVE  f \in allocatable' \cup OfUse' <=> f \in allocatable \cup OfUse
  BY <1>2, <1>3, <1>4, <1>5, OfUseAre, OfUseWillBe
<1> QED BY <1>6, NothingLost

(* A page in the private part of the program that runs: the same.           *)
LEMMA PrivatePageCounted ==
    ASSUME Inv, Counted, current # 0, Available(1, 0),
           NEW p \in PrivatePages, spaces[current].pages[p] = Unmapped,
           spaces' = [spaces EXCEPT ![current].pages[p] = Frame(1)],
           allocatable' = WithoutTaken(1), UNCHANGED <<shared, holder, current, history>>
    PROVE  Counted'
<1>1. 1 <= Cardinality(allocatable)
  BY DEF Available
<1>2. Frame(1) \in allocatable /\ Frame(1) \in Frames /\ 1 .. 1 = {1}
  BY <1>1, FramesTaken DEF Inv
<1>3. Frame(1) # Unmapped
  BY <1>2, PagesAssumption DEF Unmapped
<1>4. ASSUME NEW f PROVE f \in allocatable' <=> f \in allocatable /\ f # Frame(1)
  BY <1>1, <1>2, TakenAre DEF Inv
<1>5. current \in OfTasks /\ current \in Directories /\ spaces[current] \in Space
  BY DEF Inv, Mappings, TypeOK, OfTasks
<1>6. /\ OfTasks' = OfTasks
      /\ \A d \in Directories : d # current => spaces'[d] = spaces[d]
      /\ spaces'[current] = [spaces[current] EXCEPT !.pages[p] = Frame(1)]
  BY <1>5 DEF OfTasks, Directories, Space
<1>7. ASSUME NEW f
      PROVE  PartOf(current, f)' <=> PartOf(current, f) \/ f = Frame(1)
  <2>1. /\ spaces'[current].context = spaces[current].context
        /\ spaces'[current].tables = spaces[current].tables
        /\ \A v \in PrivatePages : spaces'[current].pages[v] =
               IF v = p THEN Frame(1) ELSE spaces[current].pages[v]
    BY <1>5, <1>6 DEF Space
  <2>2. (\E v \in PrivatePages :
            spaces'[current].pages[v] # Unmapped /\ f = spaces'[current].pages[v]) <=>
            \/ \E v \in PrivatePages :
                   spaces[current].pages[v] # Unmapped /\ f = spaces[current].pages[v]
            \/ f = Frame(1)
    BY <1>3, <2>1
  <2>3. PartOf(current, f)' <=>
            \/ f = current \/ f = spaces'[current].context \/ f = spaces'[current].tables
            \/ \E v \in PrivatePages :
                   spaces'[current].pages[v] # Unmapped /\ f = spaces'[current].pages[v]
    BY DEF PartOf
  <2> QED BY <2>1, <2>2, <2>3 DEF PartOf
<1>8. ASSUME NEW d \in OfTasks, d # current, NEW f PROVE PartOf(d, f)' <=> PartOf(d, f)
  BY <1>6, <1>8 DEF PartOf, OfTasks
<1>9. Shareds' = Shareds /\ shared' = shared
  BY DEF Shareds
<1>10. ASSUME NEW f \in Frames
       PROVE  f \in allocatable' \cup OfUse' <=> f \in allocatable \cup OfUse
  BY <1>2, <1>4, <1>5, <1>6, <1>7, <1>8, <1>9, OfUseAre, OfUseWillBe
<1> QED BY <1>10, NothingLost
(* A page that is given back: its frame was of use and is now free.         *)
LEMMA FreeCounted ==
    ASSUME Inv, Counted, vmm_free, KernelPagesLeft
    PROVE  Counted'
<1>1. current \in OfTasks /\ current \in Directories /\ spaces[current] \in Space
      /\ UNCHANGED <<current, history>>
  BY DEF Inv, Mappings, TypeOK, OfTasks, vmm_free
<1>2. ASSUME NEW v \in SharedPages, shared[v] # Unmapped,
             allocatable' = allocatable \cup {shared[v]},
             shared' = [shared EXCEPT ![v] = Unmapped],
             holder' = [holder EXCEPT ![v] = "nobody"], UNCHANGED spaces
      PROVE  Counted'
  <2>1. holder[v] = "program"
    BY <1>2 DEF KernelPagesLeft, Inv, Mappings, TypeOK, Holders
  <2>2. /\ v \in Shareds /\ Shareds' = Shareds \ {v}
        /\ \A w \in Shareds' : shared'[w] = shared[w]
    BY <1>2, <2>1 DEF Shareds, Inv, TypeOK
  <2>3. OfTasks' = OfTasks /\ \A d, f : PartOf(d, f)' <=> PartOf(d, f)
    BY <1>2 DEF OfTasks, Directories, PartOf
  <2>4. ASSUME NEW f \in Frames
        PROVE  f \in allocatable' \cup OfUse' <=> f \in allocatable \cup OfUse
    BY <1>2, <2>2, <2>3, OfUseAre, OfUseWillBe
  <2> QED BY <1>1, <2>4, NothingLost
<1>3. ASSUME NEW p \in PrivatePages, spaces[current].pages[p] # Unmapped,
             allocatable' = allocatable \cup {spaces[current].pages[p]},
             spaces' = [spaces EXCEPT ![current].pages[p] = Unmapped],
             UNCHANGED <<shared, holder>>
      PROVE  Counted'
  <2>1. /\ OfTasks' = OfTasks
        /\ \A d \in Directories : d # current => spaces'[d] = spaces[d]
        /\ spaces'[current] = [spaces[current] EXCEPT !.pages[p] = Unmapped]
    BY <1>1, <1>3 DEF OfTasks, Directories, Space
  <2>2. /\ spaces'[current].context = spaces[current].context
        /\ spaces'[current].tables = spaces[current].tables
        /\ \A v \in PrivatePages : spaces'[current].pages[v] =
               IF v = p THEN Unmapped ELSE spaces[current].pages[v]
    BY <1>1, <2>1 DEF Space
  <2>3. ASSUME NEW f
        PROVE  PartOf(current, f) \/ f = spaces[current].pages[p] <=>
                   PartOf(current, f)' \/ f = spaces[current].pages[p]
    <3>1. \A v \in PrivatePages : v # p => spaces'[current].pages[v] = spaces[current].pages[v]
      BY <2>2
    <3>2. PartOf(current, f)' <=>
              \/ f = current \/ f = spaces'[current].context \/ f = spaces'[current].tables
              \/ \E v \in PrivatePages :
                     spaces'[current].pages[v] # Unmapped /\ f = spaces'[current].pages[v]
      BY <1>1 DEF PartOf
    <3> QED BY <2>2, <3>1, <3>2 DEF PartOf
  <2>4. PartOf(current, spaces[current].pages[p])
    BY <1>3 DEF PartOf
  <2>5. ASSUME NEW d \in OfTasks, d # current, NEW f PROVE PartOf(d, f)' <=> PartOf(d, f)
    BY <2>1, <2>5 DEF PartOf, OfTasks
  <2>6. Shareds' = Shareds /\ shared' = shared
    BY <1>3 DEF Shareds
  <2>7. ASSUME NEW f \in Frames
        PROVE  f \in allocatable' \cup OfUse' <=> f \in allocatable \cup OfUse
    <3>1. CASE f = spaces[current].pages[p]
      BY <1>1, <1>3, <2>4, <3>1, OfUseAre
    <3>2. CASE f # spaces[current].pages[p]
      <4>1. \A d \in OfTasks : PartOf(d, f)' <=> PartOf(d, f)
        BY <1>1, <2>3, <2>5, <3>2
      <4> QED BY <1>3, <2>1, <2>6, <3>2, <4>1, OfUseAre, OfUseWillBe
    <3> QED BY <3>1, <3>2
  <2> QED BY <1>1, <2>7, NothingLost
<1> QED BY <1>2, <1>3 DEF vmm_free

(* What is of use is not free.                                              *)
LEMMA UseNotFree ==
    ASSUME Inv, NEW f \in OfUse
    PROVE  f \in Frames /\ f \notin allocatable
BY NeededOnce DEF OfUse

(* A task that starts: of the frames that are taken all are of use but the  *)
(* third, which the array of pointers was in.                               *)
LEMMA ExecCounted ==
    ASSUME Inv, Counted, vfs_exec
    PROVE  Counted'
<1> DEFINE size == Cardinality(Image)
           total == 4 + size + ArgPages
<1>1. Image \in SUBSET Nat /\ IsFiniteSet(Image) /\ size \in Nat /\ ArgPages \in Nat
      /\ Image \subseteq PrivatePages
  BY PagesAssumption, FS_Subset, FS_CardinalityType
<1>2. /\ total <= Cardinality(allocatable) /\ 4 + ArgPages <= Cardinality(VacantShared)
      /\ spaces' = [d \in Directories \cup {NewDirectory} |->
                       IF d = NewDirectory THEN NewSpace(TRUE, Loaded) ELSE spaces[d]]
      /\ shared' = Mapped(ArgPages, 5 + size) /\ holder' = Held(ArgPages, "program")
      /\ allocatable' = WithoutTaken(total)
      /\ history' = [history EXCEPT !.started = @ + 1]
  <2>1. 4 + size + 1 = 5 + size
    BY <1>1
  <2> HIDE DEF size
  <2> QED BY <2>1 DEF vfs_exec, Available, Temporaries, VacantShared, size
<1>3. ArgPages <= Cardinality(VacantShared)
  <2>1. Cardinality(VacantShared) \in Nat
    BY PagesAssumption, FS_Subset, FS_CardinalityType DEF VacantShared
  <2> QED BY <1>1, <1>2, <2>1
<1>4. \A v \in Image : Rank(Image, v) \in 1 .. size
  BY <1>1, RankRange
<1>5. ASSUME NEW j \in 1 .. size PROVE \E v \in Image : Rank(Image, v) = j
  BY <1>1, LowestRank
<1> HIDE DEF size
<1>6. total \in Nat /\ 1 .. 4 \subseteq 1 .. total
  BY <1>1
<1>7. \A j \in 1 .. total :
          /\ Frame(j) \in allocatable /\ Frame(j) \in Frames
          /\ \A i \in 1 .. total : Frame(j) = Frame(i) => j = i
  BY <1>2, <1>6, FramesTaken DEF Inv
<1>8. \A f : f \in allocatable' <=> f \in allocatable /\ ~ \E j \in 1 .. total : f = Frame(j)
  BY <1>2, <1>6, TakenAre DEF Inv
<1> HIDE DEF total
<1>9. /\ Shareds' = Shareds \cup FirstFew(VacantShared, ArgPages)
      /\ \A v \in Shareds : shared'[v] = shared[v]
      /\ \A v \in FirstFew(VacantShared, ArgPages) :
             shared'[v] = Frame(5 + size + Rank(VacantShared, v) - 1)
  <2>1. 5 + size \in Nat
    BY <1>1
  <2> QED BY <1>1, <1>2, <2>1, SharedHeld
<1>10. ASSUME NEW v \in FirstFew(VacantShared, ArgPages)
       PROVE  \E j \in 5 + size .. total : shared'[v] = Frame(j)
  <2>1. 5 + size + Rank(VacantShared, v) - 1 \in 5 + size .. total
    BY <1>1, <1>10, PagesTaken DEF total
  <2> QED BY <1>9, <2>1
<1>11. ASSUME NEW j \in 5 + size .. total
       PROVE  \E v \in FirstFew(VacantShared, ArgPages) : shared'[v] = Frame(j)
  <2>1. j - 4 - size \in 1 .. ArgPages
    BY <1>1 DEF total
  <2>2. PICK v \in FirstFew(VacantShared, ArgPages) : Rank(VacantShared, v) = j - 4 - size
    BY <1>1, <1>3, <2>1, PagesSuffice
  <2>3. 5 + size + Rank(VacantShared, v) - 1 = j
    BY <1>1, <2>2
  <2> QED BY <1>9, <2>3
<1>12. PICK new : new = NewDirectory
  OBVIOUS
<1>13. new \in Frames /\ new \notin Directories /\ new = Frame(2)
  <2>1. new = Frame(2) /\ new \in allocatable /\ new \in Frames
    BY <1>6, <1>7, <1>12 DEF NewDirectory
  <2> QED BY <2>1, DirectoriesNotFree DEF Inv
<1>14. /\ spaces'[new] = NewSpace(TRUE, Loaded) /\ OfTasks' = OfTasks \cup {new}
       /\ \A d \in OfTasks : spaces'[d] = spaces[d]
  BY <1>2, <1>12, <1>13 DEF OfTasks, Directories, NewSpace
<1>15. ASSUME NEW f
       PROVE  PartOf(new, f)' <=>
                  \/ f = Frame(1) \/ f = Frame(2) \/ f = Frame(4)
                  \/ \E j \in 5 .. 4 + size : f = Frame(j)
  <2>1. /\ spaces'[new].context = Frame(1) /\ spaces'[new].tables = Frame(4)
        /\ \A v \in PrivatePages : spaces'[new].pages[v] =
               IF v \in Image THEN Frame(4 + Rank(Image, v)) ELSE Unmapped
    BY <1>14 DEF NewSpace, Loaded, Temporaries
  <2>2. ASSUME NEW v \in Image
        PROVE  /\ 4 + Rank(Image, v) \in 5 .. 4 + size
               /\ spaces'[new].pages[v] = Frame(4 + Rank(Image, v))
               /\ spaces'[new].pages[v] # Unmapped
    <3>1. 4 + Rank(Image, v) \in 5 .. 4 + size /\ 4 + Rank(Image, v) \in 1 .. total
      BY <1>1, <1>4 DEF total
    <3>2. Frame(4 + Rank(Image, v)) \in Frames
      BY <1>7, <3>1
    <3> QED BY <1>1, <2>1, <3>1, <3>2, PagesAssumption DEF Unmapped
  <2>3. ASSUME NEW j \in 5 .. 4 + size
        PROVE  \E v \in Image : spaces'[new].pages[v] = Frame(j)
    <3>1. j - 4 \in 1 .. size
      BY <1>1
    <3>2. PICK v \in Image : Rank(Image, v) = j - 4
      BY <1>5, <3>1
    <3>3. 4 + Rank(Image, v) = j
      BY <3>2
    <3> QED BY <2>2, <3>3
  <2>4. (\E v \in PrivatePages :
             spaces'[new].pages[v] # Unmapped /\ f = spaces'[new].pages[v]) <=>
            \E j \in 5 .. 4 + size : f = Frame(j)
    <3>1. \A v \in PrivatePages : spaces'[new].pages[v] # Unmapped => v \in Image
      BY <2>1
    <3> QED BY <1>1, <2>2, <2>3, <3>1
  <2> QED BY <1>13, <2>1, <2>4 DEF PartOf
<1>16. \A d \in OfTasks : \A f : PartOf(d, f)' <=> PartOf(d, f)
  BY <1>14 DEF PartOf
<1>17. ASSUME NEW f
       PROVE  f \in OfUse' <=>
                  f \in OfUse \/ \E j \in 1 .. total : j # 3 /\ f = Frame(j)
  <2>1. \A j : j \in 1 .. total /\ j # 3 <=>
                   j \in {1, 2, 4} \/ j \in 5 .. 4 + size \/ j \in 5 + size .. total
    BY <1>1, <1>6 DEF total
  <2>2. (\E v \in Shareds' : f = shared'[v]) <=>
            (\E v \in Shareds : f = shared[v]) \/ \E j \in 5 + size .. total : f = Frame(j)
    BY <1>9, <1>10, <1>11
  <2>3. (\E d \in OfTasks' : PartOf(d, f)') <=>
            \/ \E d \in OfTasks : PartOf(d, f)
            \/ \E j \in {1, 2, 4} : f = Frame(j)
            \/ \E j \in 5 .. 4 + size : f = Frame(j)
    BY <1>14, <1>15, <1>16
  <2>4. (\E j \in 1 .. total : j # 3 /\ f = Frame(j)) <=>
            \/ \E j \in {1, 2, 4} : f = Frame(j)
            \/ \E j \in 5 .. 4 + size : f = Frame(j)
            \/ \E j \in 5 + size .. total : f = Frame(j)
    BY <2>1
  <2> QED BY <2>2, <2>3, <2>4, OfUseAre, OfUseWillBe
<1>18. Frame(3) \in allocatable /\ Frame(3) \in Frames /\ Frame(3) \notin OfUse
  BY <1>6, <1>7, UseNotFree
<1>19. PICK array : array = Frame(3)
  OBVIOUS
<1>20. Lost' = Lost \cup {array} /\ array \in Frames \ Lost
  <2>1. 3 \in 1 .. total
    BY <1>6
  <2>2. ASSUME NEW f \in Frames
        PROVE  f \in allocatable' \cup OfUse' <=> f \in allocatable \cup OfUse /\ f # array
    BY <1>7, <1>8, <1>17, <1>18, <1>19, <2>1
  <2> QED BY <1>18, <1>19, <2>2 DEF Lost
<1>21. Lost \in SUBSET Frames
  BY DEF Lost
<1>22. /\ Cardinality(Lost) \in Nat
       /\ Cardinality(Lost \cup {array}) = Cardinality(Lost) + 1
  BY <1>20, <1>21, OneLost
<1> QED BY <1>2, <1>20, <1>22 DEF Counted, Inv, TypeOK, Temporaries
(* A task that does not start: four frames are taken for a page directory   *)
(* nobody will run in.                                                      *)
LEMMA FailedCounted ==
    ASSUME Inv, Counted, vfs_exec_failed
    PROVE  Counted'
<1>1. /\ 4 <= Cardinality(allocatable) /\ allocatable' = WithoutTaken(4)
      /\ spaces' = [d \in Directories \cup {NewDirectory} |->
                       IF d = NewDirectory THEN NewSpace(FALSE, Empty) ELSE spaces[d]]
      /\ history' = [history EXCEPT !.failed = @ + 1]
      /\ UNCHANGED <<shared, holder>>
  BY DEF vfs_exec_failed, Available, Temporaries
<1>2. 4 \in Nat
  OBVIOUS
<1>3. \A j \in 1 .. 4 :
          /\ Frame(j) \in allocatable /\ Frame(j) \in Frames
          /\ \A i \in 1 .. 4 : Frame(j) = Frame(i) => j = i
  BY <1>1, <1>2, FramesTaken DEF Inv
<1>4. \A f : f \in allocatable' <=> f \in allocatable /\ ~ \E j \in 1 .. 4 : f = Frame(j)
  BY <1>1, <1>2, TakenAre DEF Inv
<1>5. NewDirectory \notin Directories
  BY <1>3, DirectoriesNotFree DEF NewDirectory, Inv
<1>6. OfTasks' = OfTasks /\ \A d \in OfTasks : spaces'[d] = spaces[d]
  BY <1>1, <1>5 DEF OfTasks, Directories, NewSpace
<1>7. \A d \in OfTasks : \A f : PartOf(d, f)' <=> PartOf(d, f)
  BY <1>6 DEF PartOf
<1>8. Shareds' = Shareds /\ shared' = shared
  BY <1>1 DEF Shareds
<1>9. \A f : f \in OfUse' <=> f \in OfUse
  BY <1>6, <1>7, <1>8, OfUseAre, OfUseWillBe
<1>10. \A j \in 1 .. 4 : Frame(j) \notin OfUse
  BY <1>3, UseNotFree
<1>11. PICK a, b, c, d \in Frames \ Lost :
           /\ a # b /\ a # c /\ a # d /\ b # c /\ b # d /\ c # d
           /\ \A f : (\E j \in 1 .. 4 : f = Frame(j)) <=> f \in {a, b, c, d}
  <2>1. \A j \in 1 .. 4 : Frame(j) \in Frames \ Lost
    BY <1>3 DEF Lost
  <2>2. 1 .. 4 = {1, 2, 3, 4}
    OBVIOUS
  <2> QED BY <1>3, <2>1, <2>2
<1>12. Lost' = (((Lost \cup {a}) \cup {b}) \cup {c}) \cup {d}
  <2>1. a \notin OfUse /\ b \notin OfUse /\ c \notin OfUse /\ d \notin OfUse
    BY <1>10, <1>11
  <2> QED BY <1>4, <1>9, <1>11, <2>1 DEF Lost
<1>13. Lost \in SUBSET Frames
  BY DEF Lost
<1>14. /\ Cardinality(Lost) \in Nat
       /\ Cardinality(Lost \cup {a}) = Cardinality(Lost) + 1
  BY <1>11, <1>13, OneLost
<1>15. Cardinality((Lost \cup {a}) \cup {b}) = Cardinality(Lost \cup {a}) + 1
  BY <1>11, <1>13, OneLost
<1>16. Cardinality(((Lost \cup {a}) \cup {b}) \cup {c}) = Cardinality((Lost \cup {a}) \cup {b}) + 1
  BY <1>11, <1>13, OneLost
<1>17. Cardinality((((Lost \cup {a}) \cup {b}) \cup {c}) \cup {d})
           = Cardinality(((Lost \cup {a}) \cup {b}) \cup {c}) + 1
  BY <1>11, <1>13, OneLost
<1>18. Cardinality(Lost') = Cardinality(Lost) + 4
  BY <1>12, <1>14, <1>15, <1>16, <1>17
<1> QED BY <1>1, <1>14, <1>18 DEF Counted, Inv, TypeOK, Temporaries

(* A task that ends: everything it had for itself is free, except for the   *)
(* frame of its context.                                                    *)
LEMMA TerminateCounted ==
    ASSUME Inv, Counted, terminate_current
    PROVE  Counted'
<1> DEFINE ppd == Lowest(VacantShared, 1)
           ppt == Lowest(VacantShared, 2)
<1>1. /\ shared' = [shared EXCEPT ![ppd] = current, ![ppt] = spaces[current].tables]
      /\ holder' = [v \in SharedPages |->
                       IF v \in {ppd, ppt} THEN "stale" ELSE holder[v]]
      /\ allocatable' = allocatable \cup FreedFrames(current)
      /\ spaces' = [d \in Directories \ {current} |-> spaces[d]]
      /\ history' = [history EXCEPT !.ended = @ + 1]
      /\ 2 <= Cardinality(VacantShared) /\ current # 0
  BY DEF terminate_current, vmm_free_current_pagetables, Available, VacantShared
<1>2. ppd \in VacantShared /\ ppt \in VacantShared
  <2>1. VacantShared \in SUBSET Nat /\ IsFiniteSet(VacantShared)
    BY PagesAssumption, FS_Subset DEF VacantShared
  <2>2. Cardinality(VacantShared) \in Nat
    BY <2>1, FS_CardinalityType
  <2>3. 1 \in 1 .. Cardinality(VacantShared) /\ 2 \in 1 .. Cardinality(VacantShared)
    BY <1>1, <2>2
  <2> QED BY <2>1, <2>3, LowestRank
<1>3. \A v \in Shareds : v \notin VacantShared
  BY SharedFrames, PagesAssumption DEF Inv, VacantShared, Unmapped
<1> HIDE DEF ppd, ppt
<1>4. Shareds' = Shareds /\ \A v \in Shareds : shared'[v] = shared[v]
  BY <1>1, <1>2, <1>3 DEF Shareds, Inv, TypeOK
<1>5. PICK ended : ended = current
  OBVIOUS
<1>6. /\ ended \in OfTasks /\ ended \in Directories /\ spaces[ended] \in Space
      /\ OfTasks' = OfTasks \ {ended}
      /\ \A d \in OfTasks \ {ended} : spaces'[d] = spaces[d]
  BY <1>1, <1>5 DEF Inv, Mappings, TypeOK, OfTasks, Directories
<1>7. PICK context : context = spaces[ended].context
  OBVIOUS
<1>8. \A u : u \in Needed' <=> u \in Needed /\ u[2] # ended
  <2>1. ended # 0 /\ \A d \in OfTasks : d \in Directories
    BY <1>1, <1>5 DEF OfTasks
  <2>2. ASSUME NEW u \in Needed' PROVE u \in Needed /\ u[2] # ended
    <3>1. CASE \E v \in Shareds' : u = <<"shared", 0, v>>
      BY <1>4, <2>1, <3>1, NeededAre
    <3>2. CASE \E d \in OfTasks' : \/ u = <<"directory", d, 0>>
                                   \/ u = <<"context", d, 0>>
                                   \/ u = <<"tables", d, 0>>
      BY <1>6, <3>2, NeededAre
    <3>3. CASE \E d \in OfTasks', v \in PrivatePages :
                   spaces'[d].pages[v] # Unmapped /\ u = <<"private", d, v>>
      BY <1>6, <3>3, NeededAre
    <3> QED BY <3>1, <3>2, <3>3, NeededWillBe
  <2>3. ASSUME NEW u \in Needed, u[2] # ended PROVE u \in Needed'
    <3>1. CASE \E v \in Shareds : u = <<"shared", 0, v>>
      BY <1>4, <3>1, NeededWillBe
    <3>2. CASE \E d \in OfTasks : \/ u = <<"directory", d, 0>>
                                  \/ u = <<"context", d, 0>>
                                  \/ u = <<"tables", d, 0>>
      BY <1>6, <2>3, <3>2, NeededWillBe
    <3>3. CASE \E d \in OfTasks, v \in PrivatePages :
                   spaces[d].pages[v] # Unmapped /\ u = <<"private", d, v>>
      BY <1>6, <2>3, <3>3, NeededWillBe
    <3> QED BY <3>1, <3>2, <3>3, NeededAre
  <2> QED BY <2>2, <2>3
<1>9. \A u \in Needed' : FrameOf(u)' = FrameOf(u)
  BY <1>4, <1>6, NeededWillBe, FramesAre, FramesWillBe
<1>10. \A u \in Needed : u[2] = ended =>
           \/ u = <<"directory", ended, 0>> \/ u = <<"context", ended, 0>>
           \/ u = <<"tables", ended, 0>>
           \/ \E v \in PrivatePages :
                  spaces[ended].pages[v] # Unmapped /\ u = <<"private", ended, v>>
  BY <1>1, <1>5, NeededAre
<1>11. \A f : f \in FreedFrames(ended) <=>
           \/ f = ended \/ f = spaces[ended].tables
           \/ \E v \in PrivatePages : spaces[ended].pages[v] # Unmapped /\ f = spaces[ended].pages[v]
  BY DEF FreedFrames, MappedPages
<1>12. /\ <<"directory", ended, 0>> \in Needed /\ <<"context", ended, 0>> \in Needed
       /\ <<"tables", ended, 0>> \in Needed
       /\ \A v \in PrivatePages :
              spaces[ended].pages[v] # Unmapped => <<"private", ended, v>> \in Needed
  BY <1>6, NeededAre
<1>13. context \in OfUse /\ context \in Frames /\ context \notin allocatable
  BY <1>7, <1>12, NeededOnce, FramesAre DEF OfUse
<1>14. \A u \in Needed : FrameOf(u) = context => u = <<"context", ended, 0>>
  BY <1>7, <1>12, NeededOnce, FramesAre
<1>15. context \notin OfUse'
  BY <1>8, <1>9, <1>14 DEF OfUse
<1>16. OfUse' \subseteq OfUse
  BY <1>8, <1>9 DEF OfUse
<1>17. FreedFrames(ended) \subseteq OfUse \ {context}
  <2>1. ASSUME NEW f \in FreedFrames(ended)
        PROVE  \E u \in Needed : f = FrameOf(u) /\ u # <<"context", ended, 0>>
    <3>1. CASE f = ended
      BY <1>12, <3>1, FramesAre
    <3>2. CASE f = spaces[ended].tables
      BY <1>12, <3>2, FramesAre
    <3>3. ASSUME NEW v \in PrivatePages, spaces[ended].pages[v] # Unmapped,
                 f = spaces[ended].pages[v]
          PROVE  \E u \in Needed : f = FrameOf(u) /\ u # <<"context", ended, 0>>
      BY <1>12, <3>3, FramesAre
    <3> QED BY <1>11, <3>1, <3>2, <3>3
  <2> QED BY <1>14, <2>1 DEF OfUse
<1>18. ASSUME NEW f \in OfUse, f \notin OfUse', f # context PROVE f \in FreedFrames(ended)
  <2>1. PICK u \in Needed : f = FrameOf(u)
    BY <1>18 DEF OfUse
  <2>2. u[2] = ended
    BY <1>8, <1>9, <1>18, <2>1 DEF OfUse
  <2> QED BY <1>7, <1>10, <1>11, <1>18, <2>1, <2>2, FramesAre
<1>19. Lost' = Lost \cup {context} /\ context \in Frames \ Lost
  <2>1. allocatable' = allocatable \cup FreedFrames(ended)
    BY <1>1, <1>5
  <2> QED BY <1>13, <1>15, <1>16, <1>17, <1>18, <2>1 DEF Lost
<1>20. /\ Cardinality(Lost) \in Nat
       /\ Cardinality(Lost \cup {context}) = Cardinality(Lost) + 1
  <2>1. Lost \in SUBSET Frames
    BY DEF Lost
  <2> QED BY <1>19, <2>1, OneLost
<1> QED BY <1>1, <1>19, <1>20 DEF Counted, Inv, TypeOK, Temporaries
(* Every step loses the frames that LossesKnown says, and no other.         *)
LEMMA StepCounted ==
    ASSUME Inv, Counted, [Next /\ KernelPagesLeft]_vars
    PROVE  Counted'
<1>1. CASE vmm_alloc
  <2>1. "kernel" \in {"kernel", "program"}
    OBVIOUS
  <2> QED BY <1>1, <2>1, SharedPageCounted DEF vmm_alloc
<1>2. CASE vmm_alloc_ucont
  <2>1. current # 0 /\ UNCHANGED <<current, history>> /\ allocatable' = WithoutTaken(1)
    BY <1>2 DEF vmm_alloc_ucont
  <2>2. CASE /\ Available(1, 1) /\ shared' = Mapped(1, 1)
             /\ holder' = Held(1, "program") /\ UNCHANGED spaces
    <3>1. "program" \in {"kernel", "program"}
      OBVIOUS
    <3> QED BY <2>1, <2>2, <3>1, SharedPageCounted
  <2>3. CASE Available(1, 0) /\ UNCHANGED <<shared, holder>>
             /\ LET vacant == {v \in PrivatePages : spaces[current].pages[v] = Unmapped}
                IN /\ vacant # {}
                   /\ spaces' = [spaces EXCEPT ![current].pages[Lowest(vacant, 1)] = Frame(1)]
    <3>1. PICK p \in PrivatePages :
              /\ spaces[current].pages[p] = Unmapped
              /\ spaces' = [spaces EXCEPT ![current].pages[p] = Frame(1)]
      BY <2>3, LowestVacant
    <3> QED BY <2>1, <2>3, <3>1, PrivatePageCounted
  <2> QED BY <1>2, <2>2, <2>3 DEF vmm_alloc_ucont
<1>3. CASE vmm_free /\ KernelPagesLeft
  BY <1>3, FreeCounted
<1>4. CASE vfs_exec
  BY <1>4, ExecCounted
<1>5. CASE vfs_exec_failed
  BY <1>5, FailedCounted
<1>6. CASE terminate_current
  BY <1>6, TerminateCounted
<1>7. CASE vmm_activate_pagedir \/ UNCHANGED vars
  <2>1. UNCHANGED <<allocatable, shared, holder, spaces, history>>
    BY <1>7 DEF vmm_activate_pagedir, vars
  <2>2. /\ \A u : u \in Needed' <=> u \in Needed
        /\ \A u : FrameOf(u)' = FrameOf(u)
    BY <2>1 DEF Needed, Uses, FrameOf, Directories, OfTasks, MappedPages, Shareds
  <2>3. OfUse' = OfUse
    BY <2>2 DEF OfUse
  <2> QED BY <2>1, <2>3, NothingLost
<1> QED BY <1>1, <1>2, <1>3, <1>4, <1>5, <1>6, <1>7 DEF Next

(* The tables of pages, holders and spaces keep their shape, and the        *)
(* processor never runs in a page directory that has been freed.            *)
THEOREM TypeCorrect == OrderlySpec => []TypeOK
<1>1. Inv /\ [Next /\ KernelPagesLeft]_vars => Inv'
  BY Step
<1>2. Inv => TypeOK
  BY DEF Inv
<1> QED BY InitInv, <1>1, <1>2, PTL DEF OrderlySpec

(* No page frame serves two purposes, and none that serves one is free,     *)
(* even when programs free pages of each other and of their own image.      *)
THEOREM OwnedOnce == OrderlySpec => []FramesOwnedOnce
<1>1. Inv /\ [Next /\ KernelPagesLeft]_vars => Inv'
  BY Step
<1>2. Inv => FramesOwnedOnce
  BY DEF Inv
<1> QED BY InitInv, <1>1, <1>2, PTL DEF OrderlySpec

(* With every start one frame is lost for good, with every end one and with *)
(* every start that fails four, and no other: all frames else are free or   *)
(* of use to a task or to the kernel, after any history.                    *)
THEOREM LossesCounted == OrderlySpec => []LossesKnown
<1>1. Inv /\ [Next /\ KernelPagesLeft]_vars => Inv'
  BY Step
<1>2. Inv /\ Counted /\ [Next /\ KernelPagesLeft]_vars => Counted'
  BY StepCounted
<1>3. Init => Counted
  <2> SUFFICES ASSUME Init PROVE Counted
    OBVIOUS
  <2>1. Lost = {}
    BY DEF Init, Lost
  <2>2. Cardinality({}) = 0
    BY FS_EmptySet
  <2> QED BY <2>1, <2>2 DEF Init, Counted, Temporaries
<1>4. Counted => LossesKnown
  BY DEF Counted, Lost, LossesKnown
<1> QED BY InitInv, <1>1, <1>2, <1>3, <1>4, PTL DEF OrderlySpec
=============================================================================
