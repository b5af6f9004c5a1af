----------------------------- MODULE UploadsProofs -----------------------------
(***************************************************************************)
(* Proofs about Uploads and the storage it is built on, for every number of *)
(* clients, uploads, chunks, permits, restarts, every budget and chunk size: *)
(* what is published is what was acknowledged, a commit is final, what a     *)
(* request or a program works with is kept for it, no process spends room    *)
(* that another one was given, and requests do not wait for each other in a  *)
(* circle.                                                                 *)
(***************************************************************************)
EXTENDS Uploads, FiniteSetTheorems, SequenceTheorems, TLAPS

(***************************************************************************)
(* What the budget needs to know of sums.  The induction over finite sets is *)
(* the well-foundedness of strict inclusion.                                *)
(***************************************************************************)

(* A collection Good of subsets of S has S itself when it has every set all  *)
(* of whose elements can be removed without leaving Good.                    *)
LEMMA SubsetInduction ==
  ASSUME NEW S, IsFiniteSet(S), NEW Good,
         \A T \in SUBSET S : (\A x \in T : T \ {x} \in Good) => T \in Good
  PROVE  S \in Good
<1>. DEFINE Bad == (SUBSET S) \ Good
            R   == StrictSubsetOrdering(S)
<1>1. IsWellFoundedOn(R, SUBSET S)
  BY FS_StrictSubsetOrderingWellFounded, FS_FiniteSubsetsOfFinite
<1>. SUFFICES ASSUME S \notin Good  PROVE FALSE
  OBVIOUS
<1>2. Bad # {} /\ Bad \subseteq SUBSET S
  OBVIOUS
<1>3. PICK T \in Bad : \A U \in Bad : <<U, T>> \notin R
  <2>. HIDE DEF Bad, R
  <2>. QED  BY <1>1, <1>2, WFMin
<1>4. ASSUME NEW x \in T  PROVE T \ {x} \in Good
  <2>1. T \ {x} \in SUBSET S /\ T \in SUBSET S /\ T \ {x} \subseteq T /\ T \ {x} # T
    BY <1>3
  <2>2. <<T \ {x}, T>> \in R
    BY <2>1 DEF StrictSubsetOrdering
  <2>. QED  BY <1>3, <2>1, <2>2
<1>. QED  BY <1>3, <1>4

-----------------------------------------------------------------------------
(* Sums.  Next(f, s, rest) is the step of the recursion of SumFunctionOnSet. *)

First(s)      == CHOOSE x \in s : TRUE
Step(f, g, s) == IF s = {} THEN 0 ELSE f[First(s)] + g[s \ {First(s)}]

\* g satisfies the recursion on the subsets of S.
Solution(f, g, S) == g = [s \in SUBSET S |-> Step(f, g, s)]

LEMMA FirstIn == \A s : s # {} => First(s) \in s
BY DEF First

(* The recursion has a solution on the subsets of a finite set.             *)
LEMMA StepSolution ==
  ASSUME NEW f, NEW S, IsFiniteSet(S)
  PROVE  \E g : Solution(f, g, S)
<1>. DEFINE Solves(g, n) == \A s \in SUBSET S : Cardinality(s) <= n => g[s] = Step(f, g, s)
            Good == {T \in SUBSET S : \E g : Solves(g, Cardinality(T))}
<1>0. \A s \in SUBSET S : IsFiniteSet(s) /\ Cardinality(s) \in Nat /\ Cardinality(s) <= Cardinality(S)
  BY FS_Subset, FS_CardinalityType
<1>1. ASSUME NEW T \in SUBSET S, \A x \in T : T \ {x} \in Good
      PROVE  T \in Good
  <2>1. CASE T = {}
    <3>1. \A s \in SUBSET S : Cardinality(s) <= 0 => s = {}
      BY <1>0, FS_EmptySet
    <3>2. Solves([s \in SUBSET S |-> 0], 0)
      BY <3>1 DEF Step
    <3>3. Cardinality(T) = 0
      BY <2>1, FS_EmptySet
    <3>. QED  BY <3>2, <3>3
  <2>2. CASE T # {}
    <3>1. PICK x \in T : TRUE
      BY <2>2
    <3>2. Cardinality(T \ {x}) = Cardinality(T) - 1
      BY <1>0, FS_RemoveElement
    <3>3. PICK g : Solves(g, Cardinality(T) - 1)
      BY <1>1, <3>1, <3>2
    <3>. DEFINE h == [s \in SUBSET S |-> Step(f, g, s)]
    <3>4. ASSUME NEW s \in SUBSET S, Cardinality(s) <= Cardinality(T)
          PROVE  h[s] = Step(f, h, s)
      <4>1. CASE s = {}
        BY <4>1 DEF Step
      <4>2. CASE s # {}
        <5>. DEFINE r == s \ {First(s)}
        <5>1. First(s) \in s
          BY <4>2, FirstIn
        <5>2. r \in SUBSET S /\ Cardinality(r) = Cardinality(s) - 1
          BY <1>0, <5>1, FS_RemoveElement
        <5>3. Cardinality(r) <= Cardinality(T) - 1
          BY <1>0, <3>4, <5>2
        <5>4. h[r] = g[r]
          BY <3>3, <5>2, <5>3
        <5>. QED  BY <4>2, <5>4 DEF Step
      <4>. QED  BY <4>1, <4>2
    <3>5. Solves(h, Cardinality(T))
      BY <3>4
    <3>. QED  BY <3>5
  <2>. QED  BY <2>1, <2>2
<1>2. S \in Good
  <2>. HIDE DEF Good
  <2>. QED  BY <1>1, SubsetInduction
<1>3. PICK g : Solves(g, Cardinality(S))
  BY <1>2
<1>. DEFINE h == [s \in SUBSET S |-> g[s]]
<1>4. ASSUME NEW s \in SUBSET S  PROVE h[s] = Step(f, h, s)
  <2>1. g[s] = Step(f, g, s)
    BY <1>0, <1>3
  <2>. QED  BY <2>1 DEF Step
<1>5. Solution(f, h, S)
  BY <1>4 DEF Solution
<1>. QED  BY <1>5

(* So SumFunctionOnSet is the value of one on the whole set.                 *)
LEMMA SumSolves ==
  ASSUME NEW f, NEW S, IsFiniteSet(S)
  PROVE  \E g : Solution(f, g, S) /\ SumFunctionOnSet(f, S) = g[S]
<1>. DEFINE it == CHOOSE g : g = [s \in SUBSET S |-> Step(f, g, s)]
<1>1. Solution(f, it, S)
  BY StepSolution DEF Solution
<1>2. SumFunctionOnSet(f, S) = it[S]
  BY DEF SumFunctionOnSet, FoldFunctionOnSet, MapThenFoldSet, Step, First
<1>. QED  BY <1>1, <1>2

(* Two solutions agree on the sets that both are given for.                  *)
LEMMA SolutionsAgree ==
  ASSUME NEW f, NEW S, NEW T, IsFiniteSet(T), T \subseteq S, NEW g, NEW h,
         Solution(f, g, S), Solution(f, h, T)
  PROVE  g[T] = h[T]
<1>. DEFINE Good == {U \in SUBSET T : g[U] = h[U]}
<1>1. ASSUME NEW U \in SUBSET T, \A x \in U : U \ {x} \in Good
      PROVE  U \in Good
  <2>1. g[U] = Step(f, g, U) /\ h[U] = Step(f, h, U)
    BY <1>1 DEF Solution
  <2>2. CASE U = {}
    BY <2>1, <2>2 DEF Step
  <2>3. CASE U # {}
    <3>1. g[U \ {First(U)}] = h[U \ {First(U)}]
      BY <1>1, <2>3, FirstIn
    <3>. QED  BY <2>1, <3>1 DEF Step
  <2>. QED  BY <2>2, <2>3
<1>2. T \in Good
  <2>. HIDE DEF Good
  <2>. QED  BY <1>1, SubsetInduction
<1>. QED  BY <1>2

LEMMA SumStep ==
  ASSUME NEW f, NEW S, IsFiniteSet(S)
  PROVE  SumFunctionOnSet(f, S) =
           IF S = {} THEN 0 ELSE f[First(S)] + SumFunctionOnSet(f, S \ {First(S)})
<1>1. PICK g : Solution(f, g, S) /\ SumFunctionOnSet(f, S) = g[S]
  BY SumSolves
<1>2. g[S] = Step(f, g, S)
  BY <1>1 DEF Solution
<1>3. CASE S = {}
  BY <1>1, <1>2, <1>3 DEF Step
<1>4. CASE S # {}
  <2>. DEFINE T == S \ {First(S)}
  <2>1. IsFiniteSet(T) /\ T \subseteq S
    BY FS_RemoveElement
  <2>2. PICK h : Solution(f, h, T) /\ SumFunctionOnSet(f, T) = h[T]
    BY <2>1, SumSolves
  <2>3. g[T] = h[T]
    <3>. HIDE DEF T
    <3>. QED  BY <1>1, <2>1, <2>2, SolutionsAgree
  <2>. QED  BY <1>1, <1>2, <1>4, <2>2, <2>3 DEF Step
<1>. QED  BY <1>3, <1>4

(* A sum of natural numbers is one.                                          *)
LEMMA SumIsNat ==
  ASSUME NEW D, NEW f \in [D -> Nat], NEW S \in SUBSET D, IsFiniteSet(S)
  PROVE  SumFunctionOnSet(f, S) \in Nat
<1>. DEFINE Good == {T \in SUBSET S : SumFunctionOnSet(f, T) \in Nat}
<1>1. ASSUME NEW T \in SUBSET S, \A x \in T : T \ {x} \in Good
      PROVE  T \in Good
  <2>1. IsFiniteSet(T)
    BY FS_Subset
  <2>2. CASE T = {}
    BY <2>1, <2>2, SumStep
  <2>3. CASE T # {}
    <3>1. First(T) \in T
      BY <2>3, FirstIn
    <3>2. f[First(T)] \in Nat /\ SumFunctionOnSet(f, T \ {First(T)}) \in Nat
      BY <1>1, <3>1
    <3>. QED  BY <2>1, <2>3, <3>2, SumStep
  <2>. QED  BY <2>2, <2>3
<1>2. S \in Good
  <2>. HIDE DEF Good
  <2>. QED  BY <1>1, SubsetInduction
<1>. QED  BY <1>2

(* Every element contributes its own value, whichever is taken first.        *)
THEOREM SumWithout ==
  ASSUME NEW D, NEW f \in [D -> Nat], NEW S \in SUBSET D, IsFiniteSet(S), NEW d \in S
  PROVE  SumFunctionOnSet(f, S) = f[d] + SumFunctionOnSet(f, S \ {d})
<1>. DEFINE Sum(T) == SumFunctionOnSet(f, T)
            Good == {T \in SUBSET S : \A x \in T : Sum(T) = f[x] + Sum(T \ {x})}
<1>0. \A T \in SUBSET S : IsFiniteSet(T) /\ Sum(T) \in Nat
  BY FS_Subset, SumIsNat
<1>1. \A T \in SUBSET S : T # {} => First(T) \in T /\ Sum(T) = f[First(T)] + Sum(T \ {First(T)})
  BY <1>0, SumStep, FirstIn
<1>2. ASSUME NEW T \in SUBSET S, \A x \in T : T \ {x} \in Good
      PROVE  T \in Good
  <2>1. SUFFICES ASSUME NEW x \in T  PROVE Sum(T) = f[x] + Sum(T \ {x})
    OBVIOUS
  <2>. DEFINE y == First(T)
  <2>2. y \in T /\ Sum(T) = f[y] + Sum(T \ {y})
    BY <1>1
  <2>3. CASE x = y
    BY <2>2, <2>3
  <2>4. CASE x # y
    <3>1. Sum(T \ {y}) = f[x] + Sum((T \ {y}) \ {x})
      BY <1>2, <2>2, <2>4
    <3>2. Sum(T \ {x}) = f[y] + Sum((T \ {x}) \ {y})
      BY <1>2, <2>2, <2>4
    <3>3. (T \ {x}) \ {y} = (T \ {y}) \ {x}
      OBVIOUS
    <3>. DEFINE rest == Sum((T \ {y}) \ {x})
    <3>4. rest \in Nat /\ f[x] \in Nat /\ f[y] \in Nat
      BY <1>0, <2>2
    <3>5. Sum(T) = f[y] + (f[x] + rest)
      BY <2>2, <3>1, Zenon
    <3>6. Sum(T \ {x}) = f[y] + rest
      BY <3>2, <3>3, Zenon
    <3>7. f[y] + (f[x] + rest) = f[x] + (f[y] + rest)
      <4>. HIDE DEF rest, y
      <4>. QED  BY <3>4
    <3>. HIDE DEF rest
    <3>. QED  BY <3>5, <3>6, <3>7, Zenon
  <2>. QED  BY <2>3, <2>4
<1>3. S \in Good
  <2>. HIDE DEF Good
  <2>. QED  BY <1>2, SubsetInduction
<1>. QED  BY <1>3

(* More of larger values is not less.                                        *)
LEMMA SumMonotone ==
  ASSUME NEW D, NEW f \in [D -> Nat], NEW g \in [D -> Nat], NEW S \in SUBSET D,
         IsFiniteSet(S), NEW R \in SUBSET S, \A x \in R : f[x] <= g[x]
  PROVE  SumFunctionOnSet(f, R) <= SumFunctionOnSet(g, S)
<1>. DEFINE Good == {T \in SUBSET S : SumFunctionOnSet(f, R \cap T) <= SumFunctionOnSet(g, T)}
<1>1. ASSUME NEW T \in SUBSET S, \A x \in T : T \ {x} \in Good
      PROVE  T \in Good
  <2>1. IsFiniteSet(T) /\ IsFiniteSet(R \cap T)
    BY FS_Subset
  <2>2. CASE T = {}
    <3>1. R \cap T = T
      BY <2>2
    <3>2. SumFunctionOnSet(f, R \cap T) = 0 /\ SumFunctionOnSet(g, T) = 0
      BY <2>1, <2>2, <3>1, SumStep
    <3>. QED  BY <3>2
  <2>3. CASE T # {}
    <3>1. PICK x \in T : TRUE
      BY <2>3
    <3>. DEFINE rest == SumFunctionOnSet(g, T \ {x})
                less == SumFunctionOnSet(f, R \cap (T \ {x}))
    <3>2. less <= rest
      BY <1>1, <3>1
    <3>3. SumFunctionOnSet(g, T) = g[x] + rest
      BY <2>1, <3>1, SumWithout
    <3>4. rest \in Nat /\ g[x] \in Nat /\ f[x] \in Nat
      <4>1. IsFiniteSet(T \ {x})
        BY <2>1, FS_RemoveElement
      <4>. QED  BY <3>1, <4>1, SumIsNat
    <3>5. less \in Nat
      <4>1. IsFiniteSet(R \cap (T \ {x})) /\ R \cap (T \ {x}) \in SUBSET D
        BY FS_Subset
      <4>. QED  BY <4>1, SumIsNat
    <3>6. CASE x \in R
      <4>1. (R \cap T) \ {x} = R \cap (T \ {x})
        OBVIOUS
      <4>2. SumFunctionOnSet(f, R \cap T) = f[x] + less
        BY <2>1, <3>1, <3>6, <4>1, SumWithout
      <4>3. f[x] <= g[x]
        BY <3>6
      <4>4. f[x] + less <= g[x] + rest
        <5>. HIDE DEF rest, less
        <5>. QED  BY <3>2, <3>4, <3>5, <4>3
      <4>. QED  BY <3>3, <4>2, <4>4
    <3>7. CASE x \notin R
      <4>1. R \cap T = R \cap (T \ {x})
        BY <3>7
      <4>2. less <= g[x] + rest
        <5>. HIDE DEF rest, less
        <5>. QED  BY <3>2, <3>4, <3>5
      <4>. QED  BY <3>3, <4>1, <4>2
    <3>. QED  BY <3>6, <3>7
  <2>. QED  BY <2>2, <2>3
<1>2. S \in Good
  <2>. HIDE DEF Good
  <2>. QED  BY <1>1, SubsetInduction
<1>3. R \cap S = R
  OBVIOUS
<1>. QED  BY <1>2, <1>3

(* A sum in which one value grows by at most k.                              *)
LEMMA SumGrows ==
  ASSUME NEW D, NEW f \in [D -> Nat], NEW g \in [D -> Nat], NEW S \in SUBSET D,
         IsFiniteSet(S), NEW d \in S, NEW k \in Nat, g[d] <= f[d] + k,
         \A x \in S \ {d} : g[x] <= f[x]
  PROVE  SumFunctionOnSet(g, S) <= SumFunctionOnSet(f, S) + k
<1>. DEFINE restF == SumFunctionOnSet(f, S \ {d})
            restG == SumFunctionOnSet(g, S \ {d})
<1>1. IsFiniteSet(S \ {d}) /\ S \ {d} \in SUBSET D
  BY FS_RemoveElement
<1>2. restF \in Nat /\ restG \in Nat
  BY <1>1, SumIsNat
<1>3. restG <= restF
  BY <1>1, SumMonotone
<1>4. SumFunctionOnSet(f, S) = f[d] + restF /\ SumFunctionOnSet(g, S) = g[d] + restG
  BY SumWithout
<1>5. g[d] + restG <= (f[d] + restF) + k
  <2>1. f[d] \in Nat /\ g[d] \in Nat
    OBVIOUS
  <2>. HIDE DEF restF, restG
  <2>. QED  BY <1>2, <1>3, <2>1
<1>. QED  BY <1>4, <1>5

(* A sum with one more summand, the others as before or less.                *)
LEMMA SumAdds ==
  ASSUME NEW D, NEW f \in [D -> Nat], NEW g \in [D -> Nat], NEW S \in SUBSET D,
         IsFiniteSet(S), NEW d \in D \ S, \A x \in S : g[x] <= f[x]
  PROVE  SumFunctionOnSet(g, S \cup {d}) <= SumFunctionOnSet(f, S) + g[d]
<1>1. IsFiniteSet(S \cup {d}) /\ (S \cup {d}) \ {d} = S
  BY FS_AddElement
<1>2. SumFunctionOnSet(g, S \cup {d}) = g[d] + SumFunctionOnSet(g, S)
  BY <1>1, SumWithout
<1>3. SumFunctionOnSet(g, S) <= SumFunctionOnSet(f, S)
  BY SumMonotone
<1>4. SumFunctionOnSet(g, S) \in Nat /\ SumFunctionOnSet(f, S) \in Nat
  BY SumIsNat
<1>5. g[d] \in Nat
  OBVIOUS
<1>. QED  BY <1>2, <1>3, <1>4, <1>5

-----------------------------------------------------------------------------
(* What is charged for the scratch directories.                             *)

ByteMap      == [d \in Dirs |-> Bytes(d)]
ScratchBytes == SumFunctionOnSet(ByteMap, present)

\* What the sums need of the state.
DiskOK == /\ present \subseteq Dirs /\ IsFiniteSet(present)
          /\ reserve \in [Dirs -> Nat] /\ used \in [Dirs -> Nat]

LEMMA ChargedSplit == Charged = retained + ScratchBytes
BY DEF Charged, ScratchBytes, ByteMap

LEMMA ByteMapType ==
  ASSUME DiskOK
  PROVE  /\ ByteMap \in [Dirs -> Nat]
         /\ \A d \in Dirs : /\ ByteMap[d] = Bytes(d) /\ Bytes(d) \in Nat
                            /\ used[d] <= Bytes(d)
BY DEF DiskOK, ByteMap, Bytes, Larger

LEMMA ScratchIsNat ==
  ASSUME DiskOK
  PROVE  ScratchBytes \in Nat
BY ByteMapType, SumIsNat DEF DiskOK, ScratchBytes

(* The cases of a step: no directory more and none dearer, one dearer by k,  *)
(* one more.                                                                *)
LEMMA ScratchShrinks ==
  ASSUME DiskOK, DiskOK', present' \subseteq present,
         \A d \in present' : Bytes(d)' <= Bytes(d)
  PROVE  ScratchBytes' <= ScratchBytes
<1>1. ByteMap \in [Dirs -> Nat] /\ \A d \in Dirs : ByteMap[d] = Bytes(d)
  BY ByteMapType
<1>2. ByteMap' \in [Dirs -> Nat] /\ \A d \in Dirs : ByteMap'[d] = Bytes(d)'
  BY DEF DiskOK, ByteMap, Bytes, Larger
<1>. DEFINE f == ByteMap
            g == ByteMap'
<1>3. \A d \in present' : g[d] <= f[d]
  BY <1>1, <1>2 DEF DiskOK
<1>4. SumFunctionOnSet(g, present') <= SumFunctionOnSet(f, present)
  <2>1. IsFiniteSet(present) /\ present \in SUBSET Dirs /\ present' \in SUBSET present
    BY DEF DiskOK
  <2>2. g \in [Dirs -> Nat] /\ f \in [Dirs -> Nat]
    BY <1>1, <1>2
  <2>. HIDE DEF f, g
  <2>. QED  BY <1>3, <2>1, <2>2, SumMonotone
<1>. QED  BY <1>4 DEF ScratchBytes

LEMMA ScratchGrows ==
  ASSUME DiskOK, DiskOK', present' = present, NEW d \in present, NEW k \in Nat,
         Bytes(d)' <= Bytes(d) + k,
         \A x \in present \ {d} : Bytes(x)' <= Bytes(x)
  PROVE  ScratchBytes' <= ScratchBytes + k
<1>1. ByteMap \in [Dirs -> Nat] /\ \A x \in Dirs : ByteMap[x] = Bytes(x)
  BY ByteMapType
<1>2. ByteMap' \in [Dirs -> Nat] /\ \A x \in Dirs : ByteMap'[x] = Bytes(x)'
  BY DEF DiskOK, ByteMap, Bytes, Larger
<1>. DEFINE f == ByteMap
            g == ByteMap'
<1>3. g[d] <= f[d] + k /\ \A x \in present \ {d} : g[x] <= f[x]
  BY <1>1, <1>2 DEF DiskOK
<1>4. SumFunctionOnSet(g, present) <= SumFunctionOnSet(f, present) + k
  <2>1. IsFiniteSet(present) /\ present \in SUBSET Dirs
    BY DEF DiskOK
  <2>2. g \in [Dirs -> Nat] /\ f \in [Dirs -> Nat]
    BY <1>1, <1>2
  <2>. HIDE DEF f, g
  <2>. QED  BY <1>3, <2>1, <2>2, SumGrows
<1>. QED  BY <1>4 DEF ScratchBytes

LEMMA ScratchAdds ==
  ASSUME DiskOK, DiskOK', NEW d \in Dirs \ present, present' = present \cup {d},
         \A x \in present : Bytes(x)' <= Bytes(x)
  PROVE  ScratchBytes' <= ScratchBytes + Bytes(d)'
<1>1. ByteMap \in [Dirs -> Nat] /\ \A x \in Dirs : ByteMap[x] = Bytes(x)
  BY ByteMapType
<1>2. ByteMap' \in [Dirs -> Nat] /\ \A x \in Dirs : ByteMap'[x] = Bytes(x)'
  BY DEF DiskOK, ByteMap, Bytes, Larger
<1>. DEFINE f == ByteMap
            g == ByteMap'
<1>3. \A x \in present : g[x] <= f[x]
  BY <1>1, <1>2 DEF DiskOK
<1>4. SumFunctionOnSet(g, present \cup {d}) <= SumFunctionOnSet(f, present) + g[d]
  <2>1. IsFiniteSet(present) /\ present \in SUBSET Dirs
    BY DEF DiskOK
  <2>2. g \in [Dirs -> Nat] /\ f \in [Dirs -> Nat]
    BY <1>1, <1>2
  <2>. HIDE DEF f, g
  <2>. QED  BY <1>3, <2>1, <2>2, SumAdds
<1>. QED  BY <1>2, <1>4 DEF ScratchBytes

-----------------------------------------------------------------------------
(* Who has what.                                                            *)

BusyPc     == {"permit"} \cup TaskPc
AdmittedPc == {"append", "copy", "linked"}

\* The request of c and what it holds.
OpOK(c) ==
  /\ op[c].pc = "idle" => op[c].id = None /\ op[c].kind = "none"
  /\ op[c].pc = "stage" => op[c].id = None /\ op[c].kind = "begin"
  /\ op[c].pc \in HeldPc => op[c].id \in Ids /\ Mine(c) # None
  /\ op[c].pc = "insert" =>
       /\ op[c].kind = "begin" /\ op[c].id \notin open /\ ~Mine(c).committed
       /\ \A b \in Clients \ {c} : op[b].id # op[c].id
  /\ op[c].pc \in {"lock"} \cup BusyPc =>
       /\ op[c].kind \in {"chunk", "commit"}
       /\ op[c].id \in open \/ Mine(c).committed
  /\ op[c].pc \in BusyPc => Mine(c).mutex = c
  /\ op[c].pc \in TaskPc => ~Mine(c).committed /\ Mine(c).file = Mine(c).acked
  /\ op[c].pc = "append" => op[c].kind = "chunk"

\* An upload and its staging directory.
UpOK(u) ==
  /\ u \in open => upload[u] # None /\ ~upload[u].committed
  /\ upload[u] # None =>
       /\ "server" \in lease[u] /\ u \in present
       /\ used[u] = Size(upload[u].file)
       /\ upload[u].written = Len(upload[u].acked)
       /\ \/ upload[u].file = upload[u].acked
          \/ upload[u].file = Append(upload[u].acked, Torn)

\* The worker and the program with their directory.
WorkOK ==
  /\ worker.program => /\ "program" \in lease[WorkDir] /\ WorkDir \in present
                       /\ reserve[WorkDir] = WorkSize + Margin
  /\ worker.pc # "idle" => /\ "worker" \in lease[WorkDir] /\ WorkDir \in present
                           /\ reserve[WorkDir] = WorkSize + Margin
  /\ worker.pc \in {"staged", "ended", "copying"} => ~worker.program
  /\ worker.pc = "running" => worker.program

\* The published file, and the copies of it that have two names.
PublishedSize == IF published = None THEN 0 ELSE Size(published)

PubOK ==
  /\ published = None \/ published \in Seq(Clients)
  /\ published = promised
  /\ retained \in Nat /\ twice \in Nat
  /\ retained >= twice + PublishedSize
  /\ \A c \in Clients : At(c, "linked") =>
       /\ published # None /\ twice >= used[op[c].id]
       /\ \A b \in Clients : At(b, "linked") => b = c

\* What is charged, with the copy that the budget of another time admitted, and
\* n bytes more have room.
Claimed == Charged + Unguarded
Room(n) == Claimed + n <= allowance + twice

BudgetOK ==
  /\ budget = Unlimited <=> allowance = Unlimited
  /\ budget # Unlimited =>
       /\ allowance \in Nat
       /\ budget + Unguarded <= allowance
       /\ Room(0)
       /\ \A c \in Clients :
            /\ op[c].pc \in AdmittedPc => controller = c
            /\ At(c, "append") => Room(ChunkSize)
            /\ At(c, "copy") => Room(used[op[c].id])
       /\ WorkerAt("copying") /\ controller = "worker" => Room(used[WorkDir])

\* TypeOK without the two counters of bytes, which PubOK has.
FlowTypes ==
  /\ controller \in {Nobody, "worker"} \cup Clients
  /\ budget \in Budgets
  /\ present \subseteq Dirs /\ IsFiniteSet(present) /\ open \subseteq Ids
  /\ reserve \in [Dirs -> Nat] /\ used \in [Dirs -> Nat]
  /\ \A d \in Dirs \ present : used[d] = 0 /\ reserve[d] = 0
  /\ lease \in [Dirs -> SUBSET {"server", "worker", "program"}]
  /\ dropping \in [Dirs -> SUBSET {"server", "worker"}]
  /\ worker \in [pc : WorkerPc, program : BOOLEAN, works : Nat]
  /\ upload \in [Ids -> Upload \cup {None}]
  /\ op \in [Clients -> [pc : OpPc, kind : Kinds, id : Ids \cup {None}]]
  /\ restarts \in Nat

UInv == /\ FlowTypes
        /\ \A c \in Clients : OpOK(c)
        /\ \A u \in Ids : UpOK(u)
        /\ WorkOK /\ PubOK /\ BudgetOK

-----------------------------------------------------------------------------
(* Constants.                                                              *)

LEMMA ConstantsOK ==
  /\ WorkDir \in Dirs /\ WorkDir \notin Ids /\ Ids \subseteq Dirs
  /\ Margin \in Nat /\ WorkSize \in Nat /\ ChunkSize \in Nat /\ ChunkSize >= 1
  /\ Torn \notin Clients /\ Nobody \notin Clients /\ "worker" \notin Clients
  /\ Nobody # "worker" /\ Unlimited \notin Nat /\ IsFiniteSet(Clients)
  /\ None \notin Ids /\ None \notin Upload /\ None \notin Seq(Clients)
  /\ \A b \in Budgets : b = Unlimited \/ b \in Nat
BY StorageAssumption, UploadAssumption, NoneAssumption DEF Ids

LEMMA TypeFromParts == FlowTypes /\ PubOK => TypeOK
BY DEF FlowTypes, PubOK, TypeOK

LEMMA DiskFromTypes == FlowTypes => DiskOK
BY DEF FlowTypes, DiskOK

-----------------------------------------------------------------------------
(* Bytes of a staging file.                                                *)

LEMMA TornIn ==
  ASSUME NEW f \in Seq(Clients \cup {Torn})
  PROVE  LET torn == {i \in DOMAIN f : f[i] = Torn}
         IN  IsFiniteSet(torn) /\ Cardinality(torn) \in Nat /\ Cardinality(torn) <= Len(f)
<1>1. IsFiniteSet(DOMAIN f) /\ Cardinality(DOMAIN f) = Len(f)
  <2>1. DOMAIN f = 1..Len(f) /\ Len(f) \in Nat
    BY LenProperties
  <2>. QED  BY <2>1, FS_Interval
<1>. QED  BY <1>1, FS_Subset, FS_CardinalityType

LEMMA ProductIsNat == \A m, n \in Nat : m * n \in Nat
OBVIOUS

LEMMA SizeIsNat ==
  ASSUME NEW f \in Seq(Clients \cup {Torn})
  PROVE  Size(f) \in Nat
<1>. DEFINE k == Cardinality({i \in DOMAIN f : f[i] = Torn})
<1>1. k \in Nat /\ k <= Len(f) /\ Len(f) \in Nat
  BY TornIn, LenProperties
<1>2. Len(f) - k \in Nat
  <2>. HIDE DEF k
  <2>. QED  BY <1>1
<1>3. Size(f) = ChunkSize * (Len(f) - k) + k
  BY DEF Size
<1>4. ChunkSize * (Len(f) - k) \in Nat
  <2>. HIDE DEF k
  <2>. QED  BY <1>2, ConstantsOK, ProductIsNat
<1>5. QED
  <2>. HIDE DEF k
  <2>. QED  BY <1>1, <1>3, <1>4

\* Whole chunks.
LEMMA SizeWhole ==
  ASSUME NEW f \in Seq(Clients)
  PROVE  Size(f) = ChunkSize * Len(f)
<1>1. {i \in DOMAIN f : f[i] = Torn} = {}
  BY ConstantsOK, ElementOfSeq
<1>2. Cardinality({i \in DOMAIN f : f[i] = Torn}) = 0
  BY <1>1, FS_EmptySet
<1>3. Len(f) \in Nat /\ ChunkSize \in Nat
  BY ConstantsOK, LenProperties
<1>4. ChunkSize * (Len(f) - 0) + 0 = ChunkSize * Len(f)
  BY <1>3
<1>. QED  BY <1>2, <1>4 DEF Size

\* A chunk more, or a part of one.
LEMMA SizeChunk ==
  ASSUME NEW f \in Seq(Clients), NEW c \in Clients
  PROVE  Append(f, c) \in Seq(Clients) /\ Size(Append(f, c)) = Size(f) + ChunkSize
<1>1. Append(f, c) \in Seq(Clients) /\ Len(Append(f, c)) = Len(f) + 1 /\ Len(f) \in Nat
  BY AppendProperties, LenProperties
<1>2. \A n \in Nat : ChunkSize * (n + 1) = ChunkSize * n + ChunkSize
  BY ConstantsOK
<1>. QED  BY <1>1, <1>2, SizeWhole

LEMMA SizeTorn ==
  ASSUME NEW f \in Seq(Clients)
  PROVE  Append(f, Torn) \in Seq(Clients \cup {Torn}) /\ Size(Append(f, Torn)) = Size(f) + 1
<1>. DEFINE s == Append(f, Torn)
<1>0. f \in Seq(Clients \cup {Torn})
  BY SeqMonotonic
<1>1. /\ s \in Seq(Clients \cup {Torn}) /\ Len(s) = Len(f) + 1 /\ Len(f) \in Nat
      /\ \A i \in 1..Len(f) : s[i] = f[i]
      /\ s[Len(f) + 1] = Torn
  BY <1>0, AppendProperties, LenProperties
<1>2. {i \in DOMAIN s : s[i] = Torn} = {Len(f) + 1}
  <2>1. DOMAIN s = 1..(Len(f) + 1)
    BY <1>1, LenProperties
  <2>2. \A i \in 1..Len(f) : f[i] # Torn
    BY ConstantsOK, ElementOfSeq
  <2>. HIDE DEF s
  <2>3. \A i \in 1..(Len(f) + 1) : i \in 1..Len(f) \/ i = Len(f) + 1
    BY <1>1
  <2>4. Len(f) + 1 \in 1..(Len(f) + 1)
    BY <1>1
  <2>. QED  BY <1>1, <2>1, <2>2, <2>3, <2>4
<1>3. Cardinality({i \in DOMAIN s : s[i] = Torn}) = 1
  BY <1>2, FS_Singleton
<1>4. Size(s) = ChunkSize * (Len(s) - 1) + 1
  BY <1>3 DEF Size
<1>5. Len(s) - 1 = Len(f)
  <2>. HIDE DEF s
  <2>. QED  BY <1>1
<1>. QED  BY <1>1, <1>4, <1>5, SizeWhole

\* Cutting a file back to what counts leaves what was acknowledged.
LEMMA CutIsAcked ==
  ASSUME NEW up \in Upload, up.written = Len(up.acked),
         up.file = up.acked \/ up.file = Append(up.acked, Torn)
  PROVE  /\ Cut(up) = [up EXCEPT !.file = up.acked]
         /\ Size(up.acked) <= Size(up.file)
         /\ Size(up.acked) \in Nat /\ Size(up.file) \in Nat
<1>. DEFINE a == up.acked
<1>1. a \in Seq(Clients) /\ a \in Seq(Clients \cup {Torn}) /\ up.file \in Seq(Clients \cup {Torn})
  BY SeqMonotonic DEF Upload
<1>2. Len(a) \in Nat
  BY <1>1, LenProperties
<1>3. SubSeq(up.file, 1, Len(a)) = a
  <2>1. CASE up.file = a
    BY <1>1, <2>1, SubSeqFull
  <2>2. CASE up.file = Append(a, Torn)
    <3>. DEFINE s == Append(a, Torn)
    <3>1. /\ s \in Seq(Clients \cup {Torn})
          /\ Len(s) = Len(a) + 1
          /\ \A i \in 1..Len(a) : s[i] = a[i]
      BY <1>1, AppendProperties
    <3>2. \A i \in 1..Len(a) : s[i] \in Clients \cup {Torn}
      BY <1>1, <3>1, ElementOfSeq
    <3>3. /\ SubSeq(s, 1, Len(a)) \in Seq(Clients \cup {Torn})
          /\ Len(SubSeq(s, 1, Len(a))) = IF 1 <= Len(a) THEN Len(a) - 1 + 1 ELSE 0
          /\ \A i \in 1..(Len(a) - 1 + 1) : SubSeq(s, 1, Len(a))[i] = s[1 + i - 1]
      <4>. HIDE DEF s, a
      <4>. QED  BY <1>2, <3>2, SubSeqProperties
    <3>4. Len(SubSeq(s, 1, Len(a))) = Len(a)
      <4>. HIDE DEF s, a
      <4>. QED  BY <1>2, <3>3
    <3>5. \A i \in 1..Len(a) : SubSeq(s, 1, Len(a))[i] = a[i]
      <4>. HIDE DEF s, a
      <4>1. Len(a) - 1 + 1 = Len(a) /\ \A i \in 1..Len(a) : 1 + i - 1 = i
        BY <1>2
      <4>. QED  BY <3>1, <3>3, <4>1
    <3>6. SubSeq(s, 1, Len(a)) = a
      <4>. HIDE DEF s, a
      <4>. QED  BY <1>1, <3>3, <3>4, <3>5, SeqEqual
    <3>. QED  BY <2>2, <3>6
  <2>. QED  BY <2>1, <2>2
<1>4. Cut(up) = [up EXCEPT !.file = a]
  BY <1>3 DEF Cut
<1>5. Size(a) \in Nat /\ Size(up.file) \in Nat
  BY <1>1, SizeIsNat
<1>6. Size(a) <= Size(up.file)
  <2>1. Size(Append(a, Torn)) = Size(a) + 1
    BY <1>1, SizeTorn
  <2>2. up.file = a \/ up.file = Append(a, Torn)
    OBVIOUS
  <2>3. Size(up.file) = Size(a) \/ Size(up.file) = Size(a) + 1
    BY <2>1, <2>2, Zenon
  <2>. QED  BY <1>5, <2>3
<1>. QED  BY <1>4, <1>5, <1>6

-----------------------------------------------------------------------------
(* Dropped uploads, and the end of a request.                               *)

\* What Drop does, pointwise.
Dropped(ids, now) ==
  /\ upload' \in [Ids -> Upload \cup {None}]
  /\ lease' \in [Dirs -> SUBSET {"server", "worker", "program"}]
  /\ dropping' \in [Dirs -> SUBSET {"server", "worker"}]
  /\ \A u \in Ids : upload'[u] = IF u \in ids THEN None ELSE now[u]
  /\ \A d \in Dirs : lease'[d] = IF d \in ids THEN lease[d] \ {"server"} ELSE lease[d]

LEMMA DropEffect ==
  ASSUME FlowTypes, NEW ids \in SUBSET Ids, NEW now \in [Ids -> Upload \cup {None}], Drop(ids, now)
  PROVE  Dropped(ids, now)
<1>1. /\ upload' = [u \in Ids |-> IF u \in ids THEN None ELSE now[u]]
      /\ lease' = [d \in Dirs |-> IF d \in ids THEN lease[d] \ {"server"} ELSE lease[d]]
      /\ dropping' = [d \in Dirs |-> IF d \in ids THEN dropping[d] \cup {"server"} ELSE dropping[d]]
  BY DEF Drop
<1>2. upload' \in [Ids -> Upload \cup {None}]
  BY <1>1
<1>3. lease' \in [Dirs -> SUBSET {"server", "worker", "program"}]
  BY <1>1 DEF FlowTypes
<1>4. dropping' \in [Dirs -> SUBSET {"server", "worker"}]
  BY <1>1 DEF FlowTypes
<1>6. \A u \in Ids : upload'[u] = IF u \in ids THEN None ELSE now[u]
  BY <1>1
<1>7. \A d \in Dirs : lease'[d] = IF d \in ids THEN lease[d] \ {"server"} ELSE lease[d]
  BY <1>1
<1>. QED  BY <1>2, <1>3, <1>4, <1>6, <1>7 DEF Dropped

LEMMA FinishEffect ==
  ASSUME FlowTypes, NEW c \in Clients, NEW now \in [Ids -> Upload \cup {None}],
         NEW map \in SUBSET Ids, Finish(c, now, map)
  PROVE  /\ op' \in [Clients -> [pc : OpPc, kind : Kinds, id : Ids \cup {None}]]
         /\ op'[c] = IdleOp /\ \A b \in Clients \ {c} : op'[b] = op[b]
         /\ open' = map
         /\ upload' \in [Ids -> Upload \cup {None}]
         /\ lease' \in [Dirs -> SUBSET {"server", "worker", "program"}]
         /\ dropping' \in [Dirs -> SUBSET {"server", "worker"}]
         /\ \A u \in Ids :
              \/ upload'[u] = now[u] /\ lease'[u] = lease[u]
              \/ /\ upload'[u] = None /\ u \notin map /\ u = op[c].id
                 /\ \A b \in Clients \ {c} : op[b].id # u
         /\ \A d \in Dirs : lease'[d] \subseteq lease[d]
         /\ \A d \in Dirs \ Ids : lease'[d] = lease[d]
<1>. DEFINE ids == {u \in Ids \ map : Holds(c, u) /\ ~\E b \in Clients \ {c} : Holds(b, u)}
<1>1. ids \in SUBSET Ids /\ Drop(ids, now) /\ open' = map /\ op' = [op EXCEPT ![c] = IdleOp]
  BY DEF Finish
<1>2. \A u \in ids : u \notin map /\ u = op[c].id /\ \A b \in Clients \ {c} : op[b].id # u
  BY DEF Holds
<1>3. /\ op' \in [Clients -> [pc : OpPc, kind : Kinds, id : Ids \cup {None}]]
      /\ op'[c] = IdleOp /\ \A b \in Clients \ {c} : op'[b] = op[b]
  <2>1. IdleOp \in [pc : OpPc, kind : Kinds, id : Ids \cup {None}]
    BY DEF IdleOp, OpPc, Kinds
  <2>. QED  BY <1>1, <2>1 DEF FlowTypes
<1>4. /\ upload' \in [Ids -> Upload \cup {None}]
      /\ lease' \in [Dirs -> SUBSET {"server", "worker", "program"}]
      /\ dropping' \in [Dirs -> SUBSET {"server", "worker"}]
      /\ \A u \in Ids : upload'[u] = IF u \in ids THEN None ELSE now[u]
      /\ \A d \in Dirs : lease'[d] = IF d \in ids THEN lease[d] \ {"server"} ELSE lease[d]
  <2>1. Dropped(ids, now)
    <3>. HIDE DEF ids
    <3>. QED  BY <1>1, DropEffect
  <2>. QED  BY <2>1 DEF Dropped
<1>. HIDE DEF ids
<1>5. \A d \in Dirs : d \in ids => d \in Ids
  BY <1>1
<1>6. \A u \in Ids : u \in Dirs
  BY ConstantsOK
<1>7. \A u \in Ids :
              \/ upload'[u] = now[u] /\ lease'[u] = lease[u]
              \/ /\ upload'[u] = None /\ u \notin map /\ u = op[c].id
                 /\ \A b \in Clients \ {c} : op[b].id # u
  BY <1>2, <1>4, <1>6
<1>8. \A d \in Dirs : lease'[d] \subseteq lease[d]
  BY <1>4
<1>9. \A d \in Dirs \ Ids : lease'[d] = lease[d]
  BY <1>4, <1>5
<1>. QED  BY <1>1, <1>3, <1>4, <1>7, <1>8, <1>9

-----------------------------------------------------------------------------
(* What a step leaves of the invariant of the requests and uploads it does   *)
(* not touch.                                                              *)

\* A request that is not part of the step: the upload that it holds is there,
\* as it was when the request owns it; it leaves the map only when committed.
OpFrame(b) ==
  /\ op'[b] = op[b]
  /\ op[b].pc \in HeldPc =>
       LET u == op[b].id IN
       /\ upload'[u] # None
       /\ upload[u].committed => upload'[u].committed
       /\ op[b].pc # "insert" /\ u \in open => u \in open' \/ upload'[u].committed
       /\ op[b].pc # "lock" => /\ upload'[u].committed = upload[u].committed
                               /\ upload'[u].mutex = upload[u].mutex
                               /\ upload'[u].file = upload[u].file
                               /\ upload'[u].acked = upload[u].acked
       /\ op[b].pc = "insert" => /\ u \notin open'
                                 /\ \A d \in Clients \ {b} : op'[d].id # u

LEMMA OpKept ==
  ASSUME NEW b \in Clients, OpOK(b), OpFrame(b)
  PROVE  OpOK(b)'
<1>1. op'[b] = op[b] /\ Mine(b) = upload[op[b].id] /\ Mine(b)' = upload'[op[b].id]
  BY DEF OpFrame, Mine
<1>2. /\ (op[b].pc = "idle" => op[b].id = None /\ op[b].kind = "none")'
      /\ (op[b].pc = "stage" => op[b].id = None /\ op[b].kind = "begin")'
  BY <1>1 DEF OpOK
<1>3. (op[b].pc \in HeldPc => op[b].id \in Ids /\ Mine(b) # None)'
  BY <1>1 DEF OpOK, OpFrame
<1>4. (op[b].pc = "insert" =>
       /\ op[b].kind = "begin" /\ op[b].id \notin open /\ ~Mine(b).committed
       /\ \A d \in Clients \ {b} : op[d].id # op[b].id)'
  <2>1. "insert" \in HeldPc
    BY DEF HeldPc
  <2>. QED  BY <1>1, <2>1 DEF OpOK, OpFrame
<1>5. (op[b].pc \in {"lock"} \cup BusyPc =>
       /\ op[b].kind \in {"chunk", "commit"}
       /\ op[b].id \in open \/ Mine(b).committed)'
  <2>1. op[b].pc \in {"lock"} \cup BusyPc => op[b].pc \in HeldPc /\ op[b].pc # "insert"
    BY DEF HeldPc, BusyPc, TaskPc
  <2>. QED  BY <1>1, <2>1 DEF OpOK, OpFrame
<1>6. (op[b].pc \in BusyPc => Mine(b).mutex = b)'
  <2>1. op[b].pc \in BusyPc => op[b].pc \in HeldPc /\ op[b].pc # "lock"
    BY DEF HeldPc, BusyPc, TaskPc
  <2>. QED  BY <1>1, <2>1 DEF OpOK, OpFrame
<1>7. (op[b].pc \in TaskPc => ~Mine(b).committed /\ Mine(b).file = Mine(b).acked)'
  <2>1. op[b].pc \in TaskPc => op[b].pc \in HeldPc /\ op[b].pc # "lock"
    BY DEF HeldPc, TaskPc
  <2>. QED  BY <1>1, <2>1 DEF OpOK, OpFrame
<1>8. (op[b].pc = "append" => op[b].kind = "chunk")'
  BY <1>1 DEF OpOK
<1>. QED  BY <1>2, <1>3, <1>4, <1>5, <1>6, <1>7, <1>8 DEF OpOK

\* An upload that is not part of the step, but may have grown stale, been locked
\* or be dropped.
UpFrame(u) ==
  /\ u \in open' => u \in open /\ upload'[u] # None
  /\ upload'[u] # None =>
       /\ upload[u] # None
       /\ "server" \in lease'[u] /\ u \in present' /\ used'[u] = used[u]
       /\ upload'[u].committed = upload[u].committed /\ upload'[u].file = upload[u].file
       /\ upload'[u].acked = upload[u].acked /\ upload'[u].written = upload[u].written

LEMMA UpKept ==
  ASSUME NEW u \in Ids, UpOK(u), UpFrame(u)
  PROVE  UpOK(u)'
<1>1. CASE upload'[u] = None
  BY <1>1 DEF UpOK, UpFrame
<1>2. CASE upload'[u] # None
  <2>1. upload'[u].file = upload[u].file
    BY <1>2 DEF UpFrame
  <2>2. Size(upload[u].file)' = Size(upload[u].file)
    BY <2>1 DEF Size
  <2>. QED  BY <1>2, <2>1, <2>2 DEF UpOK, UpFrame
<1>. QED  BY <1>1, <1>2

\* The worker's directory.
LEMMA WorkKept ==
  ASSUME WorkOK, worker' = worker, lease'[WorkDir] = lease[WorkDir],
         WorkDir \in present => WorkDir \in present' /\ reserve'[WorkDir] = reserve[WorkDir]
  PROVE  WorkOK'
BY DEF WorkOK

\* Nothing of the requests and uploads changes.
LEMMA UploadsKept ==
  ASSUME FlowTypes, \A c \in Clients : OpOK(c), \A u \in Ids : UpOK(u),
         UNCHANGED <<open, upload, op>>,
         \A u \in Ids : "server" \in lease[u] /\ u \in present =>
            "server" \in lease'[u] /\ u \in present' /\ used'[u] = used[u]
  PROVE  (\A c \in Clients : OpOK(c)') /\ (\A u \in Ids : UpOK(u)')
<1>1. ASSUME NEW b \in Clients  PROVE OpOK(b)'
  <2>1. OpOK(b)
    OBVIOUS
  <2>2. OpFrame(b)
    BY <2>1 DEF OpFrame, OpOK, Mine
  <2>. QED  BY <2>1, <2>2, OpKept
<1>2. ASSUME NEW u \in Ids  PROVE UpOK(u)'
  <2>1. UpOK(u)
    OBVIOUS
  <2>2. UpFrame(u)
    BY <2>1 DEF UpFrame, UpOK
  <2>. QED  BY <2>1, <2>2, UpKept
<1>. QED  BY <1>1, <1>2

\* Uploads that nobody holds are dropped.
LEMMA DropFree ==
  ASSUME FlowTypes, \A c \in Clients : OpOK(c), \A u \in Ids : UpOK(u), WorkOK,
         NEW ids \in SUBSET Ids, Dropped(ids, upload), open' = open \ ids,
         \A u \in ids, c \in Clients : op[c].id # u,
         UNCHANGED <<present, used, reserve, worker>>
  PROVE  /\ \A c \in Clients : op'[c] = op[c] /\
               (\A d \in Clients \ {c} : op[c].pc = "insert" => op'[d].id # op[c].id) => OpOK(c)'
         /\ \A u \in Ids : UpOK(u)'
         /\ WorkOK'
<1>1. ASSUME NEW b \in Clients, op'[b] = op[b],
             \A d \in Clients \ {b} : op[b].pc = "insert" => op'[d].id # op[b].id
      PROVE  OpOK(b)'
  <2>1. OpOK(b) /\ op[b].id \notin ids
    OBVIOUS
  <2>2. op[b].pc \in HeldPc => upload'[op[b].id] = upload[op[b].id]
    BY <2>1 DEF Dropped, OpOK
  <2>3. OpFrame(b)
    BY <1>1, <2>1, <2>2 DEF OpFrame, OpOK, Mine
  <2>. QED  BY <2>1, <2>3, OpKept
<1>2. ASSUME NEW u \in Ids  PROVE UpOK(u)'
  <2>1. UpOK(u) /\ u \in Dirs
    BY ConstantsOK
  <2>2. CASE u \in ids
    <3>1. upload'[u] = None /\ u \notin open'
      BY <2>2 DEF Dropped
    <3>2. UpFrame(u)
      BY <3>1 DEF UpFrame
    <3>. QED  BY <2>1, <3>2, UpKept
  <2>3. CASE u \notin ids
    <3>1. upload'[u] = upload[u] /\ lease'[u] = lease[u] /\ (u \in open' => u \in open)
      BY <2>1, <2>3 DEF Dropped
    <3>2. UpFrame(u)
      BY <2>1, <3>1 DEF UpFrame, UpOK
    <3>. QED  BY <2>1, <3>2, UpKept
  <2>. QED  BY <2>2, <2>3
<1>3. WorkOK'
  <2>1. lease'[WorkDir] = lease[WorkDir]
    BY ConstantsOK DEF Dropped
  <2>. QED  BY <2>1, WorkKept
<1>. QED  BY <1>1, <1>2, <1>3

-----------------------------------------------------------------------------
(* One lemma per operation: it keeps the flow of requests and uploads.       *)

FlowInv == /\ FlowTypes
           /\ \A c \in Clients : OpOK(c)
           /\ \A u \in Ids : UpOK(u)
           /\ WorkOK

LEMMA ExpiredIsFree ==
  ASSUME FlowTypes
  PROVE  /\ Expired \in SUBSET Ids
         /\ \A u \in Expired, c \in Clients : op[c].id # u
BY DEF FlowTypes, Expired, Holds

LEMMA BeginStep ==
  ASSUME FlowInv, NEW c \in Clients, Begin(c)
  PROVE  FlowInv'
<1>. USE DEF FlowInv
<1>1. Dropped(Expired, upload)
  <2>1. upload \in [Ids -> Upload \cup {None}] /\ Drop(Expired, upload)
    BY DEF FlowTypes, Begin
  <2>. QED  BY <2>1, ExpiredIsFree, DropEffect
<1>2. /\ op' = [op EXCEPT ![c] = [pc |-> "stage", kind |-> "begin", id |-> None]]
      /\ open' = open \ Expired
      /\ UNCHANGED <<controller, budget, disk, worker, restarts>>
  BY DEF Begin
<1>3. FlowTypes'
  BY <1>1, <1>2 DEF FlowTypes, Dropped, disk, OpPc, Kinds
<1>4. /\ op'[c].pc = "stage" /\ op'[c].id = None /\ op'[c].kind = "begin"
      /\ \A b \in Clients \ {c} : op'[b] = op[b]
  BY <1>2 DEF FlowTypes
<1>5. /\ \A b \in Clients : op'[b] = op[b] /\
            (\A d \in Clients \ {b} : op[b].pc = "insert" => op'[d].id # op[b].id) => OpOK(b)'
      /\ \A u \in Ids : UpOK(u)'
      /\ WorkOK'
  BY <1>1, <1>2, ExpiredIsFree, DropFree DEF disk
<1>6. OpOK(c)'
  BY <1>4 DEF OpOK, HeldPc, BusyPc, TaskPc
<1>7. ASSUME NEW b \in Clients, b # c  PROVE OpOK(b)'
  <2>1. op'[b] = op[b]
    BY <1>4, <1>7
  <2>2. ASSUME NEW d \in Clients \ {b}, op[b].pc = "insert"  PROVE op'[d].id # op[b].id
    <3>1. op[b].id \in Ids /\ op[d].id # op[b].id
      BY <2>2 DEF OpOK, HeldPc
    <3>. QED  BY <1>4, <3>1, ConstantsOK
  <2>. QED  BY <1>5, <2>1, <2>2
<1>. QED  BY <1>3, <1>5, <1>6, <1>7

LEMMA InsertStep ==
  ASSUME FlowInv, NEW c \in Clients, Insert(c)
  PROVE  FlowInv'
<1>. USE DEF FlowInv
<1>. DEFINE u == op[c].id
<1>1. /\ op' = [op EXCEPT ![c] = IdleOp]
      /\ UNCHANGED <<controller, budget, disk, worker, restarts>>
      /\ op[c].pc = "insert"
  BY DEF Insert, At
<1>2. u \in Ids /\ upload[u] # None /\ ~upload[u].committed /\ u \notin open
      /\ \A b \in Clients \ {c} : op[b].id # u
  BY <1>1 DEF OpOK, HeldPc, Mine
<1>3. /\ op'[c] = IdleOp /\ \A b \in Clients \ {c} : op'[b] = op[b]
      /\ op' \in [Clients -> [pc : OpPc, kind : Kinds, id : Ids \cup {None}]]
  <2>1. IdleOp \in [pc : OpPc, kind : Kinds, id : Ids \cup {None}]
    BY DEF IdleOp, OpPc, Kinds
  <2>. QED  BY <1>1, <2>1 DEF FlowTypes
<1>4. OpOK(c)'
  BY <1>3 DEF OpOK, HeldPc, BusyPc, TaskPc, IdleOp
<1>5. upload \in [Ids -> Upload \cup {None}] /\ open \in SUBSET Ids
  BY DEF FlowTypes
<1>6. PICK ids \in {Expired, Expired \cup {u}} :
        /\ Drop(ids, upload)
        /\ \/ ids = Expired /\ open' = (open \ Expired) \cup {u}
           \/ ids = Expired \cup {u} /\ open' = open \ Expired
  BY DEF Insert
<1>7. ids \in SUBSET Ids
  BY <1>2, <1>6, ExpiredIsFree
<1>8. Dropped(ids, upload)
  BY <1>5, <1>6, <1>7, DropEffect
<1>9. u \notin Expired
  BY ExpiredIsFree
<1>10. open' \in SUBSET Ids
  BY <1>2, <1>5, <1>6
<1>11. FlowTypes'
  BY <1>1, <1>3, <1>8, <1>10 DEF FlowTypes, Dropped, disk
<1>12. ASSUME NEW b \in Clients, b # c  PROVE OpOK(b)'
  <2>1. OpOK(b) /\ op[b].id # u /\ op[b].id \notin ids /\ op'[b] = op[b]
    BY <1>2, <1>3, <1>6, <1>12, ExpiredIsFree
  <2>2. op[b].pc \in HeldPc => /\ upload'[op[b].id] = upload[op[b].id]
                               /\ op[b].id \in open' <=> op[b].id \in open
    BY <1>6, <1>8, <2>1 DEF Dropped, OpOK
  <2>3. op[b].pc = "insert" => \A d \in Clients \ {b} : op'[d].id # op[b].id
    <3>1. ASSUME op[b].pc = "insert", NEW d \in Clients \ {b}  PROVE op'[d].id # op[b].id
      <4>1. op[b].id \in Ids /\ op[d].id # op[b].id
        BY <2>1, <3>1 DEF OpOK, HeldPc
      <4>. QED  BY <1>3, <4>1, ConstantsOK DEF IdleOp
    <3>. QED  BY <3>1
  <2>4. OpFrame(b)
    BY <2>1, <2>2, <2>3 DEF OpFrame, OpOK, Mine
  <2>. QED  BY <2>1, <2>4, OpKept
<1>13. ASSUME NEW v \in Ids  PROVE UpOK(v)'
  <2>1. UpOK(v) /\ v \in Dirs
    BY ConstantsOK
  <2>2. CASE v \in ids
    <3>1. upload'[v] = None /\ v \notin open'
      BY <1>2, <1>6, <1>8, <1>9, <2>2 DEF Dropped
    <3>2. UpFrame(v)
      BY <3>1 DEF UpFrame
    <3>. QED  BY <2>1, <3>2, UpKept
  <2>3. CASE v \notin ids
    <3>1. upload'[v] = upload[v] /\ lease'[v] = lease[v] /\ (v \in open' => v \in open \/ v = u)
      BY <1>6, <1>8, <2>1, <2>3 DEF Dropped
    <3>2. present' = present /\ used' = used
      BY <1>1 DEF disk
    <3>3. Size(upload[v].file)' = Size(upload[v].file)
      BY <3>1 DEF Size
    <3>. QED  BY <1>2, <2>1, <3>1, <3>2, <3>3 DEF UpOK
  <2>. QED  BY <2>2, <2>3
<1>14. WorkOK'
  <2>1. lease'[WorkDir] = lease[WorkDir]
    BY <1>7, <1>8, ConstantsOK DEF Dropped
  <2>. QED  BY <1>1, <2>1, WorkKept DEF disk
<1>. QED  BY <1>4, <1>11, <1>12, <1>13, <1>14

\* Nobody else works on the upload of a request that has locked it.
LEMMA SoleHolder ==
  ASSUME FlowTypes, \A b \in Clients : OpOK(b), NEW c \in Clients, op[c].pc \in BusyPc,
         NEW b \in Clients \ {c}, op[b].id = op[c].id
  PROVE  op[b].pc = "lock"
<1>1. op[c].id \in Ids /\ Mine(c).mutex = c /\ op[c].pc \in HeldPc
  BY DEF OpOK, BusyPc, HeldPc
<1>2. op[b].pc \notin {"idle", "stage"}
  BY <1>1, ConstantsOK DEF OpOK
<1>3. op[b].pc \notin BusyPc
  BY <1>1 DEF OpOK, Mine
<1>4. op[b].pc # "insert"
  BY DEF OpOK
<1>5. op[b].pc \in OpPc
  BY DEF FlowTypes
<1>. QED  BY <1>2, <1>3, <1>4, <1>5 DEF OpPc, HeldPc, BusyPc

\* A request lets go of its upload, which is now, and may leave the map only
\* when it is committed.
EndOK(c, now, map) ==
  /\ \A u \in Ids : u # op[c].id => now[u] = upload[u] /\ used'[u] = used[u]
  /\ op[c].id \in Ids =>
       LET up == now[op[c].id] IN
       /\ up # None
       /\ Mine(c).committed => up.committed
       /\ op[c].id \in map => ~up.committed
       /\ op[c].id \in open \ map => up.committed
       /\ used'[op[c].id] = Size(up.file)
       /\ up.written = Len(up.acked)
       /\ up.file = up.acked \/ up.file = Append(up.acked, Torn)
       /\ up = Mine(c) \/ \A b \in Clients \ {c} : op[b].id = op[c].id => op[b].pc = "lock"
  /\ map \subseteq open /\ open \subseteq map \cup {op[c].id}
  /\ UNCHANGED <<present, reserve, worker>>

\* What the end of a request leaves.
Ended(c) ==
  /\ op' \in [Clients -> [pc : OpPc, kind : Kinds, id : Ids \cup {None}]]
  /\ open' \subseteq Ids
  /\ upload' \in [Ids -> Upload \cup {None}]
  /\ lease' \in [Dirs -> SUBSET {"server", "worker", "program"}]
  /\ dropping' \in [Dirs -> SUBSET {"server", "worker"}]
  /\ \A b \in Clients : OpOK(b)'
  /\ \A u \in Ids : UpOK(u)'
  /\ WorkOK'
  /\ op'[c] = IdleOp
  /\ \A b \in Clients \ {c} : /\ op'[b] = op[b]
                              /\ op[b].pc \in BusyPc => upload'[op[b].id] = upload[op[b].id]
  /\ \A d \in Dirs : lease'[d] \subseteq lease[d]

LEMMA FinishKeeps ==
  ASSUME FlowInv, NEW c \in Clients, NEW now \in [Ids -> Upload \cup {None}],
         NEW map \in SUBSET Ids, Finish(c, now, map), EndOK(c, now, map)
  PROVE  Ended(c)
<1>. USE DEF FlowInv
<1>1. /\ op' \in [Clients -> [pc : OpPc, kind : Kinds, id : Ids \cup {None}]]
      /\ op'[c] = IdleOp /\ \A b \in Clients \ {c} : op'[b] = op[b]
      /\ open' = map
      /\ upload' \in [Ids -> Upload \cup {None}]
      /\ lease' \in [Dirs -> SUBSET {"server", "worker", "program"}]
      /\ dropping' \in [Dirs -> SUBSET {"server", "worker"}]
      /\ \A u \in Ids :
           \/ upload'[u] = now[u] /\ lease'[u] = lease[u]
           \/ /\ upload'[u] = None /\ u \notin map /\ u = op[c].id
              /\ \A b \in Clients \ {c} : op[b].id # u
      /\ \A d \in Dirs : lease'[d] \subseteq lease[d]
      /\ \A d \in Dirs \ Ids : lease'[d] = lease[d]
  BY FinishEffect
<1>2. OpOK(c)'
  BY <1>1 DEF OpOK, HeldPc, BusyPc, TaskPc, IdleOp
<1>3. ASSUME NEW b \in Clients \ {c}  PROVE OpOK(b)'
  <2>1. OpOK(b) /\ op'[b] = op[b]
    BY <1>1
  <2>2. op[b].pc \in HeldPc => op[b].id \in Ids /\ upload'[op[b].id] = now[op[b].id]
    BY <1>1, <2>1 DEF OpOK
  <2>3. CASE op[b].id # op[c].id
    <3>1. op[b].pc \in HeldPc => /\ upload'[op[b].id] = upload[op[b].id]
                                 /\ op[b].id \in open' <=> op[b].id \in open
      BY <1>1, <2>2, <2>3 DEF EndOK
    <3>2. op[b].pc = "insert" => \A d \in Clients \ {b} : op'[d].id # op[b].id
      <4>1. ASSUME op[b].pc = "insert", NEW d \in Clients \ {b}  PROVE op'[d].id # op[b].id
        <5>1. op[b].id \in Ids /\ op[d].id # op[b].id
          BY <2>1, <4>1 DEF OpOK, HeldPc
        <5>. QED  BY <1>1, <5>1, ConstantsOK DEF IdleOp
      <4>. QED  BY <4>1
    <3>3. OpFrame(b)
      BY <2>1, <3>1, <3>2 DEF OpFrame, OpOK, Mine
    <3>. QED  BY <2>1, <3>3, OpKept
  <2>4. CASE op[b].id = op[c].id
    <3>. DEFINE u == op[c].id
    <3>1. op[b].pc # "insert"
      BY <2>1, <2>4 DEF OpOK
    <3>2. op[b].pc \in HeldPc =>
            /\ u \in Ids /\ upload'[u] # None
            /\ upload[u].committed => upload'[u].committed
            /\ u \in open => u \in open' \/ upload'[u].committed
            /\ upload'[u] = upload[u] \/ op[b].pc = "lock"
      <4>1. op[b].pc \in HeldPc => u \in Ids /\ upload'[u] = now[u]
        BY <2>2, <2>4
      <4>. QED  BY <1>1, <2>4, <4>1 DEF EndOK, Mine
    <3>3. OpFrame(b)
      BY <2>1, <2>4, <3>1, <3>2 DEF OpFrame
    <3>. QED  BY <2>1, <3>3, OpKept
  <2>. QED  BY <2>3, <2>4
<1>4. ASSUME NEW u \in Ids  PROVE UpOK(u)'
  <2>1. UpOK(u)
    OBVIOUS
  <2>2. CASE upload'[u] = None
    <3>1. u \notin open'
      <4>1. ASSUME u \in map  PROVE FALSE
        <5>1. upload'[u] = now[u] /\ u \in open
          BY <1>1, <4>1 DEF EndOK
        <5>2. upload[u] # None /\ now[u] # None
          BY <2>1, <5>1 DEF UpOK, EndOK
        <5>. QED  BY <2>2, <5>1, <5>2
      <4>. QED  BY <1>1, <4>1
    <3>. QED  BY <2>2, <3>1 DEF UpOK
  <2>3. CASE upload'[u] # None /\ u # op[c].id
    <3>1. /\ upload'[u] = upload[u] /\ lease'[u] = lease[u] /\ used'[u] = used[u]
          /\ u \in open' => u \in open
          /\ present' = present
      BY <1>1, <2>3 DEF EndOK
    <3>2. UpFrame(u)
      BY <2>1, <2>3, <3>1 DEF UpFrame, UpOK
    <3>. QED  BY <2>1, <3>2, UpKept
  <2>4. CASE upload'[u] # None /\ u = op[c].id
    <3>1. upload'[u] = now[u] /\ lease'[u] = lease[u] /\ present' = present /\ open' = map
      BY <1>1, <2>4 DEF EndOK
    <3>2. "server" \in lease[u] /\ u \in present
      <4>1. op[c].pc \in HeldPc
        BY <2>4, ConstantsOK DEF OpOK, FlowTypes, OpPc
      <4>2. upload[u] # None
        BY <2>4, <4>1 DEF OpOK, Mine
      <4>. QED  BY <2>1, <4>2 DEF UpOK
    <3>3. Size(now[u].file)' = Size(now[u].file)
      BY DEF Size
    <3>4. /\ u \in map => ~now[u].committed
          /\ used'[u] = Size(now[u].file)
          /\ now[u].written = Len(now[u].acked)
          /\ now[u].file = now[u].acked \/ now[u].file = Append(now[u].acked, Torn)
      BY <2>4 DEF EndOK
    <3>5. Size(upload[u].file)' = Size(now[u].file)
      BY <3>1 DEF Size
    <3>. QED  BY <2>4, <3>1, <3>2, <3>4, <3>5 DEF UpOK
  <2>. QED  BY <2>2, <2>3, <2>4
<1>5. WorkOK'
  <2>1. lease'[WorkDir] = lease[WorkDir]
    BY <1>1, ConstantsOK
  <2>. QED  BY <2>1, WorkKept DEF EndOK
<1>6. ASSUME NEW b \in Clients \ {c}, op[b].pc \in BusyPc
      PROVE  upload'[op[b].id] = upload[op[b].id]
  <2>1. op[b].id \in Ids /\ op[b].pc # "lock"
    BY <1>6 DEF OpOK, BusyPc, HeldPc, TaskPc
  <2>2. upload'[op[b].id] = now[op[b].id]
    BY <1>1, <2>1
  <2>3. now[op[b].id] = upload[op[b].id]
    BY <2>1 DEF EndOK, Mine
  <2>. QED  BY <2>2, <2>3
<1>. QED  BY <1>1, <1>2, <1>3, <1>4, <1>5, <1>6 DEF Ended

\* The same of a request that has locked its upload, which is up at the end.
TaskOK(c, up, map) ==
  /\ \A u \in Ids : u # op[c].id => used'[u] = used[u]
  /\ Mine(c).committed => up.committed
  /\ op[c].id \in map => ~up.committed
  /\ op[c].id \in open \ map => up.committed
  /\ used'[op[c].id] = Size(up.file)
  /\ up.written = Len(up.acked)
  /\ up.file = up.acked \/ up.file = Append(up.acked, Torn)
  /\ map \subseteq open /\ open \subseteq map \cup {op[c].id}
  /\ UNCHANGED <<present, reserve, worker>>

LEMMA Owner ==
  ASSUME FlowInv, NEW c \in Clients, op[c].pc \in BusyPc
  PROVE  /\ op[c].id \in Ids /\ op[c].id \in Dirs
         /\ Mine(c) \in Upload /\ upload[op[c].id] = Mine(c)
         /\ Mine(c).acked \in Seq(Clients) /\ Mine(c).file \in Seq(Clients \cup {Torn})
         /\ Mine(c).written = Len(Mine(c).acked)
         /\ Mine(c).file = Mine(c).acked \/ Mine(c).file = Append(Mine(c).acked, Torn)
         /\ used[op[c].id] = Size(Mine(c).file)
         /\ op[c].id \in open => ~Mine(c).committed
         /\ op[c].pc \in TaskPc => /\ op[c].id \in open /\ ~Mine(c).committed
                                   /\ Mine(c).file = Mine(c).acked
<1>1. OpOK(c) /\ op[c].pc \in HeldPc
  BY DEF FlowInv, BusyPc, HeldPc
<1>2. op[c].id \in Ids /\ Mine(c) # None
  BY <1>1 DEF OpOK
<1>3. Mine(c) \in Upload /\ upload[op[c].id] = Mine(c)
  BY <1>2 DEF FlowInv, FlowTypes, Mine
<1>4. UpOK(op[c].id)
  BY <1>2 DEF FlowInv
<1>5. Mine(c).acked \in Seq(Clients) /\ Mine(c).file \in Seq(Clients \cup {Torn})
  BY <1>3 DEF Upload
<1>6. op[c].id \in Dirs
  BY <1>2, ConstantsOK
<1>7. op[c].pc \in TaskPc => /\ op[c].id \in open /\ ~Mine(c).committed
                             /\ Mine(c).file = Mine(c).acked
  BY <1>1 DEF OpOK, BusyPc
<1>. QED  BY <1>2, <1>3, <1>4, <1>5, <1>6, <1>7 DEF UpOK

LEMMA TaskKeeps ==
  ASSUME FlowInv, NEW c \in Clients, op[c].pc \in BusyPc, NEW up \in Upload,
         NEW map \in SUBSET Ids, FinishTask(c, up, map), TaskOK(c, up, map)
  PROVE  Ended(c)
<1>. DEFINE u   == op[c].id
            new == [up EXCEPT !.mutex = Nobody]
            now == [upload EXCEPT ![u] = new]
<1>1. u \in Ids /\ Mine(c) \in Upload
  BY Owner
<1>2. /\ new \in Upload /\ new.file = up.file /\ new.acked = up.acked
      /\ new.written = up.written /\ new.committed = up.committed
  BY DEF Upload
<1>3. now \in [Ids -> Upload \cup {None}] /\ now[u] = new /\ \A v \in Ids : v # u => now[v] = upload[v]
  BY <1>1, <1>2 DEF FlowInv, FlowTypes
<1>4. Finish(c, now, map)
  BY DEF FinishTask
<1>5. \A b \in Clients \ {c} : op[b].id = u => op[b].pc = "lock"
  BY SoleHolder DEF FlowInv
<1>6. new # None
  BY <1>2, ConstantsOK
<1>7. EndOK(c, now, map)
  <2>. HIDE DEF now, new
  <2>. QED  BY <1>1, <1>2, <1>3, <1>5, <1>6 DEF EndOK, TaskOK
<1>. HIDE DEF now
<1>. QED  BY <1>3, <1>4, <1>7, FinishKeeps

\* The invariant from what the end of a request leaves.
LEMMA EndedFlow ==
  ASSUME FlowInv, NEW c \in Clients, Ended(c),
         controller' \in {Nobody, "worker"} \cup Clients, used' \in [Dirs -> Nat],
         \A d \in Dirs \ present : used'[d] = used[d],
         UNCHANGED <<budget, present, reserve, worker, restarts>>
  PROVE  FlowInv'
<1>1. FlowTypes'
  BY DEF FlowInv, FlowTypes, Ended
<1>. QED  BY <1>1 DEF FlowInv, Ended

LEMMA DisconnectStep ==
  ASSUME FlowInv, NEW c \in Clients, Disconnect(c)
  PROVE  FlowInv' /\ Ended(c)
<1>1. UNCHANGED <<controller, budget, present, reserve, used, worker, restarts>>
  BY DEF Disconnect, disk
<1>2. Ended(c)
  <2>1. CASE At(c, "permit")
    <3>1. op[c].pc \in BusyPc
      BY <2>1 DEF At, BusyPc
    <3>2. /\ op[c].id \in Ids /\ Mine(c) \in Upload
          /\ Mine(c).written = Len(Mine(c).acked)
          /\ Mine(c).file = Mine(c).acked \/ Mine(c).file = Append(Mine(c).acked, Torn)
          /\ used[op[c].id] = Size(Mine(c).file)
          /\ op[c].id \in open => ~Mine(c).committed
      BY <3>1, Owner
    <3>3. FinishTask(c, Mine(c), open) /\ open \in SUBSET Ids
      BY <2>1 DEF Disconnect, FlowInv, FlowTypes
    <3>4. TaskOK(c, Mine(c), open)
      BY <1>1, <3>2 DEF TaskOK
    <3>. QED  BY <3>1, <3>2, <3>3, <3>4, TaskKeeps
  <2>2. CASE ~At(c, "permit")
    <3>1. Finish(c, upload, open) /\ op[c].pc \in {"stage", "insert", "lock"}
      BY <2>2 DEF Disconnect, At
    <3>2. upload \in [Ids -> Upload \cup {None}] /\ open \in SUBSET Ids
      BY DEF FlowInv, FlowTypes
    <3>3. op[c].id \in Ids => op[c].pc \in HeldPc
      BY <3>1, ConstantsOK DEF FlowInv, OpOK, HeldPc
    <3>4. op[c].id \in Ids => upload[op[c].id] # None /\ UpOK(op[c].id)
      BY <3>3 DEF FlowInv, OpOK, Mine
    <3>5. EndOK(c, upload, open)
      BY <1>1, <3>4 DEF EndOK, UpOK, Mine
    <3>. QED  BY <3>1, <3>2, <3>5, FinishKeeps
  <2>. QED  BY <2>1, <2>2
<1>3. FlowInv'
  <2>1. controller' \in {Nobody, "worker"} \cup Clients /\ used' \in [Dirs -> Nat]
    BY <1>1 DEF FlowInv, FlowTypes
  <2>. QED  BY <1>1, <1>2, <2>1, EndedFlow
<1>. QED  BY <1>2, <1>3

LEMMA RefuseStep ==
  ASSUME FlowInv, NEW c \in Clients, Refuse(c)
  PROVE  FlowInv' /\ Ended(c)
<1>1. UNCHANGED <<controller, budget, present, reserve, used, worker, restarts>>
  BY DEF Refuse, disk
<1>2. op[c].pc \in BusyPc
  BY DEF Refuse, At, BusyPc, TaskPc
<1>3. /\ op[c].id \in Ids /\ Mine(c) \in Upload
      /\ Mine(c).written = Len(Mine(c).acked)
      /\ Mine(c).file = Mine(c).acked \/ Mine(c).file = Append(Mine(c).acked, Torn)
      /\ used[op[c].id] = Size(Mine(c).file)
      /\ op[c].id \in open => ~Mine(c).committed
  BY <1>2, Owner
<1>4. FinishTask(c, Mine(c), open) /\ open \in SUBSET Ids
  BY DEF Refuse, FlowInv, FlowTypes
<1>5. TaskOK(c, Mine(c), open)
  BY <1>1, <1>3 DEF TaskOK
<1>6. Ended(c)
  BY <1>2, <1>3, <1>4, <1>5, TaskKeeps
<1>7. FlowInv'
  <2>1. controller' \in {Nobody, "worker"} \cup Clients /\ used' \in [Dirs -> Nat]
    BY <1>1 DEF FlowInv, FlowTypes
  <2>. QED  BY <1>1, <1>6, <2>1, EndedFlow
<1>. QED  BY <1>6, <1>7

\* AppendChunk leaves the upload with the chunk, with a part of it, or as it was.
AppendResults(c) ==
  { [Mine(c) EXCEPT !.file = Append(@, c), !.written = @ + 1,
                    !.acked = Append(@, c), !.stale = FALSE],
    [Mine(c) EXCEPT !.file = Append(@, Torn)],
    Mine(c) }

LEMMA AppendResult ==
  ASSUME FlowInv, NEW c \in Clients, op[c].pc \in TaskPc, NEW up \in AppendResults(c)
  PROVE  /\ up \in Upload /\ ~up.committed
         /\ up.written = Len(up.acked)
         /\ up.file = up.acked \/ up.file = Append(up.acked, Torn)
         /\ Size(up.file) \in Nat
         /\ Size(up.file) <= used[op[c].id] + ChunkSize
<1>. DEFINE me == Mine(c)
            a  == me.acked
<1>1. /\ me \in Upload /\ ~me.committed /\ me.file = a /\ a \in Seq(Clients)
      /\ me.written = Len(a) /\ used[op[c].id] = Size(me.file)
  BY Owner DEF BusyPc
<1>2. a \in Seq(Clients \cup {Torn})
  BY <1>1, SeqMonotonic
<1>3. /\ Append(a, c) \in Seq(Clients) /\ Append(a, c) \in Seq(Clients \cup {Torn})
      /\ Len(Append(a, c)) = Len(a) + 1 /\ Len(a) \in Nat
      /\ Append(a, Torn) \in Seq(Clients \cup {Torn})
  BY <1>1, <1>2, AppendProperties, LenProperties, SeqMonotonic
<1>4. /\ Size(a) \in Nat /\ Size(Append(a, c)) = Size(a) + ChunkSize
      /\ Size(Append(a, Torn)) = Size(a) + 1
      /\ ChunkSize \in Nat /\ ChunkSize >= 1
  BY <1>1, <1>2, SizeIsNat, SizeChunk, SizeTorn, ConstantsOK
<1>5. CASE up = [me EXCEPT !.file = Append(@, c), !.written = @ + 1,
                           !.acked = Append(@, c), !.stale = FALSE]
  <2>1. /\ up.file = Append(a, c) /\ up.acked = Append(a, c)
        /\ up.written = Len(a) + 1 /\ up.committed = me.committed
    BY <1>1, <1>5 DEF Upload
  <2>2. up \in Upload
    <3>1. Append(me.file, c) \in Seq(Clients \cup {Torn}) /\ me.written + 1 \in Nat
          /\ Append(me.acked, c) \in Seq(Clients)
      BY <1>1, <1>3
    <3>. QED  BY <1>1, <1>5, <3>1 DEF Upload
  <2>3. Size(up.file) = Size(a) + ChunkSize /\ used[op[c].id] = Size(a)
    BY <1>1, <1>4, <2>1
  <2>. HIDE DEF me, a
  <2>. QED  BY <1>1, <1>3, <1>4, <2>1, <2>2, <2>3
<1>6. CASE up = [me EXCEPT !.file = Append(@, Torn)]
  <2>1. /\ up.file = Append(a, Torn) /\ up.acked = a
        /\ up.written = Len(a) /\ up.committed = me.committed
    BY <1>1, <1>6 DEF Upload
  <2>2. up \in Upload
    <3>1. Append(me.file, Torn) \in Seq(Clients \cup {Torn})
      BY <1>1, <1>3
    <3>. QED  BY <1>1, <1>6, <3>1 DEF Upload
  <2>3. Size(up.file) = Size(a) + 1 /\ used[op[c].id] = Size(a)
    BY <1>1, <1>4, <2>1
  <2>4. Size(up.file) \in Nat /\ Size(up.file) <= used[op[c].id] + ChunkSize
    <3>. HIDE DEF me, a
    <3>. QED  BY <1>4, <2>3
  <2>. QED  BY <1>1, <2>1, <2>2, <2>4
<1>7. CASE up = me
  <2>1. Size(up.file) = Size(a) /\ used[op[c].id] = Size(a)
    BY <1>1, <1>7
  <2>2. Size(up.file) \in Nat /\ Size(up.file) <= used[op[c].id] + ChunkSize
    <3>. HIDE DEF me, a
    <3>. QED  BY <1>4, <2>1
  <2>. QED  BY <1>1, <1>7, <2>2
<1>. QED  BY <1>5, <1>6, <1>7 DEF AppendResults

LEMMA EndWriteType ==
  ASSUME FlowTypes, NEW who, EndWrite(who)
  PROVE  controller' \in {Nobody, "worker"} \cup Clients
BY DEF FlowTypes, EndWrite

LEMMA AppendStep ==
  ASSUME FlowInv, NEW c \in Clients, AppendChunk(c)
  PROVE  /\ FlowInv' /\ Ended(c)
         /\ used'[op[c].id] <= used[op[c].id] + ChunkSize
         /\ \A d \in Dirs : d # op[c].id => used'[d] = used[d]
<1>1. UNCHANGED <<budget, present, reserve, worker, restarts>>
  BY DEF AppendChunk
<1>2. op[c].pc \in BusyPc /\ op[c].pc \in TaskPc
  BY DEF AppendChunk, At, BusyPc, TaskPc
<1>3. PICK up \in AppendResults(c) :
        /\ used' = [used EXCEPT ![op[c].id] = Size(up.file)]
        /\ FinishTask(c, up, open)
  BY DEF AppendChunk, AppendResults
<1>4. /\ up \in Upload /\ ~up.committed
      /\ up.written = Len(up.acked)
      /\ up.file = up.acked \/ up.file = Append(up.acked, Torn)
      /\ Size(up.file) \in Nat
      /\ Size(up.file) <= used[op[c].id] + ChunkSize
  BY <1>2, AppendResult
<1>5. op[c].id \in Ids /\ op[c].id \in Dirs /\ ~Mine(c).committed
  BY <1>2, Owner
<1>6. used \in [Dirs -> Nat] /\ open \in SUBSET Ids /\ Ids \subseteq Dirs
  BY ConstantsOK DEF FlowInv, FlowTypes
<1>7. /\ used' \in [Dirs -> Nat] /\ used'[op[c].id] = Size(up.file)
      /\ \A d \in Dirs : d # op[c].id => used'[d] = used[d]
  BY <1>3, <1>4, <1>5, <1>6
<1>8. TaskOK(c, up, open)
  BY <1>1, <1>4, <1>5, <1>6, <1>7 DEF TaskOK
<1>9. Ended(c)
  BY <1>2, <1>3, <1>4, <1>6, <1>8, TaskKeeps
<1>10. op[c].id \in present
  BY <1>2, <1>5 DEF FlowInv, UpOK, OpOK, HeldPc, Mine
<1>11. FlowInv'
  <2>1. controller' \in {Nobody, "worker"} \cup Clients
    BY EndWriteType DEF AppendChunk, FlowInv
  <2>2. \A d \in Dirs \ present : used'[d] = used[d]
    BY <1>7, <1>10
  <2>. QED  BY <1>1, <1>7, <1>9, <2>1, <2>2, EndedFlow
<1>. QED  BY <1>4, <1>7, <1>9, <1>11

\* A commit that has put its file at the destination.
LEMMA CommittedKeeps ==
  ASSUME FlowInv, NEW c \in Clients, op[c].pc \in TaskPc, NEW durable \in BOOLEAN,
         Committed(c, durable), UNCHANGED <<budget, present, reserve, used, worker, restarts>>
  PROVE  FlowInv' /\ Ended(c)
<1>1. op[c].pc \in BusyPc
  BY DEF BusyPc
<1>. DEFINE u  == op[c].id
            up == IF durable THEN [Mine(c) EXCEPT !.committed = TRUE] ELSE Mine(c)
            map == IF durable THEN open \ {u} ELSE open
<1>2. /\ u \in Ids /\ u \in open /\ Mine(c) \in Upload /\ ~Mine(c).committed
      /\ Mine(c).written = Len(Mine(c).acked)
      /\ Mine(c).file = Mine(c).acked /\ used[u] = Size(Mine(c).file)
  BY <1>1, Owner
<1>3. /\ up \in Upload /\ up.file = Mine(c).file /\ up.acked = Mine(c).acked
      /\ up.written = Mine(c).written /\ up.committed = durable
  BY <1>2 DEF Upload
<1>4. FinishTask(c, up, map)
  BY DEF Committed
<1>5. open \in SUBSET Ids /\ map \in SUBSET Ids
  BY DEF FlowInv, FlowTypes
<1>6. /\ map \subseteq open /\ open \subseteq map \cup {u}
      /\ u \in map => ~durable
      /\ u \in open \ map => durable
  OBVIOUS
<1>7. TaskOK(c, up, map)
  <2>. HIDE DEF up, map
  <2>. QED  BY <1>2, <1>3, <1>5, <1>6 DEF TaskOK
<1>8. Ended(c)
  <2>. HIDE DEF up, map
  <2>. QED  BY <1>1, <1>3, <1>4, <1>5, <1>7, TaskKeeps
<1>9. FlowInv'
  <2>1. controller' \in {Nobody, "worker"} \cup Clients
    BY EndWriteType DEF Committed, FlowInv
  <2>2. used' \in [Dirs -> Nat]
    BY DEF FlowInv, FlowTypes
  <2>. QED  BY <1>8, <2>1, <2>2, EndedFlow
<1>. QED  BY <1>8, <1>9

LEMMA UnlinkStep ==
  ASSUME FlowInv, NEW c \in Clients, Unlink(c)
  PROVE  FlowInv' /\ Ended(c)
<1>1. op[c].pc \in TaskPc /\ UNCHANGED <<budget, present, reserve, used, worker, restarts>>
  BY DEF Unlink, At, TaskPc
<1>2. \E durable \in BOOLEAN : Committed(c, durable)
  BY DEF Unlink
<1>. QED  BY <1>1, <1>2, CommittedKeeps

\* A request that holds an upload goes on with it, as up.
MoveOK(c, pc, up) ==
  /\ op' = [op EXCEPT ![c].pc = pc] /\ pc \in BusyPc
  /\ upload' = [upload EXCEPT ![op[c].id] = up]
  /\ up.committed = Mine(c).committed /\ up.written = Mine(c).written
  /\ up.acked = Mine(c).acked /\ up.mutex = c
  /\ up.file = Mine(c).file \/ up.file = up.acked
  /\ pc \in TaskPc => ~up.committed /\ up.file = up.acked
  /\ pc = "append" => op[c].kind = "chunk"
  /\ used' = [used EXCEPT ![op[c].id] = Size(up.file)]
  /\ \A b \in Clients \ {c} : op[b].id = op[c].id => op[b].pc = "lock"
  /\ controller' \in {Nobody, "worker"} \cup Clients
  /\ UNCHANGED <<open, budget, present, reserve, lease, dropping, worker, restarts>>

LEMMA MoveKeeps ==
  ASSUME FlowInv, NEW c \in Clients, op[c].pc \in {"lock"} \cup BusyPc, NEW pc, NEW up \in Upload,
         MoveOK(c, pc, up)
  PROVE  FlowInv'
<1>. DEFINE u == op[c].id
<1>1. /\ OpOK(c) /\ op[c].pc \in HeldPc /\ pc \in OpPc
      /\ u \in Ids /\ u \in Dirs /\ upload[u] = Mine(c) /\ Mine(c) # None
  BY ConstantsOK DEF FlowInv, OpOK, BusyPc, HeldPc, OpPc, MoveOK, Mine
<1>2. /\ op' \in [Clients -> [pc : OpPc, kind : Kinds, id : Ids \cup {None}]]
      /\ op'[c].pc = pc /\ op'[c].kind = op[c].kind /\ op'[c].id = u
      /\ \A b \in Clients \ {c} : op'[b] = op[b]
  BY <1>1 DEF FlowInv, FlowTypes, MoveOK
<1>3. /\ upload' \in [Ids -> Upload \cup {None}]
      /\ upload'[u] = up /\ \A v \in Ids : v # u => upload'[v] = upload[v]
  BY <1>1 DEF FlowInv, FlowTypes, MoveOK
<1>4. Size(up.file) \in Nat
  BY SizeIsNat DEF Upload
<1>5. /\ used' \in [Dirs -> Nat] /\ used'[u] = Size(up.file)
      /\ \A d \in Dirs : d # u => used'[d] = used[d]
  BY <1>1, <1>4 DEF FlowInv, FlowTypes, MoveOK
<1>6. UpOK(u)
  BY <1>1 DEF FlowInv
<1>7. FlowTypes'
  <2>1. u \in present
    BY <1>1, <1>6 DEF UpOK
  <2>. QED  BY <1>2, <1>3, <1>5, <2>1 DEF FlowInv, FlowTypes, MoveOK
<1>8. up # None
  BY ConstantsOK
<1>9. OpOK(c)'
  <2>1. Mine(c)' = up
    BY <1>2, <1>3 DEF Mine
  <2>2. pc \notin {"idle", "stage", "insert"}
    BY DEF MoveOK, BusyPc, TaskPc
  <2>3. op[c].kind \in {"chunk", "commit"} /\ (u \in open \/ Mine(c).committed)
    BY <1>1 DEF OpOK
  <2>. QED  BY <1>1, <1>2, <1>8, <2>1, <2>2, <2>3 DEF OpOK, MoveOK
<1>10. ASSUME NEW b \in Clients \ {c}  PROVE OpOK(b)'
  <2>1. OpOK(b) /\ op'[b] = op[b] /\ open' = open
    BY <1>2 DEF FlowInv, MoveOK
  <2>2. op[b].pc = "insert" => \A d \in Clients \ {b} : op'[d].id # op[b].id
    BY <1>2, <2>1 DEF OpOK
  <2>3. CASE op[b].id = u
    <3>1. op[b].pc = "lock"
      BY <2>3 DEF MoveOK
    <3>2. OpFrame(b)
      BY <1>1, <1>3, <1>8, <2>1, <2>3, <3>1 DEF OpFrame, MoveOK
    <3>. QED  BY <2>1, <3>2, OpKept
  <2>4. CASE op[b].id # u
    <3>1. op[b].pc \in HeldPc => upload'[op[b].id] = upload[op[b].id]
      BY <1>3, <2>1, <2>4 DEF OpOK
    <3>2. OpFrame(b)
      BY <2>1, <2>2, <3>1 DEF OpFrame, OpOK, Mine
    <3>. QED  BY <2>1, <3>2, OpKept
  <2>. QED  BY <2>3, <2>4
<1>11. ASSUME NEW v \in Ids, v # u  PROVE UpOK(v)'
  <2>1. UpOK(v) /\ v \in Dirs
    BY ConstantsOK DEF FlowInv
  <2>2. UpFrame(v)
    BY <1>3, <1>5, <1>11, <2>1 DEF UpFrame, UpOK, MoveOK
  <2>. QED  BY <2>1, <2>2, UpKept
<1>12. ASSUME NEW v \in Ids, v = u  PROVE UpOK(v)'
  <2>0. upload'[v] = up
    BY <1>3, <1>12
  <2>1. Size(upload[v].file)' = Size(up.file)
    BY <2>0 DEF Size
  <2>2. /\ open' = open /\ lease' = lease /\ present' = present
        /\ v \in open => ~up.committed
        /\ "server" \in lease[v] /\ v \in present
        /\ up.written = Len(up.acked)
        /\ up.file = up.acked \/ up.file = Append(up.acked, Torn)
    BY <1>1, <1>6, <1>12 DEF UpOK, MoveOK
  <2>3. used'[v] = Size(up.file)
    BY <1>5, <1>12
  <2>. QED  BY <1>8, <2>0, <2>1, <2>2, <2>3 DEF UpOK
<1>13. WorkOK'
  <2>1. lease' = lease /\ worker' = worker /\ present' = present /\ reserve' = reserve
    BY DEF MoveOK
  <2>. QED  BY <2>1, WorkKept DEF FlowInv
<1>14. (\A b \in Clients : OpOK(b)') /\ (\A v \in Ids : UpOK(v)')
  <2>. HIDE DEF u
  <2>. QED  BY <1>9, <1>10, <1>11, <1>12
<1>. QED  BY <1>7, <1>13, <1>14 DEF FlowInv

LEMMA LockStep ==
  ASSUME FlowInv, NEW c \in Clients, Lock(c)
  PROVE  FlowInv'
<1>. DEFINE u  == op[c].id
            up == [Mine(c) EXCEPT !.mutex = c]
<1>1. /\ op[c].pc = "lock" /\ Mine(c).mutex = Nobody
      /\ upload' = [upload EXCEPT ![u].mutex = c]
      /\ op' = [op EXCEPT ![c].pc = "permit"]
      /\ UNCHANGED <<open, controller, budget, used, present, reserve, lease, dropping, worker, restarts>>
  BY DEF Lock, At, GoTo, storageVars, disk
<1>2. u \in Ids /\ Mine(c) # None /\ OpOK(c)
  BY <1>1 DEF FlowInv, OpOK, HeldPc
<1>3. upload[u] = Mine(c) /\ Mine(c) \in Upload /\ UpOK(u)
  BY <1>2 DEF FlowInv, FlowTypes, Mine
<1>4. /\ up \in Upload /\ up.mutex = c /\ up.committed = Mine(c).committed
      /\ up.written = Mine(c).written /\ up.acked = Mine(c).acked /\ up.file = Mine(c).file
  BY <1>3 DEF Upload
<1>5. upload' = [upload EXCEPT ![u] = up]
  BY <1>1, <1>3
<1>6. used' = [used EXCEPT ![u] = Size(up.file)]
  <2>1. used[u] = Size(up.file)
    BY <1>2, <1>3, <1>4 DEF UpOK
  <2>. HIDE DEF up
  <2>. QED  BY <1>1, <2>1 DEF FlowInv, FlowTypes
<1>7. ASSUME NEW b \in Clients \ {c}, op[b].id = u  PROVE op[b].pc = "lock"
  <2>1. OpOK(b) /\ op[b].pc \in OpPc
    BY DEF FlowInv, FlowTypes
  <2>2. op[b].pc \notin BusyPc
    BY <1>1, <1>7, <2>1, ConstantsOK DEF OpOK, Mine
  <2>3. op[b].pc # "insert" /\ op[b].pc \notin {"idle", "stage"}
    BY <1>2, <1>7, <2>1, ConstantsOK DEF OpOK
  <2>. QED  BY <2>1, <2>2, <2>3 DEF OpPc, HeldPc, BusyPc
<1>8. MoveOK(c, "permit", up)
  <2>1. "permit" \in BusyPc /\ "permit" \notin TaskPc /\ "permit" # "append"
    BY DEF BusyPc, TaskPc
  <2>2. controller' \in {Nobody, "worker"} \cup Clients
    BY <1>1 DEF FlowInv, FlowTypes
  <2>. HIDE DEF up
  <2>. QED  BY <1>1, <1>4, <1>5, <1>6, <1>7, <2>1, <2>2 DEF MoveOK
<1>. HIDE DEF up
<1>. QED  BY <1>1, <1>4, <1>8, MoveKeeps

LEMMA StartStep ==
  ASSUME FlowInv, NEW c \in Clients, Start(c)
  PROVE  /\ FlowInv'
         /\ \A d \in Dirs : used'[d] <= used[d] /\ lease'[d] \subseteq lease[d]
         /\ \A b \in Clients \ {c} : /\ op'[b] = op[b]
                                     /\ op[b].pc \in BusyPc => upload'[op[b].id] = upload[op[b].id]
         /\ op'[c].pc \in {"idle", "admit"}
<1>0. PICK u \in Ids : u = op[c].id
  BY Owner DEF Start, At, BusyPc
<1>1. /\ op[c].pc = "permit" /\ op[c].pc \in BusyPc
      /\ UNCHANGED <<controller, budget, present, reserve, worker, restarts>>
  BY DEF Start, At, BusyPc
<1>2. /\ u \in Dirs /\ Mine(c) \in Upload /\ upload[u] = Mine(c)
      /\ Mine(c).written = Len(Mine(c).acked)
      /\ Mine(c).file = Mine(c).acked \/ Mine(c).file = Append(Mine(c).acked, Torn)
      /\ used[u] = Size(Mine(c).file)
      /\ u \in open => ~Mine(c).committed
      /\ Mine(c).mutex = c
  BY <1>0, <1>1, Owner DEF FlowInv, OpOK
<1>3. used \in [Dirs -> Nat] /\ lease \in [Dirs -> SUBSET {"server", "worker", "program"}] /\ open \in SUBSET Ids
  BY DEF FlowInv, FlowTypes
<1>4. CASE Mine(c).committed
  <2>1. FinishTask(c, Mine(c), open) /\ UNCHANGED used
    BY <1>4 DEF Start
  <2>2. TaskOK(c, Mine(c), open)
    BY <1>0, <1>1, <1>2, <2>1 DEF TaskOK
  <2>3. Ended(c)
    BY <1>1, <1>2, <1>3, <2>1, <2>2, TaskKeeps
  <2>4. controller' \in {Nobody, "worker"} \cup Clients
    BY <1>1 DEF FlowInv, FlowTypes
  <2>5. FlowInv'
    BY <1>1, <1>3, <2>1, <2>3, <2>4, EndedFlow
  <2>6. op'[c].pc = "idle"
    BY <2>3 DEF Ended, IdleOp
  <2>7. \A d \in Dirs : used[d] <= used[d]
    BY <1>3
  <2>. QED  BY <2>1, <2>3, <2>5, <2>6, <2>7 DEF Ended
<1>5. CASE ~Mine(c).committed
  <2>. DEFINE up == [Mine(c) EXCEPT !.file = Mine(c).acked]
  <2>1. Cut(Mine(c)) = up /\ Size(Mine(c).acked) <= Size(Mine(c).file)
        /\ Size(Mine(c).acked) \in Nat /\ Size(Mine(c).file) \in Nat
    BY <1>2, CutIsAcked
  <2>2. /\ up \in Upload /\ up.committed = Mine(c).committed /\ up.written = Mine(c).written
        /\ up.acked = Mine(c).acked /\ up.mutex = c /\ up.file = Mine(c).acked
    BY <1>2 DEF Upload
  <2>3. /\ upload' = [upload EXCEPT ![u] = Cut(Mine(c))]
        /\ used' = [used EXCEPT ![u] = Size(Cut(Mine(c)).file)]
        /\ op' = [op EXCEPT ![c].pc = "admit"]
        /\ UNCHANGED <<lease, dropping, open>>
    BY <1>0, <1>2, <1>5 DEF Start, GoTo
  <2>. HIDE DEF up
  <2>4. upload' = [upload EXCEPT ![u] = up] /\ used' = [used EXCEPT ![u] = Size(up.file)]
    BY <2>1, <2>3
  <2>5. \A b \in Clients \ {c} : op[b].id = op[c].id => op[b].pc = "lock"
    BY <1>1, SoleHolder DEF FlowInv
  <2>6. "admit" \in BusyPc /\ "admit" # "append"
    BY DEF BusyPc, TaskPc
  <2>7. controller' \in {Nobody, "worker"} \cup Clients
    BY <1>1 DEF FlowInv, FlowTypes
  <2>8. MoveOK(c, "admit", up)
    BY <1>0, <1>1, <1>5, <2>2, <2>3, <2>4, <2>5, <2>6, <2>7 DEF MoveOK
  <2>9. FlowInv'
    BY <1>1, <2>2, <2>8, MoveKeeps
  <2>10. Size(up.file) <= used[u] /\ Size(up.file) \in Nat
    BY <1>2, <2>1, <2>2
  <2>11. \A d \in Dirs : used'[d] <= used[d] /\ lease'[d] \subseteq lease[d]
    BY <1>2, <1>3, <2>3, <2>4, <2>10
  <2>12. /\ op'[c].pc = "admit"
         /\ \A b \in Clients \ {c} : op'[b] = op[b]
    BY <2>3 DEF FlowInv, FlowTypes
  <2>13. ASSUME NEW b \in Clients \ {c}, op[b].pc \in BusyPc  PROVE upload'[op[b].id] = upload[op[b].id]
    <3>1. op[b].pc # "lock" /\ op[b].id \in Ids
      BY <2>13 DEF BusyPc, TaskPc, HeldPc, FlowInv, OpOK
    <3>2. op[b].id # u
      BY <1>0, <2>5, <3>1
    <3>. QED  BY <2>4, <3>1, <3>2 DEF FlowInv, FlowTypes
  <2>. QED  BY <2>9, <2>11, <2>12, <2>13
<1>. QED  BY <1>4, <1>5

\* A step of the task that leaves its upload alone.
LEMMA TaskMoves ==
  ASSUME FlowInv, NEW c \in Clients, op[c].pc \in TaskPc, NEW pc \in TaskPc, GoTo(c, pc),
         pc = "append" => op[c].kind = "chunk",
         controller' \in {Nobody, "worker"} \cup Clients,
         UNCHANGED <<open, upload, used, budget, present, reserve, lease, dropping, worker, restarts>>
  PROVE  /\ FlowInv'
         /\ op'[c].pc = pc /\ op'[c].id = op[c].id
         /\ \A b \in Clients \ {c} : op'[b] = op[b]
<1>0. PICK u \in Ids : u = op[c].id
  BY Owner DEF BusyPc
<1>1. op[c].pc \in BusyPc /\ pc \in BusyPc
  BY DEF BusyPc
<1>2. /\ u \in Dirs /\ Mine(c) \in Upload /\ upload[u] = Mine(c)
      /\ ~Mine(c).committed /\ Mine(c).file = Mine(c).acked
      /\ used[u] = Size(Mine(c).file) /\ Mine(c).mutex = c
  BY <1>0, <1>1, Owner DEF FlowInv, OpOK
<1>3. upload' = [upload EXCEPT ![u] = Mine(c)] /\ used' = [used EXCEPT ![u] = Size(Mine(c).file)]
  BY <1>2 DEF FlowInv, FlowTypes
<1>4. \A b \in Clients \ {c} : op[b].id = op[c].id => op[b].pc = "lock"
  BY <1>1, SoleHolder DEF FlowInv
<1>5. MoveOK(c, pc, Mine(c))
  BY <1>0, <1>1, <1>2, <1>3, <1>4 DEF MoveOK, GoTo
<1>6. FlowInv'
  BY <1>1, <1>2, <1>5, MoveKeeps
<1>. QED  BY <1>6 DEF FlowInv, FlowTypes, GoTo

LEMMA AdmitStep ==
  ASSUME FlowInv, NEW c \in Clients, Admit(c)
  PROVE  /\ FlowInv'
         /\ op'[c].pc = (IF op[c].kind = "chunk" THEN "append" ELSE "copy")
         /\ op'[c].id = op[c].id
         /\ \A b \in Clients \ {c} : op'[b] = op[b]
<1>1. op[c].pc \in TaskPc
  BY DEF Admit, At, TaskPc
<1>2. PICK pc \in TaskPc : /\ pc = (IF op[c].kind = "chunk" THEN "append" ELSE "copy")
                           /\ GoTo(c, pc)
  BY DEF Admit, TaskPc
<1>3. controller' \in {Nobody, "worker"} \cup Clients
  BY DEF Admit, AdmitWrite
<1>4. UNCHANGED <<open, upload, used, budget, present, reserve, lease, dropping, worker, restarts>>
  BY DEF Admit, disk
<1>5. pc = "append" => op[c].kind = "chunk"
  BY <1>2
<1>. QED  BY <1>1, <1>2, <1>3, <1>4, <1>5, TaskMoves

LEMMA PublishStep ==
  ASSUME FlowInv, NEW c \in Clients, Publish(c)
  PROVE  /\ FlowInv'
         /\ \/ Ended(c)
            \/ /\ op'[c].pc = "linked" /\ op'[c].id = op[c].id
               /\ \A b \in Clients \ {c} : op'[b] = op[b]
               /\ upload' = upload /\ lease' = lease
<1>1. /\ op[c].pc \in TaskPc
      /\ UNCHANGED <<budget, present, reserve, used, worker, restarts>>
  BY DEF Publish, At, TaskPc
<1>2. CASE \E durable \in BOOLEAN : Committed(c, durable)
  BY <1>1, <1>2, CommittedKeeps
<1>3. CASE GoTo(c, "linked") /\ UNCHANGED <<controller, lease, dropping, open, upload>>
  <2>1. "linked" \in TaskPc /\ "linked" # "append"
    BY DEF TaskPc
  <2>2. controller' \in {Nobody, "worker"} \cup Clients
    BY <1>3 DEF FlowInv, FlowTypes
  <2>. QED  BY <1>1, <1>3, <2>1, <2>2, TaskMoves
<1>4. CASE EndWrite(c) /\ FinishTask(c, Mine(c), open)
  <2>1. op[c].pc \in BusyPc
    BY <1>1 DEF BusyPc
  <2>2. /\ op[c].id \in Ids /\ Mine(c) \in Upload
        /\ Mine(c).written = Len(Mine(c).acked)
        /\ Mine(c).file = Mine(c).acked \/ Mine(c).file = Append(Mine(c).acked, Torn)
        /\ used[op[c].id] = Size(Mine(c).file)
        /\ op[c].id \in open => ~Mine(c).committed
    BY <2>1, Owner
  <2>3. TaskOK(c, Mine(c), open)
    BY <1>1, <2>2 DEF TaskOK
  <2>4. open \in SUBSET Ids /\ used' \in [Dirs -> Nat] /\ controller' \in {Nobody, "worker"} \cup Clients
    BY <1>1, <1>4, EndWriteType DEF FlowInv, FlowTypes
  <2>5. Ended(c)
    BY <1>4, <2>1, <2>2, <2>3, <2>4, TaskKeeps
  <2>6. FlowInv'
    BY <1>1, <2>4, <2>5, EndedFlow
  <2>. QED  BY <2>5, <2>6
<1>. QED  BY <1>2, <1>3, <1>4 DEF Publish

LEMMA GetStep ==
  ASSUME FlowInv, NEW c \in Clients, NEW u \in open, NEW kind \in {"chunk", "commit"},
         Get(c, u, kind)
  PROVE  FlowInv'
<1>1. /\ op' = [op EXCEPT ![c] = [pc |-> "lock", kind |-> kind, id |-> u]]
      /\ UNCHANGED <<storageVars, open, upload, restarts>>
  BY DEF Get
<1>2. /\ op'[c].pc = "lock" /\ op'[c].id = u /\ op'[c].kind = kind
      /\ \A b \in Clients \ {c} : op'[b] = op[b]
  BY <1>1 DEF FlowInv, FlowTypes
<1>3. u \in Ids /\ UpOK(u) /\ upload[u] # None
  BY DEF FlowInv, FlowTypes, UpOK
<1>4. FlowTypes'
  BY <1>1, <1>3 DEF FlowInv, FlowTypes, storageVars, disk, OpPc, HeldPc, Kinds
<1>5. OpOK(c)'
  BY <1>1, <1>2, <1>3 DEF OpOK, Mine, BusyPc, TaskPc
<1>6. ASSUME NEW b \in Clients \ {c}  PROVE OpOK(b)'
  <2>1. OpOK(b) /\ op'[b] = op[b] /\ open' = open /\ upload' = upload
    BY <1>1, <1>2 DEF FlowInv
  <2>2. op[b].pc = "insert" => \A d \in Clients \ {b} : op'[d].id # op[b].id
    BY <1>2, <2>1 DEF OpOK
  <2>3. OpFrame(b)
    BY <2>1, <2>2 DEF OpFrame, OpOK, Mine
  <2>. QED  BY <2>1, <2>3, OpKept
<1>7. ASSUME NEW v \in Ids  PROVE UpOK(v)'
  <2>1. UpOK(v)
    BY DEF FlowInv
  <2>2. UpFrame(v)
    BY <1>1, <2>1 DEF UpFrame, UpOK, storageVars, disk
  <2>. QED  BY <2>1, <2>2, UpKept
<1>8. WorkOK'
  BY <1>1, WorkKept DEF FlowInv, storageVars, disk
<1>. QED  BY <1>4, <1>5, <1>6, <1>7, <1>8 DEF FlowInv

LEMMA StageFailsStep ==
  ASSUME FlowInv, NEW c \in Clients, StageFails(c)
  PROVE  FlowInv'
<1>1. /\ op' = [op EXCEPT ![c] = IdleOp] /\ op[c].pc = "stage"
      /\ UNCHANGED <<storageVars, open, upload, restarts>>
  BY DEF StageFails, At
<1>2. /\ op' \in [Clients -> [pc : OpPc, kind : Kinds, id : Ids \cup {None}]]
      /\ op'[c] = IdleOp /\ \A b \in Clients \ {c} : op'[b] = op[b]
  <2>1. IdleOp \in [pc : OpPc, kind : Kinds, id : Ids \cup {None}]
    BY DEF IdleOp, OpPc, Kinds
  <2>. QED  BY <1>1, <2>1 DEF FlowInv, FlowTypes
<1>3. FlowTypes'
  BY <1>1, <1>2 DEF FlowInv, FlowTypes, storageVars, disk
<1>4. OpOK(c)'
  BY <1>2 DEF OpOK, HeldPc, BusyPc, TaskPc, IdleOp
<1>5. ASSUME NEW b \in Clients \ {c}  PROVE OpOK(b)'
  <2>1. OpOK(b) /\ op'[b] = op[b] /\ open' = open /\ upload' = upload
    BY <1>1, <1>2 DEF FlowInv
  <2>2. op[b].pc = "insert" => \A d \in Clients \ {b} : op'[d].id # op[b].id
    <3>1. ASSUME op[b].pc = "insert", NEW d \in Clients \ {b}  PROVE op'[d].id # op[b].id
      <4>1. op[b].id \in Ids /\ op[d].id # op[b].id
        BY <2>1, <3>1 DEF OpOK, HeldPc
      <4>. QED  BY <1>2, <4>1, ConstantsOK DEF IdleOp
    <3>. QED  BY <3>1
  <2>3. OpFrame(b)
    BY <2>1, <2>2 DEF OpFrame, OpOK, Mine
  <2>. QED  BY <2>1, <2>3, OpKept
<1>6. ASSUME NEW v \in Ids  PROVE UpOK(v)'
  <2>1. UpOK(v)
    BY DEF FlowInv
  <2>2. UpFrame(v)
    BY <1>1, <2>1 DEF UpFrame, UpOK, storageVars, disk
  <2>. QED  BY <2>1, <2>2, UpKept
<1>7. WorkOK'
  BY <1>1, WorkKept DEF FlowInv, storageVars, disk
<1>. QED  BY <1>3, <1>4, <1>5, <1>6, <1>7 DEF FlowInv

\* The storage of a new scratch directory.
LEMMA CreateEffect ==
  ASSUME FlowTypes, NEW d \in Dirs, NEW n \in Nat, NEW who \in {"server", "worker"},
         CreateScratch(d, n, who)
  PROVE  /\ d \notin present /\ present' = present \cup {d} /\ present' \subseteq Dirs
         /\ IsFiniteSet(present')
         /\ reserve' \in [Dirs -> Nat] /\ reserve'[d] = n + Margin
         /\ used' \in [Dirs -> Nat] /\ used'[d] = 0
         /\ lease' \in [Dirs -> SUBSET {"server", "worker", "program"}] /\ lease'[d] = {who}
         /\ \A x \in Dirs : x # d => /\ reserve'[x] = reserve[x] /\ used'[x] = used[x]
                                     /\ lease'[x] = lease[x]
<1>1. n + Margin \in Nat
  BY ConstantsOK
<1>2. IsFiniteSet(present \cup {d})
  BY FS_AddElement DEF FlowTypes
<1>. QED  BY <1>1, <1>2 DEF FlowTypes, CreateScratch

LEMMA StageStep ==
  ASSUME FlowInv, NEW c \in Clients, Stage(c)
  PROVE  /\ FlowInv' /\ op'[c].pc = "insert" /\ \A b \in Clients \ {c} : op'[b] = op[b]
         /\ \E u \in Ids : upload[u] = None /\ CreateScratch(u, 0, "server")
                           /\ \A v \in Ids : v # u => upload'[v] = upload[v]
<1>1. PICK u \in Ids, replace \in BOOLEAN :
        /\ upload[u] = None
        /\ CreateScratch(u, 0, "server")
        /\ op' = [op EXCEPT ![c].pc = "insert", ![c].id = u]
        /\ upload' = [upload EXCEPT ![u] = NewUpload(replace)]
  BY DEF Stage
<1>2. /\ op[c].pc = "stage" /\ op[c].kind = "begin"
      /\ UNCHANGED <<controller, budget, retained, dropping, worker, open, restarts>>
  BY DEF Stage, At, FlowInv, OpOK
<1>3. /\ u \in Dirs /\ u # WorkDir /\ WorkDir \in Dirs /\ 0 \in Nat
      /\ "server" \in {"server", "worker"}
  BY ConstantsOK
<1>4. /\ u \notin present /\ present' = present \cup {u} /\ present' \subseteq Dirs
      /\ IsFiniteSet(present')
      /\ reserve' \in [Dirs -> Nat] /\ used' \in [Dirs -> Nat] /\ used'[u] = 0
      /\ lease' \in [Dirs -> SUBSET {"server", "worker", "program"}] /\ lease'[u] = {"server"}
      /\ \A x \in Dirs : x # u => /\ reserve'[x] = reserve[x] /\ used'[x] = used[x]
                                  /\ lease'[x] = lease[x]
  BY <1>1, <1>3, CreateEffect DEF FlowInv
<1>. DEFINE up == NewUpload(replace)
<1>5. up \in Upload
  <2>1. <<>> \in Seq(Clients) /\ <<>> \in Seq(Clients \cup {Torn})
    BY EmptySeq
  <2>. QED  BY <2>1 DEF NewUpload, Upload
<1>6. /\ up # None /\ ~up.committed /\ up.file = <<>> /\ up.acked = <<>> /\ up.written = 0
  BY <1>5, ConstantsOK DEF NewUpload
<1>7. Size(up.file) = 0 /\ Len(up.acked) = 0
  <2>1. <<>> \in Seq(Clients) /\ Len(<<>>) = 0
    BY EmptySeq
  <2>2. Size(<<>>) = ChunkSize * 0
    BY <2>1, SizeWhole
  <2>. QED  BY <1>6, <2>1, <2>2, ConstantsOK
<1>. HIDE DEF up
<1>8. /\ upload' \in [Ids -> Upload \cup {None}] /\ upload'[u] = up
      /\ \A v \in Ids : v # u => upload'[v] = upload[v]
  BY <1>1, <1>5 DEF FlowInv, FlowTypes, up
<1>9. /\ op' \in [Clients -> [pc : OpPc, kind : Kinds, id : Ids \cup {None}]]
      /\ op'[c].pc = "insert" /\ op'[c].id = u /\ op'[c].kind = "begin"
      /\ \A b \in Clients \ {c} : op'[b] = op[b]
  BY <1>1, <1>2 DEF FlowInv, FlowTypes, OpPc, HeldPc
<1>10. FlowTypes'
  BY <1>2, <1>4, <1>8, <1>9 DEF FlowInv, FlowTypes
<1>11. u \notin open
  BY <1>1 DEF FlowInv, UpOK
<1>12. \A b \in Clients : op[b].pc \in HeldPc => op[b].id \in Ids /\ op[b].id # u
  BY <1>1 DEF FlowInv, OpOK, Mine
<1>13. \A b \in Clients : op[b].id # u
  BY <1>12, ConstantsOK DEF FlowInv, FlowTypes, OpPc, OpOK
<1>14. OpOK(c)'
  <2>1. \A b \in Clients \ {c} : op'[b].id # u
    BY <1>9, <1>13
  <2>. QED  BY <1>2, <1>6, <1>8, <1>9, <1>11, <2>1 DEF OpOK, Mine, BusyPc, TaskPc
<1>15. ASSUME NEW b \in Clients \ {c}  PROVE OpOK(b)'
  <2>1. OpOK(b) /\ op'[b] = op[b] /\ open' = open
    BY <1>2, <1>9 DEF FlowInv
  <2>2. op[b].pc \in HeldPc => upload'[op[b].id] = upload[op[b].id]
    BY <1>8, <1>12
  <2>3. op[b].pc = "insert" => \A d \in Clients \ {b} : op'[d].id # op[b].id
    BY <1>9, <1>13, <2>1 DEF OpOK
  <2>4. OpFrame(b)
    BY <2>1, <2>2, <2>3 DEF OpFrame, OpOK, Mine
  <2>. QED  BY <2>1, <2>4, OpKept
<1>16. ASSUME NEW v \in Ids, v # u  PROVE UpOK(v)'
  <2>1. UpOK(v) /\ v \in Dirs
    BY ConstantsOK DEF FlowInv
  <2>2. UpFrame(v)
    BY <1>2, <1>4, <1>8, <1>16, <2>1 DEF UpFrame, UpOK
  <2>. QED  BY <2>1, <2>2, UpKept
<1>17. UpOK(u)'
  <2>1. Size(upload[u].file)' = Size(up.file)
    BY <1>8 DEF Size
  <2>. QED  BY <1>2, <1>4, <1>6, <1>7, <1>8, <1>11, <2>1 DEF UpOK
<1>18. WorkOK'
  <2>1. lease'[WorkDir] = lease[WorkDir] /\ reserve'[WorkDir] = reserve[WorkDir]
    BY <1>3, <1>4
  <2>. QED  BY <1>2, <1>4, <2>1, WorkKept DEF FlowInv
<1>19. (\A b \in Clients : OpOK(b)') /\ (\A v \in Ids : UpOK(v)')
  BY <1>14, <1>15, <1>16, <1>17
<1>. QED  BY <1>1, <1>8, <1>9, <1>10, <1>18, <1>19 DEF FlowInv

-----------------------------------------------------------------------------
(* Cleanup, time, the native worker and restarts.                           *)

\* A directory that somebody holds is not touched.
LEMMA CleanupEffect ==
  ASSUME FlowTypes, NEW d \in Dirs, CleanupScratch(d)
  PROVE  /\ present' \subseteq present /\ IsFiniteSet(present')
         /\ reserve' \in [Dirs -> Nat] /\ used' \in [Dirs -> Nat]
         /\ \A x \in Dirs \ present' : used'[x] = 0 /\ reserve'[x] = 0
         /\ \A x \in Dirs : used'[x] <= used[x]
         /\ \A x \in Dirs : lease[x] # {} \/ x # d =>
              /\ x \in present' <=> x \in present
              /\ used'[x] = used[x] /\ reserve'[x] = reserve[x]
<1>. USE DEF FlowTypes
<1>1. CASE d \notin present \/ lease[d] # {}
  BY <1>1 DEF CleanupScratch
<1>2. CASE d \in present /\ lease[d] = {} /\ present' = present \ {d}
  <2>1. used' = [used EXCEPT ![d] = 0] /\ reserve' = [reserve EXCEPT ![d] = 0]
    BY <1>2 DEF CleanupScratch
  <2>2. IsFiniteSet(present')
    BY <1>2, FS_RemoveElement
  <2>3. reserve' \in [Dirs -> Nat] /\ used' \in [Dirs -> Nat]
    BY <2>1
  <2>4. \A x \in Dirs : used'[x] <= used[x]
    BY <2>1
  <2>5. \A x \in Dirs \ present' : used'[x] = 0 /\ reserve'[x] = 0
    BY <1>2, <2>1
  <2>. QED  BY <1>2, <2>1, <2>2, <2>3, <2>4, <2>5
<1>3. CASE d \in present /\ lease[d] = {} /\ present' = present
  <2>1. PICK n \in {0, used[d]} : used' = [used EXCEPT ![d] = n]
    BY <1>3 DEF CleanupScratch
  <2>2. reserve' = [reserve EXCEPT ![d] = 0] /\ n \in Nat /\ n <= used[d]
    BY <1>3, <2>1 DEF CleanupScratch
  <2>3. reserve' \in [Dirs -> Nat] /\ used' \in [Dirs -> Nat]
    BY <2>1, <2>2
  <2>4. \A x \in Dirs : used'[x] <= used[x]
    BY <2>1, <2>2
  <2>. QED  BY <1>3, <2>1, <2>2, <2>3, <2>4
<1>. QED  BY <1>1, <1>2, <1>3 DEF CleanupScratch

\* So the invariant of the requests is kept by it,
LEMMA CleanupFlow ==
  ASSUME FlowInv, NEW d \in Dirs, CleanupScratch(d),
         dropping' \in [Dirs -> SUBSET {"server", "worker"}],
         UNCHANGED <<controller, budget, lease, worker, open, upload, op, restarts>>
  PROVE  FlowInv'
<1>1. /\ present' \subseteq present /\ IsFiniteSet(present')
      /\ reserve' \in [Dirs -> Nat] /\ used' \in [Dirs -> Nat]
      /\ \A x \in Dirs \ present' : used'[x] = 0 /\ reserve'[x] = 0
      /\ \A x \in Dirs : lease[x] # {} \/ x # d =>
           /\ x \in present' <=> x \in present
           /\ used'[x] = used[x] /\ reserve'[x] = reserve[x]
  BY CleanupEffect DEF FlowInv
<1>2. FlowTypes'
  BY <1>1 DEF FlowInv, FlowTypes
<1>3. \A u \in Ids : "server" \in lease[u] /\ u \in present =>
            "server" \in lease'[u] /\ u \in present' /\ used'[u] = used[u]
  BY <1>1, ConstantsOK
<1>4. (\A c \in Clients : OpOK(c)') /\ (\A u \in Ids : UpOK(u)')
  BY <1>3, UploadsKept DEF FlowInv
<1>5. WorkOK'
  <2>1. CASE lease[WorkDir] # {}
    BY <1>1, <2>1, ConstantsOK, WorkKept DEF FlowInv
  <2>2. CASE lease[WorkDir] = {}
    BY <2>2 DEF FlowInv, WorkOK
  <2>. QED  BY <2>1, <2>2
<1>. QED  BY <1>2, <1>4, <1>5 DEF FlowInv

LEMMA DroppedStep ==
  ASSUME FlowInv, NEW u \in Ids, DroppedCleansUp(u)
  PROVE  FlowInv'
<1>1. u \in Dirs /\ CleanupScratch(u)
  BY ConstantsOK DEF DroppedCleansUp
<1>2. dropping' \in [Dirs -> SUBSET {"server", "worker"}]
  BY DEF DroppedCleansUp, FlowInv, FlowTypes
<1>. QED  BY <1>1, <1>2, CleanupFlow DEF DroppedCleansUp, uploadVars

LEMMA OperatorStep ==
  ASSUME FlowInv, NEW d \in Dirs, OperatorCleansUp(d), UNCHANGED uploadVars
  PROVE  FlowInv'
<1>1. dropping' \in [Dirs -> SUBSET {"server", "worker"}]
  BY DEF OperatorCleansUp, FlowInv, FlowTypes
<1>. QED  BY <1>1, CleanupFlow DEF OperatorCleansUp, uploadVars

LEMMA AgeStep ==
  ASSUME FlowInv, NEW u \in Ids, Age(u)
  PROVE  /\ FlowInv'
         /\ \A v \in Ids : upload[v] # None => upload'[v].file = upload[v].file
<1>1. /\ u \in open /\ upload' = [upload EXCEPT ![u].stale = TRUE]
      /\ UNCHANGED <<storageVars, open, op, restarts>>
  BY DEF Age
<1>2. upload[u] # None /\ upload[u] \in Upload
  BY <1>1 DEF FlowInv, FlowTypes, UpOK
<1>3. /\ upload' \in [Ids -> Upload \cup {None}]
      /\ \A v \in Ids : v # u => upload'[v] = upload[v]
      /\ upload'[u] \in Upload
      /\ upload'[u].file = upload[u].file /\ upload'[u].acked = upload[u].acked
      /\ upload'[u].written = upload[u].written /\ upload'[u].mutex = upload[u].mutex
      /\ upload'[u].committed = upload[u].committed
  BY <1>1, <1>2 DEF FlowInv, FlowTypes, Upload
<1>4. upload'[u] # None
  BY <1>3, ConstantsOK
<1>5. FlowTypes'
  BY <1>1, <1>3 DEF FlowInv, FlowTypes, storageVars, disk
<1>6. ASSUME NEW b \in Clients  PROVE OpOK(b)'
  <2>1. OpOK(b) /\ op' = op /\ open' = open
    BY <1>1 DEF FlowInv
  <2>2. CASE op[b].id = u
    <3>1. op[b].pc # "insert"
      BY <1>1, <2>1, <2>2 DEF OpOK
    <3>2. OpFrame(b)
      BY <1>3, <1>4, <2>1, <2>2, <3>1 DEF OpFrame
    <3>. QED  BY <2>1, <3>2, OpKept
  <2>3. CASE op[b].id # u
    <3>1. op[b].pc \in HeldPc => upload'[op[b].id] = upload[op[b].id]
      BY <1>3, <2>1, <2>3 DEF OpOK
    <3>2. OpFrame(b)
      BY <2>1, <3>1 DEF OpFrame, OpOK, Mine
    <3>. QED  BY <2>1, <3>2, OpKept
  <2>. QED  BY <2>2, <2>3
<1>7. ASSUME NEW v \in Ids  PROVE UpOK(v)'
  <2>1. UpOK(v)
    BY DEF FlowInv
  <2>2. CASE v = u
    <3>1. UpFrame(v)
      BY <1>1, <1>2, <1>3, <1>4, <2>1, <2>2 DEF UpFrame, UpOK, storageVars, disk
    <3>. QED  BY <2>1, <3>1, UpKept
  <2>3. CASE v # u
    <3>1. UpFrame(v)
      BY <1>1, <1>3, <2>1, <2>3 DEF UpFrame, UpOK, storageVars, disk
    <3>. QED  BY <2>1, <3>1, UpKept
  <2>. QED  BY <2>2, <2>3
<1>8. WorkOK'
  BY <1>1, WorkKept DEF FlowInv, storageVars, disk
<1>9. \A v \in Ids : upload[v] # None => upload'[v].file = upload[v].file
  BY <1>3
<1>. QED  BY <1>5, <1>6, <1>7, <1>8, <1>9 DEF FlowInv

LEMMA RestartStep ==
  ASSUME FlowInv, Restart
  PROVE  FlowInv'
<1>1. /\ controller' = Nobody /\ restarts' = restarts + 1
      /\ lease' = [d \in Dirs |-> lease[d] \ {"server"}]
      /\ dropping' = [d \in Dirs |-> dropping[d] \ {"server"}]
      /\ open' = {} /\ upload' = [u \in Ids |-> None]
      /\ op' = [c \in Clients |-> IdleOp]
      /\ UNCHANGED <<present, reserve, used, worker>>
      /\ budget' \in Budgets
  BY DEF Restart, Configure
<1>2. IdleOp \in [pc : OpPc, kind : Kinds, id : Ids \cup {None}]
  BY DEF IdleOp, OpPc, Kinds
<1>3. op' \in [Clients -> [pc : OpPc, kind : Kinds, id : Ids \cup {None}]]
  BY <1>1, <1>2
<1>4. FlowTypes'
  BY <1>1, <1>3 DEF FlowInv, FlowTypes
<1>5. ASSUME NEW c \in Clients  PROVE OpOK(c)'
  <2>1. op'[c] = IdleOp
    BY <1>1
  <2>. QED  BY <2>1 DEF OpOK, HeldPc, BusyPc, TaskPc, IdleOp
<1>6. ASSUME NEW u \in Ids  PROVE UpOK(u)'
  <2>1. upload'[u] = None /\ u \notin open'
    BY <1>1
  <2>. QED  BY <2>1 DEF UpOK
<1>7. WorkOK'
  <2>1. lease'[WorkDir] = lease[WorkDir] \ {"server"}
    BY <1>1, ConstantsOK
  <2>. QED  BY <1>1, <2>1 DEF FlowInv, WorkOK
<1>. QED  BY <1>4, <1>5, <1>6, <1>7 DEF FlowInv

\* The worker and its program touch their own directory only.
LEMMA WorkerFlow ==
  ASSUME FlowInv, UNCHANGED uploadVars, budget' = budget,
         controller' \in {Nobody, "worker"} \cup Clients,
         present' \subseteq Dirs, IsFiniteSet(present'),
         reserve' \in [Dirs -> Nat], used' \in [Dirs -> Nat],
         \A d \in Dirs \ present' : used'[d] = 0 /\ reserve'[d] = 0,
         lease' \in [Dirs -> SUBSET {"server", "worker", "program"}],
         dropping' \in [Dirs -> SUBSET {"server", "worker"}],
         worker' \in [pc : WorkerPc, program : BOOLEAN, works : Nat],
         \A d \in Dirs : d # WorkDir /\ d \in present =>
            d \in present' /\ used'[d] = used[d] /\ lease'[d] = lease[d],
         WorkOK'
  PROVE  FlowInv'
<1>1. FlowTypes'
  BY DEF FlowInv, FlowTypes, uploadVars
<1>2. \A u \in Ids : "server" \in lease[u] /\ u \in present =>
            "server" \in lease'[u] /\ u \in present' /\ used'[u] = used[u]
  BY ConstantsOK
<1>3. (\A c \in Clients : OpOK(c)') /\ (\A u \in Ids : UpOK(u)')
  <2>1. UNCHANGED <<open, upload, op>>
    BY DEF uploadVars
  <2>. QED  BY <1>2, <2>1, UploadsKept DEF FlowInv
<1>. QED  BY <1>1, <1>3 DEF FlowInv

LEMMA WorkerStagesStep ==
  ASSUME FlowInv, WorkerStages, UNCHANGED uploadVars
  PROVE  FlowInv' /\ worker.pc = "idle" /\ worker'.pc = "staged" /\ CreateScratch(WorkDir, WorkSize, "worker")
<1>. USE DEF FlowInv
<1>1. /\ worker.pc = "idle" /\ CreateScratch(WorkDir, WorkSize, "worker")
      /\ worker' = [worker EXCEPT !.pc = "staged", !.works = @ + 1]
      /\ UNCHANGED <<controller, budget, dropping>>
  BY DEF WorkerStages, WorkerAt
<1>2. WorkDir \in Dirs /\ WorkSize \in Nat /\ "worker" \in {"server", "worker"}
  BY ConstantsOK
<1>3. /\ WorkDir \notin present /\ present' = present \cup {WorkDir} /\ present' \subseteq Dirs
      /\ IsFiniteSet(present')
      /\ reserve' \in [Dirs -> Nat] /\ reserve'[WorkDir] = WorkSize + Margin
      /\ used' \in [Dirs -> Nat]
      /\ lease' \in [Dirs -> SUBSET {"server", "worker", "program"}] /\ lease'[WorkDir] = {"worker"}
      /\ \A x \in Dirs : x # WorkDir => /\ reserve'[x] = reserve[x] /\ used'[x] = used[x]
                                        /\ lease'[x] = lease[x]
  BY <1>1, <1>2, CreateEffect
<1>4. /\ worker' \in [pc : WorkerPc, program : BOOLEAN, works : Nat]
      /\ worker'.pc = "staged" /\ worker'.program = worker.program
  <2>1. worker \in [pc : WorkerPc, program : BOOLEAN, works : Nat] /\ "staged" \in WorkerPc
    BY DEF FlowTypes, WorkerPc
  <2>2. worker.works + 1 \in Nat
    BY <2>1
  <2>3. worker' = [pc |-> "staged", program |-> worker.program, works |-> worker.works + 1]
    BY <1>1, <2>1
  <2>. HIDE DEF WorkerPc
  <2>. QED  BY <2>1, <2>2, <2>3
<1>5. ~worker.program
  BY <1>3 DEF WorkOK
<1>6. WorkOK'
  BY <1>3, <1>4, <1>5 DEF WorkOK
<1>7. /\ \A d \in Dirs \ present' : used'[d] = 0 /\ reserve'[d] = 0
      /\ \A d \in Dirs : d # WorkDir /\ d \in present =>
            d \in present' /\ used'[d] = used[d] /\ lease'[d] = lease[d]
  BY <1>2, <1>3 DEF FlowTypes
<1>8. controller' \in {Nobody, "worker"} \cup Clients /\ dropping' \in [Dirs -> SUBSET {"server", "worker"}]
  BY <1>1 DEF FlowTypes
<1>. QED  BY <1>1, <1>3, <1>4, <1>6, <1>7, <1>8, WorkerFlow

LEMMA WorkerStartsStep ==
  ASSUME FlowInv, WorkerStarts, UNCHANGED uploadVars
  PROVE  /\ FlowInv' /\ worker'.pc = "running"
         /\ \A d \in Dirs : lease[d] = {} => lease'[d] = {}
<1>. USE DEF FlowInv
<1>1. /\ worker.pc = "staged"
      /\ lease' = [lease EXCEPT ![WorkDir] = @ \cup {"program"}]
      /\ worker' = [worker EXCEPT !.pc = "running", !.program = TRUE]
      /\ UNCHANGED <<controller, budget, disk, dropping>>
  BY DEF WorkerStarts, WorkerAt
<1>2. /\ lease' \in [Dirs -> SUBSET {"server", "worker", "program"}]
      /\ lease'[WorkDir] = lease[WorkDir] \cup {"program"}
      /\ \A d \in Dirs : d # WorkDir => lease'[d] = lease[d]
      /\ worker' \in [pc : WorkerPc, program : BOOLEAN, works : Nat]
      /\ worker'.pc = "running" /\ worker'.program = TRUE
  BY <1>1, ConstantsOK DEF FlowTypes, WorkerPc
<1>3. WorkOK'
  BY <1>1, <1>2 DEF WorkOK, disk
<1>4. FlowInv'
  <2>1. UNCHANGED <<present, reserve, used>>
    BY <1>1 DEF disk
  <2>2. FlowTypes
    OBVIOUS
  <2>3. /\ present' \subseteq Dirs /\ IsFiniteSet(present')
        /\ reserve' \in [Dirs -> Nat] /\ used' \in [Dirs -> Nat]
        /\ \A d \in Dirs \ present' : used'[d] = 0 /\ reserve'[d] = 0
        /\ controller' \in {Nobody, "worker"} \cup Clients
        /\ dropping' \in [Dirs -> SUBSET {"server", "worker"}]
    BY <1>1, <2>1, <2>2 DEF FlowTypes
  <2>4. \A d \in Dirs : d # WorkDir /\ d \in present =>
            d \in present' /\ used'[d] = used[d] /\ lease'[d] = lease[d]
    BY <1>2, <2>1
  <2>. QED  BY <1>1, <1>2, <1>3, <2>3, <2>4, WorkerFlow
<1>5. lease[WorkDir] # {}
  BY <1>1 DEF WorkOK
<1>. QED  BY <1>2, <1>4, <1>5

LEMMA ProgramWritesStep ==
  ASSUME FlowInv, ProgramWrites, UNCHANGED uploadVars
  PROVE  /\ FlowInv' /\ worker.program
         /\ used'[WorkDir] = used[WorkDir] + 1 /\ used[WorkDir] < WorkSize
         /\ \A d \in Dirs : d # WorkDir => used'[d] = used[d]
<1>. USE DEF FlowInv
<1>1. /\ worker.program /\ used' = [used EXCEPT ![WorkDir] = @ + 1]
      /\ used[WorkDir] < WorkSize
      /\ UNCHANGED <<controller, budget, present, reserve, lease, dropping, worker>>
  BY DEF ProgramWrites, ProgramRuns
<1>2. /\ used' \in [Dirs -> Nat] /\ used'[WorkDir] = used[WorkDir] + 1
      /\ \A d \in Dirs : d # WorkDir => used'[d] = used[d]
  BY <1>1, ConstantsOK DEF FlowTypes
<1>3. WorkDir \in present
  BY <1>1 DEF WorkOK
<1>4. WorkOK'
  BY <1>1, WorkKept
<1>5. /\ present' \subseteq Dirs /\ IsFiniteSet(present')
      /\ reserve' \in [Dirs -> Nat]
      /\ \A d \in Dirs \ present' : used'[d] = 0 /\ reserve'[d] = 0
      /\ controller' \in {Nobody, "worker"} \cup Clients
      /\ lease' \in [Dirs -> SUBSET {"server", "worker", "program"}]
      /\ dropping' \in [Dirs -> SUBSET {"server", "worker"}]
      /\ worker' \in [pc : WorkerPc, program : BOOLEAN, works : Nat]
  BY <1>1, <1>2, <1>3 DEF FlowTypes
<1>6. \A d \in Dirs : d # WorkDir /\ d \in present =>
            d \in present' /\ used'[d] = used[d] /\ lease'[d] = lease[d]
  BY <1>1, <1>2
<1>7. FlowInv'
  BY <1>1, <1>2, <1>4, <1>5, <1>6, WorkerFlow
<1>. QED  BY <1>1, <1>2, <1>7

\* The worker or the program lets go, and nothing in the directory changes.
LEMMA LetGoStep ==
  ASSUME FlowInv, UNCHANGED uploadVars, UNCHANGED <<budget, present, reserve, used>>,
         controller' \in {Nobody, "worker"} \cup Clients,
         NEW held, lease' = [lease EXCEPT ![WorkDir] = @ \ held],
         dropping' \in [Dirs -> SUBSET {"server", "worker"}],
         worker' \in [pc : WorkerPc, program : BOOLEAN, works : Nat],
         worker'.program => worker.program /\ "program" \notin held,
         worker'.pc # "idle" => worker.pc # "idle" /\ "worker" \notin held,
         worker'.pc \in {"staged", "ended", "copying"} => ~worker'.program,
         worker'.pc = "running" => worker'.program
  PROVE  /\ FlowInv'
         /\ \A d \in Dirs : lease'[d] \subseteq lease[d]
<1>. USE DEF FlowInv
<1>1. /\ lease' \in [Dirs -> SUBSET {"server", "worker", "program"}]
      /\ lease'[WorkDir] = lease[WorkDir] \ held
      /\ \A d \in Dirs : d # WorkDir => lease'[d] = lease[d]
  BY ConstantsOK DEF FlowTypes
<1>2. WorkOK'
  BY <1>1 DEF WorkOK
<1>3. /\ present' \subseteq Dirs /\ IsFiniteSet(present')
      /\ reserve' \in [Dirs -> Nat] /\ used' \in [Dirs -> Nat]
      /\ \A d \in Dirs \ present' : used'[d] = 0 /\ reserve'[d] = 0
  BY DEF FlowTypes
<1>4. \A d \in Dirs : d # WorkDir /\ d \in present =>
            d \in present' /\ used'[d] = used[d] /\ lease'[d] = lease[d]
  BY <1>1
<1>5. FlowInv'
  BY <1>1, <1>2, <1>3, <1>4, WorkerFlow
<1>6. \A d \in Dirs : lease'[d] \subseteq lease[d]
  BY <1>1
<1>. QED  BY <1>5, <1>6

LEMMA ProgramExitsStep ==
  ASSUME FlowInv, ProgramExits, UNCHANGED uploadVars
  PROVE  /\ FlowInv' /\ worker'.pc # "copying"
         /\ \A d \in Dirs : lease'[d] \subseteq lease[d]
<1>1. /\ worker.program /\ UNCHANGED <<controller, budget, disk, dropping>>
      /\ lease' = [lease EXCEPT ![WorkDir] = @ \ {"program"}]
      /\ worker' = [worker EXCEPT !.program = FALSE,
                                  !.pc = IF @ = "running" THEN "ended" ELSE @]
  BY DEF ProgramExits, ProgramRuns
<1>2. /\ worker \in [pc : WorkerPc, program : BOOLEAN, works : Nat] /\ "ended" \in WorkerPc
      /\ worker.pc \notin {"staged", "ended", "copying"}
      /\ controller' \in {Nobody, "worker"} \cup Clients
      /\ dropping' \in [Dirs -> SUBSET {"server", "worker"}]
  BY <1>1 DEF FlowInv, FlowTypes, WorkOK, WorkerPc
<1>. DEFINE pc == IF worker.pc = "running" THEN "ended" ELSE worker.pc
<1>3. worker' = [pc |-> pc, program |-> FALSE, works |-> worker.works]
  BY <1>1, <1>2
<1>4. pc \in WorkerPc /\ pc \notin {"staged", "copying", "running"} /\ (pc # "idle" => worker.pc # "idle")
  BY <1>2
<1>5. /\ worker' \in [pc : WorkerPc, program : BOOLEAN, works : Nat]
      /\ worker'.program = FALSE /\ worker'.pc = pc
  <2>. HIDE DEF WorkerPc, pc
  <2>. QED  BY <1>2, <1>3, <1>4
<1>. HIDE DEF pc
<1>6. UNCHANGED <<present, reserve, used>>
  BY <1>1 DEF disk
<1>. QED  BY <1>1, <1>2, <1>4, <1>5, <1>6, LetGoStep

\* What WorkerTo does.
LEMMA WorkerToEffect ==
  ASSUME FlowTypes, NEW pc \in WorkerPc, WorkerTo(pc)
  PROVE  /\ worker' \in [pc : WorkerPc, program : BOOLEAN, works : Nat]
         /\ worker'.pc = pc /\ worker'.program = worker.program
<1>1. worker \in [pc : WorkerPc, program : BOOLEAN, works : Nat] /\ worker' = [worker EXCEPT !.pc = pc]
  BY DEF FlowTypes, WorkerTo
<1>. HIDE DEF WorkerPc
<1>. QED  BY <1>1

LEMMA WorkerCommitsStep ==
  ASSUME FlowInv, WorkerCommits, UNCHANGED uploadVars
  PROVE  /\ FlowInv' /\ worker.pc = "ended" /\ worker'.pc = "copying"
         /\ \A d \in Dirs : lease'[d] \subseteq lease[d]
<1>1. /\ worker.pc = "ended" /\ WorkerTo("copying") /\ "copying" \in WorkerPc
      /\ controller' \in {Nobody, "worker"}
      /\ UNCHANGED <<budget, disk, lease, dropping>>
  BY DEF WorkerCommits, WorkerAt, AdmitWrite, WorkerPc
<1>2. /\ worker' \in [pc : WorkerPc, program : BOOLEAN, works : Nat]
      /\ worker'.pc = "copying" /\ worker'.program = worker.program
  BY <1>1, WorkerToEffect DEF FlowInv
<1>3. lease' = [lease EXCEPT ![WorkDir] = @ \ {}] /\ dropping' \in [Dirs -> SUBSET {"server", "worker"}]
  BY <1>1 DEF FlowInv, FlowTypes
<1>4. ~worker.program
  BY <1>1 DEF FlowInv, WorkOK
<1>5. UNCHANGED <<present, reserve, used>>
  BY <1>1 DEF disk
<1>. QED  BY <1>1, <1>2, <1>3, <1>4, <1>5, LetGoStep

\* The worker ends its request, or is killed.
LEMMA WorkerLeavesStep ==
  ASSUME FlowInv, UNCHANGED uploadVars, UNCHANGED <<budget, present, reserve, used>>,
         controller' = controller \/ EndWrite("worker"),
         lease' = [lease EXCEPT ![WorkDir] = @ \ {"worker"}],
         dropping' \in [Dirs -> SUBSET {"server", "worker"}],
         WorkerTo("idle")
  PROVE  /\ FlowInv' /\ worker'.pc = "idle"
         /\ \A d \in Dirs : lease'[d] \subseteq lease[d]
<1>1. controller' \in {Nobody, "worker"} \cup Clients
  BY EndWriteType DEF FlowInv, FlowTypes
<1>2. "idle" \in WorkerPc
  BY DEF WorkerPc
<1>3. /\ worker' \in [pc : WorkerPc, program : BOOLEAN, works : Nat]
      /\ worker'.pc = "idle" /\ worker'.program = worker.program
  BY <1>2, WorkerToEffect DEF FlowInv
<1>. QED  BY <1>1, <1>3, LetGoStep

LEMMA LeavingSteps ==
  ASSUME FlowInv, WorkerCopied \/ WorkerGivesUp \/ WorkerKilled, UNCHANGED uploadVars
  PROVE  /\ FlowInv' /\ worker'.pc = "idle" /\ UNCHANGED <<budget, present, reserve, used, allowance, twice>>
         /\ controller' = controller \/ EndWrite("worker")
         /\ \A d \in Dirs : lease'[d] \subseteq lease[d]
<1>1. /\ UNCHANGED <<budget, present, reserve, used, allowance, twice>>
      /\ controller' = controller \/ EndWrite("worker")
      /\ lease' = [lease EXCEPT ![WorkDir] = @ \ {"worker"}]
      /\ WorkerTo("idle")
  BY DEF WorkerCopied, WorkerGivesUp, WorkerKilled, DropScratch, disk
<1>2. \/ dropping' = [dropping EXCEPT ![WorkDir] = @ \cup {"worker"}]
      \/ dropping' = [dropping EXCEPT ![WorkDir] = @ \ {"worker"}]
  BY DEF WorkerCopied, WorkerGivesUp, WorkerKilled, DropScratch
<1>3. dropping' \in [Dirs -> SUBSET {"server", "worker"}]
  BY <1>2 DEF FlowInv, FlowTypes
<1>. QED  BY <1>1, <1>3, WorkerLeavesStep

LEMMA WorkerCleansUpStep ==
  ASSUME FlowInv, WorkerCleansUp, UNCHANGED uploadVars
  PROVE  FlowInv' /\ CleanupScratch(WorkDir)
<1>1. /\ CleanupScratch(WorkDir) /\ UNCHANGED <<controller, budget, lease, worker>>
      /\ dropping' = [dropping EXCEPT ![WorkDir] = @ \ {"worker"}]
  BY DEF WorkerCleansUp
<1>2. dropping' \in [Dirs -> SUBSET {"server", "worker"}] /\ UNCHANGED <<open, upload, op, restarts>>
  BY <1>1 DEF FlowInv, FlowTypes, uploadVars
<1>. QED  BY <1>1, <1>2, ConstantsOK, CleanupFlow

-----------------------------------------------------------------------------
(* All the operations.                                                     *)

LEMMA FlowInit ==
  ASSUME Init
  PROVE  FlowInv
<1>1. FlowTypes
  BY ConstantsOK, FS_EmptySet DEF Init, StorageInit, FlowTypes, IdleOp, OpPc, Kinds, WorkerPc
<1>2. ASSUME NEW c \in Clients  PROVE OpOK(c)
  <2>1. op[c] = IdleOp
    BY DEF Init
  <2>. QED  BY <2>1 DEF OpOK, HeldPc, BusyPc, TaskPc, IdleOp
<1>3. ASSUME NEW u \in Ids  PROVE UpOK(u)
  BY DEF Init, UpOK
<1>4. WorkOK
  BY DEF Init, StorageInit, WorkOK
<1>. QED  BY <1>1, <1>2, <1>3, <1>4 DEF FlowInv

LEMMA FlowStep ==
  ASSUME FlowInv, [Next]_vars
  PROVE  FlowInv'
<1>1. ASSUME NEW c \in Clients, Request(c) \/ Serve(c) \/ Disconnect(c)
      PROVE  FlowInv'
  BY <1>1, BeginStep, GetStep, StageStep, StageFailsStep, InsertStep, LockStep, StartStep,
     AdmitStep, RefuseStep, AppendStep, PublishStep, UnlinkStep, DisconnectStep DEF Request, Serve
<1>2. ASSUME NEW u \in Ids, DroppedCleansUp(u) \/ Age(u)
      PROVE  FlowInv'
  BY <1>2, DroppedStep, AgeStep
<1>3. ASSUME Restart  PROVE FlowInv'
  BY <1>3, RestartStep
<1>4. ASSUME Worker \/ WorkerKilled, UNCHANGED uploadVars
      PROVE  FlowInv'
  BY <1>4, WorkerStagesStep, WorkerStartsStep, WorkerCommitsStep, LeavingSteps,
     WorkerCleansUpStep, ProgramWritesStep, ProgramExitsStep DEF Worker
<1>5. ASSUME NEW d \in Dirs, OperatorCleansUp(d), UNCHANGED uploadVars
      PROVE  FlowInv'
  BY <1>5, OperatorStep
<1>6. ASSUME UNCHANGED vars  PROVE FlowInv'
  <2>1. UNCHANGED <<controller, budget, present, reserve, used, lease, dropping, worker, open, upload, op, restarts>>
    BY <1>6 DEF vars, storageVars, uploadVars, disk
  <2>2. FlowTypes' /\ WorkOK'
    BY <2>1 DEF FlowInv, FlowTypes, WorkOK
  <2>. QED  BY <2>1, <2>2, UploadsKept DEF FlowInv
<1>. QED  BY <1>1, <1>2, <1>3, <1>4, <1>5, <1>6 DEF Next

-----------------------------------------------------------------------------
(* Steps that spend nothing.                                               *)

\* No request has been admitted, or has more in its file.
Quiet == \A c \in Clients : op'[c].pc \in AdmittedPc =>
           op'[c] = op[c] /\ used'[op[c].id] = used[op[c].id]

\* And nothing that is counted has grown, but by the copy that was counted for
\* the worker.
Calm == /\ Quiet
        /\ UNCHANGED <<controller, budget, allowance, twice, published, promised>>
        /\ ScratchBytes' <= ScratchBytes
        /\ \/ /\ retained' = retained
              /\ worker'.pc = "copying" => worker.pc = "copying" /\ used'[WorkDir] = used[WorkDir]
           \/ /\ retained' = retained + Unguarded
              /\ worker'.pc = "idle"

LEMMA Counts ==
  ASSUME FlowTypes, PubOK
  PROVE  /\ retained \in Nat /\ twice \in Nat /\ ScratchBytes \in Nat /\ Unguarded \in Nat
         /\ Claimed = retained + ScratchBytes + Unguarded
         /\ \A d \in Dirs : used[d] \in Nat
<1>1. ScratchBytes \in Nat
  BY DiskFromTypes, ScratchIsNat
<1>2. retained \in Nat /\ twice \in Nat
  BY DEF PubOK
<1>3. \A d \in Dirs : used[d] \in Nat
  BY DEF FlowTypes
<1>4. Unguarded \in Nat
  BY <1>3, ConstantsOK DEF Unguarded
<1>5. Claimed = retained + ScratchBytes + Unguarded
  BY ChargedSplit DEF Claimed
<1>. QED  BY <1>1, <1>2, <1>3, <1>4, <1>5

LEMMA CountsNext ==
  ASSUME FlowTypes'
  PROVE  /\ ScratchBytes' \in Nat /\ Unguarded' \in Nat
         /\ Claimed' = retained' + ScratchBytes' + Unguarded'
         /\ \A d \in Dirs : used'[d] \in Nat
<1>1. DiskOK'
  BY DEF FlowTypes, DiskOK
<1>2. ScratchBytes' \in Nat
  <2>1. ByteMap' \in [Dirs -> Nat]
    BY <1>1 DEF DiskOK, ByteMap, Bytes, Larger
  <2>2. ScratchBytes' = SumFunctionOnSet(ByteMap', present')
    BY DEF ScratchBytes
  <2>3. present' \in SUBSET Dirs /\ IsFiniteSet(present')
    BY <1>1 DEF DiskOK
  <2>. QED  BY <2>1, <2>2, <2>3, SumIsNat
<1>3. \A d \in Dirs : used'[d] \in Nat
  BY DEF FlowTypes
<1>4. Unguarded' \in Nat
  BY <1>3, ConstantsOK DEF Unguarded
<1>5. Claimed' = retained' + ScratchBytes' + Unguarded'
  BY DEF Claimed, Charged, ScratchBytes, ByteMap
<1>. QED  BY <1>2, <1>3, <1>4, <1>5

\* Directories that nobody takes and nobody writes to.
LEMMA ScratchKept ==
  ASSUME FlowTypes, FlowTypes', present' \subseteq present,
         \A d \in Dirs : /\ used'[d] <= used[d] /\ reserve'[d] <= reserve[d]
                         /\ lease[d] = {} => lease'[d] = {}
  PROVE  ScratchBytes' <= ScratchBytes
<1>1. DiskOK /\ DiskOK'
  BY DEF FlowTypes, DiskOK
<1>2. ASSUME NEW d \in present'  PROVE Bytes(d)' <= Bytes(d)
  <2>1. /\ d \in Dirs /\ used'[d] <= used[d] /\ reserve'[d] <= reserve[d]
        /\ lease[d] = {} => lease'[d] = {}
        /\ used'[d] \in Nat /\ used[d] \in Nat /\ reserve[d] \in Nat /\ reserve'[d] \in Nat
    BY <1>1 DEF DiskOK
  <2>. QED  BY <2>1 DEF Bytes, Larger
<1>. QED  BY <1>1, <1>2, ScratchShrinks

LEMMA PubKept ==
  ASSUME PubOK, UNCHANGED <<twice, published, promised>>,
         retained' = retained \/ \E k \in Nat : retained' = retained + k,
         \A c \in Clients : op'[c].pc = "linked" =>
           op'[c] = op[c] /\ used'[op[c].id] = used[op[c].id]
  PROVE  PubOK'
<1>1. PublishedSize' = PublishedSize
  BY DEF PublishedSize, Size
<1>2. ASSUME NEW c \in Clients, op'[c].pc = "linked"
      PROVE  op[c].pc = "linked" /\ used'[op'[c].id] = used[op[c].id]
  BY <1>2
<1>3. PublishedSize \in Nat
  <2>1. published # None => published \in Seq(Clients \cup {Torn})
    BY SeqMonotonic DEF PubOK
  <2>. QED  BY <2>1, SizeIsNat DEF PublishedSize
<1>4. PICK k \in Nat : retained' = retained + k
  <2>1. retained + 0 = retained
    BY DEF PubOK
  <2>. QED  BY <2>1
<1>5. PICK r \in Nat : r = retained' /\ r >= twice + PublishedSize
  <2>1. /\ retained + k \in Nat /\ retained + k >= twice + PublishedSize
    BY <1>3, <1>4 DEF PubOK
  <2>. QED  BY <1>4, <2>1
<1>6. retained' \in Nat /\ twice' \in Nat /\ retained' >= twice' + PublishedSize'
  BY <1>1, <1>5 DEF PubOK
<1>. QED  BY <1>2, <1>6 DEF PubOK, At

LEMMA CalmKeeps ==
  ASSUME FlowInv, FlowInv', PubOK, BudgetOK, Calm
  PROVE  PubOK' /\ BudgetOK'
<1>1. PubOK'
  <2>1. retained' = retained \/ \E k \in Nat : retained' = retained + k
    BY Counts DEF Calm, FlowInv
  <2>. QED  BY <2>1, PubKept DEF Calm, Quiet, AdmittedPc
<1>2. budget' = budget /\ allowance' = allowance /\ twice' = twice /\ controller' = controller
  BY DEF Calm
<1>3. PICK r \in Nat, s \in Nat, g \in Nat :
        r = retained' /\ s = ScratchBytes' /\ g = Unguarded' /\ Claimed' = r + s + g
  BY <1>1, CountsNext DEF FlowInv, PubOK
<1>4. /\ retained \in Nat /\ twice \in Nat /\ ScratchBytes \in Nat /\ Unguarded \in Nat
      /\ Claimed = retained + ScratchBytes + Unguarded
  BY Counts DEF FlowInv
<1>5. s <= ScratchBytes /\ g <= Unguarded /\ r + g <= retained + Unguarded
  <2>1. ScratchBytes' <= ScratchBytes
    BY DEF Calm
  <2>2. \/ retained' = retained /\ (Unguarded' = Unguarded \/ Unguarded' = 0)
        \/ retained' = retained + Unguarded /\ Unguarded' = 0
    BY <1>2 DEF Calm, Unguarded, WorkerAt
  <2>3. s <= ScratchBytes
    BY <1>3, <2>1
  <2>4. \/ r = retained /\ (g = Unguarded \/ g = 0)
        \/ r = retained + Unguarded /\ g = 0
    BY <1>3, <2>2
  <2>. QED  BY <1>4, <2>3, <2>4
<1>6. ASSUME budget # Unlimited, NEW n \in Nat, Room(n)  PROVE Room(n)'
  <2>1. allowance \in Nat
    BY <1>6 DEF BudgetOK
  <2>2. Claimed + n <= allowance + twice
    BY <1>6 DEF Room
  <2>3. (r + s + g) + n <= allowance + twice
    BY <1>4, <1>5, <2>1, <2>2
  <2>4. Claimed' + n <= allowance + twice
    BY <1>3, <2>3
  <2>. QED  BY <1>2, <2>4 DEF Room
<1>7. ASSUME NEW c \in Clients, op'[c].pc \in AdmittedPc
      PROVE  op'[c] = op[c] /\ used'[op'[c].id] = used[op[c].id]
  BY <1>7 DEF Calm, Quiet
<1>8. ASSUME NEW c \in Clients, op'[c].pc \in AdmittedPc  PROVE used[op[c].id] \in Nat
  <2>1. op[c].pc \in HeldPc
    BY <1>7, <1>8 DEF AdmittedPc, HeldPc, TaskPc
  <2>2. op[c].id \in Dirs
    BY <2>1, ConstantsOK DEF FlowInv, OpOK
  <2>. QED  BY <2>2 DEF FlowInv, FlowTypes
<1>9. BudgetOK'
  <2>1. CASE budget = Unlimited
    BY <1>2, <2>1 DEF BudgetOK
  <2>2. CASE budget # Unlimited
    <3>1. /\ (budget = Unlimited <=> allowance = Unlimited)' /\ allowance' \in Nat
          /\ budget \in Nat /\ allowance \in Nat /\ budget + Unguarded <= allowance
      BY <1>2, <2>2, ConstantsOK DEF BudgetOK, FlowInv, FlowTypes
    <3>2. budget' + Unguarded' <= allowance'
      <4>1. budget + g <= allowance
        BY <1>4, <1>5, <3>1
      <4>. QED  BY <1>2, <1>3, <4>1
    <3>3. Room(0)'
      BY <1>6, <2>2 DEF BudgetOK
    <3>4. ASSUME NEW c \in Clients, op'[c].pc \in AdmittedPc  PROVE controller' = c
      BY <1>2, <1>7, <2>2, <3>4 DEF BudgetOK
    <3>5. ASSUME NEW c \in Clients, op'[c].pc = "append"  PROVE Room(ChunkSize)'
      <4>1. op[c].pc = "append"
        BY <1>7, <3>5 DEF AdmittedPc
      <4>2. Room(ChunkSize)
        BY <2>2, <4>1 DEF BudgetOK, At
      <4>. QED  BY <1>6, <2>2, <4>2, ConstantsOK
    <3>6. ASSUME NEW c \in Clients, op'[c].pc = "copy"  PROVE Room(used[op[c].id])'
      <4>1. op'[c].pc \in AdmittedPc
        BY <3>6 DEF AdmittedPc
      <4>2. op[c].pc = "copy" /\ used[op[c].id] \in Nat /\ used'[op'[c].id] = used[op[c].id]
        BY <1>7, <1>8, <3>6, <4>1
      <4>3. PICK n \in Nat : n = used[op[c].id] /\ n = used'[op'[c].id]
        BY <4>2
      <4>4. Room(n)
        BY <2>2, <4>2, <4>3 DEF BudgetOK, At
      <4>5. Room(n)'
        BY <1>6, <2>2, <4>4
      <4>. QED  BY <4>3, <4>5 DEF Room
    <3>7. ASSUME worker'.pc = "copying", controller' = "worker"  PROVE Room(used[WorkDir])'
      <4>1. worker.pc = "copying" /\ controller = "worker" /\ used'[WorkDir] = used[WorkDir]
        BY <1>2, <3>7 DEF Calm
      <4>2. PICK n \in Nat : n = used[WorkDir] /\ n = used'[WorkDir]
        BY <4>1, ConstantsOK DEF FlowInv, FlowTypes
      <4>3. Room(n)
        BY <2>2, <4>1, <4>2 DEF BudgetOK, WorkerAt
      <4>4. Room(n)'
        BY <1>6, <2>2, <4>3
      <4>. QED  BY <4>2, <4>4 DEF Room
    <3>. QED  BY <3>1, <3>2, <3>3, <3>4, <3>5, <3>6, <3>7 DEF BudgetOK, At, WorkerAt
  <2>. QED  BY <2>1, <2>2
<1>. QED  BY <1>1, <1>9

\* The request of c moves, without having been admitted.
LEMMA QuietMove ==
  ASSUME NEW c \in Clients, op'[c].pc \notin AdmittedPc,
         \A b \in Clients \ {c} : /\ op'[b] = op[b]
                                  /\ op[b].pc \in AdmittedPc => used'[op[b].id] = used[op[b].id]
  PROVE  Quiet
BY DEF Quiet

LEMMA DiskKept ==
  ASSUME FlowTypes, FlowTypes', UNCHANGED <<present, reserve, used>>,
         \A d \in Dirs : lease'[d] \subseteq lease[d]
  PROVE  ScratchBytes' <= ScratchBytes
<1>1. present' \subseteq present
  OBVIOUS
<1>2. ASSUME NEW d \in Dirs
      PROVE  /\ used'[d] <= used[d] /\ reserve'[d] <= reserve[d]
             /\ lease[d] = {} => lease'[d] = {}
  <2>1. used[d] \in Nat /\ reserve[d] \in Nat
    BY DEF FlowTypes
  <2>2. used[d] <= used[d] /\ reserve[d] <= reserve[d]
    BY <2>1
  <2>3. lease'[d] \subseteq lease[d]
    OBVIOUS
  <2>. QED  BY <2>2, <2>3
<1>. QED  BY <1>1, <1>2, ScratchKept

\* The requests that neither write nor ask for room.
LEMMA RequestsCalm ==
  ASSUME FlowInv, FlowInv', NEW c \in Clients,
         \/ Begin(c) \/ StageFails(c) \/ Insert(c) \/ Disconnect(c) \/ Refuse(c) \/ Lock(c)
         \/ \E u \in open, kind \in {"chunk", "commit"} : Get(c, u, kind)
  PROVE  Calm
<1>. USE DEF FlowInv
<1>1. UNCHANGED <<controller, budget, allowance, retained, twice, published, promised, present,
                  reserve, used, worker>>
  BY DEF Begin, StageFails, Insert, Disconnect, Refuse, Lock, Get, storageVars, disk
<1>2. /\ op'[c].pc \in {"idle", "stage", "lock", "permit"}
      /\ \A b \in Clients \ {c} : op'[b] = op[b]
  <2>1. CASE Disconnect(c) \/ Refuse(c)
    <3>1. Ended(c)
      BY <2>1, DisconnectStep, RefuseStep
    <3>. QED  BY <3>1 DEF Ended, IdleOp
  <2>2. CASE Lock(c)
    <3>1. op' = [op EXCEPT ![c].pc = "permit"]
      BY <2>2 DEF Lock, GoTo
    <3>. QED  BY <3>1 DEF FlowTypes
  <2>3. CASE \/ Begin(c) \/ StageFails(c) \/ Insert(c)
             \/ \E u \in open, kind \in {"chunk", "commit"} : Get(c, u, kind)
    <3>1. \/ op' = [op EXCEPT ![c] = IdleOp]
          \/ op' = [op EXCEPT ![c] = [pc |-> "stage", kind |-> "begin", id |-> None]]
          \/ \E u \in open, kind \in {"chunk", "commit"} :
               op' = [op EXCEPT ![c] = [pc |-> "lock", kind |-> kind, id |-> u]]
      BY <2>3 DEF Begin, StageFails, Insert, Get
    <3>. QED  BY <3>1 DEF FlowTypes, IdleOp
  <2>. QED  BY <2>1, <2>2, <2>3
<1>3. \A d \in Dirs : lease'[d] \subseteq lease[d]
  <2>1. CASE Disconnect(c) \/ Refuse(c)
    <3>1. Ended(c)
      BY <2>1, DisconnectStep, RefuseStep
    <3>. QED  BY <3>1 DEF Ended
  <2>2. CASE \/ Lock(c) \/ StageFails(c)
             \/ \E u \in open, kind \in {"chunk", "commit"} : Get(c, u, kind)
    BY <2>2 DEF Lock, StageFails, Get, storageVars
  <2>3. CASE Begin(c) \/ Insert(c)
    <3>1. \E ids : lease' = [d \in Dirs |-> IF d \in ids THEN lease[d] \ {"server"} ELSE lease[d]]
      BY <2>3 DEF Begin, Insert, Drop
    <3>. QED  BY <3>1
  <2>. QED  BY <2>1, <2>2, <2>3
<1>4. Quiet
  BY <1>1, <1>2, QuietMove DEF AdmittedPc
<1>5. ScratchBytes' <= ScratchBytes
  BY <1>1, <1>3, DiskKept
<1>. QED  BY <1>1, <1>4, <1>5 DEF Calm

LEMMA StartCalm ==
  ASSUME FlowInv, FlowInv', NEW c \in Clients, Start(c)
  PROVE  Calm
<1>. USE DEF FlowInv
<1>1. UNCHANGED <<controller, budget, allowance, retained, twice, published, promised, present,
                  reserve, worker>>
  BY DEF Start
<1>2. /\ \A d \in Dirs : used'[d] <= used[d] /\ lease'[d] \subseteq lease[d]
      /\ op'[c].pc \in {"idle", "admit"}
      /\ \A b \in Clients \ {c} : op'[b] = op[b]
  BY StartStep
<1>3. op[c].pc \in BusyPc /\ (used' = used \/ \E n : used' = [used EXCEPT ![op[c].id] = n])
  BY DEF Start, At, BusyPc
<1>4. op[c].id \in Ids /\ WorkDir # op[c].id
  BY <1>3, Owner, ConstantsOK
<1>5. \A d \in Dirs : d # op[c].id => used'[d] = used[d]
  BY <1>3 DEF FlowTypes
<1>6. ASSUME NEW b \in Clients \ {c}, op[b].pc \in AdmittedPc
      PROVE  used'[op[b].id] = used[op[b].id]
  <2>1. op[b].pc \in BusyPc /\ op[b].pc # "lock"
    BY <1>6 DEF AdmittedPc, BusyPc, TaskPc
  <2>2. op[b].id # op[c].id
    BY <1>3, <2>1, SoleHolder
  <2>3. op[b].id \in Dirs
    BY <2>1, Owner
  <2>. QED  BY <1>5, <2>2, <2>3
<1>7. Quiet
  BY <1>2, <1>6, QuietMove DEF AdmittedPc
<1>8. ScratchBytes' <= ScratchBytes
  <2>1. present' \subseteq present
    BY <1>1
  <2>2. \A d \in Dirs : reserve'[d] <= reserve[d]
    BY <1>1 DEF FlowTypes
  <2>. QED  BY <1>2, <2>1, <2>2, ScratchKept
<1>9. used'[WorkDir] = used[WorkDir]
  BY <1>4, <1>5, ConstantsOK
<1>. QED  BY <1>1, <1>7, <1>8, <1>9 DEF Calm

\* A directory is cleaned up that nobody holds.
LEMMA CleanupCalm ==
  ASSUME FlowInv, FlowInv', NEW d \in Dirs, CleanupScratch(d),
         UNCHANGED <<controller, budget, allowance, retained, twice, published, promised,
                     lease, worker, op>>
  PROVE  Calm
<1>. USE DEF FlowInv
<1>1. /\ present' \subseteq present
      /\ \A x \in Dirs : used'[x] <= used[x]
      /\ \A x \in Dirs : lease[x] # {} \/ x # d => used'[x] = used[x] /\ reserve'[x] = reserve[x]
  BY CleanupEffect
<1>2. \A x \in Dirs : reserve'[x] <= reserve[x]
  <2>1. reserve' = [reserve EXCEPT ![d] = 0] \/ reserve' = reserve
    BY DEF CleanupScratch
  <2>. QED  BY <2>1 DEF FlowTypes
<1>3. ScratchBytes' <= ScratchBytes
  BY <1>1, <1>2, ScratchKept
<1>4. ASSUME NEW b \in Clients, op[b].pc \in AdmittedPc
      PROVE  used'[op[b].id] = used[op[b].id]
  <2>1. op[b].pc \in HeldPc
    BY <1>4 DEF AdmittedPc, HeldPc, TaskPc
  <2>2. op[b].id \in Ids /\ upload[op[b].id] # None
    BY <2>1 DEF OpOK, Mine
  <2>3. lease[op[b].id] # {} /\ op[b].id \in Dirs
    BY <2>2, ConstantsOK DEF UpOK
  <2>. QED  BY <1>1, <2>3
<1>5. Quiet
  BY <1>4 DEF Quiet
<1>6. worker.pc = "copying" => used'[WorkDir] = used[WorkDir]
  <2>1. worker.pc = "copying" => lease[WorkDir] # {}
    BY DEF WorkOK
  <2>. QED  BY <1>1, <2>1, ConstantsOK
<1>. QED  BY <1>3, <1>5, <1>6 DEF Calm

LEMMA TimeCalm ==
  ASSUME FlowInv, FlowInv',
         \/ \E u \in Ids : DroppedCleansUp(u) \/ Age(u)
         \/ \E d \in Dirs : OperatorCleansUp(d) /\ UNCHANGED uploadVars
         \/ WorkerCleansUp /\ UNCHANGED uploadVars
         \/ UNCHANGED vars
  PROVE  Calm
<1>1. CASE \E d \in Dirs :
             /\ CleanupScratch(d)
             /\ UNCHANGED <<controller, budget, allowance, retained, twice, published, promised,
                            lease, worker, op>>
  BY <1>1, CleanupCalm
<1>2. CASE UNCHANGED <<storageVars, op, published, promised>>
  <2>1. /\ UNCHANGED <<controller, budget, allowance, retained, twice, published, promised, present,
                       reserve, used, worker, op>>
        /\ \A d \in Dirs : lease'[d] \subseteq lease[d]
    BY <1>2 DEF storageVars, disk
  <2>2. ScratchBytes' <= ScratchBytes
    BY <2>1, DiskKept DEF FlowInv
  <2>. QED  BY <2>1, <2>2 DEF Calm, Quiet
<1>3. CASE \E u \in Ids : DroppedCleansUp(u) \/ Age(u)
  <2>1. PICK u \in Ids : DroppedCleansUp(u) \/ Age(u)
    BY <1>3
  <2>2. u \in Dirs
    BY ConstantsOK
  <2>. QED  BY <1>1, <1>2, <2>1, <2>2 DEF DroppedCleansUp, Age, uploadVars
<1>4. CASE \E d \in Dirs : OperatorCleansUp(d) /\ UNCHANGED uploadVars
  BY <1>1, <1>4 DEF OperatorCleansUp, uploadVars
<1>5. CASE WorkerCleansUp /\ UNCHANGED uploadVars
  BY <1>1, <1>5, ConstantsOK DEF WorkerCleansUp, uploadVars
<1>6. CASE UNCHANGED vars
  BY <1>2, <1>6 DEF vars, uploadVars
<1>. QED  BY <1>3, <1>4, <1>5, <1>6

\* The worker and its program, as long as nothing is copied.
LEMMA WorkerCalm ==
  ASSUME FlowInv, FlowInv', UNCHANGED uploadVars,
         WorkerStarts \/ ProgramWrites \/ ProgramExits \/ WorkerGivesUp
  PROVE  Calm
<1>. USE DEF FlowInv
<1>1. UNCHANGED <<controller, budget, allowance, retained, twice, published, promised, op, present, reserve>>
  BY DEF WorkerStarts, ProgramWrites, ProgramExits, WorkerGivesUp, uploadVars, disk
<1>2. ASSUME UNCHANGED used, worker'.pc # "copying", ScratchBytes' <= ScratchBytes
      PROVE  Calm
  BY <1>1, <1>2 DEF Calm, Quiet
<1>3. CASE WorkerStarts
  <2>1. worker'.pc # "copying" /\ \A d \in Dirs : lease[d] = {} => lease'[d] = {}
    BY <1>3, WorkerStartsStep
  <2>2. present' \subseteq present /\ UNCHANGED <<used, reserve>>
    BY <1>3 DEF WorkerStarts, disk
  <2>3. \A d \in Dirs : used'[d] <= used[d] /\ reserve'[d] <= reserve[d]
    BY <2>2 DEF FlowTypes
  <2>4. ScratchBytes' <= ScratchBytes
    BY <2>1, <2>2, <2>3, ScratchKept
  <2>. QED  BY <1>2, <2>1, <2>2, <2>4
<1>4. CASE ProgramExits
  <2>1. worker'.pc # "copying" /\ \A d \in Dirs : lease'[d] \subseteq lease[d]
    BY <1>4, ProgramExitsStep
  <2>2. UNCHANGED <<present, reserve, used>>
    BY <1>4 DEF ProgramExits, disk
  <2>3. ScratchBytes' <= ScratchBytes
    BY <2>1, <2>2, DiskKept
  <2>. QED  BY <1>2, <2>1, <2>2, <2>3
<1>5. CASE WorkerGivesUp
  <2>1. /\ worker'.pc # "copying" /\ UNCHANGED <<present, reserve, used>>
        /\ \A d \in Dirs : lease'[d] \subseteq lease[d]
    BY <1>5, LeavingSteps
  <2>2. ScratchBytes' <= ScratchBytes
    BY <2>1, DiskKept
  <2>. QED  BY <1>2, <2>1, <2>2
<1>6. CASE ProgramWrites
  <2>1. /\ worker.program /\ used[WorkDir] < WorkSize
        /\ used'[WorkDir] = used[WorkDir] + 1
        /\ \A d \in Dirs : d # WorkDir => used'[d] = used[d]
    BY <1>6, ProgramWritesStep
  <2>2. UNCHANGED <<present, lease, worker>>
    BY <1>6 DEF ProgramWrites
  <2>3. worker'.pc # "copying" /\ lease[WorkDir] # {} /\ reserve[WorkDir] = WorkSize + Margin
    BY <2>1, <2>2 DEF WorkOK
  <2>4. ASSUME NEW b \in Clients, op[b].pc \in AdmittedPc
        PROVE  used'[op[b].id] = used[op[b].id]
    <3>1. op[b].pc \in HeldPc
      BY <2>4 DEF AdmittedPc, HeldPc, TaskPc
    <3>2. op[b].id \in Dirs /\ op[b].id # WorkDir
      BY <3>1, ConstantsOK DEF OpOK
    <3>. QED  BY <2>1, <3>2
  <2>5. ScratchBytes' <= ScratchBytes
    <3>1. Bytes(WorkDir)' = Bytes(WorkDir)
      <4>1. PICK k \in Nat : k = used[WorkDir]
        BY ConstantsOK DEF FlowTypes
      <4>2. k + 1 <= WorkSize + Margin /\ k <= WorkSize + Margin
        BY <2>1, <4>1, ConstantsOK
      <4>3. Larger(k + 1, WorkSize + Margin) = WorkSize + Margin
        BY <4>2, ConstantsOK DEF Larger
      <4>4. Larger(k, WorkSize + Margin) = WorkSize + Margin
        BY <4>2, ConstantsOK DEF Larger
      <4>5. Bytes(WorkDir) = WorkSize + Margin
        BY <2>3, <4>1, <4>4 DEF Bytes
      <4>6. Bytes(WorkDir)' = WorkSize + Margin
        BY <1>1, <2>1, <2>2, <2>3, <4>1, <4>3 DEF Bytes
      <4>. QED  BY <4>5, <4>6
    <3>2. \A d \in Dirs : d # WorkDir => Bytes(d)' = Bytes(d)
      BY <1>1, <2>1, <2>2 DEF Bytes
    <3>3. ByteMap' = ByteMap
      BY <3>1, <3>2 DEF ByteMap
    <3>4. ScratchBytes' = ScratchBytes
      BY <2>2, <3>3 DEF ScratchBytes
    <3>. QED  BY <3>4, DiskFromTypes, ScratchIsNat
  <2>6. Quiet
    BY <1>1, <2>4 DEF Quiet
  <2>. QED  BY <1>1, <2>3, <2>5, <2>6 DEF Calm
<1>. QED  BY <1>3, <1>4, <1>5, <1>6

-----------------------------------------------------------------------------
(* Steps that ask for room, and are given it by the count.                  *)

\* Under a budget whoever is admitted holds the controller.
LEMMA NobodyAdmitted ==
  ASSUME FlowInv, BudgetOK, budget # Unlimited, controller \notin Clients
  PROVE  \A c \in Clients : op[c].pc \notin AdmittedPc
BY DEF BudgetOK

LEMMA OneAdmitted ==
  ASSUME FlowInv, BudgetOK, budget # Unlimited, NEW c \in Clients, op[c].pc \in AdmittedPc
  PROVE  controller = c /\ \A b \in Clients \ {c} : op[b].pc \notin AdmittedPc
BY DEF BudgetOK

LEMMA NextCounts ==
  ASSUME FlowTypes', PubOK'
  PROVE  \E r, t, s, g \in Nat :
           /\ r = retained' /\ t = twice' /\ s = ScratchBytes' /\ g = Unguarded'
           /\ Claimed' = r + s + g
BY CountsNext DEF PubOK

\* What is left to show of BudgetOK after a step that leaves nobody admitted but
\* to a removal.
LEMMA BudgetFrom ==
  ASSUME FlowInv, FlowInv', PubOK, PubOK', BudgetOK, UNCHANGED <<budget, allowance>>,
         budget # Unlimited =>
           /\ Unguarded' = Unguarded \/ Unguarded' = 0
           /\ \A c \in Clients : op'[c].pc \in AdmittedPc => op'[c].pc = "linked" /\ controller' = c
           /\ ~(worker'.pc = "copying" /\ controller' = "worker")
           /\ Room(0)'
  PROVE  BudgetOK'
<1>1. CASE budget = Unlimited
  BY <1>1 DEF BudgetOK
<1>2. CASE budget # Unlimited
  <2>1. /\ (budget = Unlimited <=> allowance = Unlimited)' /\ allowance' \in Nat
        /\ budget \in Nat /\ allowance \in Nat /\ budget + Unguarded <= allowance
    BY <1>2, ConstantsOK DEF BudgetOK, FlowInv, FlowTypes
  <2>2. budget' + Unguarded' <= allowance'
    <3>1. Unguarded \in Nat
      BY Counts DEF FlowInv
    <3>2. PICK g \in Nat : g = Unguarded'
      BY NextCounts DEF FlowInv
    <3>3. g = Unguarded \/ g = 0
      BY <1>2, <3>2
    <3>4. budget + g <= allowance
      BY <2>1, <3>1, <3>3
    <3>. QED  BY <3>2, <3>4
  <2>3. \A c \in Clients : op'[c].pc # "append" /\ op'[c].pc # "copy"
    BY <1>2 DEF AdmittedPc
  <2>. QED  BY <1>2, <2>1, <2>2, <2>3 DEF BudgetOK, At, WorkerAt
<1>. QED  BY <1>1, <1>2

\* The count leaves room for what it admits: the arithmetic.
LEMMA RoomCounted ==
  ASSUME NEW r \in Nat, NEW s \in Nat, NEW g \in Nat, NEW n \in Nat, NEW b \in Nat, NEW a \in Nat,
         NEW t \in Nat, r + s + n <= b, b + g <= a
  PROVE  (r + s + g) + n <= a + t
OBVIOUS

LEMMA CreateKeeps ==
  ASSUME FlowInv, FlowInv', PubOK, BudgetOK, NEW d \in Dirs, NEW n \in Nat,
         NEW who \in {"server", "worker"}, CreateScratch(d, n, who),
         UNCHANGED <<controller, budget, retained, allowance, twice, published, promised>>,
         \A c \in Clients : op'[c].pc \in AdmittedPc => op'[c] = op[c],
         worker'.pc = "copying" => worker.pc = "copying" /\ d # WorkDir
  PROVE  PubOK' /\ BudgetOK'
<1>1. /\ d \notin present /\ present' = present \cup {d}
      /\ reserve'[d] = n + Margin /\ used'[d] = 0 /\ lease'[d] = {who}
      /\ \A x \in Dirs : x # d => /\ reserve'[x] = reserve[x] /\ used'[x] = used[x]
                                  /\ lease'[x] = lease[x]
  BY CreateEffect DEF FlowInv
<1>2. controller = Nobody /\ (budget # Unlimited => Charged + (n + Margin) <= budget)
  BY DEF CreateScratch, Free, Fits
<1>3. ASSUME NEW c \in Clients, op'[c].pc \in AdmittedPc
      PROVE  op'[c] = op[c] /\ used'[op[c].id] = used[op[c].id]
  <2>1. op'[c] = op[c] /\ op[c].pc \in HeldPc
    BY <1>3 DEF AdmittedPc, HeldPc, TaskPc
  <2>2. op[c].id \in Ids /\ upload[op[c].id] # None
    BY <2>1 DEF FlowInv, OpOK, Mine
  <2>3. op[c].id \in present /\ op[c].id \in Dirs
    BY <2>2, ConstantsOK DEF FlowInv, UpOK
  <2>. QED  BY <1>1, <2>1, <2>3
<1>4. PubOK'
  <2>1. "linked" \in AdmittedPc
    BY DEF AdmittedPc
  <2>. QED  BY <1>3, <2>1, PubKept
<1>5. ASSUME budget # Unlimited
      PROVE  /\ Unguarded' = Unguarded \/ Unguarded' = 0
             /\ \A c \in Clients : op'[c].pc \notin AdmittedPc
             /\ ~(worker'.pc = "copying" /\ controller' = "worker")
  <2>1. Unguarded' = Unguarded \/ Unguarded' = 0
    BY <1>1, ConstantsOK DEF Unguarded, WorkerAt
  <2>2. \A c \in Clients : op'[c].pc \notin AdmittedPc
    BY <1>2, <1>3, <1>5, ConstantsOK, NobodyAdmitted
  <2>. QED  BY <1>2, <2>1, <2>2, ConstantsOK
<1>6. ASSUME budget # Unlimited  PROVE Room(0)'
  <2>1. PICK r, t, s, g \in Nat :
           /\ r = retained' /\ t = twice' /\ s = ScratchBytes' /\ g = Unguarded'
           /\ Claimed' = r + s + g
    BY <1>4, NextCounts DEF FlowInv
  <2>2. /\ ScratchBytes \in Nat /\ Unguarded \in Nat /\ Charged = r + ScratchBytes
        /\ budget \in Nat /\ allowance \in Nat /\ budget + Unguarded <= allowance
    BY <1>6, <2>1, Counts, ChargedSplit, ConstantsOK DEF FlowInv, FlowTypes, BudgetOK
  <2>3. Bytes(d)' = n + Margin
    <3>1. Larger(0, n + Margin) = n + Margin
      BY ConstantsOK DEF Larger
    <3>2. lease'[d] # {}
      BY <1>1
    <3>. QED  BY <1>1, <3>1, <3>2 DEF Bytes
  <2>4. s <= ScratchBytes + (n + Margin)
    <3>1. DiskOK /\ DiskOK'
      BY DEF FlowInv, FlowTypes, DiskOK
    <3>2. ASSUME NEW x \in present  PROVE Bytes(x)' <= Bytes(x)
      <4>1. x \in Dirs /\ x # d /\ Bytes(x) \in Nat
        BY <1>1, <3>1, ByteMapType DEF DiskOK
      <4>2. Bytes(x)' = Bytes(x)
        BY <1>1, <4>1 DEF Bytes
      <4>. QED  BY <4>1, <4>2
    <3>3. ScratchBytes' <= ScratchBytes + Bytes(d)'
      BY <1>1, <3>1, <3>2, ScratchAdds
    <3>. QED  BY <2>1, <2>3, <3>3
  <2>5. g <= Unguarded
    <3>1. g = Unguarded \/ g = 0
      BY <1>5, <1>6, <2>1
    <3>. QED  BY <2>2, <3>1
  <2>6. (r + s + g) + 0 <= allowance + t
    <3>1. (r + ScratchBytes) + (n + Margin) <= budget
      BY <1>2, <1>6, <2>2
    <3>2. n + Margin \in Nat
      BY ConstantsOK
    <3>3. r + s + 0 <= budget
      BY <2>2, <2>4, <3>1, <3>2
    <3>4. budget + g <= allowance
      BY <2>2, <2>5
    <3>5. budget \in Nat /\ allowance \in Nat
      BY <2>2
    <3>. QED  BY <3>3, <3>4, <3>5, RoomCounted
  <2>7. Claimed' + 0 <= allowance' + twice'
    BY <2>1, <2>6
  <2>. QED  BY <2>7 DEF Room
<1>7. BudgetOK'
  BY <1>4, <1>5, <1>6, BudgetFrom
<1>. QED  BY <1>4, <1>7

LEMMA StagesKeep ==
  ASSUME FlowInv, FlowInv', PubOK, BudgetOK,
         \/ \E c \in Clients : Stage(c)
         \/ WorkerStages /\ UNCHANGED uploadVars
  PROVE  PubOK' /\ BudgetOK'
<1>1. CASE \E c \in Clients : Stage(c)
  <2>1. PICK c \in Clients : Stage(c)
    BY <1>1
  <2>2. op'[c].pc = "insert" /\ \A b \in Clients \ {c} : op'[b] = op[b]
    BY <2>1, StageStep
  <2>3. PICK u \in Ids : CreateScratch(u, 0, "server")
    BY <2>1, StageStep
  <2>4. UNCHANGED <<controller, budget, retained, allowance, twice, published, promised, worker>>
    BY <2>1 DEF Stage
  <2>5. u \in Dirs /\ u # WorkDir /\ \A b \in Clients : op'[b].pc \in AdmittedPc => op'[b] = op[b]
    BY <2>2, ConstantsOK DEF AdmittedPc
  <2>6. 0 \in Nat /\ "server" \in {"server", "worker"}
    OBVIOUS
  <2>. QED  BY <2>3, <2>4, <2>5, <2>6, CreateKeeps
<1>2. CASE WorkerStages /\ UNCHANGED uploadVars
  <2>1. worker'.pc = "staged" /\ CreateScratch(WorkDir, WorkSize, "worker")
    BY <1>2, WorkerStagesStep
  <2>2. UNCHANGED <<controller, budget, retained, allowance, twice, published, promised, op>>
    BY <1>2 DEF WorkerStages, uploadVars
  <2>3. "worker" \in {"server", "worker"}
    OBVIOUS
  <2>. QED  BY <2>1, <2>2, <2>3, ConstantsOK, CreateKeeps
<1>. QED  BY <1>1, <1>2

LEMMA ChargedKept ==
  ASSUME UNCHANGED <<retained, present, reserve, used, lease>>
  PROVE  Charged' = Charged
BY DEF Charged, Bytes

LEMMA FitsRoom ==
  ASSUME FlowInv, PubOK, BudgetOK, budget # Unlimited, NEW n \in Nat, Fits(n)
  PROVE  Room(n)
<1>1. /\ retained \in Nat /\ twice \in Nat /\ ScratchBytes \in Nat /\ Unguarded \in Nat
      /\ Claimed = retained + ScratchBytes + Unguarded
      /\ budget \in Nat /\ allowance \in Nat /\ budget + Unguarded <= allowance
  BY Counts, ConstantsOK DEF FlowInv, FlowTypes, BudgetOK
<1>2. retained + ScratchBytes + n <= budget
  BY ChargedSplit DEF Fits
<1>3. (retained + ScratchBytes + Unguarded) + n <= allowance + twice
  BY <1>1, <1>2, RoomCounted
<1>. QED  BY <1>1, <1>3 DEF Room

LEMMA AdmitKeeps ==
  ASSUME FlowInv, FlowInv', PubOK, BudgetOK, NEW c \in Clients, Admit(c)
  PROVE  PubOK' /\ BudgetOK'
<1>1. /\ op'[c].pc = (IF op[c].kind = "chunk" THEN "append" ELSE "copy")
      /\ op'[c].id = op[c].id
      /\ \A b \in Clients \ {c} : op'[b] = op[b]
  BY AdmitStep
<1>2. UNCHANGED <<budget, allowance, retained, present, reserve, used, lease, worker, twice,
                  published, promised>>
  BY DEF Admit, disk
<1>3. PICK m \in Nat : /\ m = (IF op[c].kind = "chunk" THEN ChunkSize ELSE used[op[c].id])
                       /\ AdmitWrite(m, c)
  <2>1. op[c].pc \in BusyPc
    BY DEF Admit, At, BusyPc, TaskPc
  <2>2. used[op[c].id] = Size(Mine(c).file) /\ op[c].id \in Dirs
    BY <2>1, Owner
  <2>. QED  BY <2>2, ConstantsOK DEF Admit, FlowInv, FlowTypes
<1>4. controller = Nobody /\ Fits(m) /\ controller' = IF budget = Unlimited THEN Nobody ELSE c
  BY <1>3 DEF AdmitWrite, Free
<1>5. PubOK'
  <2>1. ASSUME NEW b \in Clients, op'[b].pc = "linked"
        PROVE  op'[b] = op[b] /\ used'[op[b].id] = used[op[b].id]
    BY <1>1, <1>2, <2>1
  <2>. QED  BY <1>2, <2>1, PubKept
<1>6. CASE budget = Unlimited
  BY <1>2, <1>5, <1>6 DEF BudgetOK
<1>7. CASE budget # Unlimited
  <2>1. Claimed' = Claimed /\ Unguarded' = Unguarded
    <3>1. Charged' = Charged
      BY <1>2, ChargedKept
    <3>2. Unguarded' = Unguarded
      BY <1>2, <1>4, <1>7, ConstantsOK DEF Unguarded, WorkerAt
    <3>. QED  BY <3>1, <3>2 DEF Claimed
  <2>2. Room(m)' /\ Room(0)'
    <3>1. Room(m) /\ Room(0)
      BY <1>4, <1>7, FitsRoom DEF BudgetOK
    <3>. QED  BY <1>2, <2>1, <3>1 DEF Room
  <2>3. /\ (budget = Unlimited <=> allowance = Unlimited)' /\ allowance' \in Nat
        /\ budget' + Unguarded' <= allowance'
    BY <1>2, <1>7, <2>1 DEF BudgetOK
  <2>4. \A b \in Clients \ {c} : op'[b].pc \notin AdmittedPc
    BY <1>1, <1>4, <1>7, ConstantsOK, NobodyAdmitted
  <2>5. controller' = c /\ controller' # "worker"
    BY <1>4, <1>7, ConstantsOK
  <2>6. op'[c].pc = "append" => Room(ChunkSize)'
    <3>1. op'[c].pc = "append" => m = ChunkSize
      BY <1>1, <1>3
    <3>. QED  BY <2>2, <3>1 DEF Room
  <2>7. op'[c].pc = "copy" => Room(used[op[c].id])'
    <3>1. op'[c].pc = "copy" => m = used'[op'[c].id]
      BY <1>1, <1>2, <1>3
    <3>. QED  BY <2>2, <3>1 DEF Room
  <2>8. op'[c].pc # "linked"
    BY <1>1
  <2>9. ASSUME NEW b \in Clients
        PROVE  /\ op'[b].pc \in AdmittedPc => controller' = b
               /\ op'[b].pc = "append" => Room(ChunkSize)'
               /\ op'[b].pc = "copy" => Room(used[op[b].id])'
    <3>1. CASE b = c
      BY <2>5, <2>6, <2>7, <3>1
    <3>2. CASE b # c
      BY <2>4, <3>2 DEF AdmittedPc
    <3>. QED  BY <3>1, <3>2
  <2>. QED  BY <1>5, <2>2, <2>3, <2>5, <2>9 DEF BudgetOK, At, WorkerAt
<1>. QED  BY <1>5, <1>6, <1>7

LEMMA CommitsKeep ==
  ASSUME FlowInv, FlowInv', PubOK, BudgetOK, WorkerCommits, UNCHANGED uploadVars
  PROVE  PubOK' /\ BudgetOK'
<1>1. /\ UNCHANGED <<budget, allowance, retained, present, reserve, used, lease, twice,
                     published, promised, op>>
      /\ AdmitWrite(used[WorkDir], "worker")
  BY DEF WorkerCommits, uploadVars, disk
<1>2. worker.pc = "ended" /\ worker'.pc = "copying"
  BY WorkerCommitsStep
<1>3. /\ controller = Nobody /\ Fits(used[WorkDir])
      /\ controller' = IF budget = Unlimited THEN Nobody ELSE "worker"
  BY <1>1 DEF AdmitWrite, Free
<1>4. PubOK'
  BY <1>1, PubKept
<1>5. CASE budget = Unlimited
  BY <1>1, <1>4, <1>5 DEF BudgetOK
<1>6. CASE budget # Unlimited
  <2>1. Claimed' = Claimed /\ Unguarded' = Unguarded
    <3>1. Charged' = Charged
      BY <1>1, ChargedKept
    <3>2. Unguarded' = Unguarded
      BY <1>2, <1>3, <1>6 DEF Unguarded, WorkerAt
    <3>. QED  BY <3>1, <3>2 DEF Claimed
  <2>2. Room(used[WorkDir])' /\ Room(0)'
    <3>1. used[WorkDir] \in Nat
      BY ConstantsOK DEF FlowInv, FlowTypes
    <3>2. Room(used[WorkDir]) /\ Room(0)
      BY <1>3, <1>6, <3>1, FitsRoom DEF BudgetOK
    <3>. QED  BY <1>1, <2>1, <3>2 DEF Room
  <2>3. /\ (budget = Unlimited <=> allowance = Unlimited)' /\ allowance' \in Nat
        /\ budget' + Unguarded' <= allowance'
    BY <1>1, <1>6, <2>1 DEF BudgetOK
  <2>4. \A b \in Clients : op'[b].pc \notin AdmittedPc
    BY <1>1, <1>3, <1>6, ConstantsOK, NobodyAdmitted
  <2>. QED  BY <1>4, <2>2, <2>3, <2>4 DEF BudgetOK, At, AdmittedPc
<1>. QED  BY <1>4, <1>5, <1>6

-----------------------------------------------------------------------------
(* Steps that spend what they were given.                                   *)

LEMMA RoomMoves ==
  ASSUME NEW x \in Nat, NEW y \in Nat, NEW k \in Nat, NEW a \in Nat, NEW t \in Nat,
         k <= a + y, x + y <= k + t
  PROVE  x + 0 <= a + t
OBVIOUS

LEMMA RoomNext ==
  ASSUME FlowInv, PubOK, BudgetOK, budget # Unlimited, allowance' = allowance,
         NEW n \in Nat, Room(n),
         NEW r \in Nat, NEW t \in Nat, NEW s \in Nat, NEW g \in Nat,
         t = twice', Claimed' = r + s + g,
         (r + s + g) + twice <= (retained + ScratchBytes + Unguarded) + n + t
  PROVE  Room(0)'
<1>1. /\ retained \in Nat /\ twice \in Nat /\ ScratchBytes \in Nat /\ Unguarded \in Nat
      /\ Claimed = retained + ScratchBytes + Unguarded /\ allowance \in Nat
  BY Counts DEF FlowInv, BudgetOK
<1>2. (retained + ScratchBytes + Unguarded) + n <= allowance + twice
  BY <1>1 DEF Room
<1>3. (r + s + g) + 0 <= allowance + t
  <2>1. PICK k \in Nat : k = (retained + ScratchBytes + Unguarded) + n
    BY <1>1
  <2>2. k <= allowance + twice /\ (r + s + g) + twice <= k + t
    BY <1>1, <1>2, <2>1
  <2>3. r + s + g \in Nat /\ twice \in Nat /\ allowance \in Nat
    BY <1>1
  <2>. QED  BY <2>1, <2>2, <2>3, RoomMoves
<1>. QED  BY <1>3 DEF Room

\* What is left at the end of a request that had been admitted.
LEMMA EndedAlone ==
  ASSUME FlowInv, BudgetOK, NEW c \in Clients, op[c].pc \in AdmittedPc, Ended(c), EndWrite(c),
         worker' = worker, used'[WorkDir] = used[WorkDir], budget # Unlimited
  PROVE  /\ Unguarded' = Unguarded
         /\ \A b \in Clients : op'[b].pc \notin AdmittedPc
         /\ ~(worker'.pc = "copying" /\ controller' = "worker")
<1>1. controller = c /\ controller' = Nobody /\ \A b \in Clients \ {c} : op[b].pc \notin AdmittedPc
  BY OneAdmitted DEF EndWrite
<1>2. Unguarded' = Unguarded
  BY <1>1, ConstantsOK DEF Unguarded, WorkerAt
<1>3. \A b \in Clients : op'[b].pc \notin AdmittedPc
  BY <1>1 DEF Ended, IdleOp, AdmittedPc
<1>. QED  BY <1>1, <1>2, <1>3, ConstantsOK

LEMMA AppendKeeps ==
  ASSUME FlowInv, FlowInv', PubOK, BudgetOK, NEW c \in Clients, AppendChunk(c)
  PROVE  PubOK' /\ BudgetOK'
<1>0. PICK u : u = op[c].id
  OBVIOUS
<1>1. /\ Ended(c)
      /\ used'[u] <= used[u] + ChunkSize
      /\ \A d \in Dirs : d # u => used'[d] = used[d]
  BY <1>0, AppendStep
<1>2. /\ UNCHANGED <<budget, allowance, retained, present, reserve, worker, twice, published, promised>>
      /\ EndWrite(c) /\ op[c].pc = "append"
  BY DEF AppendChunk, At
<1>3. op[c].pc \in BusyPc /\ op[c].pc \in AdmittedPc
  BY <1>2 DEF BusyPc, TaskPc, AdmittedPc
<1>4. u \in Ids /\ u \in Dirs /\ u # WorkDir /\ upload[u] # None
  BY <1>0, <1>3, Owner, ConstantsOK DEF FlowInv, OpOK, Mine, BusyPc, HeldPc
<1>5. PubOK'
  <2>1. ASSUME NEW b \in Clients, op'[b].pc = "linked"
        PROVE  op'[b] = op[b] /\ used'[op[b].id] = used[op[b].id]
    <3>1. b # c /\ op'[b] = op[b]
      BY <1>1, <2>1 DEF Ended, IdleOp
    <3>2. op[b].pc = "linked" /\ op[b].pc \in BusyPc
      BY <2>1, <3>1 DEF BusyPc, TaskPc
    <3>3. op[b].id # u
      BY <1>0, <1>3, <3>1, <3>2, SoleHolder DEF FlowInv
    <3>4. op[b].id \in Dirs
      BY <3>2, Owner
    <3>. QED  BY <1>1, <3>1, <3>3, <3>4
  <2>. QED  BY <1>2, <2>1, PubKept
<1>6. ASSUME budget # Unlimited  PROVE Room(0)'
  <2>1. PICK r, t, s, g \in Nat :
           /\ r = retained' /\ t = twice' /\ s = ScratchBytes' /\ g = Unguarded'
           /\ Claimed' = r + s + g
    BY <1>5, NextCounts DEF FlowInv
  <2>2. r = retained /\ t = twice /\ g = Unguarded
    <3>1. used'[WorkDir] = used[WorkDir] /\ worker' = worker
      BY <1>1, <1>2, <1>4, ConstantsOK
    <3>. QED  BY <1>1, <1>2, <1>3, <1>6, <2>1, <3>1, EndedAlone
  <2>3. s <= ScratchBytes + ChunkSize
    <3>1. DiskOK /\ DiskOK'
      BY DEF FlowInv, FlowTypes, DiskOK
    <3>2. u \in present /\ lease[u] # {}
      BY <1>4 DEF FlowInv, UpOK
    <3>3. ASSUME NEW x \in present \ {u}  PROVE Bytes(x)' <= Bytes(x)
      <4>1. /\ x \in Dirs /\ used[x] \in Nat /\ reserve[x] \in Nat
            /\ used'[x] = used[x] /\ reserve'[x] = reserve[x] /\ lease'[x] \subseteq lease[x]
        BY <1>1, <1>2, <3>1 DEF DiskOK, Ended
      <4>2. Bytes(x) \in Nat /\ used[x] <= Bytes(x)
        BY <3>1, <4>1, ByteMapType
      <4>3. Bytes(x)' = used[x] \/ Bytes(x)' = Bytes(x)
        BY <4>1 DEF Bytes
      <4>. QED  BY <4>2, <4>3
    <3>4. Bytes(u)' <= Bytes(u) + ChunkSize
      <4>1. PICK old \in Nat, new \in Nat, res \in Nat :
              old = used[u] /\ new = used'[u] /\ res = reserve[u]
        BY <1>4, <3>1 DEF DiskOK
      <4>2. new <= old + ChunkSize
        BY <1>1, <4>1
      <4>3. Bytes(u) = Larger(old, res)
        BY <3>2, <4>1 DEF Bytes
      <4>4. Bytes(u)' = new \/ Bytes(u)' = Larger(new, res)
        BY <1>2, <4>1 DEF Bytes
      <4>5. new <= Larger(old, res) + ChunkSize /\ Larger(new, res) <= Larger(old, res) + ChunkSize
        BY <4>2, ConstantsOK DEF Larger
      <4>. QED  BY <4>3, <4>4, <4>5
    <3>5. ScratchBytes' <= ScratchBytes + ChunkSize
      BY <1>2, <3>1, <3>2, <3>3, <3>4, ConstantsOK, ScratchGrows
    <3>. QED  BY <2>1, <3>5
  <2>4. Room(ChunkSize)
    BY <1>2, <1>6 DEF BudgetOK, At
  <2>5. (r + s + g) + twice <= (retained + ScratchBytes + Unguarded) + ChunkSize + t
    <3>1. ScratchBytes \in Nat /\ ChunkSize \in Nat
      BY ConstantsOK, Counts DEF FlowInv
    <3>2. (r + s + g) + t <= (r + ScratchBytes + g) + ChunkSize + t
      BY <2>3, <3>1
    <3>. QED  BY <2>2, <3>2
  <2>. QED  BY <1>2, <1>6, <2>1, <2>4, <2>5, ConstantsOK, RoomNext
<1>7. BudgetOK'
  <2>1. used'[WorkDir] = used[WorkDir] /\ worker' = worker
    BY <1>1, <1>2, <1>4, ConstantsOK
  <2>2. budget # Unlimited =>
           /\ Unguarded' = Unguarded
           /\ \A b \in Clients : op'[b].pc \notin AdmittedPc
           /\ ~(worker'.pc = "copying" /\ controller' = "worker")
    BY <1>1, <1>2, <1>3, <2>1, EndedAlone
  <2>. QED  BY <1>2, <1>5, <1>6, <2>2, BudgetFrom
<1>. QED  BY <1>5, <1>7

\* A copy at its destination: what publishing it adds, and what it finds.
LEMMA Publishing ==
  ASSUME FlowInv, PubOK, NEW c \in Clients, op[c].pc \in TaskPc
  PROVE  /\ Mine(c).file \in Seq(Clients) /\ Mine(c).acked = Mine(c).file /\ Mine(c).file # None
         /\ Size(Mine(c).file) = used[op[c].id] /\ used[op[c].id] \in Nat
         /\ op[c].id \in Dirs /\ PublishedSize \in Nat
<1>1. op[c].pc \in BusyPc
  BY DEF BusyPc
<1>2. /\ op[c].id \in Dirs /\ used[op[c].id] = Size(Mine(c).file)
      /\ Mine(c).file = Mine(c).acked /\ Mine(c).acked \in Seq(Clients)
  BY <1>1, Owner
<1>3. used[op[c].id] \in Nat /\ Mine(c).file # None
  BY <1>2, ConstantsOK DEF FlowInv, FlowTypes
<1>4. PublishedSize \in Nat
  <2>1. published # None => published \in Seq(Clients \cup {Torn})
    BY SeqMonotonic DEF PubOK
  <2>. QED  BY <2>1, SizeIsNat DEF PublishedSize
<1>. QED  BY <1>2, <1>3, <1>4

LEMMA RoomSums ==
  ASSUME NEW r \in Nat, NEW s \in Nat, NEW g \in Nat, NEW t \in Nat, NEW n \in Nat,
         NEW x \in Nat, NEW y \in Nat, NEW z \in Nat, NEW u \in Nat,
         r + y <= x + n + t, s <= z, g <= u
  PROVE  (r + s + g) + y <= (x + z + u) + n + t
OBVIOUS

\* A request ends that had been admitted to publish or to remove a name, and
\* nothing is added to the staging directories.
LEMMA PublisherEnds ==
  ASSUME FlowInv, FlowInv', PubOK, PubOK', BudgetOK, NEW c \in Clients, op[c].pc \in {"copy", "linked"},
         Ended(c), EndWrite(c), UNCHANGED <<budget, allowance, present, reserve, used, worker>>,
         NEW n \in Nat, budget # Unlimited => Room(n),
         NEW r \in Nat, NEW t \in Nat, r = retained', t = twice',
         r + twice <= retained + n + t
  PROVE  BudgetOK'
<1>1. op[c].pc \in AdmittedPc
  BY DEF AdmittedPc
<1>2. budget # Unlimited =>
           /\ Unguarded' = Unguarded
           /\ \A b \in Clients : op'[b].pc \notin AdmittedPc
           /\ ~(worker'.pc = "copying" /\ controller' = "worker")
  BY <1>1, EndedAlone
<1>3. ASSUME budget # Unlimited  PROVE Room(0)'
  <2>1. PICK s, g \in Nat : s = ScratchBytes' /\ g = Unguarded' /\ Claimed' = r + s + g
    BY NextCounts DEF FlowInv
  <2>2. ScratchBytes' <= ScratchBytes
    BY DiskKept DEF FlowInv, Ended
  <2>3. s <= ScratchBytes /\ g = Unguarded
    BY <1>2, <1>3, <2>1, <2>2
  <2>4. /\ retained \in Nat /\ twice \in Nat /\ ScratchBytes \in Nat /\ Unguarded \in Nat
    BY Counts DEF FlowInv
  <2>5. (r + s + g) + twice <= (retained + ScratchBytes + Unguarded) + n + t
    <3>1. g <= Unguarded
      BY <2>3, <2>4
    <3>. QED  BY <2>3, <2>4, <3>1, RoomSums
  <2>. QED  BY <1>3, <2>1, <2>5, RoomNext
<1>. QED  BY <1>2, <1>3, BudgetFrom

\* The same for what is published.
LEMMA EndedLinks ==
  ASSUME NEW c \in Clients, Ended(c), used' = used
  PROVE  \A b \in Clients : op'[b].pc = "linked" =>
           /\ b # c /\ op'[b] = op[b] /\ used'[op[b].id] = used[op[b].id]
BY DEF Ended, IdleOp

LEMMA PublishKeeps ==
  ASSUME FlowInv, FlowInv', PubOK, BudgetOK, NEW c \in Clients, Publish(c)
  PROVE  PubOK' /\ BudgetOK'
<1>1. /\ op[c].pc = "copy" /\ op[c].pc \in TaskPc
      /\ UNCHANGED <<budget, allowance, present, reserve, used, worker, restarts>>
  BY DEF Publish, At, TaskPc
<1>2. PICK n \in Nat : n = used[op[c].id] /\ n = Size(Mine(c).file)
  BY <1>1, Publishing
<1>3. PICK m \in Nat : m = PublishedSize
  BY <1>1, Publishing
<1>4. /\ Mine(c).file \in Seq(Clients) /\ Mine(c).acked = Mine(c).file /\ Mine(c).file # None
      /\ retained \in Nat /\ twice \in Nat /\ retained >= twice + m
      /\ budget # Unlimited => Room(n)
  BY <1>1, <1>2, <1>3, Publishing DEF PubOK, BudgetOK, At
<1>5. CASE /\ retained' = retained + n - m
           /\ published' = Mine(c).file /\ promised' = Mine(c).acked
           /\ \E durable \in BOOLEAN : Committed(c, durable)
           /\ UNCHANGED twice
  <2>1. Ended(c) /\ EndWrite(c)
    BY <1>1, <1>5, CommittedKeeps DEF Committed
  <2>2. PICK r \in Nat : r = retained' /\ r = retained + n - m /\ r >= twice + n /\ r <= retained + n
    BY <1>4, <1>5
  <2>3. PublishedSize' = n
    BY <1>2, <1>4, <1>5 DEF PublishedSize, Size
  <2>4. retained' \in Nat /\ twice' \in Nat /\ retained' >= twice' + PublishedSize'
    BY <1>4, <1>5, <2>2, <2>3
  <2>5. PubOK'
    <3>1. \A b \in Clients : op'[b].pc = "linked" =>
             op[b].pc = "linked" /\ used'[op'[b].id] = used[op[b].id]
      BY <1>1, <2>1, EndedLinks
    <3>2. published' # None /\ published' \in Seq(Clients) /\ published' = promised'
      BY <1>4, <1>5
    <3>. QED  BY <1>5, <2>4, <3>1, <3>2 DEF PubOK, At
  <2>6. r + twice <= retained + n + twice
    BY <1>4, <2>2
  <2>7. BudgetOK'
    BY <1>1, <1>4, <1>5, <2>1, <2>2, <2>5, <2>6, PublisherEnds
  <2>. QED  BY <2>5, <2>7
<1>6. CASE /\ published = None
           /\ retained' = retained + 2 * n /\ twice' = twice + n
           /\ published' = Mine(c).file /\ promised' = Mine(c).acked
           /\ GoTo(c, "linked")
           /\ UNCHANGED <<controller, lease, dropping, open, upload>>
  <2>1. /\ op'[c].pc = "linked" /\ op'[c].id = op[c].id
        /\ \A b \in Clients \ {c} : op'[b] = op[b]
    BY <1>6 DEF GoTo, FlowInv, FlowTypes
  <2>2. PICK r \in Nat, t \in Nat : /\ r = retained' /\ t = twice' /\ r = retained + 2 * n
                                    /\ t = twice + n /\ r >= t + n /\ t >= n
    <3>1. retained + 2 * n \in Nat /\ twice + n \in Nat
      BY <1>4
    <3>2. retained + 2 * n >= (twice + n) + n /\ twice + n >= n
      BY <1>4
    <3>. QED  BY <1>6, <3>1, <3>2
  <2>3. PublishedSize' = n
    BY <1>2, <1>4, <1>6 DEF PublishedSize, Size
  <2>4. retained' \in Nat /\ twice' \in Nat /\ retained' >= twice' + PublishedSize'
    BY <2>2, <2>3
  <2>5. PubOK'
    <3>1. \A b \in Clients : op[b].pc # "linked"
      BY <1>6 DEF PubOK, At
    <3>2. \A b \in Clients : op'[b].pc = "linked" => b = c
      BY <2>1, <3>1
    <3>3. twice' >= used'[op'[c].id]
      BY <1>1, <1>2, <2>1, <2>2
    <3>4. published' # None /\ published' \in Seq(Clients) /\ published' = promised'
      BY <1>4, <1>6
    <3>. QED  BY <2>4, <3>2, <3>3, <3>4 DEF PubOK, At
  <2>6. ASSUME budget # Unlimited
        PROVE  /\ Unguarded' = Unguarded
               /\ \A b \in Clients : op'[b].pc \in AdmittedPc => op'[b].pc = "linked" /\ controller' = b
               /\ ~(worker'.pc = "copying" /\ controller' = "worker")
    <3>1. controller = c /\ \A b \in Clients \ {c} : op[b].pc \notin AdmittedPc
      BY <1>1, <2>6, OneAdmitted DEF AdmittedPc
    <3>2. Unguarded' = Unguarded
      BY <1>1, <1>6 DEF Unguarded, WorkerAt
    <3>. QED  BY <1>6, <2>1, <3>1, <3>2, ConstantsOK
  <2>7. ASSUME budget # Unlimited  PROVE Room(0)'
    <3>1. PICK s, g \in Nat : s = ScratchBytes' /\ g = Unguarded' /\ Claimed' = r + s + g
      BY <2>2, <2>5, NextCounts DEF FlowInv
    <3>2. ScratchBytes' <= ScratchBytes
      BY <1>1, <1>6, DiskKept DEF FlowInv
    <3>3. s <= ScratchBytes /\ g = Unguarded /\ ScratchBytes \in Nat /\ Unguarded \in Nat
      BY <2>6, <2>7, <3>1, <3>2, Counts DEF FlowInv
    <3>4. (r + s + g) + twice <= (retained + ScratchBytes + Unguarded) + n + t
      <4>1. r + twice <= retained + n + t
        BY <1>4, <2>2
      <4>2. g <= Unguarded
        BY <3>3
      <4>. QED  BY <1>4, <3>3, <4>1, <4>2, RoomSums
    <3>. QED  BY <1>1, <1>4, <2>2, <2>7, <3>1, <3>4, RoomNext
  <2>8. BudgetOK'
    BY <1>1, <2>5, <2>6, <2>7, BudgetFrom
  <2>. QED  BY <2>5, <2>8
<1>7. CASE /\ EndWrite(c) /\ FinishTask(c, Mine(c), open)
           /\ UNCHANGED <<retained, twice, published, promised>>
  <2>1. Ended(c)
    BY <1>1, <1>7, PublishStep DEF Ended, FinishTask, Finish, IdleOp, FlowInv, FlowTypes
  <2>2. PubOK'
    BY <1>1, <1>7, <2>1, EndedLinks, PubKept
  <2>3. retained + twice <= retained + 0 + twice /\ (budget # Unlimited => Room(0))
    BY <1>4 DEF BudgetOK
  <2>4. op[c].pc \in {"copy", "linked"} /\ 0 \in Nat /\ retained = retained' /\ twice = twice'
    BY <1>1, <1>7
  <2>5. BudgetOK'
    BY <1>1, <1>4, <1>7, <2>1, <2>2, <2>3, <2>4, PublisherEnds
  <2>. QED  BY <2>2, <2>5
<1>8. \/ /\ retained' = retained + n - (IF published = None THEN 0 ELSE Size(published))
         /\ published' = Mine(c).file /\ promised' = Mine(c).acked
         /\ \E durable \in BOOLEAN : Committed(c, durable)
         /\ UNCHANGED twice
      \/ /\ published = None
         /\ retained' = retained + 2 * n /\ twice' = twice + n
         /\ published' = Mine(c).file /\ promised' = Mine(c).acked
         /\ GoTo(c, "linked")
         /\ UNCHANGED <<controller, lease, dropping, open, upload>>
      \/ /\ EndWrite(c) /\ FinishTask(c, Mine(c), open)
         /\ UNCHANGED <<retained, twice, published, promised>>
  BY <1>2 DEF Publish
<1>9. (IF published = None THEN 0 ELSE Size(published)) = m
  BY <1>3 DEF PublishedSize
<1>. QED  BY <1>5, <1>6, <1>7, <1>8, <1>9

LEMMA UnlinkKeeps ==
  ASSUME FlowInv, FlowInv', PubOK, BudgetOK, NEW c \in Clients, Unlink(c)
  PROVE  PubOK' /\ BudgetOK'
<1>1. /\ op[c].pc = "linked" /\ op[c].pc \in TaskPc
      /\ UNCHANGED <<budget, allowance, present, reserve, used, worker, restarts, published, promised>>
  BY DEF Unlink, At, TaskPc
<1>2. PICK n \in Nat : n = used[op[c].id] /\ n = Size(Mine(c).file)
  BY <1>1, Publishing
<1>3. Ended(c) /\ EndWrite(c)
  <2>1. \E durable \in BOOLEAN : Committed(c, durable)
    BY DEF Unlink
  <2>. QED  BY <1>1, <2>1, CommittedKeeps DEF Committed
<1>4. /\ retained \in Nat /\ twice \in Nat /\ PublishedSize \in Nat /\ published # None
      /\ retained >= twice + PublishedSize /\ twice >= n
      /\ \A b \in Clients : op[b].pc = "linked" => b = c
  BY <1>1, <1>2, Publishing DEF PubOK, At
<1>5. PICK m \in {0, n} : retained' = retained - m /\ twice' = twice - m
  <2>1. retained - 0 = retained /\ twice - 0 = twice
    BY <1>4
  <2>. QED  BY <1>2, <2>1 DEF Unlink
<1>6. PICK r \in Nat, t \in Nat : /\ r = retained' /\ t = twice' /\ r = retained - m /\ t = twice - m
                                  /\ r >= t + PublishedSize
  <2>1. /\ retained - m \in Nat /\ twice - m \in Nat
        /\ retained - m >= (twice - m) + PublishedSize
    BY <1>4
  <2>. QED  BY <1>5, <2>1
<1>7. PubOK'
  <2>1. PublishedSize' = PublishedSize
    BY <1>1 DEF PublishedSize, Size
  <2>2. retained' \in Nat /\ twice' \in Nat /\ retained' >= twice' + PublishedSize'
    BY <1>6, <2>1
  <2>3. \A b \in Clients : op'[b].pc # "linked"
    BY <1>1, <1>3, <1>4, EndedLinks
  <2>. QED  BY <1>1, <2>2, <2>3 DEF PubOK, At
<1>8. BudgetOK'
  <2>1. r + twice <= retained + 0 + t
    BY <1>4, <1>6
  <2>2. budget # Unlimited => Room(0)
    BY DEF BudgetOK
  <2>3. op[c].pc \in {"copy", "linked"} /\ 0 \in Nat
    BY <1>1
  <2>. QED  BY <1>1, <1>3, <1>6, <1>7, <2>1, <2>2, <2>3, PublisherEnds
<1>. QED  BY <1>7, <1>8

\* The worker's copy ends, or the worker with what there is of it.
LEMMA CopyKeeps ==
  ASSUME FlowInv, FlowInv', PubOK, BudgetOK, UNCHANGED uploadVars, WorkerCopied \/ WorkerKilled
  PROVE  PubOK' /\ BudgetOK'
<1>1. /\ worker'.pc = "idle" /\ UNCHANGED <<budget, allowance, present, reserve, used, twice>>
      /\ \A d \in Dirs : lease'[d] \subseteq lease[d]
      /\ UNCHANGED <<op, published, promised>>
  BY LeavingSteps DEF uploadVars
<1>2. EndWrite("worker")
  BY DEF WorkerCopied, WorkerKilled
<1>3. PICK n \in {0, used[WorkDir]} : /\ retained' = retained + n
                                      /\ n = 0 \/ worker.pc = "copying"
  BY DEF WorkerCopied, WorkerKilled, WorkerAt
<1>4. /\ used[WorkDir] \in Nat /\ n \in Nat
      /\ retained \in Nat /\ twice \in Nat /\ ScratchBytes \in Nat /\ Unguarded \in Nat
  BY ConstantsOK, Counts DEF FlowInv, FlowTypes
<1>5. PubOK'
  BY <1>1, <1>3, <1>4, PubKept
<1>6. ScratchBytes' <= ScratchBytes
  BY <1>1, DiskKept DEF FlowInv
<1>7. CASE controller # "worker"
  <2>1. controller' = controller
    BY <1>2, <1>7 DEF EndWrite
  <2>2. retained' = retained \/ retained' = retained + Unguarded
    <3>1. n = 0 \/ n = Unguarded
      BY <1>3, <1>7 DEF Unguarded, WorkerAt
    <3>2. retained + 0 = retained
      BY <1>4
    <3>. QED  BY <1>3, <3>1, <3>2
  <2>3. Calm
    BY <1>1, <1>6, <2>1, <2>2 DEF Calm, Quiet
  <2>. QED  BY <2>3, CalmKeeps
<1>8. CASE controller = "worker"
  <2>1. controller' = Nobody /\ Unguarded' = 0
    BY <1>1, <1>2, <1>8 DEF EndWrite, Unguarded, WorkerAt
  <2>2. ASSUME budget # Unlimited  PROVE \A c \in Clients : op'[c].pc \notin AdmittedPc
    BY <1>1, <1>8, <2>2, ConstantsOK, NobodyAdmitted
  <2>3. ASSUME budget # Unlimited  PROVE Room(0)'
    <3>1. PICK r, t, s, g \in Nat :
             /\ r = retained' /\ t = twice' /\ s = ScratchBytes' /\ g = Unguarded'
             /\ Claimed' = r + s + g
      BY <1>5, NextCounts DEF FlowInv
    <3>2. r = retained + n /\ t = twice /\ s <= ScratchBytes /\ g <= Unguarded
      <4>1. r = retained + n /\ t = twice /\ s <= ScratchBytes
        BY <1>1, <1>3, <1>6, <3>1
      <4>2. g = 0
        BY <2>1, <3>1
      <4>. QED  BY <1>4, <4>1, <4>2
    <3>3. Room(n)
      <4>1. Room(0) /\ (worker.pc = "copying" => Room(used[WorkDir]))
        BY <1>8, <2>3 DEF BudgetOK, WorkerAt
      <4>. QED  BY <1>3, <4>1
    <3>4. (r + s + g) + twice <= (retained + ScratchBytes + Unguarded) + n + t
      <4>1. r + twice <= retained + n + t
        BY <1>4, <3>2
      <4>. QED  BY <1>4, <3>2, <4>1, RoomSums
    <3>. QED  BY <1>1, <1>4, <2>3, <3>1, <3>3, <3>4, RoomNext
  <2>4. worker'.pc # "copying"
    BY <1>1
  <2>5. BudgetOK'
    BY <1>1, <1>5, <2>1, <2>2, <2>3, <2>4, BudgetFrom
  <2>. QED  BY <1>5, <2>5
<1>. QED  BY <1>7, <1>8

LEMMA RestartKeeps ==
  ASSUME FlowInv, FlowInv', PubOK, Restart
  PROVE  PubOK' /\ BudgetOK'
<1>1. /\ controller' = Nobody /\ UNCHANGED <<twice, published, promised>>
      /\ op' = [c \in Clients |-> IdleOp]
  BY DEF Restart
<1>2. \A c \in Clients : op'[c].pc = "idle"
  BY <1>1 DEF IdleOp
<1>3. PICK k \in Nat : retained' = retained + k
  <2>1. PICK left \in SUBSET {c \in Clients : At(c, "copy")} :
          retained' = retained + SumFunction([c \in left |-> Size(Mine(c).file)])
    BY DEF Restart
  <2>2. PICK f : f = [c \in left |-> Size(Mine(c).file)]
    OBVIOUS
  <2>3. f \in [left -> Nat] /\ DOMAIN f = left
    <3>1. ASSUME NEW c \in left  PROVE Size(Mine(c).file) \in Nat
      <4>1. c \in Clients /\ op[c].pc \in TaskPc
        BY <2>1 DEF At, TaskPc
      <4>. QED  BY <4>1, Publishing
    <3>. QED  BY <2>2, <3>1
  <2>4. IsFiniteSet(left) /\ left \in SUBSET left
    BY ConstantsOK, FS_Subset
  <2>5. SumFunctionOnSet(f, left) \in Nat
    BY <2>3, <2>4, SumIsNat
  <2>6. SumFunction(f) = SumFunctionOnSet(f, left)
    BY <2>3 DEF SumFunction
  <2>. QED  BY <2>1, <2>2, <2>5, <2>6
<1>4. PubOK'
  BY <1>1, <1>2, <1>3, PubKept
<1>5. PICK b \in Budgets : Configure(b)
  BY DEF Restart
<1>6. CASE b = Unlimited
  BY <1>4, <1>5, <1>6 DEF Configure, BudgetOK
<1>7. CASE b # Unlimited
  <2>1. PICK r, t, s, g \in Nat :
           /\ r = retained' /\ t = twice' /\ s = ScratchBytes' /\ g = Unguarded'
           /\ Claimed' = r + s + g
    BY <1>4, NextCounts DEF FlowInv
  <2>2. Charged' = r + s
    BY <2>1 DEF Charged, ScratchBytes, ByteMap
  <2>3. b \in Nat /\ budget' = b /\ allowance' = Larger(b, r + s) + g
    BY <1>5, <1>7, <2>1, <2>2, ConstantsOK DEF Configure
  <2>4. PICK a \in Nat : a = Larger(b, r + s) + g /\ b + g <= a /\ (r + s + g) + 0 <= a + t
    <3>1. Larger(b, r + s) \in Nat /\ b <= Larger(b, r + s) /\ r + s <= Larger(b, r + s)
      BY <2>3 DEF Larger
    <3>2. PICK l \in Nat : l = Larger(b, r + s) /\ b <= l /\ r + s <= l
      BY <3>1
    <3>3. l + g \in Nat /\ b + g <= l + g /\ (r + s + g) + 0 <= (l + g) + t
      BY <2>3, <3>2
    <3>. QED  BY <3>2, <3>3
  <2>5. allowance' = a /\ budget' + Unguarded' <= allowance' /\ Room(0)'
    <3>1. allowance' = a
      BY <2>3, <2>4
    <3>2. budget' + Unguarded' <= allowance'
      BY <2>1, <2>3, <2>4, <3>1
    <3>3. Claimed' + 0 <= allowance' + twice'
      BY <2>1, <2>4, <3>1
    <3>. QED  BY <3>1, <3>2, <3>3 DEF Room
  <2>6. (budget = Unlimited <=> allowance = Unlimited)' /\ allowance' \in Nat
    BY <1>7, <2>3, <2>4, <2>5, ConstantsOK
  <2>7. controller' # "worker"
    BY <1>1, ConstantsOK
  <2>. QED  BY <1>2, <1>4, <2>5, <2>6, <2>7 DEF BudgetOK, At, WorkerAt, AdmittedPc
<1>. QED  BY <1>4, <1>6, <1>7

-----------------------------------------------------------------------------
(* The invariant.                                                          *)

LEMMA UInit ==
  ASSUME Init
  PROVE  UInv
<1>1. FlowInv
  BY FlowInit
<1>2. /\ retained = 0 /\ twice = 0 /\ present = {} /\ published = None /\ promised = None
      /\ worker.pc = "idle" /\ allowance = budget /\ budget \in Budgets
      /\ \A c \in Clients : op[c].pc = "idle"
  BY DEF Init, StorageInit, IdleOp
<1>3. PubOK
  BY <1>2 DEF PubOK, PublishedSize, At
<1>4. Unguarded = 0
  BY <1>2 DEF Unguarded, WorkerAt
<1>5. Charged = 0
  <2>1. SumFunctionOnSet(ByteMap, {}) = 0
    BY FS_EmptySet, SumStep
  <2>2. ScratchBytes = 0
    BY <1>2, <2>1 DEF ScratchBytes
  <2>. QED  BY <1>2, <2>2, ChargedSplit
<1>6. budget # Unlimited => budget \in Nat /\ Room(0) /\ budget + Unguarded <= allowance
  BY <1>2, <1>4, <1>5, ConstantsOK DEF Room, Claimed
<1>7. BudgetOK
  BY <1>2, <1>6 DEF BudgetOK, At, WorkerAt, AdmittedPc
<1>. QED  BY <1>1, <1>3, <1>7 DEF UInv, FlowInv

LEMMA UStep ==
  ASSUME UInv, [Next]_vars
  PROVE  UInv'
<1>1. FlowInv /\ PubOK /\ BudgetOK
  BY DEF UInv, FlowInv
<1>2. FlowInv'
  BY <1>1, FlowStep
<1>3. PubOK' /\ BudgetOK'
  <2>1. ASSUME NEW c \in Clients, Request(c) \/ Serve(c) \/ Disconnect(c)
        PROVE  PubOK' /\ BudgetOK'
    <3>1. CASE \/ Begin(c) \/ StageFails(c) \/ Insert(c) \/ Disconnect(c) \/ Refuse(c) \/ Lock(c)
               \/ \E u \in open, kind \in {"chunk", "commit"} : Get(c, u, kind)
      BY <1>1, <1>2, <3>1, RequestsCalm, CalmKeeps
    <3>2. CASE Start(c)
      BY <1>1, <1>2, <3>2, StartCalm, CalmKeeps
    <3>3. CASE Stage(c)
      BY <1>1, <1>2, <3>3, StagesKeep
    <3>4. CASE Admit(c)
      BY <1>1, <1>2, <3>4, AdmitKeeps
    <3>5. CASE AppendChunk(c)
      BY <1>1, <1>2, <3>5, AppendKeeps
    <3>6. CASE Publish(c)
      BY <1>1, <1>2, <3>6, PublishKeeps
    <3>7. CASE Unlink(c)
      BY <1>1, <1>2, <3>7, UnlinkKeeps
    <3>. QED  BY <2>1, <3>1, <3>2, <3>3, <3>4, <3>5, <3>6, <3>7 DEF Request, Serve
  <2>2. ASSUME NEW u \in Ids, DroppedCleansUp(u) \/ Age(u)
        PROVE  PubOK' /\ BudgetOK'
    BY <1>1, <1>2, <2>2, TimeCalm, CalmKeeps
  <2>3. CASE Restart
    BY <1>1, <1>2, <2>3, RestartKeeps
  <2>4. CASE (Worker \/ WorkerKilled) /\ UNCHANGED uploadVars
    <3>1. CASE WorkerCleansUp
      BY <1>1, <1>2, <2>4, <3>1, TimeCalm, CalmKeeps
    <3>2. CASE WorkerStarts \/ ProgramWrites \/ ProgramExits \/ WorkerGivesUp
      BY <1>1, <1>2, <2>4, <3>2, WorkerCalm, CalmKeeps
    <3>3. CASE WorkerStages
      BY <1>1, <1>2, <2>4, <3>3, StagesKeep
    <3>4. CASE WorkerCommits
      BY <1>1, <1>2, <2>4, <3>4, CommitsKeep
    <3>5. CASE WorkerCopied \/ WorkerKilled
      BY <1>1, <1>2, <2>4, <3>5, CopyKeeps
    <3>. QED  BY <2>4, <3>1, <3>2, <3>3, <3>4, <3>5 DEF Worker
  <2>5. CASE \E d \in Dirs : OperatorCleansUp(d) /\ UNCHANGED uploadVars
    BY <1>1, <1>2, <2>5, TimeCalm, CalmKeeps
  <2>6. CASE UNCHANGED vars
    BY <1>1, <1>2, <2>6, TimeCalm, CalmKeeps
  <2>. QED  BY <2>1, <2>2, <2>3, <2>4, <2>5, <2>6 DEF Next
<1>. QED  BY <1>2, <1>3 DEF UInv, FlowInv

(* The invariant that the theorems below rest on: who holds which upload,    *)
(* its mutex, its directory and the controller, what the staging files are,  *)
(* and how much of the allowance is taken.                                  *)
THEOREM UploadsInvariance == Spec => []UInv
<1>1. Init => UInv
  BY UInit
<1>2. UInv /\ [Next]_vars => UInv'
  BY UStep
<1>. QED  BY <1>1, <1>2, PTL DEF Spec

(* Every variable of the uploads and of the storage keeps its type.          *)
THEOREM TypeCorrect == Spec => []TypeOK
<1>1. UInv => TypeOK
  BY TypeFromParts DEF UInv
<1>. QED  BY <1>1, UploadsInvariance, PTL

(* Whatever is at the destination, also after a failed append, an error      *)
(* after the rename, or a stop, is what had been acknowledged of its upload. *)
THEOREM PublishedAcknowledged == Spec => []PublishedIsAcknowledged
<1>1. UInv => PublishedIsAcknowledged
  BY DEF UInv, PubOK, PublishedIsAcknowledged
<1>. QED  BY <1>1, UploadsInvariance, PTL

(* No blocking task works on an upload that another one has committed.       *)
THEOREM CommitsFinal == Spec => []CommitIsFinal
<1>1. UInv => CommitIsFinal
  BY DEF UInv, OpOK, CommitIsFinal
<1>. QED  BY <1>1, UploadsInvariance, PTL

(* An upload that a request works on is in the map or committed, its staging *)
(* directory exists with the file as the upload knows it, and a program's    *)
(* directory with its reservation, whatever expires, is cleaned up or dies.  *)
THEOREM HeldKept == Spec => []HeldIsKept
<1>1. UInv => HeldIsKept
  <2>. SUFFICES ASSUME UInv  PROVE HeldIsKept
    OBVIOUS
  <2>1. HeldIsOpen
    <3>1. ASSUME NEW c \in Clients, op[c].kind \in {"chunk", "commit"}
          PROVE  op[c].id \in open \/ (Mine(c) # None /\ Mine(c).committed)
      <4>1. OpOK(c) /\ op[c].pc \in OpPc
        BY DEF UInv, FlowTypes
      <4>2. op[c].pc \in {"lock"} \cup BusyPc
        BY <3>1, <4>1 DEF OpOK, OpPc, HeldPc, BusyPc
      <4>3. op[c].pc \in HeldPc
        BY <4>2 DEF HeldPc, BusyPc
      <4>. QED  BY <4>1, <4>2, <4>3 DEF OpOK
    <3>. QED  BY <3>1 DEF HeldIsOpen
  <2>2. StagingKept
    <3>1. ASSUME NEW u \in Ids, upload[u] # None
          PROVE  /\ u \in present /\ used[u] = Size(upload[u].file)
                 /\ Len(upload[u].file) >= upload[u].written
      <4>1. UpOK(u) /\ upload[u] \in Upload
        BY <3>1 DEF UInv, FlowTypes
      <4>2. upload[u].acked \in Seq(Clients) /\ upload[u].acked \in Seq(Clients \cup {Torn})
        BY <4>1, SeqMonotonic DEF Upload
      <4>3. PICK a \in Seq(Clients \cup {Torn}) : a = upload[u].acked
        BY <4>2
      <4>4. Len(a) \in Nat /\ Len(Append(a, Torn)) = Len(a) + 1
        BY AppendProperties, LenProperties
      <4>5. Len(a) >= Len(a) /\ Len(Append(a, Torn)) >= Len(a)
        BY <4>4
      <4>. QED  BY <3>1, <4>1, <4>3, <4>5 DEF UpOK
    <3>. QED  BY <3>1 DEF StagingKept
  <2>3. ProgramProtected
    BY DEF UInv, WorkOK, ProgramProtected, ProgramRuns
  <2>. QED  BY <2>1, <2>2, <2>3 DEF HeldIsKept
<1>. QED  BY <1>1, UploadsInvariance, PTL

(* No process spends room that another one was given: what is charged stays  *)
(* within the budget, or within what was there when a lower one was set.     *)
THEOREM BudgetKept == Spec => []BudgetRespected
<1>1. UInv => BudgetRespected
  <2>. SUFFICES ASSUME UInv, allowance # Unlimited  PROVE Charged <= allowance + twice
    BY DEF BudgetRespected
  <2>1. budget # Unlimited /\ allowance \in Nat /\ Room(0)
    BY DEF UInv, BudgetOK
  <2>2. /\ retained \in Nat /\ twice \in Nat /\ ScratchBytes \in Nat /\ Unguarded \in Nat
        /\ Claimed = retained + ScratchBytes + Unguarded
    BY Counts DEF UInv
  <2>3. (retained + ScratchBytes + Unguarded) + 0 <= allowance + twice
    BY <2>1, <2>2 DEF Room
  <2>4. retained + ScratchBytes <= allowance + twice
    BY <2>1, <2>2, <2>3
  <2>. QED  BY <2>4, ChargedSplit
<1>. QED  BY <1>1, UploadsInvariance, PTL

-----------------------------------------------------------------------------
(* Who waits for whom.  NoCircularWait says ENABLED, which no prover here     *)
(* takes; CanGoOn says the same with the guards of the steps of Serve.        *)

CanGoOn(c) ==
  \/ op[c].pc \in {"stage", "insert"} \cup AdmittedPc
  \/ At(c, "lock") /\ Mine(c).mutex = Nobody
  \/ At(c, "permit") /\ Permitted
  \/ At(c, "admit") /\ Free

\* A request goes on, or a copy of the worker ends and gives the controller back.
SomebodyCanGoOn ==
  (\E c \in Clients : ~At(c, "idle")) => (\E c \in Clients : CanGoOn(c)) \/ WorkerAt("copying")

\* Who has the mutex of an upload waits for a permit with it or works on it, and
\* who has the controller lock writes.
MutexOK ==
  \A u \in Ids : upload[u] # None /\ upload[u].mutex # Nobody =>
    op[upload[u].mutex].pc \in BusyPc /\ op[upload[u].mutex].id = u

ControllerOK ==
  /\ controller \in Clients => op[controller].pc \in AdmittedPc
  /\ controller = "worker" => worker.pc = "copying"

LocksOK == MutexOK /\ ControllerOK

\* A step of one request: an upload stays with who has locked it, is given back,
\* or is locked by the request, which keeps what it has locked as long as it is
\* busy; the same with the controller.
LocksFrame(c) ==
  /\ \A b \in Clients \ {c} : op'[b] = op[b]
  /\ \A u \in Ids : upload'[u] # None /\ upload'[u].mutex # Nobody =>
       \/ /\ upload[u] # None /\ upload'[u].mutex = upload[u].mutex
          /\ upload[u].mutex = c => op'[c].pc \in BusyPc /\ op'[c].id = u
       \/ upload'[u].mutex = c /\ op'[c].pc \in BusyPc /\ op'[c].id = u
  /\ \/ controller' = Nobody
     \/ controller' = controller /\ controller # c
     \/ controller' = c /\ op'[c].pc \in AdmittedPc
  /\ worker' = worker

LEMMA LocksKept ==
  ASSUME FlowInv, LocksOK, NEW c \in Clients, LocksFrame(c)
  PROVE  LocksOK'
<1>1. ASSUME NEW u \in Ids, upload'[u] # None, upload'[u].mutex # Nobody
      PROVE  op'[upload'[u].mutex].pc \in BusyPc /\ op'[upload'[u].mutex].id = u
  <2>1. CASE upload[u] # None /\ upload'[u].mutex = upload[u].mutex /\ upload[u].mutex # c
    <3>1. upload[u].mutex \in Clients
      BY <1>1, <2>1 DEF FlowInv, FlowTypes, Upload
    <3>2. op'[upload[u].mutex] = op[upload[u].mutex]
      BY <2>1, <3>1 DEF LocksFrame
    <3>. QED  BY <1>1, <2>1, <3>2 DEF LocksOK, MutexOK
  <2>2. CASE upload'[u].mutex = c /\ op'[c].pc \in BusyPc /\ op'[c].id = u
    BY <2>2
  <2>. QED  BY <1>1, <2>1, <2>2 DEF LocksFrame
<1>2. controller' \in Clients => op'[controller'].pc \in AdmittedPc
  BY ConstantsOK DEF LocksFrame, LocksOK, ControllerOK
<1>3. controller' = "worker" => worker'.pc = "copying"
  BY ConstantsOK DEF LocksFrame, LocksOK, ControllerOK
<1>. QED  BY <1>1, <1>2, <1>3 DEF LocksOK, MutexOK, ControllerOK

\* Who is not busy has locked nothing, and who has not been admitted does not
\* have the controller.
LEMMA LocksOfNone ==
  ASSUME FlowInv, LocksOK, NEW c \in Clients
  PROVE  /\ \A u \in Ids : upload[u] # None /\ upload[u].mutex = c =>
                            op[c].pc \in BusyPc /\ op[c].id = u
         /\ op[c].pc \notin AdmittedPc => controller # c
BY ConstantsOK DEF LocksOK, MutexOK, ControllerOK

\* The end of a request that holds no mutex.
LEMMA FinishLocks ==
  ASSUME FlowInv, LocksOK, NEW c \in Clients, Finish(c, upload, open), op[c].pc \notin BusyPc,
         UNCHANGED <<controller, worker>>
  PROVE  LocksFrame(c)
<1>1. FlowTypes /\ upload \in [Ids -> Upload \cup {None}] /\ open \in SUBSET Ids
  BY DEF FlowInv, FlowTypes
<1>2. /\ \A b \in Clients \ {c} : op'[b] = op[b]
      /\ \A u \in Ids : upload'[u] = upload[u] \/ upload'[u] = None
  BY <1>1, FinishEffect
<1>3. controller # c
  BY LocksOfNone DEF BusyPc, AdmittedPc, TaskPc
<1>. QED  BY <1>2, <1>3, LocksOfNone DEF LocksFrame

\* The end of a request that gives the mutex back.
LEMMA FinishTaskLocks ==
  ASSUME FlowInv, LocksOK, NEW c \in Clients, op[c].pc \in BusyPc,
         NEW up \in Upload, NEW map \in SUBSET Ids, FinishTask(c, up, map),
         controller' = Nobody \/ (controller' = controller /\ controller # c), worker' = worker
  PROVE  LocksFrame(c)
<1>. DEFINE now == [upload EXCEPT ![op[c].id] = [up EXCEPT !.mutex = Nobody]]
<1>1. FlowTypes /\ upload \in [Ids -> Upload \cup {None}] /\ Nobody \in Clients \cup {Nobody}
  BY DEF FlowInv, FlowTypes
<1>2. [up EXCEPT !.mutex = Nobody] \in Upload /\ [up EXCEPT !.mutex = Nobody].mutex = Nobody
  BY DEF Upload
<1>3. now \in [Ids -> Upload \cup {None}]
  BY <1>1, <1>2
<1>4. \A u \in Ids : now[u] = upload[u] \/ (u = op[c].id /\ now[u].mutex = Nobody)
  BY <1>1, <1>2
<1>5. Finish(c, now, map)
  BY DEF FinishTask
<1>. HIDE DEF now
<1>6. /\ \A b \in Clients \ {c} : op'[b] = op[b]
      /\ \A u \in Ids : upload'[u] = now[u] \/ upload'[u] = None
  BY <1>1, <1>3, <1>5, FinishEffect
<1>7. \A u \in Ids : upload'[u] # None /\ upload'[u].mutex # Nobody =>
        upload[u] # None /\ upload'[u].mutex = upload[u].mutex /\ u # op[c].id
  <2>1. op[c].id \in Ids => now[op[c].id].mutex = Nobody
    BY <1>1, <1>2 DEF now
  <2>. QED  BY <1>4, <1>6, <2>1
<1>8. \A u \in Ids : upload[u] # None /\ u # op[c].id => upload[u].mutex # c
  BY LocksOfNone
<1>. QED  BY <1>6, <1>7, <1>8 DEF LocksFrame

\* A step within a request that has locked its upload.
LEMMA MoveLocks ==
  ASSUME FlowInv, LocksOK, NEW c \in Clients, op[c].pc \in BusyPc,
         NEW s \in TaskPc, GoTo(c, s),
         \A u \in Ids : upload'[u] = upload[u] \/
                        (upload[u] # None /\ upload'[u].mutex = upload[u].mutex),
         controller' = Nobody \/ (controller' = controller /\ controller # c)
           \/ (controller' = c /\ s \in AdmittedPc),
         worker' = worker
  PROVE  LocksFrame(c)
<1>1. op \in [Clients -> [pc : OpPc, kind : Kinds, id : Ids \cup {None}]]
  BY DEF FlowInv, FlowTypes
<1>2. /\ op'[c].pc = s /\ op'[c].id = op[c].id /\ s \in BusyPc
      /\ \A b \in Clients \ {c} : op'[b] = op[b]
  BY <1>1 DEF GoTo, BusyPc
<1>3. \A u \in Ids : upload[u] # None /\ upload[u].mutex = c => op[c].id = u
  BY LocksOfNone
<1>4. \A u \in Ids : upload'[u] # None =>
        upload[u] # None /\ upload'[u].mutex = upload[u].mutex
  OBVIOUS
<1>. QED  BY <1>2, <1>3, <1>4 DEF LocksFrame

\* What a copy or an append ends with gives both locks back.
LEMMA EndLocks ==
  ASSUME FlowInv, LocksOK, NEW c \in Clients, op[c].pc \in TaskPc, NEW up \in Upload,
         NEW map \in SUBSET Ids, FinishTask(c, up, map), EndWrite(c), worker' = worker
  PROVE  LocksFrame(c)
<1>1. op[c].pc \in BusyPc
  BY DEF BusyPc
<1>2. controller' = Nobody \/ (controller' = controller /\ controller # c)
  BY DEF EndWrite
<1>. QED  BY <1>1, <1>2, FinishTaskLocks

LEMMA CommittedLocks ==
  ASSUME FlowInv, LocksOK, NEW c \in Clients, op[c].pc \in TaskPc, NEW durable \in BOOLEAN,
         Committed(c, durable), worker' = worker
  PROVE  LocksFrame(c)
<1>1. Mine(c) \in Upload /\ op[c].id \in Ids /\ open \in SUBSET Ids
  BY Owner DEF BusyPc, FlowInv, FlowTypes
<1>2. [Mine(c) EXCEPT !.committed = TRUE] \in Upload /\ open \ {op[c].id} \in SUBSET Ids
  BY <1>1 DEF Upload
<1>3. EndWrite(c)
  BY DEF Committed
<1>4. CASE durable
  <2>1. FinishTask(c, [Mine(c) EXCEPT !.committed = TRUE], open \ {op[c].id})
    BY <1>4 DEF Committed
  <2>. QED  BY <1>2, <1>3, <2>1, EndLocks
<1>5. CASE ~durable
  <2>1. FinishTask(c, Mine(c), open)
    BY <1>5 DEF Committed
  <2>. QED  BY <1>1, <1>3, <2>1, EndLocks
<1>. QED  BY <1>4, <1>5

\* The steps before a request has locked an upload.
LEMMA EarlyLocks ==
  ASSUME FlowInv, LocksOK, NEW c \in Clients,
         Begin(c) \/ Stage(c) \/ StageFails(c) \/ Insert(c)
         \/ (\E u \in open, kind \in {"chunk", "commit"} : Get(c, u, kind))
         \/ (Disconnect(c) /\ ~At(c, "permit"))
  PROVE  LocksFrame(c)
<1>1. /\ op \in [Clients -> [pc : OpPc, kind : Kinds, id : Ids \cup {None}]]
      /\ upload \in [Ids -> Upload \cup {None}] /\ open \in SUBSET Ids /\ FlowTypes
  BY DEF FlowInv, FlowTypes
<1>2. op[c].pc \in {"idle", "stage", "insert", "lock"}
  BY DEF Begin, Stage, StageFails, Insert, Get, Disconnect, At
<1>3. controller # c /\ \A u \in Ids : upload[u] # None => upload[u].mutex # c
  BY <1>2, LocksOfNone DEF BusyPc, TaskPc, AdmittedPc
\* Uploads are dropped, or begin, and nothing is locked.
<1>4. ASSUME \A b \in Clients \ {c} : op'[b] = op[b], UNCHANGED <<controller, worker>>,
             \A u \in Ids : upload'[u] \in {None, upload[u]} \/ upload'[u].mutex = Nobody
      PROVE  LocksFrame(c)
  BY <1>3, <1>4 DEF LocksFrame
<1>5. CASE Begin(c)
  <2>1. Expired \in SUBSET Ids
    BY <1>1 DEF Expired
  <2>2. Dropped(Expired, upload)
    BY <1>1, <1>5, <2>1, DropEffect DEF Begin
  <2>3. \A b \in Clients \ {c} : op'[b] = op[b]
    BY <1>1, <1>5 DEF Begin
  <2>. QED  BY <1>4, <1>5, <2>2, <2>3 DEF Begin, Dropped
<1>6. CASE Stage(c)
  <2>1. PICK u \in Ids, replace \in BOOLEAN :
          /\ op' = [op EXCEPT ![c].pc = "insert", ![c].id = u]
          /\ upload' = [upload EXCEPT ![u] = NewUpload(replace)]
    BY <1>6 DEF Stage
  <2>2. NewUpload(replace).mutex = Nobody
    BY DEF NewUpload
  <2>3. UNCHANGED <<controller, worker>>
    BY <1>6 DEF Stage
  <2>. QED  BY <1>1, <1>4, <2>1, <2>2, <2>3
<1>7. CASE StageFails(c)
  BY <1>1, <1>4, <1>7 DEF StageFails, storageVars
<1>8. CASE Insert(c)
  <2>1. op[c].id \in Ids
    BY <1>8 DEF Insert, At, FlowInv, OpOK, HeldPc
  <2>2. Expired \in SUBSET Ids /\ Expired \cup {op[c].id} \in SUBSET Ids
    BY <1>1, <2>1 DEF Expired
  <2>3. Drop(Expired, upload) \/ Drop(Expired \cup {op[c].id}, upload)
    BY <1>8 DEF Insert
  <2>4. Dropped(Expired, upload) \/ Dropped(Expired \cup {op[c].id}, upload)
    BY <1>1, <2>2, <2>3, DropEffect
  <2>5. \A b \in Clients \ {c} : op'[b] = op[b]
    BY <1>1, <1>8 DEF Insert
  <2>. QED  BY <1>4, <1>8, <2>4, <2>5 DEF Insert, Dropped
<1>9. CASE \E u \in open, kind \in {"chunk", "commit"} : Get(c, u, kind)
  BY <1>1, <1>4, <1>9 DEF Get, storageVars
<1>10. CASE Disconnect(c) /\ ~At(c, "permit")
  <2>1. Finish(c, upload, open) /\ UNCHANGED <<controller, worker>>
    BY <1>10 DEF Disconnect
  <2>. QED  BY <1>2, <2>1, FinishLocks DEF BusyPc, TaskPc
<1>. QED  BY <1>5, <1>6, <1>7, <1>8, <1>9, <1>10

\* Taking the mutex of an upload that nobody has locked.
LEMMA LockLocks ==
  ASSUME FlowInv, LocksOK, NEW c \in Clients, Lock(c)
  PROVE  LocksFrame(c)
<1>1. /\ op \in [Clients -> [pc : OpPc, kind : Kinds, id : Ids \cup {None}]]
      /\ upload \in [Ids -> Upload \cup {None}]
  BY DEF FlowInv, FlowTypes
<1>2. op[c].pc = "lock" /\ op[c].id \in Ids /\ upload[op[c].id] \in Upload
  BY <1>1 DEF Lock, At, FlowInv, OpOK, HeldPc, Mine
<1>3. /\ op'[c].pc = "permit" /\ op'[c].id = op[c].id
      /\ \A b \in Clients \ {c} : op'[b] = op[b]
      /\ UNCHANGED <<controller, worker>>
  BY <1>1 DEF Lock, GoTo, storageVars
<1>4. \A u \in Ids : upload'[u] = upload[u] \/ (u = op[c].id /\ upload'[u].mutex = c)
  BY <1>1, <1>2 DEF Lock, Upload
<1>5. controller # c /\ \A u \in Ids : upload[u] # None => upload[u].mutex # c
  BY <1>2, LocksOfNone DEF BusyPc, TaskPc, AdmittedPc
<1>. QED  BY <1>3, <1>4, <1>5 DEF LocksFrame, BusyPc

\* The steps of the task, and a request that is dropped while it waits for its
\* permit with the mutex.
LEMMA TaskLocks ==
  ASSUME FlowInv, LocksOK, NEW c \in Clients,
         Start(c) \/ Admit(c) \/ Refuse(c) \/ AppendChunk(c) \/ Publish(c) \/ Unlink(c)
         \/ (Disconnect(c) /\ At(c, "permit"))
  PROVE  LocksFrame(c)
<1>1. /\ op \in [Clients -> [pc : OpPc, kind : Kinds, id : Ids \cup {None}]]
      /\ upload \in [Ids -> Upload \cup {None}] /\ open \in SUBSET Ids
  BY DEF FlowInv, FlowTypes
<1>2. op[c].pc \in BusyPc
  BY DEF Start, Admit, Refuse, AppendChunk, Publish, Unlink, Disconnect, At, BusyPc, TaskPc
<1>3. op[c].id \in Ids /\ Mine(c) \in Upload /\ upload[op[c].id] = Mine(c)
  BY <1>2, Owner
<1>4. CASE FinishTask(c, Mine(c), open) /\ UNCHANGED <<controller, worker>> /\ controller # c
  BY <1>1, <1>2, <1>3, <1>4, FinishTaskLocks
<1>5. CASE Start(c)
  <2>1. At(c, "permit") /\ UNCHANGED <<controller, worker>>
    BY <1>5 DEF Start
  <2>2. controller # c
    BY <2>1, LocksOfNone DEF At, AdmittedPc
  <2>3. CASE upload' = [upload EXCEPT ![op[c].id] = Cut(@)] /\ GoTo(c, "admit")
    <3>1. upload'[op[c].id] = Cut(Mine(c)) /\ Cut(Mine(c)).mutex = Mine(c).mutex
      BY <1>1, <1>3, <2>3 DEF Cut, Upload
    <3>2. \A u \in Ids : upload'[u] = upload[u] \/
                        (upload[u] # None /\ upload'[u].mutex = upload[u].mutex)
      BY <1>1, <1>3, <2>3, <3>1, ConstantsOK
    <3>3. "admit" \in TaskPc
      BY DEF TaskPc
    <3>. QED  BY <1>2, <2>1, <2>2, <2>3, <3>2, <3>3, MoveLocks
  <2>. QED  BY <1>4, <1>5, <2>1, <2>2, <2>3 DEF Start
<1>6. CASE Admit(c)
  <2>1. controller' \in {Nobody, c} /\ UNCHANGED <<upload, worker>>
    BY <1>6 DEF Admit, AdmitWrite
  <2>2. GoTo(c, "append") \/ GoTo(c, "copy")
    BY <1>6 DEF Admit
  <2>3. {"append", "copy"} \subseteq TaskPc /\ {"append", "copy"} \subseteq AdmittedPc
    BY DEF TaskPc, AdmittedPc
  <2>. QED  BY <1>2, <2>1, <2>2, <2>3, MoveLocks
<1>7. CASE Refuse(c)
  <2>1. controller # c
    BY <1>7, ConstantsOK DEF Refuse, Free
  <2>. QED  BY <1>4, <1>7, <2>1 DEF Refuse
<1>8. CASE AppendChunk(c)
  <2>1. PICK up \in AppendResults(c) : FinishTask(c, up, open)
    BY <1>8 DEF AppendChunk, AppendResults
  <2>2. op[c].pc \in TaskPc /\ EndWrite(c) /\ worker' = worker
    BY <1>8 DEF AppendChunk, At, TaskPc
  <2>3. up \in Upload
    BY <2>2, AppendResult
  <2>. QED  BY <1>1, <2>1, <2>2, <2>3, EndLocks
<1>9. CASE Publish(c)
  <2>1. op[c].pc \in TaskPc /\ worker' = worker
    BY <1>9 DEF Publish, At, TaskPc
  <2>2. CASE GoTo(c, "linked") /\ UNCHANGED <<controller, upload>>
    <3>1. "linked" \in TaskPc /\ "linked" \in AdmittedPc
      BY DEF TaskPc, AdmittedPc
    <3>. QED  BY <1>2, <2>1, <2>2, <3>1, MoveLocks
  <2>3. CASE \E durable \in BOOLEAN : Committed(c, durable)
    BY <2>1, <2>3, CommittedLocks
  <2>4. CASE EndWrite(c) /\ FinishTask(c, Mine(c), open)
    BY <1>1, <1>3, <2>1, <2>4, EndLocks
  <2>. QED  BY <1>9, <2>2, <2>3, <2>4 DEF Publish
<1>10. CASE Unlink(c)
  <2>1. op[c].pc \in TaskPc /\ worker' = worker
    BY <1>10 DEF Unlink, At, TaskPc
  <2>2. \E durable \in BOOLEAN : Committed(c, durable)
    BY <1>10 DEF Unlink
  <2>. QED  BY <2>1, <2>2, CommittedLocks
<1>11. CASE Disconnect(c) /\ At(c, "permit")
  <2>1. FinishTask(c, Mine(c), open) /\ UNCHANGED <<controller, worker>>
    BY <1>11 DEF Disconnect
  <2>2. controller # c
    BY <1>11, LocksOfNone DEF At, AdmittedPc
  <2>. QED  BY <1>4, <2>1, <2>2
<1>. QED  BY <1>5, <1>6, <1>7, <1>8, <1>9, <1>10, <1>11

\* The steps that are not a request's: the controller goes to the worker for a
\* copy and comes back with its end, or with the worker's.
LEMMA OtherLocks ==
  ASSUME FlowInv, LocksOK, UNCHANGED <<op, upload>>,
         \/ UNCHANGED <<controller, worker>>
         \/ controller' \in {Nobody, "worker"} /\ worker'.pc = "copying"
         \/ controller' = controller /\ (worker.pc = "copying" => worker'.pc = "copying")
         \/ EndWrite("worker")
  PROVE  LocksOK'
<1>1. MutexOK'
  BY DEF LocksOK, MutexOK
<1>2. ControllerOK'
  BY ConstantsOK DEF LocksOK, ControllerOK, EndWrite
<1>. QED  BY <1>1, <1>2 DEF LocksOK

LEMMA WorkerLocks ==
  ASSUME FlowInv, LocksOK, Worker \/ WorkerKilled, UNCHANGED uploadVars
  PROVE  LocksOK'
<1>1. UNCHANGED <<op, upload>>
  BY DEF uploadVars
<1>2. worker \in [pc : WorkerPc, program : BOOLEAN, works : Nat]
  BY DEF FlowInv, FlowTypes
<1>3. CASE WorkerStages \/ WorkerStarts \/ ProgramWrites \/ ProgramExits \/ WorkerGivesUp \/ WorkerCleansUp
  <2>1. controller' = controller
    BY <1>3 DEF WorkerStages, WorkerStarts, ProgramWrites, ProgramExits, WorkerGivesUp, WorkerCleansUp
  <2>2. worker.pc = "copying" => worker'.pc = "copying"
    BY <1>2, <1>3 DEF WorkerStages, WorkerStarts, ProgramWrites, ProgramExits, WorkerGivesUp,
                      WorkerCleansUp, WorkerAt, WorkerTo
  <2>. QED  BY <1>1, <2>1, <2>2, OtherLocks
<1>4. CASE WorkerCommits
  <2>1. controller' \in {Nobody, "worker"} /\ worker'.pc = "copying"
    BY <1>2, <1>4 DEF WorkerCommits, AdmitWrite, WorkerTo
  <2>. QED  BY <1>1, <2>1, OtherLocks
<1>5. CASE WorkerCopied \/ WorkerKilled
  <2>1. EndWrite("worker")
    BY <1>5 DEF WorkerCopied, WorkerKilled
  <2>. QED  BY <1>1, <2>1, OtherLocks
<1>. QED  BY <1>3, <1>4, <1>5 DEF Worker

LEMMA LocksInit == Init => LocksOK
<1>. SUFFICES ASSUME Init  PROVE LocksOK
  OBVIOUS
<1>1. controller = Nobody /\ \A u \in Ids : upload[u] = None
  BY DEF Init, StorageInit
<1>. QED  BY <1>1, ConstantsOK DEF LocksOK, MutexOK, ControllerOK

LEMMA LocksStep == UInv /\ LocksOK /\ [Next]_vars => LocksOK'
<1>. SUFFICES ASSUME FlowInv, LocksOK, [Next]_vars  PROVE LocksOK'
  BY DEF UInv, FlowInv
<1>1. ASSUME NEW c \in Clients, Request(c) \/ Serve(c) \/ Disconnect(c)
      PROVE  LocksOK'
  <2>1. LocksFrame(c)
    <3>1. CASE Request(c)
      BY <3>1, EarlyLocks DEF Request
    <3>2. CASE Serve(c)
      BY <3>2, EarlyLocks, LockLocks, TaskLocks DEF Serve
    <3>3. CASE Disconnect(c)
      BY <3>3, EarlyLocks, TaskLocks
    <3>. QED  BY <1>1, <3>1, <3>2, <3>3
  <2>. QED  BY <2>1, LocksKept
<1>2. ASSUME NEW u \in Ids, DroppedCleansUp(u)
      PROVE  LocksOK'
  BY <1>2, OtherLocks DEF DroppedCleansUp, uploadVars
<1>3. ASSUME NEW u \in Ids, Age(u)
      PROVE  LocksOK'
  <2>1. UNCHANGED <<controller, worker, op>>
    BY <1>3 DEF Age, storageVars
  <2>2. \A v \in Ids : upload'[v] = upload[v] \/ (upload[v] # None /\ upload'[v].mutex = upload[v].mutex)
    BY <1>3 DEF Age, FlowInv, FlowTypes, UpOK, Upload
  <2>3. MutexOK'
    BY <2>1, <2>2 DEF LocksOK, MutexOK
  <2>4. ControllerOK'
    BY <2>1 DEF LocksOK, ControllerOK
  <2>. QED  BY <2>3, <2>4 DEF LocksOK
<1>4. ASSUME Restart
      PROVE  LocksOK'
  <2>1. controller' = Nobody /\ \A u \in Ids : upload'[u] = None
    BY <1>4 DEF Restart
  <2>. QED  BY <2>1, ConstantsOK DEF LocksOK, MutexOK, ControllerOK
<1>5. ASSUME NEW d \in Dirs, OperatorCleansUp(d), UNCHANGED uploadVars
      PROVE  LocksOK'
  BY <1>5, OtherLocks DEF OperatorCleansUp, uploadVars
<1>6. ASSUME UNCHANGED vars
      PROVE  LocksOK'
  BY <1>6, OtherLocks DEF vars, storageVars, uploadVars
<1>. QED  BY <1>1, <1>2, <1>3, <1>4, <1>5, <1>6, WorkerLocks DEF Next

(* While a request is under way one of them can go on, or the worker ends a  *)
(* copy: whoever waits for the mutex of an upload, for a permit or for the    *)
(* controller waits for one that does not wait for him (upload.rs, blocking). *)
THEOREM NobodyWaitsForever == Spec => []SomebodyCanGoOn
<1>1. UInv /\ LocksOK => SomebodyCanGoOn
  <2>. SUFFICES ASSUME UInv, LocksOK, \E c \in Clients : op[c].pc # "idle",
                       ~WorkerAt("copying"), \A c \in Clients : ~CanGoOn(c)
                PROVE  FALSE
    BY DEF SomebodyCanGoOn, At
  <2>1. \A c \in Clients : op[c].pc \in OpPc /\ OpOK(c)
    BY DEF UInv, FlowTypes
  <2>2. \A c \in Clients : op[c].pc \in {"idle", "lock", "permit", "admit"}
    BY <2>1 DEF CanGoOn, OpPc, HeldPc, TaskPc, AdmittedPc
  <2>3. Free
    BY <2>2 DEF LocksOK, ControllerOK, WorkerAt, AdmittedPc, UInv, FlowTypes, Free
  <2>4. \A c \in Clients : op[c].pc # "admit"
    BY <2>3 DEF CanGoOn, At
  <2>5. Permitted
    <3>1. {c \in Clients : op[c].pc \in TaskPc} = {}
      BY <2>2, <2>4 DEF TaskPc
    <3>2. Cardinality({}) = 0 /\ MaxOps \in Nat \ {0}
      BY FS_EmptySet, UploadAssumption
    <3>. QED  BY <3>1, <3>2 DEF Permitted
  <2>6. \A c \in Clients : op[c].pc \in {"idle", "lock"}
    BY <2>2, <2>4, <2>5 DEF CanGoOn, At
  <2>7. PICK c \in Clients : op[c].pc = "lock"
    BY <2>6
  <2>8. op[c].id \in Ids /\ Mine(c) # None /\ Mine(c) = upload[op[c].id]
    BY <2>1, <2>7 DEF OpOK, HeldPc, Mine
  <2>9. Mine(c).mutex # Nobody /\ Mine(c).mutex \in Clients
    BY <2>7, <2>8 DEF CanGoOn, At, UInv, FlowTypes, Upload
  <2>10. op[Mine(c).mutex].pc \in BusyPc
    BY <2>8, <2>9 DEF LocksOK, MutexOK
  <2>. QED  BY <2>6, <2>9, <2>10 DEF BusyPc, TaskPc
<1>. QED  BY <1>1, UploadsInvariance, LocksInit, LocksStep, PTL DEF Spec
=============================================================================
