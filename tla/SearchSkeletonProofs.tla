-------------------------- MODULE SearchSkeletonProofs --------------------------
(* Theorems about SearchSkeleton.                                             *)
EXTENDS SearchSkeleton, Naturals, TLAPS

CONSTANT State   \* the states of the search

TypeOK == root \in Root /\ pending \subseteq State /\ IsABag(found)

(* The sequential search is the recursive function of the code.               *)
Sequential ==
  \A p \in State :
    seq_search(p) = IF is_finished(p) THEN {solution(p)}
                                      ELSE UNION {seq_search(q) : q \in refine(p)}

(* The branches of a state are states, and no solution is below two of them.  *)
Tree ==
  /\ Root \subseteq State
  /\ \A p \in State : ~ is_finished(p) =>
       /\ refine(p) \subseteq State
       /\ \A q, r \in refine(p) : q = r \/ seq_search(q) \cap seq_search(r) = {}

(* A solution is either found or below exactly one branch that is pending.    *)
Whole ==
  /\ seq_search(root) = DOMAIN found \cup UNION {seq_search(p) : p \in pending}
  /\ \A s \in DOMAIN found : found[s] = 1
  /\ \A p \in pending : seq_search(p) \cap DOMAIN found = {}
  /\ \A p, q \in pending : p = q \/ seq_search(p) \cap seq_search(q) = {}

Inv == TypeOK /\ Whole

-----------------------------------------------------------------------------
(* A branch may be replaced by parts that together are all that is below it.  *)
LEMMA TakesKeepsWhole ==
  ASSUME Inv, NEW p \in pending, NEW B \in SUBSET State, NEW S,
         seq_search(p) = S \cup UNION {seq_search(q) : q \in B},
         \A q \in B : seq_search(q) \cap S = {},
         \A q, r \in B : q = r \/ seq_search(q) \cap seq_search(r) = {},
         Takes(p, B, S)
  PROVE  Inv'
<1>1. /\ root' = root /\ pending' = (pending \ {p}) \cup B
      /\ found' = found (+) SetToBag(S)
  BY DEF Takes
<1>2. /\ S \cap DOMAIN found = {} /\ S \subseteq seq_search(p)
      /\ \A q \in B : seq_search(q) \subseteq seq_search(p)
  BY DEF Inv, Whole
<1>3. /\ DOMAIN found' = DOMAIN found \cup S
      /\ \A s \in DOMAIN found' : found'[s] = 1
  BY <1>1, <1>2 DEF Inv, Whole, SetToBag, (+)
<1>4. TypeOK'
  BY <1>1, <1>3 DEF Inv, TypeOK, IsABag, SetToBag, (+)
<1>5. seq_search(root') = DOMAIN found' \cup UNION {seq_search(q) : q \in pending'}
  <2>1. UNION {seq_search(q) : q \in pending}
          = (UNION {seq_search(q) : q \in pending \ {p}}) \cup seq_search(p)
    OBVIOUS
  <2>2. UNION {seq_search(q) : q \in pending'}
          = (UNION {seq_search(q) : q \in pending \ {p}}) \cup UNION {seq_search(q) : q \in B}
    BY <1>1
  <2> QED BY <1>1, <1>3, <2>1, <2>2 DEF Inv, Whole
<1>6. \A q \in pending' : seq_search(q) \cap DOMAIN found' = {}
  BY <1>1, <1>2, <1>3 DEF Inv, Whole
<1>7. \A q, r \in pending' : q = r \/ seq_search(q) \cap seq_search(r) = {}
  BY <1>1, <1>2 DEF Inv, Whole
<1> QED BY <1>3, <1>4, <1>5, <1>6, <1>7 DEF Inv, Whole

(* The three ways a branch is taken are of this kind.                         *)
LEMMA StepKeepsWhole ==
  ASSUME Sequential, Tree, Inv, [Next]_vars
  PROVE  Inv'
<1>1. CASE UNCHANGED vars
  BY <1>1 DEF vars, Inv, TypeOK, Whole
<1>2. ASSUME NEW p \in pending, Solve(p)
      PROVE  Inv'
  <2>1. p \in State /\ seq_search(p) = {solution(p)}
    BY <1>2 DEF Inv, TypeOK, Solve, Sequential
  <2> QED BY <1>2, <2>1, TakesKeepsWhole DEF Solve
<1>3. ASSUME NEW p \in pending, Fork(p)
      PROVE  Inv'
  <2>1. p \in State /\ seq_search(p) = UNION {seq_search(q) : q \in refine(p)}
    BY <1>3 DEF Inv, TypeOK, Fork, Sequential
  <2>2. /\ refine(p) \in SUBSET State
        /\ \A q, r \in refine(p) : q = r \/ seq_search(q) \cap seq_search(r) = {}
    BY <1>3, <2>1 DEF Fork, Tree
  <2> QED BY <1>3, <2>1, <2>2, TakesKeepsWhole DEF Fork
<1>4. ASSUME NEW p \in pending, Fallback(p)
      PROVE  Inv'
  <2>1. p \in State /\ seq_search(p) = UNION {seq_search(q) : q \in refine(p)}
    BY <1>4 DEF Inv, TypeOK, Fallback, Sequential
  <2> QED BY <1>4, <2>1, TakesKeepsWhole DEF Fallback
<1> QED BY <1>1, <1>2, <1>3, <1>4 DEF Next

(* Every parallel search of a tree finds what the sequential one finds, each  *)
(* solution once, whatever the schedule of the workers and the cutoff:        *)
(* par_search and par_search_naive against seq_search.                        *)
THEOREM SearchCorrect ==
  ASSUME Sequential, Tree
  PROVE  Spec => []FoundOnce
<1>1. Init => Inv
  <2> SUFFICES ASSUME Init PROVE Inv
    OBVIOUS
  <2>1. found = [e \in {} |-> 1] /\ DOMAIN found = {}
    BY DEF Init, EmptyBag, SetToBag
  <2> QED BY <2>1 DEF Init, Inv, TypeOK, Whole, IsABag, Tree
<1>2. Inv /\ [Next]_vars => Inv'
  BY StepKeepsWhole
<1>3. Inv => FoundOnce
  <2> SUFFICES ASSUME Inv, pending = {} PROVE found = SetToBag(seq_search(root))
    BY DEF FoundOnce
  <2>1. /\ DOMAIN found = seq_search(root) /\ \A s \in DOMAIN found : found[s] = 1
    BY DEF Inv, Whole
  <2>2. found = [s \in DOMAIN found |-> found[s]]
    BY DEF Inv, TypeOK, IsABag
  <2> QED BY <2>1, <2>2 DEF SetToBag
<1> QED BY <1>1, <1>2, <1>3, PTL DEF Spec

====
