----------------------------- MODULE SearchSkeleton -----------------------------
(***************************************************************************)
(* The search skeletons, for any problem: a tree is given by what it takes *)
(* to be finished and by how a state is refined.  A pool of workers takes  *)
(* the branches that are pending in any order, and each branch is either   *)
(* given to the pool or searched to its end; which of the two depends on a *)
(* cutoff that does not matter here.  What is found is a bag: whether a    *)
(* solution is found twice is the question.  The order of the results is   *)
(* that of the branches and left out.                                      *)
(***************************************************************************)
EXTENDS Bags

CONSTANTS
  Root,               \* the states it may start from
  is_finished(_),     \* is a state finished, and
  solution(_),        \* with which solution?
  refine(_),          \* the branches of a state that is not
  seq_search(_)       \* the solutions a sequential search of a state finds

VARIABLES
  root,     \* the state this search has started from
  pending,  \* the branches nobody has taken yet
  found     \* the solutions found so far

vars == <<root, pending, found>>

Init ==
  /\ root \in Root
  /\ pending = {root}
  /\ found = EmptyBag

(* The branch p is replaced by the branches B, with the solutions S.        *)
Takes(p, B, S) ==
  /\ pending' = (pending \ {p}) \cup B
  /\ found' = found (+) SetToBag(S)
  /\ UNCHANGED root

Solve(p) == is_finished(p) /\ Takes(p, {}, {solution(p)})

Fork(p) == ~ is_finished(p) /\ Takes(p, refine(p), {})

Fallback(p) == ~ is_finished(p) /\ Takes(p, {}, UNION {seq_search(q) : q \in refine(p)})

Next == \E p \in pending : Solve(p) \/ Fork(p) \/ Fallback(p)

Spec == Init /\ [][Next]_vars

-----------------------------------------------------------------------------
(* Whatever the schedule and wherever the cutoff: when no branch is pending,*)
(* every solution of the sequential search has been found, once, and        *)
(* nothing else.                                                            *)
FoundOnce == pending = {} => found = SetToBag(seq_search(root))

====
