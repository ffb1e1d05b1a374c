--------------------------- MODULE MCParallelSearch ----------------------------
(* Instances of ParallelSearch for TLC.                                       *)
EXTENDS ParallelSearch

Talks(n) == [i \in 1..n |-> n + 1 - i]   \* positions are not the talks' order

AsSeq(T) == SetToSortSeq(T, <)

ProblemsOf(slots, tracks, people) ==
  {[talks |-> Talks(slots * tracks), slots |-> slots, tracks |-> tracks,
    people |-> [i \in DOMAIN p |-> AsSeq(p[i])]] : p \in people}

Wishes(n, k) ==
  {SetToSeq(W) : W \in UNION {kSubset(i, (SUBSET (1..n)) \ {{}}) : i \in 0..k}}

(* every conference of at most four talks, at most two lists of wishes      *)
AllProblems ==
  UNION {ProblemsOf(s[1], s[2], Wishes(s[1] * s[2], 2)) :
         s \in {<<1, 1>>, <<2, 1>>, <<1, 2>>, <<3, 1>>, <<1, 3>>, <<4, 1>>, <<1, 4>>, <<2, 2>>}}

Calls(problems, solvers, depths) ==
  [problem : problems, solver : solvers, max_depth : depths]

SequentialCalls == Calls(AllProblems, Solver, {0})

(* marlow_small_test, a conference where one talk clashes with all others,  *)
(* and for the naive search one without clashes                             *)
ParallelCalls ==
  Calls(ProblemsOf(2, 2, {<<{1, 2}, {2, 3}, {3, 4}>>, <<{1, 2}, {1, 3}, {1, 4}>>}),
        Solver, {1, 2, 3})
    \cup Calls(ProblemsOf(1, 3, {<<>>}), {"vector"}, {Unlimited})

AllCalls == SequentialCalls \cup ParallelCalls

====
