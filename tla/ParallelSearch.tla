----------------------------- MODULE ParallelSearch ----------------------------
(***************************************************************************)
(* The parallel searches.  A pool of workers refines the branches of the   *)
(* search tree in any order; below a cutoff depth a branch is searched     *)
(* sequentially; the results of the branches are collected in the order of *)
(* the branches.  The work is therefore a sequence whose items are         *)
(* branches still to be searched and results.                              *)
(***************************************************************************)
EXTENDS Timetable

CONSTANTS
  Call,      \* the calls: a problem, a solver and its cutoff
  Unlimited  \* no cutoff: the naive search

Solver == {"vector", "bitmask", "counter"}

ASSUME CallAssumption ==
  /\ Unlimited \notin Nat
  /\ Call \subseteq [problem : {c.problem : c \in Call}, solver : Solver,
                    max_depth : Nat \cup {Unlimited}]
  /\ \A c \in Call :
       /\ Conference(c.problem) /\ Len(c.problem.talks) <= Width
       /\ c.max_depth = Unlimited => c.solver = "vector"

VARIABLES
  problem, solver, max_depth,   \* the call
  work                          \* branches and results, in order

vars == <<problem, solver, max_depth, work>>

Branch(depth, st) == [kind |-> "branch", depth |-> depth, state |-> st]
Result(out) == [kind |-> "result", out |-> out]

Shallow(depth) == max_depth = Unlimited \/ depth <= max_depth

(* Type invariant; no branch is handed to a worker below the cutoff         *)
(* (depth < max_depth in par_search, bitmask_search_parallel, count_recurse).*)
TypeOK ==
  /\ [problem |-> problem, solver |-> solver, max_depth |-> max_depth] \in Call
  /\ \A i \in DOMAIN work :
       \/ work[i].kind = "result" /\ (solver = "counter" => work[i].out \in Nat)
       \/ work[i].kind = "branch" /\ work[i].depth \in Nat /\ Shallow(work[i].depth)

Init ==
  \E c \in Call :
    /\ problem = c.problem /\ solver = c.solver /\ max_depth = c.max_depth
    /\ work = <<Branch(0, IF c.solver = "vector" THEN Start(c.problem) ELSE BitStart(c.problem))>>

Children(st) ==
  IF solver = "vector" THEN Refine(problem, st) ELSE ExpandBranches(problem, st)

(* What a finished branch yields, and what the sequential search of one     *)
(* yields: timetables, or for the counter their number.                     *)
Solution(st) ==
  CASE solver = "vector"  -> <<st.slots>>
    [] solver = "bitmask" -> <<ToTimetable(problem, st)>>
    [] solver = "counter" -> 1

SequentialSearch(st) ==
  CASE solver = "vector"  -> SeqSearch(problem, st)
    [] solver = "bitmask" -> BitSearch(problem, st)
    [] solver = "counter" -> CountSolutions(problem, st)

(* The outcomes of branches, in the order of the branches, put together.    *)
Gathered(outs) ==
  IF solver = "counter" THEN Total(outs) ELSE FlattenSeq(outs)

Pending(i) == i \in DOMAIN work /\ work[i].kind = "branch"

(* The i-th item of the work becomes the items of s.                        *)
Becomes(i, s) ==
  /\ work' = SubSeq(work, 1, i - 1) \o s \o SubSeq(work, i + 1, Len(work))
  /\ UNCHANGED <<problem, solver, max_depth>>

Solve(i) ==
  /\ Pending(i) /\ Finished(problem, work[i].state)
  /\ Becomes(i, <<Result(Solution(work[i].state))>>)

(* mutant: one level too many                                               *)
LimitedLate(depth) == max_depth # Unlimited /\ depth > max_depth

Limited(depth) == max_depth # Unlimited /\ depth >= max_depth

(* mutant: a branch's results are pushed when they are there                *)
ForkPushesBack(i) ==
  /\ Pending(i) /\ ~ Finished(problem, work[i].state) /\ ~ Limited(work[i].depth)
  /\ LET children == Children(work[i].state)
     IN  work' = SubSeq(work, 1, i - 1) \o SubSeq(work, i + 1, Len(work))
                   \o [k \in DOMAIN children |-> Branch(work[i].depth + 1, children[k])]
  /\ UNCHANGED <<problem, solver, max_depth>>

(* The branches are given to the workers.                                   *)
Fork(i) ==
  /\ Pending(i) /\ ~ Finished(problem, work[i].state) /\ ~ Limited(work[i].depth)
  /\ LET children == Children(work[i].state)
     IN  Becomes(i, [k \in DOMAIN children |-> Branch(work[i].depth + 1, children[k])])

(* mutant: the worker searches the first branch only                        *)
FallbackFirst(i) ==
  /\ Pending(i) /\ ~ Finished(problem, work[i].state) /\ Limited(work[i].depth)
  /\ LET children == Children(work[i].state)
     IN  Becomes(i, <<Result(Gathered(IF children = <<>> THEN <<>>
                                      ELSE <<SequentialSearch(children[1])>>))>>)

(* Below the cutoff the worker searches the branches itself.                *)
Fallback(i) ==
  /\ Pending(i) /\ ~ Finished(problem, work[i].state) /\ Limited(work[i].depth)
  /\ LET children == Children(work[i].state)
     IN  Becomes(i, <<Result(Gathered([k \in DOMAIN children |->
                                         SequentialSearch(children[k])]))>>)

Next == \E i \in DOMAIN work : Solve(i) \/ Fork(i) \/ Fallback(i)

Spec == Init /\ [][Next]_vars

-----------------------------------------------------------------------------
(* Properties.                                                              *)

(* The reference the solvers are held to: the timetables that satisfy the   *)
(* rules, and the order of two of them, by the positions of their talks.    *)
AllTimetables(pb) ==
  {timetable \in [1..pb.slots -> [1..pb.tracks -> Range(pb.talks)]] : Valid(pb, timetable)}
Before(pb, a, b) ==
  LET p == FlattenSeq(a)
      q == FlattenSeq(b)
  IN  \E i \in DOMAIN p :
        /\ \A j \in 1..(i - 1) : p[j] = q[j]
        /\ Position(pb, p[i]) < Position(pb, q[i])

Done == \A i \in DOMAIN work : work[i].kind = "result"

Answer == Gathered([i \in DOMAIN work |-> work[i].out])

(* The talks of a branch: those of a mask are given by their positions.     *)
Named(T) == IF solver = "vector" THEN Range(T) ELSE {problem.talks[i + 1] : i \in T}
Placed(st) ==
  LET filled == FlattenSeq(st.slots) \o st.current_slot
  IN  IF solver = "vector" THEN filled
      ELSE [i \in DOMAIN filled |-> problem.talks[filled[i] + 1]]

(* A branch is a sound and complete account of its part of the search:      *)
(* every talk is either placed, once, or remaining, and the candidates are  *)
(* exactly the remaining talks that clash with no talk of the open slot.    *)
BranchesExact ==
  \A i \in DOMAIN work : Pending(i) =>
    LET st == work[i].state
        open == Range(SubSeq(Placed(st), Len(Placed(st)) - Len(st.current_slot) + 1,
                             Len(Placed(st))))
    IN  /\ IsInjective(Placed(st)) /\ Len(st.slots) = st.slot_no
        /\ Len(st.current_slot) = st.track_no
        /\ Named(st.remaining_talks) = Range(problem.talks) \ Range(Placed(st))
        /\ Named(st.slot_candidates) =
             {t \in Named(st.remaining_talks) : \A u \in open : t \notin Clashes(problem, u)}

(* The workers return what the search without workers returns, in its       *)
(* order, whatever the schedule and the cutoff.                             *)
AnswerSequential ==
  Done => Answer = SequentialSearch(IF solver = "vector" THEN Start(problem)
                                                         ELSE BitStart(problem))

(* Whatever the schedule of the workers and the cutoff, either solver       *)
(* returns every valid timetable and nothing else, in the order of the      *)
(* talks' positions, hence each once.                                       *)
ResultsExact ==
  Done /\ solver # "counter" =>
    /\ Range(Answer) = AllTimetables(problem)
    /\ \A i \in 1..(Len(Answer) - 1) : Before(problem, Answer[i], Answer[i + 1])

(* The counter, which keeps no timetables below the cutoff, counts those.   *)
CountExact ==
  Done /\ solver = "counter" => Answer = Cardinality(AllTimetables(problem))

(* The workers implement the search skeleton, for the tree of this problem: *)
(* each branch is refined or searched to its end once, and what is found is *)
(* what is below it.  (The counter, which keeps no timetables, is mapped to *)
(* a search that does not begin.)                                           *)
Node(st) == [problem |-> problem, solver |-> solver, state |-> st]
RootOf(c) ==
  [problem |-> c.problem, solver |-> c.solver,
   state |-> IF c.solver = "vector" THEN Start(c.problem) ELSE BitStart(c.problem)]

OutcomeOf(nd) ==
  IF nd.solver = "vector" THEN nd.state.slots ELSE ToTimetable(nd.problem, nd.state)
BranchesOf(nd) ==
  {[nd EXCEPT !.state = st] :
     st \in Range(IF nd.solver = "vector" THEN Refine(nd.problem, nd.state)
                                          ELSE ExpandBranches(nd.problem, nd.state))}
SolutionsOf(nd) ==
  Range(IF nd.solver = "vector" THEN SeqSearch(nd.problem, nd.state)
                                ELSE BitSearch(nd.problem, nd.state))

Collected == FlattenSeq([i \in DOMAIN work |-> IF Pending(i) THEN <<>> ELSE work[i].out])

Skeleton == INSTANCE SearchSkeleton WITH
  Root <- {RootOf(c) : c \in Call},
  is_finished <- LAMBDA nd : Finished(nd.problem, nd.state),
  solution <- OutcomeOf, refine <- BranchesOf, seq_search <- SolutionsOf,
  root <- RootOf([problem |-> problem, solver |-> solver]),
  pending <- IF solver = "counter"
               THEN {RootOf([problem |-> problem, solver |-> solver])}
               ELSE {Node(work[i].state) : i \in {j \in DOMAIN work : Pending(j)}},
  found <- IF solver = "counter" THEN EmptyBag
             ELSE ToBag(Collected)
ImplementsSkeleton == Skeleton!Spec

====
