------------------------------- MODULE Timetable -------------------------------
(***************************************************************************)
(* The conference timetable: the clash graph, the rules a timetable must   *)
(* satisfy, and the two solvers, one on vectors of talks and one on 64-bit *)
(* masks of talk indexes.  A problem is a record: the vector of talks, one *)
(* vector of talks per attendee, the number of tracks and of slots.        *)
(***************************************************************************)
EXTENDS Integers, SequencesExt

CONSTANT Width   \* bits of a mask (u64: 64)

ASSUME WidthAssumption == Width \in Nat \ {0}

-----------------------------------------------------------------------------
(* Domain.                                                                  *)

(* A well-formed conference: distinct talks, as many as there are places,   *)
(* and attendees who wish for talks of this conference.                     *)
Conference(pb) ==
  /\ pb.slots \in Nat /\ pb.tracks \in Nat
  /\ pb.talks \in Seq(Range(pb.talks)) /\ IsInjective(pb.talks)
  /\ Len(pb.talks) = pb.slots * pb.tracks
  /\ pb.people \in Seq(Seq(Range(pb.talks)))

(* The talks that share an attendee with t.                                 *)
Clashes(pb, t) ==
  (UNION {Range(pb.people[i]) : i \in {j \in DOMAIN pb.people : t \in Range(pb.people[j])}})
    \ {t}

(* The rules: so many slots of so many tracks, every talk once, no clash in *)
(* a slot.                                                                  *)
Valid(pb, timetable) ==
  LET all == FlattenSeq(timetable)
  IN  /\ Len(timetable) = pb.slots
      /\ \A i \in DOMAIN timetable :
           LET slot == timetable[i]
           IN  /\ Len(slot) = pb.tracks
               /\ \A j \in DOMAIN slot : \A k \in (j + 1)..Len(slot) :
                    slot[k] \notin Clashes(pb, slot[j])
      /\ IsInjective(all) /\ Len(all) = Len(pb.talks)

-----------------------------------------------------------------------------
(* The vector solver: a state is the slots filled so far, the slot being    *)
(* filled, the talks that may still join it, and the talks not yet placed.  *)

Start(pb) ==
  [slot_no |-> 0, track_no |-> 0, slots |-> <<>>, current_slot |-> <<>>,
   slot_candidates |-> pb.talks, remaining_talks |-> pb.talks]

Finished(pb, st) == st.slot_no = pb.slots

(* mutant: the next slot starts from the candidates the last one left        *)
CommittedStale(st) ==
  [slot_no |-> st.slot_no + 1, track_no |-> 0,
   slots |-> Append(st.slots, st.current_slot), current_slot |-> <<>>,
   slot_candidates |-> st.slot_candidates, remaining_talks |-> st.remaining_talks]

(* A full slot is committed; every talk left is a candidate for the next.   *)
Committed(st) ==
  [slot_no |-> st.slot_no + 1, track_no |-> 0,
   slots |-> Append(st.slots, st.current_slot), current_slot |-> <<>>,
   slot_candidates |-> st.remaining_talks, remaining_talks |-> st.remaining_talks]

(* The filters of the code: the talks that are not in T, in their order.    *)
Without(talks, T) ==
  FlattenSeq([i \in DOMAIN talks |-> IF talks[i] \in T THEN <<>> ELSE <<talks[i]>>])

(* The i-th candidate joins the slot.                                       *)
Selected(pb, st, i) ==
  LET talk == st.slot_candidates[i]
  IN  [st EXCEPT
         !.track_no = @ + 1,
         !.current_slot = Append(@, talk),
         !.slot_candidates = Without(RemoveAt(@, i), Clashes(pb, talk)),
         !.remaining_talks = Without(@, {talk})]

Refine(pb, st) ==
  IF st.track_no = pb.tracks
    THEN <<Committed(st)>>
    ELSE [i \in DOMAIN st.slot_candidates |-> Selected(pb, st, i)]

State(pb) ==
  LET talk == Range(pb.talks)
  IN  [slot_no : 0..pb.slots, track_no : 0..pb.tracks, slots : Seq(Seq(talk)),
       current_slot : Seq(talk), slot_candidates : Seq(talk), remaining_talks : Seq(talk)]

(* Depth-first search: the solutions below a state, in order.               *)
SeqSearch(pb, st) ==
  LET search[s \in State(pb)] ==
        IF Finished(pb, s)
          THEN <<s.slots>>
          ELSE LET children == Refine(pb, s)
               IN  FlattenSeq([i \in DOMAIN children |-> search[children[i]]])
  IN  search[st]

-----------------------------------------------------------------------------
(* The bitmask solver.  A mask is the set of its one bits, 0..Width-1.      *)

Bits == 0..(Width - 1)

Exp2(n) ==
  LET exp[k \in 0..n] == IF k = 0 THEN 1 ELSE 2 * exp[k - 1]
  IN  exp[n]

Mask(v) == {i \in Bits : (v \div Exp2(i)) % 2 = 1}

(* 1u64 << n; the hardware takes the shift distance modulo the width.       *)
Shl1(n) == Exp2(n % Width)

(* mutant: no case for a full word                                          *)
ShiftedMask(pb) == Mask(Shl1(Len(pb.talks)) - 1)

AllTalksMask(pb) ==
  IF Len(pb.talks) = Width THEN Bits ELSE Mask(Shl1(Len(pb.talks)) - 1)

(* The index of a talk is its position in the vector of talks, from 0.      *)
Position(pb, t) == SelectInSeq(pb.talks, LAMBDA u : u = t) - 1

ClashMask(pb, idx) ==
  {Position(pb, t) : t \in
     UNION {Range(pb.people[i]) : i \in {j \in DOMAIN pb.people :
              \E u \in Range(pb.people[j]) : Position(pb, u) = idx}}} \ {idx}

BitStart(pb) ==
  [slot_no |-> 0, track_no |-> 0, slots |-> <<>>, current_slot |-> <<>>,
   slot_candidates |-> AllTalksMask(pb), remaining_talks |-> AllTalksMask(pb)]

BitSelected(pb, st, idx) ==
  [st EXCEPT
     !.track_no = @ + 1,
     !.current_slot = Append(@, idx),
     !.slot_candidates = (@ \ {idx}) \ ClashMask(pb, idx),
     !.remaining_talks = @ \ {idx}]

(* The candidates are taken from the lowest bit up (trailing_zeros).        *)
Ascending(mask) == Without([i \in 1..Width |-> i - 1], Bits \ mask)

ExpandBranches(pb, st) ==
  IF st.track_no = pb.tracks
    THEN <<Committed(st)>>
    ELSE LET candidates == Ascending(st.slot_candidates)
         IN  [i \in DOMAIN candidates |-> BitSelected(pb, st, candidates[i])]

ToTimetable(pb, st) ==
  [i \in DOMAIN st.slots |->
     [j \in DOMAIN st.slots[i] |-> pb.talks[st.slots[i][j] + 1]]]

BitState(pb) ==
  [slot_no : 0..pb.slots, track_no : 0..pb.tracks, slots : Seq(Seq(Bits)),
   current_slot : Seq(Bits), slot_candidates : SUBSET Bits, remaining_talks : SUBSET Bits]

BitSearch(pb, st) ==
  LET search[s \in BitState(pb)] ==
        IF Finished(pb, s)
          THEN <<ToTimetable(pb, s)>>
          ELSE LET children == ExpandBranches(pb, s)
               IN  FlattenSeq([i \in DOMAIN children |-> search[children[i]]])
  IN  search[st]

(* The counter keeps no slots: its states carry empty ones.                 *)
Uncharted(st) == [st EXCEPT !.slots = <<>>, !.current_slot = <<>>]

Total(numbers) ==
  LET sum[i \in 0..Len(numbers)] == IF i = 0 THEN 0 ELSE sum[i - 1] + numbers[i]
  IN  sum[Len(numbers)]

(* mutant: a committed slot keeps the candidates of the last one            *)
CountStaleCandidates(pb, st) ==
  LET Stale(s, c) == IF s.track_no = pb.tracks
                       THEN [c EXCEPT !.slot_candidates = s.slot_candidates] ELSE c
      count[s \in BitState(pb)] ==
        IF Finished(pb, s)
          THEN 1
          ELSE LET children == ExpandBranches(pb, s)
               IN  Total([i \in DOMAIN children |->
                            count[Stale(s, Uncharted(children[i]))]])
  IN  count[st]

CountSolutions(pb, st) ==
  LET count[s \in BitState(pb)] ==
        IF Finished(pb, s)
          THEN 1
          ELSE LET children == ExpandBranches(pb, s)
               IN  Total([i \in DOMAIN children |-> count[Uncharted(children[i])]])
  IN  count[st]

====
