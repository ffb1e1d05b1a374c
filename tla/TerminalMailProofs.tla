--------------------------- MODULE TerminalMailProofs ---------------------------
(* The terminals implement SealedMail: a whisper of t to x goes from the line  *)
(* of t to the mailbox of an actor u, to the screen of u and to its reader,   *)
(* each first in, first out.                                                  *)
EXTENDS TerminalProofs

-----------------------------------------------------------------------------
(* Sealed whispers in a queue.                                                *)

(* The forms in which the numbered whispers of t to x appear: as lines of t,  *)
(* as messages to a terminal, as what it has read.  Ciphertexts that were     *)
(* typed by hand have the number 0 and may come in between.                   *)
EtellsOf(t, x) ==
  {l \in Line : l.cmd = "/etell" /\ l.seal.by = t /\ l.seal.to = x /\ l.seal.nr # 0}
SealedOf(t, x) ==
  {m \in Delivery \cup Answer :
     m.kind = "sealed" /\ m.seal.by = t /\ m.seal.to = x /\ m.seal.nr # 0}
ReadOf(t, x) ==
  {r \in [from : Names, seal : Seal] : r.seal.by = t /\ r.seal.to = x /\ r.seal.nr # 0}

(* What q holds of the form F, in order.                                      *)
Nrs(q, F) == {m.seal.nr : m \in Elems(q) \cap F}

Sorted(q, F) ==
  \A i, j \in DOMAIN q : i < j /\ q[i] \in F /\ q[j] \in F => q[i].seal.nr < q[j].seal.nr

Before(A, B) == \A a \in A, b \in B : a < b

(* r holds nothing of the form F that q does not, and in no other order.      *)
Thins(r, q, F) ==
  (Sorted(q, F) => Sorted(r, F)) /\ Elems(r) \cap F \subseteq Elems(q) \cap F

LEMMA ThinsTrivially ==
  ASSUME NEW q, NEW F
  PROVE  Thins(q, q, F) /\ Thins(<<>>, q, F)
<1>1. Elems(<<>>) = {} /\ Sorted(<<>>, F)
  BY ElemsOfNone DEF Sorted
<1> QED BY <1>1 DEF Thins

LEMMA ThinsTail ==
  ASSUME NEW S, NEW q \in Seq(S), q # <<>>, NEW F
  PROVE  Thins(Tail(q), q, F)
<1>1. Elems(Tail(q)) \subseteq Elems(q)
  BY ElemsOfTail
<1>2. ASSUME Sorted(q, F), NEW i \in DOMAIN Tail(q), NEW j \in DOMAIN Tail(q), i < j,
             Tail(q)[i] \in F, Tail(q)[j] \in F
      PROVE  Tail(q)[i].seal.nr < Tail(q)[j].seal.nr
  <2>1. /\ Tail(q)[i] = q[i + 1] /\ Tail(q)[j] = q[j + 1]
        /\ i + 1 \in DOMAIN q /\ j + 1 \in DOMAIN q /\ i + 1 < j + 1
    BY <1>2
  <2> QED BY <1>2, <2>1 DEF Sorted
<1> QED BY <1>1, <1>2 DEF Thins, Sorted

LEMMA ThinsKeeps ==
  ASSUME NEW r, NEW q, NEW F, Thins(r, q, F)
  PROVE  Nrs(r, F) \subseteq Nrs(q, F)
BY DEF Thins, Nrs

(* What leaves a queue is before what stays.                                  *)
LEMMA HeadFirst ==
  ASSUME NEW S, NEW q \in Seq(S), q # <<>>, NEW F, Sorted(q, F), Head(q) \in F
  PROVE  /\ Head(q) \in Elems(q) /\ Head(q).seal.nr \in Nrs(q, F)
         /\ \A k \in Nrs(Tail(q), F) : Head(q).seal.nr < k
<1>1. Head(q) \in Elems(q)
  BY ElemsOfTail
<1>2. ASSUME NEW j \in DOMAIN Tail(q), Tail(q)[j] \in F
      PROVE  Head(q).seal.nr < Tail(q)[j].seal.nr
  <2>1. /\ Tail(q)[j] = q[j + 1] /\ Head(q) = q[1]
        /\ 1 \in DOMAIN q /\ j + 1 \in DOMAIN q /\ 1 < j + 1
    BY <1>2
  <2> QED BY <1>2, <2>1 DEF Sorted
<1> QED BY <1>1, <1>2 DEF Nrs, Elems

(* What is sent after everything else.                                        *)
LEMMA ConcatSorted ==
  ASSUME NEW S, NEW q \in Seq(S), NEW r \in Seq(S), NEW F,
         Sorted(q, F), Sorted(r, F), Before(Nrs(q, F), Nrs(r, F))
  PROVE  Sorted(q \o r, F)
<1> DEFINE c == q \o r
<1>1. /\ DOMAIN c = 1..(Len(q) + Len(r)) /\ Len(q) \in Nat /\ Len(r) \in Nat
      /\ DOMAIN q = 1..Len(q) /\ DOMAIN r = 1..Len(r)
      /\ \A i \in 1..Len(q) : c[i] = q[i]
      /\ \A i \in 1..(Len(q) + Len(r)) : i > Len(q) => c[i] = r[i - Len(q)]
  OBVIOUS
<1> HIDE DEF c
<1>2. ASSUME NEW i \in DOMAIN c, NEW j \in DOMAIN c, i < j, c[i] \in F, c[j] \in F
      PROVE  c[i].seal.nr < c[j].seal.nr
  <2>1. CASE j <= Len(q)
    <3>1. i \in DOMAIN q /\ j \in DOMAIN q /\ c[i] = q[i] /\ c[j] = q[j]
      BY <1>1, <1>2, <2>1
    <3> QED BY <1>2, <3>1 DEF Sorted
  <2>2. CASE i > Len(q)
    <3>1. /\ i - Len(q) \in DOMAIN r /\ j - Len(q) \in DOMAIN r
          /\ i - Len(q) < j - Len(q) /\ c[i] = r[i - Len(q)] /\ c[j] = r[j - Len(q)]
      BY <1>1, <1>2, <2>2
    <3> QED BY <1>2, <3>1 DEF Sorted
  <2>3. CASE i <= Len(q) /\ j > Len(q)
    <3>1. /\ i \in DOMAIN q /\ c[i] = q[i]
          /\ j - Len(q) \in DOMAIN r /\ c[j] = r[j - Len(q)]
      BY <1>1, <1>2, <2>3
    <3>2. c[i].seal.nr \in Nrs(q, F) /\ c[j].seal.nr \in Nrs(r, F)
      BY <1>2, <3>1 DEF Nrs, Elems
    <3> QED BY <3>2 DEF Before
  <2> QED BY <1>1, <2>1, <2>2, <2>3
<1> QED BY <1>2 DEF Sorted, c

LEMMA ThinsConcat ==
  ASSUME NEW S, NEW q \in Seq(S), NEW r \in Seq(S), NEW F, Elems(r) \cap F = {}
  PROVE  Thins(q \o r, q, F)
<1>1. Elems(q \o r) \subseteq Elems(q) \cup Elems(r)
  BY ElemsOfConcat
<1>2. Sorted(r, F) /\ Nrs(r, F) = {}
  BY DEF Sorted, Nrs, Elems
<1>3. Sorted(q, F) => Sorted(q \o r, F)
  BY <1>2, ConcatSorted DEF Before
<1> QED BY <1>1, <1>3 DEF Thins

LEMMA AppendSorted ==
  ASSUME NEW S, NEW q \in Seq(S), NEW m \in S, NEW F, Sorted(q, F),
         m \in F => \A k \in Nrs(q, F) : k < m.seal.nr
  PROVE  Sorted(Append(q, m), F)
<1>1. <<m>> \in Seq(S) /\ Append(q, m) = q \o <<m>> /\ Elems(<<m>>) = {m}
  BY ElemsOfSingle
<1>2. Sorted(<<m>>, F)
  BY DEF Sorted
<1>3. Before(Nrs(q, F), Nrs(<<m>>, F))
  BY <1>1 DEF Before, Nrs
<1> QED BY <1>1, <1>2, <1>3, ConcatSorted

LEMMA ThinsAppend ==
  ASSUME NEW S, NEW q \in Seq(S), NEW m \in S, NEW F, m \notin F
  PROVE  Thins(Append(q, m), q, F)
<1>1. Elems(Append(q, m)) = Elems(q) \cup {m}
  BY ElemsOfAppend
<1>2. Sorted(q, F) => Sorted(Append(q, m), F)
  BY AppendSorted
<1> QED BY <1>1, <1>2 DEF Thins

-----------------------------------------------------------------------------
(* The way of the whispers of t to x that reach u: the further along, the     *)
(* older, and each is one that t has sent.                                    *)

Genuine(q, F, S) ==
  \A m \in Elems(q) \cap F : m.seal.nr \in DOMAIN S /\ S[m.seal.nr] = m.seal

Ranked(R, C, B, M, top) ==
  /\ Before(R, C) /\ Before(R, B) /\ Before(R, M)
  /\ Before(C, B) /\ Before(C, M) /\ Before(B, M)
  /\ \A k \in R \cup C \cup B \cup M : k \in Int /\ k <= top

OnWay(M, B, C, R, S, t, x) ==
  /\ Sorted(M, EtellsOf(t, x)) /\ Genuine(M, EtellsOf(t, x), S)
  /\ Sorted(B, SealedOf(t, x)) /\ Genuine(B, SealedOf(t, x), S)
  /\ Sorted(C, SealedOf(t, x)) /\ Genuine(C, SealedOf(t, x), S)
  /\ Ranked(Nrs(R, ReadOf(t, x)), Nrs(C, SealedOf(t, x)), Nrs(B, SealedOf(t, x)),
            Nrs(M, EtellsOf(t, x)), Len(S))

WayInv ==
  \A t, u \in Terminal, x \in Names :
    OnWay(toServer[t], inbox[u], toTerm[u], read[u], sent[t][x], t, x)

(* Steps that only thin the queues.                                           *)
LEMMA QuietKeepsWay ==
  ASSUME NEW M, NEW B, NEW C, NEW R, NEW S, NEW t, NEW x, OnWay(M, B, C, R, S, t, x),
         NEW M1, NEW B1, NEW C1, NEW R1,
         Thins(M1, M, EtellsOf(t, x)), Thins(B1, B, SealedOf(t, x)),
         Thins(C1, C, SealedOf(t, x)), Nrs(R1, ReadOf(t, x)) \subseteq Nrs(R, ReadOf(t, x))
  PROVE  OnWay(M1, B1, C1, R1, S, t, x)
<1>1. /\ Sorted(M1, EtellsOf(t, x)) /\ Genuine(M1, EtellsOf(t, x), S)
      /\ Sorted(B1, SealedOf(t, x)) /\ Genuine(B1, SealedOf(t, x), S)
      /\ Sorted(C1, SealedOf(t, x)) /\ Genuine(C1, SealedOf(t, x), S)
  BY DEF OnWay, Thins, Genuine
<1>2. /\ Nrs(M1, EtellsOf(t, x)) \subseteq Nrs(M, EtellsOf(t, x))
      /\ Nrs(B1, SealedOf(t, x)) \subseteq Nrs(B, SealedOf(t, x))
      /\ Nrs(C1, SealedOf(t, x)) \subseteq Nrs(C, SealedOf(t, x))
  BY ThinsKeeps
<1>3. ASSUME NEW NR, NEW NC, NEW NB, NEW NM, NEW top, Ranked(NR, NC, NB, NM, top),
             NEW A \in SUBSET NR, NEW D \in SUBSET NC, NEW E \in SUBSET NB, NEW F \in SUBSET NM
      PROVE  Ranked(A, D, E, F, top)
  BY <1>3 DEF Ranked, Before
<1> QED BY <1>1, <1>2, <1>3 DEF OnWay

(* The head of one queue goes to the end of the next, or is lost.             *)
LEMMA PassOn ==
  ASSUME NEW A, NEW q \in Seq(A), q # <<>>, NEW F, Sorted(q, F), Head(q) \in F,
         NEW D, NEW p \in Seq(D), NEW G, NEW m \in D, m.seal = Head(q).seal, Sorted(p, G),
         Before(Nrs(p, G), Nrs(q, F)), NEW p1, p1 = p \/ p1 = Append(p, m),
         NEW S, Genuine(q, F, S), Genuine(p, G, S)
  PROVE  /\ Sorted(Tail(q), F) /\ Genuine(Tail(q), F, S)
         /\ Sorted(p1, G) /\ Genuine(p1, G, S)
         /\ Before(Nrs(p1, G), Nrs(Tail(q), F))
         /\ Nrs(Tail(q), F) \subseteq Nrs(q, F)
         /\ Nrs(p1, G) \subseteq Nrs(p, G) \cup Nrs(q, F)
<1> DEFINE v == Head(q).seal.nr
<1>1. v \in Nrs(q, F) /\ Head(q) \in Elems(q) /\ \A k \in Nrs(Tail(q), F) : v < k
  BY HeadFirst
<1>2. Thins(Tail(q), q, F)
  BY ThinsTail
<1>3. Sorted(Tail(q), F) /\ Genuine(Tail(q), F, S) /\ Nrs(Tail(q), F) \subseteq Nrs(q, F)
  BY <1>2, ThinsKeeps DEF Thins, Genuine
<1>4. Elems(p1) \subseteq Elems(p) \cup {m}
  <2>1. Elems(Append(p, m)) = Elems(p) \cup {m}
    BY ElemsOfAppend
  <2>2. p1 = p \/ p1 = Append(p, m)
    OBVIOUS
  <2> QED BY ONLY <2>1, <2>2
<1>5. Sorted(p1, G)
  BY <1>1, AppendSorted DEF Before
<1>6. Genuine(p1, G, S)
  BY <1>1, <1>4 DEF Genuine
<1>7. Nrs(p1, G) \subseteq Nrs(p, G) \cup {v}
  BY <1>4 DEF Nrs
<1> HIDE DEF v
<1> QED BY <1>1, <1>3, <1>5, <1>6, <1>7 DEF Before

(* The server hands a whisper to the actor of u.                              *)
LEMMA PassToInbox ==
  ASSUME NEW M \in Seq(Line), NEW B \in Seq(Delivery \cup {KickClient}), NEW C, NEW R, NEW S,
         NEW t, NEW x, OnWay(M, B, C, R, S, t, x), M # <<>>, Head(M) \in EtellsOf(t, x),
         NEW m \in Delivery \cup {KickClient}, m.seal = Head(M).seal,
         NEW B1, B1 = B \/ B1 = Append(B, m)
  PROVE  OnWay(Tail(M), B1, C, R, S, t, x)
<1> DEFINE F == EtellsOf(t, x)
           G == SealedOf(t, x)
           A == Delivery \cup {KickClient}
<1>0. /\ M \in Seq(Line) /\ M # <<>> /\ Head(M) \in F
      /\ B \in Seq(A) /\ m \in A /\ m.seal = Head(M).seal
  OBVIOUS
<1> HIDE DEF F, G, A
<1>1. /\ Sorted(M, F) /\ Genuine(M, F, S) /\ Sorted(B, G) /\ Genuine(B, G, S)
      /\ Before(Nrs(B, G), Nrs(M, F))
      /\ Sorted(C, G) /\ Genuine(C, G, S)
      /\ Ranked(Nrs(R, ReadOf(t, x)), Nrs(C, G), Nrs(B, G), Nrs(M, F), Len(S))
  BY DEF OnWay, Ranked, F, G
<1>2. /\ Sorted(Tail(M), F) /\ Genuine(Tail(M), F, S) /\ Sorted(B1, G) /\ Genuine(B1, G, S)
      /\ Before(Nrs(B1, G), Nrs(Tail(M), F))
      /\ Nrs(Tail(M), F) \subseteq Nrs(M, F) /\ Nrs(B1, G) \subseteq Nrs(B, G) \cup Nrs(M, F)
  BY <1>0, <1>1, PassOn
<1>3. Ranked(Nrs(R, ReadOf(t, x)), Nrs(C, G), Nrs(B1, G), Nrs(Tail(M), F), Len(S))
  BY <1>1, <1>2 DEF Ranked, Before
<1> QED BY <1>1, <1>2, <1>3 DEF OnWay, F, G

(* The actor of u writes it to the terminal.                                  *)
LEMMA PassToScreen ==
  ASSUME NEW B \in Seq(Delivery \cup {KickClient}), NEW C \in Seq(Delivery \cup Answer),
         NEW M, NEW R, NEW S, NEW t, NEW x, OnWay(M, B, C, R, S, t, x),
         B # <<>>, Head(B) \in SealedOf(t, x), NEW C1, C1 = C \/ C1 = Append(C, Head(B))
  PROVE  OnWay(M, Tail(B), C1, R, S, t, x)
<1> DEFINE F == EtellsOf(t, x)
           G == SealedOf(t, x)
           A == Delivery \cup {KickClient}
           D == Delivery \cup Answer
<1>0. /\ B \in Seq(A) /\ B # <<>> /\ Head(B) \in G
      /\ C \in Seq(D) /\ Head(B) \in D
  BY DEF SealedOf
<1> HIDE DEF F, G, A, D
<1>1. /\ Sorted(M, F) /\ Genuine(M, F, S) /\ Sorted(B, G) /\ Genuine(B, G, S)
      /\ Before(Nrs(C, G), Nrs(B, G))
      /\ Sorted(C, G) /\ Genuine(C, G, S)
      /\ Ranked(Nrs(R, ReadOf(t, x)), Nrs(C, G), Nrs(B, G), Nrs(M, F), Len(S))
  BY DEF OnWay, Ranked, F, G
<1>2. /\ Sorted(Tail(B), G) /\ Genuine(Tail(B), G, S) /\ Sorted(C1, G) /\ Genuine(C1, G, S)
      /\ Before(Nrs(C1, G), Nrs(Tail(B), G))
      /\ Nrs(Tail(B), G) \subseteq Nrs(B, G) /\ Nrs(C1, G) \subseteq Nrs(C, G) \cup Nrs(B, G)
  BY <1>0, <1>1, PassOn
<1>3. Ranked(Nrs(R, ReadOf(t, x)), Nrs(C1, G), Nrs(Tail(B), G), Nrs(M, F), Len(S))
  BY <1>1, <1>2 DEF Ranked, Before
<1> QED BY <1>1, <1>2, <1>3 DEF OnWay, F, G

(* The terminal u shows it as read, or as unreadable.                         *)
LEMMA PassToReader ==
  ASSUME NEW C \in Seq(Delivery \cup Answer), NEW A, NEW R \in Seq(A),
         NEW M, NEW B, NEW S, NEW t, NEW x, OnWay(M, B, C, R, S, t, x),
         C # <<>>, Head(C) \in SealedOf(t, x),
         NEW w \in A, w.seal = Head(C).seal,
         NEW R1, R1 = R \/ R1 = Append(R, w)
  PROVE  OnWay(M, B, Tail(C), R1, S, t, x)
<1> DEFINE F == EtellsOf(t, x)
           G == SealedOf(t, x)
           H == ReadOf(t, x)
           v == Head(C).seal.nr
<1> HIDE DEF F, G, H
<1>1. /\ Sorted(M, F) /\ Genuine(M, F, S) /\ Sorted(B, G) /\ Genuine(B, G, S)
      /\ Sorted(C, G) /\ Genuine(C, G, S)
      /\ Ranked(Nrs(R, H), Nrs(C, G), Nrs(B, G), Nrs(M, F), Len(S))
  BY DEF OnWay, F, G, H
<1>2. v \in Nrs(C, G) /\ \A k \in Nrs(Tail(C), G) : v < k
  BY <1>1, HeadFirst DEF G
<1>3. Thins(Tail(C), C, G)
  BY ThinsTail
<1>4. Sorted(Tail(C), G) /\ Genuine(Tail(C), G, S) /\ Nrs(Tail(C), G) \subseteq Nrs(C, G)
  BY <1>1, <1>3, ThinsKeeps DEF Thins, Genuine
<1>5. Nrs(R1, H) \subseteq Nrs(R, H) \cup {v}
  <2>1. Elems(R1) \subseteq Elems(R) \cup {w}
    <3>1. Elems(Append(R, w)) = Elems(R) \cup {w}
      BY ElemsOfAppend
    <3>2. R1 = R \/ R1 = Append(R, w)
      OBVIOUS
    <3> QED BY ONLY <3>1, <3>2
  <2> QED BY <2>1 DEF Nrs
<1> HIDE DEF v
<1>6. Ranked(Nrs(R1, H), Nrs(Tail(C), G), Nrs(B, G), Nrs(M, F), Len(S))
  BY <1>1, <1>2, <1>4, <1>5 DEF Ranked, Before
<1> QED BY <1>1, <1>4, <1>6 DEF OnWay, F, G, H

(* t sends new whispers to x.                                                 *)
LEMMA NewAreLast ==
  ASSUME NEW M \in Seq(Line), NEW B, NEW C, NEW R, NEW S \in Seq(Seal), NEW t, NEW x,
         OnWay(M, B, C, R, S, t, x),
         NEW lns \in Seq(Line), Sorted(lns, EtellsOf(t, x)),
         NEW r \in Seq(Seal), Genuine(lns, EtellsOf(t, x), S \o r),
         \A k \in Nrs(lns, EtellsOf(t, x)) : k \in Int /\ Len(S) < k /\ k <= Len(S \o r),
         NEW M1, M1 = M \/ M1 = M \o lns
  PROVE  OnWay(M1, B, C, R, S \o r, t, x)
<1> DEFINE F == EtellsOf(t, x)
           G == SealedOf(t, x)
           H == ReadOf(t, x)
           S1 == S \o r
<1>1. /\ Len(S) \in Nat /\ Len(S1) \in Nat /\ Len(S) <= Len(S1)
      /\ \A i \in DOMAIN S : i \in DOMAIN S1 /\ S1[i] = S[i]
  OBVIOUS
<1> HIDE DEF F, G, H, S1
<1>2. ASSUME NEW q, NEW E, Genuine(q, E, S)
      PROVE  Genuine(q, E, S1)
  BY <1>1, <1>2 DEF Genuine
<1>3. /\ Sorted(M, F) /\ Genuine(M, F, S) /\ Sorted(B, G) /\ Genuine(B, G, S)
      /\ Sorted(C, G) /\ Genuine(C, G, S)
      /\ Ranked(Nrs(R, H), Nrs(C, G), Nrs(B, G), Nrs(M, F), Len(S))
  BY DEF OnWay, F, G, H
<1>4. /\ Sorted(lns, F) /\ Genuine(lns, F, S1)
      /\ \A k \in Nrs(lns, F) : k \in Int /\ Len(S) < k /\ k <= Len(S1)
  BY DEF F, S1
<1>5. Before(Nrs(M, F), Nrs(lns, F))
  BY <1>1, <1>3, <1>4 DEF Ranked, Before
<1>6. Sorted(M1, F)
  BY <1>3, <1>4, <1>5, ConcatSorted
<1>7. Elems(M1) \subseteq Elems(M) \cup Elems(lns)
  BY ElemsOfConcat
<1>8. Genuine(M1, F, S1)
  BY <1>2, <1>3, <1>4, <1>7 DEF Genuine
<1>9. Nrs(M1, F) \subseteq Nrs(M, F) \cup Nrs(lns, F)
  BY <1>7 DEF Nrs
<1>10. Ranked(Nrs(R, H), Nrs(C, G), Nrs(B, G), Nrs(M1, F), Len(S1))
  <2>1. ASSUME NEW k \in Nrs(R, H) \cup Nrs(C, G) \cup Nrs(B, G) \cup Nrs(M, F)
        PROVE  k \in Int /\ k <= Len(S) /\ k <= Len(S1)
    BY <1>1, <1>3 DEF Ranked
  <2>2. ASSUME NEW k \in Nrs(R, H) \cup Nrs(C, G) \cup Nrs(B, G), NEW j \in Nrs(M1, F)
        PROVE  k < j
    <3>1. CASE j \in Nrs(M, F)
      BY <1>3, <2>2, <3>1 DEF Ranked, Before
    <3>2. CASE j \in Nrs(lns, F)
      BY <1>1, <1>4, <2>1, <3>2
    <3> QED BY <1>9, <3>1, <3>2
  <2> QED BY <1>3, <1>4, <1>9, <2>1, <2>2 DEF Ranked, Before
<1> QED BY <1>2, <1>3, <1>6, <1>8, <1>10 DEF OnWay, F, G, H, S1

-----------------------------------------------------------------------------
(* What the steps do to the queues.                                           *)

SealedStepOf(t, x) == EncryptedTell(t) /\ Head(toServer[t]) \in EtellsOf(t, x)
RelayStepOf(u, t, x) == Relay(u) /\ Head(inbox[u]) \in SealedOf(t, x)
ShowStepOf(u, t, x) == EncryptedWhisper(u) /\ Head(toTerm[u]) \in SealedOf(t, x)

(* The mailboxes: nothing of t to x is added but what t has sent to x.        *)
LEMMA InboxQueue ==
  ASSUME TypeInv, LinesGood, Next, NEW t \in Terminal, NEW u \in Terminal, NEW x \in Names,
         ~SealedStepOf(t, x)
  PROVE  Thins(inbox'[u], inbox[u], SealedOf(t, x))
<1> DEFINE G == SealedOf(t, x)
<1> USE DEF TypeInv
<1> HIDE DEF G
<1> SUFFICES Thins(inbox'[u], inbox[u], G)
  BY DEF G
<1>0. inbox[u] \in Seq(Delivery \cup {KickClient}) /\ inbox \in [Terminal -> Seq(Delivery \cup {KickClient})]
  BY DEF TypeOK
<1>1. PICK v \in Terminal :
        \/ User(v) \/ SyncTicker(v) \/ ServerLine(v) \/ Disconnected(v)
        \/ Actor(v) \/ Relay(v) \/ Unregister(v)
  BY DEF Next
<1>2. ASSUME UNCHANGED inbox
      PROVE  Thins(inbox'[u], inbox[u], G)
  BY <1>2, ThinsTrivially
<1>3. CASE User(v) \/ SyncTicker(v) \/ ServerLine(v) \/ Disconnected(v)
  <2>1. UNCHANGED inbox
    BY <1>3 DEF User, Launch, Quit, Die, WhisperTo, PassThrough, Enters, SyncTicker,
                Disconnected, ServerLine, EncryptedWhisper, KeyLine, NoKeyLine, UserList,
                PresenceNotice, Takes, actorVars
  <2> QED BY <1>2, <2>1
<1>4. CASE ListUsers(v) \/ GetKey(v) \/ PublishKey(v) \/ PlainLine(v)
  BY <1>2, <1>4 DEF ListUsers, GetKey, PublishKey, PlainLine
<1>5. ASSUME NEW S, NEW m \in Delivery \cup {KickClient}, m \notin G, inbox' = Delivered(S, m)
      PROVE  Thins(inbox'[u], inbox[u], G)
  <2>1. inbox'[u] = inbox[u] \/ inbox'[u] = Append(inbox[u], m)
    BY <1>5 DEF Delivered
  <2>2. Thins(Append(inbox[u], m), inbox[u], G)
    BY <1>0, <1>5, ThinsAppend
  <2> QED BY <2>1, <2>2, ThinsTrivially
<1>6. CASE Register(v) \/ Kick(v) \/ Unregister(v)
  <2>1. \/ UNCHANGED inbox
        \/ \E S : inbox' = Delivered(S, Presence)
        \/ \E S : inbox' = Delivered(S, KickClient)
    BY <1>6 DEF Register, Kick, Unregister, actorVars
  <2>2. Presence \in Delivery /\ Presence \notin G /\ KickClient \notin G
    BY DeliveryType DEF G, SealedOf, Presence, KickClient
  <2> QED BY <1>2, <1>5, <2>1, <2>2
<1>7. CASE EncryptedTell(v)
  <2> DEFINE l == Head(toServer[v])
             m == [kind |-> "sealed", from |-> nick[v], seal |-> l.seal]
  <2>1. Reads(v, "chatting") /\ l.cmd = "/etell" /\ conn[v] = "chatting"
    BY <1>7 DEF EncryptedTell, ReadsCommand, Reads
  <2>2. l \in Line /\ GoodLine(v, l)
    BY <2>1, ReadsType, ReadsGood
  <2>3. l.seal \in Seal /\ nick[v] \in Names /\ l.seal.by = v
    BY <2>1, <2>2, TypeOfLine DEF GoodLine, Named
  <2>4. m \in Delivery
    BY <2>3, DeliveryType
  <2>5. m \notin G
    <3>1. m.seal = l.seal
      OBVIOUS
    <3>2. m \in G => l \in EtellsOf(v, x) /\ v = t
      BY <2>1, <2>2, <2>3, <3>1 DEF G, SealedOf, EtellsOf
    <3> QED BY <1>7, <3>2 DEF SealedStepOf
  <2>6. \E S : inbox' = Delivered(S, m)
    BY <1>7 DEF EncryptedTell
  <2> HIDE DEF m
  <2> QED BY <1>5, <2>4, <2>5, <2>6
<1>8. CASE Quits(v) \/ Eof(v) \/ Kicked(v)
  <2>1. inbox' = [inbox EXCEPT ![v] = <<>>]
    BY <1>8 DEF Quits, Eof, Kicked, Ends
  <2>2. inbox'[u] = <<>> \/ inbox'[u] = inbox[u]
    BY <1>0, <2>1
  <2> QED BY <2>2, ThinsTrivially
<1>9. CASE Relay(v)
  <2>1. inbox[v] # <<>> /\ inbox' = [inbox EXCEPT ![v] = Tail(inbox[v])]
    BY <1>9 DEF Relay
  <2>2. inbox'[u] = inbox[u] \/ (inbox'[u] = Tail(inbox[u]) /\ inbox[u] # <<>>)
    BY <1>0, <2>1
  <2>3. inbox[u] # <<>> => Thins(Tail(inbox[u]), inbox[u], G)
    BY <1>0, ThinsTail
  <2> QED BY <2>2, <2>3, ThinsTrivially
<1> QED BY <1>1, <1>3, <1>4, <1>6, <1>7, <1>8, <1>9 DEF Actor

(* The screens: only the actor writes whispers.                               *)
LEMMA ScreenQueue ==
  ASSUME TypeInv, Next, NEW t \in Terminal, NEW u \in Terminal, NEW x \in Names,
         ~RelayStepOf(u, t, x)
  PROVE  Thins(toTerm'[u], toTerm[u], SealedOf(t, x))
<1> DEFINE G == SealedOf(t, x)
           D == Delivery \cup Answer
<1> USE DEF TypeInv
<1> HIDE DEF G, D
<1> SUFFICES Thins(toTerm'[u], toTerm[u], G)
  BY DEF G
<1>0. toTerm[u] \in Seq(D) /\ toTerm \in [Terminal -> Seq(D)]
  BY DEF TypeOK, D
<1>1. PICK v \in Terminal :
        \/ User(v) \/ SyncTicker(v) \/ ServerLine(v) \/ Disconnected(v)
        \/ Actor(v) \/ Relay(v) \/ Unregister(v)
  BY DEF Next
<1>2. ASSUME UNCHANGED toTerm
      PROVE  Thins(toTerm'[u], toTerm[u], G)
  BY <1>2, ThinsTrivially
<1>3. ASSUME NEW m \in D, v = u => m \notin G, Writes(v, m)
      PROVE  Thins(toTerm'[u], toTerm[u], G)
  <2>1. toTerm'[u] = toTerm[u] \/ (v = u /\ toTerm'[u] = Append(toTerm[u], m))
    BY <1>0, <1>3 DEF Writes
  <2>2. m \notin G => Thins(Append(toTerm[u], m), toTerm[u], G)
    BY <1>0, <1>3, ThinsAppend
  <2> QED BY <1>3, <2>1, <2>2, ThinsTrivially
<1>4. CASE Launch(v) \/ SyncTicker(v) \/ (\E y \in Names : WhisperTo(v, y))
           \/ (\E e \in Typed[v] : PassThrough(v, e))
  BY <1>2, <1>4 DEF Launch, SyncTicker, WhisperTo, PassThrough
<1>5. CASE Quit(v) \/ Die(v) \/ Disconnected(v)
  <2>1. toTerm' = [toTerm EXCEPT ![v] = <<>>]
    BY <1>5 DEF Quit, Die, Disconnected, Exits
  <2>2. toTerm'[u] = <<>> \/ toTerm'[u] = toTerm[u]
    BY <1>0, <2>1
  <2> QED BY <2>2, ThinsTrivially
<1>6. CASE ServerLine(v)
  <2>1. PICK k : Takes(v, k)
    BY <1>6 DEF ServerLine, EncryptedWhisper, KeyLine, NoKeyLine, UserList, PresenceNotice
  <2>2. toTerm'[u] = toTerm[u] \/ (toTerm'[u] = Tail(toTerm[u]) /\ toTerm[u] # <<>>)
    BY <1>0, <2>1 DEF Takes
  <2>3. toTerm[u] # <<>> => Thins(Tail(toTerm[u]), toTerm[u], G)
    BY <1>0, ThinsTail
  <2> QED BY <2>2, <2>3, ThinsTrivially
<1>7. CASE Register(v) \/ PublishKey(v) \/ EncryptedTell(v) \/ Kick(v) \/ PlainLine(v)
           \/ Quits(v) \/ Eof(v) \/ Kicked(v) \/ Unregister(v)
  BY <1>2, <1>7 DEF Register, PublishKey, EncryptedTell, Kick, PlainLine, Quits, Eof, Kicked,
                    Unregister
<1>8. CASE ListUsers(v)
  <2> DEFINE L == {<<y, key[y] # NoKey>> :
                     y \in {y \in Names : holder[y] # Nobody /\ y # nick[v]}}
             m == [kind |-> "users", list |-> L]
  <2>1. L \in SUBSET (Names \X BOOLEAN)
    <3>1. \A y \in Names : <<y, key[y] # NoKey>> \in Names \X BOOLEAN
      OBVIOUS
    <3> QED BY <3>1
  <2>2. m \in Answer
    BY <2>1, AnswerType
  <2>3. m \notin G
    BY DEF G, SealedOf
  <2>4. Writes(v, m) \/ UNCHANGED toTerm
    BY <1>8 DEF ListUsers
  <2> HIDE DEF m
  <2> QED BY <1>2, <1>3, <2>2, <2>3, <2>4 DEF D
<1>9. CASE GetKey(v)
  <2> DEFINE y == Head(toServer[v]).to
             m == IF holder[y] # Nobody /\ key[y] # NoKey
                    THEN [kind |-> "key", of |-> y, key |-> key[y]]
                    ELSE [kind |-> "nokey", of |-> y]
  <2>1. Head(toServer[v]) \in Line /\ Head(toServer[v]).cmd = "/getkey"
    BY <1>9, ReadsType DEF GetKey, ReadsCommand
  <2>2. y \in Names
    BY <2>1, TypeOfLine
  <2>3. key[y] \in MaybeKey
    BY <2>2 DEF TypeOK
  <2>4. m \in Answer
    BY <2>2, <2>3, AnswerType DEF MaybeKey
  <2>5. m \notin G
    BY DEF G, SealedOf
  <2>6. Writes(v, m)
    BY <1>9 DEF GetKey
  <2> HIDE DEF m
  <2> QED BY <1>3, <2>4, <2>5, <2>6 DEF D
<1>10. CASE Relay(v)
  <2> DEFINE m == Head(inbox[v])
  <2>1. inbox[v] # <<>> /\ m # KickClient /\ Writes(v, m)
    BY <1>10 DEF Relay
  <2>2. inbox[v] \in Seq(Delivery \cup {KickClient})
    BY DEF TypeOK
  <2>3. m \in Delivery
    BY <2>1, <2>2
  <2>4. v = u => m \notin G
    BY <1>10 DEF RelayStepOf, G
  <2> HIDE DEF m
  <2> QED BY <1>3, <2>1, <2>3, <2>4 DEF D
<1> QED BY <1>1, <1>4, <1>5, <1>6, <1>7, <1>8, <1>9, <1>10 DEF User, Actor

(* Only a shown whisper is read.                                              *)
LEMMA ReadFrame ==
  ASSUME Next, \A v \in Terminal : ~EncryptedWhisper(v)
  PROVE  UNCHANGED read
<1>1. PICK v \in Terminal :
        \/ User(v) \/ SyncTicker(v) \/ ServerLine(v) \/ Disconnected(v)
        \/ Actor(v) \/ Relay(v) \/ Unregister(v)
  BY DEF Next
<1>2. CASE User(v) \/ SyncTicker(v) \/ Disconnected(v) \/ ServerLine(v)
  BY <1>2 DEF User, Launch, Quit, Die, WhisperTo, PassThrough, Enters, SyncTicker,
              Disconnected, ServerLine, KeyLine, NoKeyLine, UserList, PresenceNotice,
              Takes, tuiVars, shownVars
<1>3. CASE Actor(v) \/ Relay(v) \/ Unregister(v)
  <2>1. UNCHANGED tuiVars
    BY <1>3 DEF Actor, Register, ListUsers, GetKey, PublishKey, EncryptedTell, Kick,
                PlainLine, Quits, Eof, Kicked, Relay, Unregister, Ends, ReadsCommand, Reads
  <2> QED BY <2>1 DEF tuiVars, shownVars
<1> QED BY <1>1, <1>2, <1>3

(* The readers: they read what the screen shows next.                         *)
LEMMA ReadQueue ==
  ASSUME TypeInv, Next, NEW t \in Terminal, NEW u \in Terminal, NEW x \in Names,
         ~ShowStepOf(u, t, x)
  PROVE  Nrs(read'[u], ReadOf(t, x)) \subseteq Nrs(read[u], ReadOf(t, x))
<1> USE DEF TypeInv
<1>1. ASSUME NEW v \in Terminal, EncryptedWhisper(v)
      PROVE  Nrs(read'[u], ReadOf(t, x)) \subseteq Nrs(read[u], ReadOf(t, x))
  <2> DEFINE A == [from : Names, seal : Seal]
             m == Head(toTerm[v])
             w == [from |-> m.from, seal |-> m.seal]
  <2>1. Takes(v, "sealed")
    BY <1>1 DEF EncryptedWhisper
  <2>2. m \in Delivery \cup Answer /\ m.kind = "sealed"
    BY <2>1, TakesType
  <2>3. w \in A
    BY <2>2, TypeOfMessage
  <2>4. read \in [Terminal -> Seq(A)]
    BY DEF TypeOK
  <2>5. read' = read \/ read' = [read EXCEPT ![v] = Append(read[v], w)]
    BY <1>1 DEF EncryptedWhisper
  <2>6. v = u => w \notin ReadOf(t, x)
    BY <1>1, <2>2, <2>3 DEF ShowStepOf, SealedOf, ReadOf
  <2> HIDE DEF A, m, w
  <2>7. read'[u] = read[u] \/ (v = u /\ read'[u] = Append(read[u], w))
    BY <2>4, <2>5
  <2>8. Elems(Append(read[u], w)) = Elems(read[u]) \cup {w}
    BY <2>3, <2>4, ElemsOfAppend
  <2> QED BY <2>6, <2>7, <2>8 DEF Nrs
<1> QED BY <1>1, ReadFrame

-----------------------------------------------------------------------------
(* New whispers.                                                              *)

Etells(r) == [i \in 1..Len(r) |-> EtellLine(r[i])]

(* r is the next whispers of t to y.                                          *)
NextOnes(t, y, n, r) ==
  /\ r \in Seq(Seal)
  /\ \A i \in 1..Len(r) : r[i].by = t /\ r[i].to = y /\ r[i].nr = n + i

SealsNow(t, y, r) ==
  /\ NextOnes(t, y, Len(sent[t][y]), r)
  /\ sent' = [sent EXCEPT ![t][y] = sent[t][y] \o r]
  /\ Sends(t, Etells(r))

LEMMA EtellsType ==
  ASSUME NEW r \in Seq(Seal)
  PROVE  /\ Etells(r) \in Seq(Line) /\ DOMAIN Etells(r) = 1..Len(r) /\ Len(r) \in Nat
         /\ \A i \in 1..Len(r) : Etells(r)[i] = EtellLine(r[i]) /\ r[i] \in Seal
<1>1. \A i \in 1..Len(r) : EtellLine(r[i]) \in Line /\ r[i] \in Seal
  BY LineType
<1>2. Len(r) \in Nat
  OBVIOUS
<1> QED BY <1>1, <1>2 DEF Etells

LEMMA AppendIsConcat ==
  ASSUME NEW S, NEW q \in Seq(S), NEW x \in S
  PROVE  Append(q, x) = q \o <<x>>
OBVIOUS

(* A whisper with a key in the cache is sealed at once.                       *)
LEMMA WhisperSeals ==
  ASSUME TypeInv, WhispersInOrder, NEW t \in Terminal, NEW y \in Names, WhisperTo(t, y),
         y # Nick[t], peerKeys[t][y] # NoKey
  PROVE  /\ asked' = [asked EXCEPT ![t][y] = @ + 1]
         /\ \E k \in Keys :
              SealsNow(t, y, <<EncryptMessage(t, y, Len(sent[t][y]) + 1, k)>>)
<1> USE DEF TypeInv
<1> DEFINE n == Len(sent[t][y])
           k == peerKeys[t][y]
           s == EncryptMessage(t, y, n + 1, k)
<1>1. sent[t][y] \in Seq(Seal) /\ n \in Nat /\ asked[t][y] \in Nat
  BY QueueTypes
<1>2. n = asked[t][y]
  <2>1. pending[t][y] = <<>> /\ n + Len(pending[t][y]) = asked[t][y]
    BY DEF WhispersInOrder
  <2>2. Len(pending[t][y]) = 0
    BY <2>1
  <2> QED BY <1>1, <2>1, <2>2
<1>3. k \in Keys /\ k \in KeyText
  BY NamesType DEF TypeOK
<1>4. /\ asked' = [asked EXCEPT ![t][y] = @ + 1]
      /\ Sends(t, <<EtellLine(s)>>)
      /\ sent' = [sent EXCEPT ![t][y] = Append(@, s)]
  BY <1>2 DEF WhisperTo
<1> HIDE DEF n, k
<1>5. s \in Seal /\ s.by = t /\ s.to = y /\ s.nr = n + 1
  <2>1. n + 1 \in Nat
    BY <1>1
  <2> QED BY <1>3, <2>1, SealType
<1> HIDE DEF s
<1>6. <<s>> \in Seq(Seal) /\ Len(<<s>>) = 1 /\ <<s>>[1] = s /\ 1..1 = {1}
  BY <1>5
<1>7. Append(sent[t][y], s) = sent[t][y] \o <<s>>
  BY <1>1, <1>5, AppendIsConcat
<1>8. Etells(<<s>>) = <<EtellLine(s)>>
  BY <1>6 DEF Etells
<1>9. NextOnes(t, y, n, <<s>>)
  BY <1>5, <1>6 DEF NextOnes
<1>10. SealsNow(t, y, <<s>>)
  BY <1>4, <1>7, <1>8, <1>9 DEF SealsNow, n
<1> QED BY <1>3, <1>4, <1>10 DEF s, n

(* A key seals what has waited for it.                                        *)
LEMMA KeySeals ==
  ASSUME TypeInv, WhispersInOrder, NEW t \in Terminal, KeyLine(t),
         NEW y \in Names, y = Head(toTerm[t]).of,
         NEW k \in Keys, k = Head(toTerm[t]).key
  PROVE  /\ SealsNow(t, y, Flushed(t, y, k))
         /\ Len(Flushed(t, y, k)) = asked[t][y] - Len(sent[t][y])
         /\ \A i \in 1..Len(Flushed(t, y, k)) : Flushed(t, y, k)[i].key = k
         /\ asked' = asked
<1> USE DEF TypeInv
<1> DEFINE r == Flushed(t, y, k)
           p == pending[t][y]
           n == Len(sent[t][y])
<1>1. /\ sent' = [sent EXCEPT ![t][y] = sent[t][y] \o r]
      /\ Sends(t, [i \in 1..Len(p) |-> EtellLine(r[i])])
      /\ asked' = asked
  BY NamesType DEF KeyLine, Takes
<1>2. /\ r \in Seq(Seal) /\ Len(r) = Len(p)
      /\ \A i \in 1..Len(p) : r[i] = EncryptMessage(t, y, p[i], k)
  BY FlushedType, NamesType
<1>3. p \in Seq(Nat) /\ Len(p) \in Nat /\ n \in Nat /\ DOMAIN p = 1..Len(p) /\ asked[t][y] \in Nat
  BY QueueTypes
<1>4. n + Len(p) = asked[t][y] /\ \A i \in 1..Len(p) : p[i] = n + i
  <2>1. n + Len(p) = asked[t][y] /\ \A i \in DOMAIN p : p[i] = n + i
    BY DEF WhispersInOrder
  <2> HIDE DEF p, n
  <2> QED BY <1>3, <2>1
<1> HIDE DEF r, p, n
<1>5. ASSUME NEW i \in 1..Len(r)
      PROVE  r[i].by = t /\ r[i].to = y /\ r[i].nr = n + i /\ r[i].key = k
  <2>1. p[i] \in Nat /\ p[i] = n + i /\ r[i] = EncryptMessage(t, y, p[i], k)
    BY <1>2, <1>3, <1>4
  <2> QED BY <2>1, SealType, NamesType
<1>6. NextOnes(t, y, n, r)
  BY <1>2, <1>5 DEF NextOnes
<1>7. SealsNow(t, y, r)
  BY <1>1, <1>2, <1>6 DEF SealsNow, Etells, n
<1>8. Len(r) = asked[t][y] - n
  BY <1>2, <1>3, <1>4
<1> QED BY <1>1, <1>5, <1>7, <1>8 DEF r, n

(* The lines: t sends x nothing but the next whispers, in order.              *)
NewLast(t, x) ==
  \E lns \in Seq(Line), r \in Seq(Seal) :
    /\ sent'[t][x] = sent[t][x] \o r
    /\ toServer'[t] = toServer[t] \/ toServer'[t] = toServer[t] \o lns
    /\ Sorted(lns, EtellsOf(t, x))
    /\ Genuine(lns, EtellsOf(t, x), sent[t][x] \o r)
    /\ \A k \in Nrs(lns, EtellsOf(t, x)) :
         k \in Int /\ Len(sent[t][x]) < k /\ k <= Len(sent[t][x] \o r)

QuietLines(t, x) ==
  Thins(toServer'[t], toServer[t], EtellsOf(t, x)) /\ sent'[t][x] = sent[t][x]

LEMMA SealsAreLast ==
  ASSUME TypeInv, NEW t \in Terminal, NEW x \in Names, NEW v \in Terminal, NEW y \in Names,
         NEW r, SealsNow(v, y, r)
  PROVE  QuietLines(t, x) \/ NewLast(t, x)
<1> USE DEF TypeInv
<1> DEFINE lns == Etells(r)
           F == EtellsOf(t, x)
           S == sent[v][y]
<1>0. /\ NextOnes(v, y, Len(S), r) /\ Sends(v, lns)
      /\ sent' = [sent EXCEPT ![v][y] = S \o r]
  BY DEF SealsNow
<1>1. r \in Seq(Seal) /\ \A i \in 1..Len(r) : r[i].by = v /\ r[i].to = y /\ r[i].nr = Len(S) + i
  BY <1>0 DEF NextOnes
<1>2. /\ lns \in Seq(Line) /\ DOMAIN lns = 1..Len(r) /\ Len(r) \in Nat
      /\ \A i \in 1..Len(r) : lns[i] = EtellLine(r[i]) /\ r[i] \in Seal
  BY <1>1, EtellsType
<1>3. \A s : EtellLine(s).cmd = "/etell" /\ EtellLine(s).seal = s
  BY DEF EtellLine
<1>4. S \in Seq(Seal) /\ Len(S) \in Nat /\ toServer[t] \in Seq(Line)
  <2>1. toServer[t] \in Seq(Line)
    BY DEF TypeOK
  <2> QED BY <2>1, QueueTypes
<1>5. toServer'[t] = toServer[t] \/ (t = v /\ toServer'[t] = toServer[t] \o lns)
  BY <1>0 DEF TypeOK, Sends
<1>6. /\ v = t /\ y = x => sent'[t][x] = S \o r
      /\ ~(v = t /\ y = x) => sent'[t][x] = sent[t][x]
  BY <1>0 DEF TypeOK
<1> HIDE DEF lns, F
<1>7. CASE ~(v = t /\ y = x)
  <2>1. v = t => Elems(lns) \cap F = {}
    <3>1. ASSUME NEW i \in DOMAIN lns, lns[i] \in F
          PROVE  v = t /\ y = x
      <4>1. lns[i].seal.by = t /\ lns[i].seal.to = x
        BY <3>1 DEF F, EtellsOf
      <4> QED BY <1>1, <1>2, <1>3, <4>1
    <3> QED BY <1>7, <3>1 DEF Elems
  <2>2. Thins(toServer[t], toServer[t], F) /\ (v = t => Thins(toServer[t] \o lns, toServer[t], F))
    BY <1>2, <1>4, <2>1, ThinsTrivially, ThinsConcat
  <2> QED BY <1>5, <1>6, <1>7, <2>2 DEF QuietLines, F
<1>8. CASE v = t /\ y = x
  <2>1. \A i \in 1..Len(r) : lns[i].seal = r[i] /\ lns[i].seal.nr = Len(S) + i
    BY <1>1, <1>2, <1>3
  <2>2. Sorted(lns, F)
    BY <1>2, <1>4, <2>1 DEF Sorted
  <2>3. /\ Len(S \o r) = Len(S) + Len(r) /\ DOMAIN (S \o r) = 1..(Len(S) + Len(r))
        /\ \A i \in 1..Len(r) : Len(S) + i \in 1..(Len(S) + Len(r)) /\ (S \o r)[Len(S) + i] = r[i]
    BY <1>1, <1>2, <1>4
  <2>4. Genuine(lns, F, S \o r)
    <3>1. ASSUME NEW i \in 1..Len(r)
          PROVE  lns[i].seal.nr \in DOMAIN (S \o r) /\ (S \o r)[lns[i].seal.nr] = lns[i].seal
      BY <2>1, <2>3
    <3> QED BY <1>2, <3>1 DEF Genuine, Elems
  <2>5. \A k \in Nrs(lns, F) : k \in Int /\ Len(S) < k /\ k <= Len(S \o r)
    <3>1. ASSUME NEW i \in 1..Len(r)
          PROVE  LET k == lns[i].seal.nr IN k \in Int /\ Len(S) < k /\ k <= Len(S \o r)
      BY <1>2, <1>4, <2>1, <2>3
    <3> QED BY <1>2, <3>1 DEF Nrs, Elems
  <2>6. toServer'[t] = toServer[t] \/ toServer'[t] = toServer[t] \o lns
    BY <1>5
  <2> QED BY <1>1, <1>2, <1>6, <1>8, <2>2, <2>4, <2>5, <2>6 DEF NewLast, F
<1> QED BY <1>7, <1>8

LEMMA LineQueue ==
  ASSUME TypeInv, WhispersInOrder, ScreenGood, Next, NEW t \in Terminal, NEW x \in Names
  PROVE  QuietLines(t, x) \/ NewLast(t, x)
<1> USE DEF TypeInv
<1> DEFINE F == EtellsOf(t, x)
           Done == QuietLines(t, x) \/ NewLast(t, x)
<1> SUFFICES Done
  OBVIOUS
<1> HIDE DEF F
<1>0. toServer[t] \in Seq(Line) /\ toServer \in [Terminal -> Seq(Line)]
  BY DEF TypeOK
<1>1. PICK v \in Terminal :
        \/ User(v) \/ SyncTicker(v) \/ ServerLine(v) \/ Disconnected(v)
        \/ Actor(v) \/ Relay(v) \/ Unregister(v)
  BY DEF Next
<1>2. ASSUME UNCHANGED <<toServer, sent>>
      PROVE  Done
  BY <1>2, ThinsTrivially DEF QuietLines
<1>3. ASSUME NEW lns \in Seq(Line), Elems(lns) \cap F = {}, Sends(v, lns), UNCHANGED sent
      PROVE  Done
  <2>1. toServer'[t] = toServer[t] \/ toServer'[t] = toServer[t] \o lns
    BY <1>0, <1>3 DEF Sends
  <2>2. Thins(toServer[t], toServer[t], F) /\ Thins(toServer[t] \o lns, toServer[t], F)
    BY <1>0, <1>3, ThinsTrivially, ThinsConcat
  <2> QED BY <1>3, <2>1, <2>2 DEF QuietLines, F
<1>4. ASSUME NEW l \in Line, l \notin F, Sends(v, <<l>>), UNCHANGED sent
      PROVE  Done
  <2>1. <<l>> \in Seq(Line) /\ Elems(<<l>>) = {l}
    BY <1>4, ElemsOfSingle
  <2> QED BY <1>3, <1>4, <2>1
<1>5. CASE Launch(v)
  <2> DEFINE l == [cmd |-> "text", to |-> Nick[v], key |-> v]
  <2>1. l \in Line /\ UsersLine \in Line
    BY LineType, TerminalAssumption, NamesType
  <2>2. l \notin F /\ UsersLine \notin F
    BY DEF F, EtellsOf, UsersLine
  <2>3. Sends(v, <<l, UsersLine>>) /\ UNCHANGED sent
    BY <1>5 DEF Launch, shownVars
  <2> HIDE DEF l
  <2>4. <<l, UsersLine>> \in Seq(Line) /\ Elems(<<l, UsersLine>>) = {l, UsersLine}
    BY <2>1 DEF Elems
  <2> QED BY <1>3, <2>2, <2>3, <2>4
<1>6. CASE SyncTicker(v) \/ PresenceNotice(v)
  <2>1. UsersLine \notin F /\ UsersLine \in Line
    BY LineType DEF UsersLine, F, EtellsOf
  <2>2. Sends(v, <<UsersLine>>) /\ UNCHANGED sent
    BY <1>6 DEF SyncTicker, PresenceNotice, tuiVars, shownVars
  <2> QED BY <1>4, <2>1, <2>2
<1>7. CASE Quit(v)
  <2>1. [cmd |-> "/quit"] \in Line /\ [cmd |-> "/quit"] \notin F
    BY LineType DEF F, EtellsOf
  <2>2. Sends(v, <<[cmd |-> "/quit"]>>) /\ UNCHANGED sent
    BY <1>7 DEF Quit
  <2> QED BY <1>4, <2>1, <2>2
<1>8. ASSUME NEW y \in Names, WhisperTo(v, y)
      PROVE  Done
  <2>1. CASE y = Nick[v]
    BY <1>2, <1>8, <2>1 DEF WhisperTo
  <2>2. CASE y # Nick[v] /\ peerKeys[v][y] # NoKey
    BY <1>8, <2>2, WhisperSeals, SealsAreLast
  <2>3. CASE y # Nick[v] /\ peerKeys[v][y] = NoKey
    <3> DEFINE l == [cmd |-> "/getkey", to |-> y]
    <3>1. l \in Line /\ l \notin F
      BY LineType DEF F, EtellsOf
    <3>2. Sends(v, <<l>>) /\ UNCHANGED sent
      BY <1>8, <2>3 DEF WhisperTo
    <3> HIDE DEF l
    <3> QED BY <1>4, <3>1, <3>2
  <2> QED BY <2>1, <2>2, <2>3
<1>9. ASSUME NEW e \in Typed[v], PassThrough(v, e)
      PROVE  Done
  <2>1. e \in Entry /\ e.cmd \notin {"/tell", "/quit"}
    BY <1>9, TerminalAssumption DEF PassThrough
  <2>2. PassedOn(v, e) \notin F
    <3>1. CASE e.cmd = "/plain"
      BY <3>1 DEF PassedOn, F, EtellsOf
    <3>2. CASE e.cmd = "/etell"
      BY <3>2 DEF PassedOn, EtellLine, EncryptMessage, F, EtellsOf
    <3>3. CASE e.cmd \notin {"/plain", "/etell"}
      BY <3>3 DEF PassedOn, F, EtellsOf
    <3> QED BY <3>1, <3>2, <3>3
  <2>3. PassedOn(v, e) \in Line
    BY <2>1, PassedOnType
  <2>4. Sends(v, <<PassedOn(v, e)>>) /\ UNCHANGED sent
    BY <1>9 DEF PassThrough
  <2> QED BY <1>4, <2>2, <2>3, <2>4
<1>10. CASE Die(v) \/ Disconnected(v) \/ EncryptedWhisper(v) \/ NoKeyLine(v) \/ UserList(v)
            \/ Relay(v) \/ Unregister(v)
  BY <1>2, <1>10 DEF Die, Disconnected, EncryptedWhisper, NoKeyLine, UserList, Relay,
                     Unregister, tuiVars, shownVars
<1>11. CASE KeyLine(v)
  <2>1. CASE Head(toTerm[v]).key = Garbled
    BY <1>2, <1>11, <2>1 DEF KeyLine
  <2>2. CASE Head(toTerm[v]).key # Garbled
    BY <1>11, <2>2, KeyLineKey, KeySeals, SealsAreLast
  <2> QED BY <2>1, <2>2
<1>12. CASE Register(v) \/ ListUsers(v) \/ GetKey(v) \/ PublishKey(v) \/ EncryptedTell(v)
            \/ Kick(v) \/ PlainLine(v)
  <2>1. PICK c : Reads(v, c)
    BY <1>12 DEF Register, ListUsers, GetKey, PublishKey, EncryptedTell, Kick, PlainLine,
                 ReadsCommand
  <2>2. toServer'[t] = toServer[t] \/ (toServer'[t] = Tail(toServer[t]) /\ toServer[t] # <<>>)
    BY <1>0, <2>1 DEF Reads
  <2>3. toServer[t] # <<>> => Thins(Tail(toServer[t]), toServer[t], F)
    BY <1>0, ThinsTail
  <2>4. UNCHANGED sent
    BY <2>1 DEF Reads, tuiVars, shownVars
  <2> QED BY <2>2, <2>3, <2>4, ThinsTrivially DEF QuietLines, F
<1>13. CASE Quits(v) \/ Eof(v) \/ Kicked(v)
  <2>1. toServer' = [toServer EXCEPT ![v] = <<>>] /\ UNCHANGED sent
    BY <1>13 DEF Quits, Eof, Kicked, Ends, tuiVars, shownVars
  <2>2. toServer'[t] = <<>> \/ toServer'[t] = toServer[t]
    BY <1>0, <2>1
  <2> QED BY <2>1, <2>2, ThinsTrivially DEF QuietLines
<1> QED
  BY <1>1, <1>5, <1>6, <1>7, <1>8, <1>9, <1>10, <1>11, <1>12, <1>13
  DEF User, ServerLine, Actor

-----------------------------------------------------------------------------
(* Every whisper keeps its place on the way.                                  *)

LEMMA WayInit == Init => WayInv
<1> SUFFICES ASSUME Init, NEW t \in Terminal, NEW u \in Terminal, NEW x \in Names
             PROVE  OnWay(toServer[t], inbox[u], toTerm[u], read[u], sent[t][x], t, x)
  BY DEF WayInv
<1>1. /\ toServer[t] = <<>> /\ inbox[u] = <<>> /\ toTerm[u] = <<>> /\ read[u] = <<>>
      /\ sent[t][x] = <<>>
  BY DEF Init
<1>2. ASSUME NEW F
      PROVE  Sorted(<<>>, F) /\ Nrs(<<>>, F) = {} /\ Genuine(<<>>, F, <<>>)
  BY ElemsOfNone DEF Sorted, Nrs, Genuine
<1>3. \A top : Ranked({}, {}, {}, {}, top)
  BY DEF Ranked, Before
<1>4. OnWay(<<>>, <<>>, <<>>, <<>>, <<>>, t, x)
  BY <1>2, <1>3 DEF OnWay
<1> QED BY <1>1, <1>4

LEMMA WayStep ==
  ASSUME SealInv, WhispersInOrder, WayInv, Next
  PROVE  WayInv'
<1> SUFFICES ASSUME NEW t \in Terminal, NEW u \in Terminal, NEW x \in Names
             PROVE  OnWay(toServer'[t], inbox'[u], toTerm'[u], read'[u], sent'[t][x], t, x)
  BY DEF WayInv
<1> USE DEF SealInv, TypeInv
<1>1. OnWay(toServer[t], inbox[u], toTerm[u], read[u], sent[t][x], t, x)
  BY DEF WayInv
<1>2. /\ toServer[t] \in Seq(Line) /\ inbox[u] \in Seq(Delivery \cup {KickClient})
      /\ toTerm[u] \in Seq(Delivery \cup Answer)
      /\ read[u] \in Seq([from : Names, seal : Seal])
  BY DEF TypeOK
<1>3. sent[t][x] \in Seq(Seal)
  BY QueueTypes
<1>4. CASE SealedStepOf(t, x)
  <2> DEFINE l == Head(toServer[t])
             m == [kind |-> "sealed", from |-> nick[t], seal |-> l.seal]
  <2>1. /\ Reads(t, "chatting") /\ l.cmd = "/etell" /\ conn[t] = "chatting"
        /\ UNCHANGED <<tuiVars, toTerm>> /\ toServer[t] # <<>> /\ l \in EtellsOf(t, x)
    BY <1>4 DEF SealedStepOf, EncryptedTell, ReadsCommand, Reads
  <2>2. l \in Line
    BY <2>1, ReadsType
  <2>3. l.seal \in Seal /\ nick[t] \in Names
    BY <2>1, <2>2, TypeOfLine DEF Named
  <2>4. m \in Delivery
    BY <2>3, DeliveryType
  <2>5. inbox'[u] = inbox[u] \/ inbox'[u] = Append(inbox[u], m)
    BY <1>4 DEF SealedStepOf, EncryptedTell, Delivered
  <2>6. m.seal = l.seal
    OBVIOUS
  <2>7. toServer'[t] = Tail(toServer[t])
    BY <2>1 DEF Reads, TypeOK
  <2>8. UNCHANGED <<toTerm, read, sent>>
    BY <2>1 DEF tuiVars, shownVars
  <2> HIDE DEF m
  <2>9. OnWay(Tail(toServer[t]), inbox'[u], toTerm[u], read[u], sent[t][x], t, x)
    BY <1>1, <1>2, <2>1, <2>4, <2>5, <2>6, PassToInbox
  <2> QED BY <2>7, <2>8, <2>9
<1>5. CASE RelayStepOf(u, t, x)
  <2>1. /\ inbox[u] # <<>> /\ Head(inbox[u]) \in SealedOf(t, x)
        /\ Writes(u, Head(inbox[u])) /\ inbox' = [inbox EXCEPT ![u] = Tail(@)]
        /\ UNCHANGED <<tuiVars, toServer>>
    BY <1>5 DEF RelayStepOf, Relay
  <2>2. toTerm'[u] = toTerm[u] \/ toTerm'[u] = Append(toTerm[u], Head(inbox[u]))
    BY <2>1 DEF Writes, TypeOK
  <2>3. inbox'[u] = Tail(inbox[u])
    BY <2>1 DEF TypeOK
  <2>4. UNCHANGED <<toServer, read, sent>>
    BY <2>1 DEF tuiVars, shownVars
  <2>5. OnWay(toServer[t], Tail(inbox[u]), toTerm'[u], read[u], sent[t][x], t, x)
    BY <1>1, <1>2, <2>1, <2>2, PassToScreen
  <2> QED BY <2>3, <2>4, <2>5
<1>6. CASE ShowStepOf(u, t, x)
  <2> DEFINE A == [from : Names, seal : Seal]
             m == Head(toTerm[u])
             w == [from |-> m.from, seal |-> m.seal]
  <2>1. Takes(u, "sealed") /\ m \in SealedOf(t, x)
    BY <1>6 DEF ShowStepOf, EncryptedWhisper
  <2>2. m \in Delivery \cup Answer /\ m.kind = "sealed"
    BY <2>1, TakesType
  <2>3. w \in A /\ w.seal = m.seal
    BY <2>2, TypeOfMessage
  <2>4. read' = read \/ read' = [read EXCEPT ![u] = Append(read[u], w)]
    BY <1>6 DEF ShowStepOf, EncryptedWhisper
  <2>5. /\ UNCHANGED <<toServer, inbox, sent>> /\ toTerm[u] # <<>>
        /\ toTerm' = [toTerm EXCEPT ![u] = Tail(@)]
    BY <1>6 DEF ShowStepOf, EncryptedWhisper, Takes, actorVars
  <2>6. toTerm'[u] = Tail(toTerm[u])
    BY <2>5 DEF TypeOK
  <2>7. read \in [Terminal -> Seq(A)] /\ read[u] \in Seq(A)
    BY DEF TypeOK
  <2> HIDE DEF w, A
  <2>8. read'[u] = read[u] \/ read'[u] = Append(read[u], w)
    BY <2>4, <2>7
  <2>9. OnWay(toServer[t], inbox[u], Tail(toTerm[u]), read'[u], sent[t][x], t, x)
    BY <1>1, <1>2, <2>1, <2>3, <2>5, <2>7, <2>8, PassToReader
  <2> QED BY <2>5, <2>6, <2>9
<1>7. CASE ~SealedStepOf(t, x) /\ ~RelayStepOf(u, t, x) /\ ~ShowStepOf(u, t, x)
  <2>1. /\ Thins(inbox'[u], inbox[u], SealedOf(t, x))
        /\ Thins(toTerm'[u], toTerm[u], SealedOf(t, x))
        /\ Nrs(read'[u], ReadOf(t, x)) \subseteq Nrs(read[u], ReadOf(t, x))
    BY <1>7, InboxQueue, ScreenQueue, ReadQueue
  <2>2. CASE QuietLines(t, x)
    BY <1>1, <2>1, <2>2, QuietKeepsWay DEF QuietLines
  <2>3. CASE NewLast(t, x)
    <3>1. PICK lns \in Seq(Line), r \in Seq(Seal) :
            /\ sent'[t][x] = sent[t][x] \o r
            /\ toServer'[t] = toServer[t] \/ toServer'[t] = toServer[t] \o lns
            /\ Sorted(lns, EtellsOf(t, x))
            /\ Genuine(lns, EtellsOf(t, x), sent[t][x] \o r)
            /\ \A k \in Nrs(lns, EtellsOf(t, x)) :
                 k \in Int /\ Len(sent[t][x]) < k /\ k <= Len(sent[t][x] \o r)
      BY <2>3 DEF NewLast
    <3>2. OnWay(toServer'[t], inbox[u], toTerm[u], read[u], sent'[t][x], t, x)
      BY <1>1, <1>2, <1>3, <3>1, NewAreLast
    <3> QED BY <2>1, <3>2, QuietKeepsWay, ThinsTrivially
  <2> QED BY <2>2, <2>3, LineQueue
<1> QED BY <1>4, <1>5, <1>6, <1>7

-----------------------------------------------------------------------------
(* The refinement.                                                            *)

KeysOf(s) == [i \in DOMAIN s |-> s[i].key]
ShownAs(w) == [by |-> w.seal.by, to |-> w.seal.to, nr |-> w.seal.nr]
ShownOf(r) == [i \in DOMAIN r |-> ShownAs(r[i])]

Sealed == [t \in Terminal |-> [x \in Names |-> KeysOf(sent[t][x])]]
Shown == [u \in Terminal |-> ShownOf(read[u])]

LEMMA MailIs ==
  /\ Mail!Init <=>
       /\ asked = [t \in Terminal |-> [x \in Names |-> 0]]
       /\ Sealed = [t \in Terminal |-> [x \in Names |-> <<>>]]
       /\ Shown = [u \in Terminal |-> <<>>]
  /\ Mail!vars = <<asked, Sealed, Shown>>
BY DEF Mail!Init, Mail!vars, Sealed, Shown, KeysOf, ShownOf, ShownAs

LEMMA SequenceIs ==
  ASSUME NEW A, NEW s \in Seq(A), NEW r, r = [i \in 1..Len(s) |-> r[i]],
         \A i \in 1..Len(s) : s[i] = r[i]
  PROVE  s = r
<1>1. s = [i \in 1..Len(s) |-> s[i]]
  OBVIOUS
<1> QED BY <1>1

LEMMA ConcatIs ==
  ASSUME NEW A, NEW f \in Seq(A), NEW g \in Seq(A)
  PROVE  /\ f \o g \in Seq(A) /\ Len(f \o g) = Len(f) + Len(g)
         /\ \A i \in 1..Len(f) : (f \o g)[i] = f[i]
         /\ \A i \in 1..(Len(f) + Len(g)) : i > Len(f) => (f \o g)[i] = g[i - Len(f)]
OBVIOUS

LEMMA UpdateIs ==
  ASSUME NEW D, NEW E, NEW f, NEW g,
         f = [c \in D |-> [d \in E |-> f[c][d]]], g = [c \in D |-> [d \in E |-> g[c][d]]],
         NEW a \in D, NEW b \in E,
         \A c \in D, d \in E : ~(c = a /\ d = b) => g[c][d] = f[c][d]
  PROVE  g = [f EXCEPT ![a][b] = g[a][b]]
OBVIOUS

Times(n, k) == [i \in 1..n |-> k]

LEMMA KeysOfConcat ==
  ASSUME NEW A, NEW s \in Seq(A), NEW r \in Seq(A), NEW k, \A i \in 1..Len(r) : r[i].key = k
  PROVE  /\ KeysOf(s \o r) = KeysOf(s) \o Times(Len(r), k)
         /\ Len(KeysOf(s)) = Len(s)
<1> USE DEF Times
<1> DEFINE f == KeysOf(s)
           g == Times(Len(r), k)
           c == s \o r
<1>1. /\ Len(s) \in Nat /\ Len(r) \in Nat /\ DOMAIN s = 1..Len(s)
      /\ DOMAIN c = 1..(Len(s) + Len(r))
      /\ \A i \in 1..Len(s) : c[i] = s[i]
      /\ \A i \in 1..(Len(s) + Len(r)) : i > Len(s) => c[i] = r[i - Len(s)]
  OBVIOUS
<1>2. f = [i \in 1..Len(s) |-> s[i].key]
  BY <1>1 DEF KeysOf
<1> DEFINE V == {s[i].key : i \in 1..Len(s)} \cup {k}
<1>3. f \in Seq(V) /\ Len(f) = Len(s) /\ g \in Seq(V) /\ Len(g) = Len(r)
  BY <1>1, <1>2
<1> HIDE DEF c
<1>4. KeysOf(c) = [i \in 1..(Len(s) + Len(r)) |-> c[i].key]
  BY <1>1 DEF KeysOf
<1>5. ASSUME NEW i \in 1..(Len(s) + Len(r))
      PROVE  c[i].key = IF i <= Len(s) THEN f[i] ELSE g[i - Len(s)]
  <2>1. CASE i <= Len(s)
    <3>1. i \in 1..Len(s) /\ c[i] = s[i]
      BY <1>1, <2>1
    <3> QED BY <1>2, <2>1, <3>1
  <2>2. CASE ~(i <= Len(s))
    <3>1. i - Len(s) \in 1..Len(r) /\ c[i] = r[i - Len(s)]
      BY <1>1, <2>2
    <3> QED BY <2>2, <3>1
  <2> QED BY <2>1, <2>2
<1> HIDE DEF f, g, V
<1>9. /\ f \o g \in Seq(V) /\ Len(f \o g) = Len(f) + Len(g)
      /\ \A i \in 1..Len(f) : (f \o g)[i] = f[i]
      /\ \A i \in 1..(Len(f) + Len(g)) : i > Len(f) => (f \o g)[i] = g[i - Len(f)]
  <2>1. /\ \A i \in 1..Len(f) : (f \o g)[i] = f[i]
        /\ f \o g \in Seq(V) /\ Len(f \o g) = Len(f) + Len(g)
    BY ONLY <1>3, ConcatIs
  <2>2. \A i \in 1..(Len(f) + Len(g)) : i > Len(f) => (f \o g)[i] = g[i - Len(f)]
    BY ONLY <1>3, ConcatIs
  <2> QED BY ONLY <2>1, <2>2
<1>6. /\ f \o g \in Seq(V) /\ Len(f \o g) = Len(s) + Len(r)
      /\ \A i \in 1..(Len(s) + Len(r)) :
           (f \o g)[i] = IF i <= Len(s) THEN f[i] ELSE g[i - Len(s)]
  BY <1>1, <1>3, <1>9
<1> DEFINE q == f \o g
           h == KeysOf(c)
<1>7. /\ q \in Seq(V) /\ h = [i \in 1..Len(q) |-> h[i]]
      /\ \A i \in 1..Len(q) : q[i] = h[i]
  BY <1>4, <1>5, <1>6
<1> HIDE DEF q, h
<1>8. q = h
  BY <1>7, SequenceIs
<1> QED BY <1>3, <1>8 DEF c, f, g, q, h

LEMMA ShownOfAppend ==
  ASSUME NEW A, NEW r \in Seq(A), NEW w \in A
  PROVE  ShownOf(Append(r, w)) = Append(ShownOf(r), ShownAs(w))
<1> DEFINE a == Append(r, w)
           V == {ShownAs(r[i]) : i \in 1..Len(r)} \cup {ShownAs(w)}
<1>1. /\ Len(r) \in Nat /\ DOMAIN r = 1..Len(r) /\ DOMAIN a = 1..(Len(r) + 1)
      /\ a[Len(r) + 1] = w /\ \A i \in 1..Len(r) : a[i] = r[i]
  OBVIOUS
<1>2. ShownOf(r) = [i \in 1..Len(r) |-> ShownAs(r[i])]
  BY <1>1 DEF ShownOf
<1>3. ShownOf(r) \in Seq(V) /\ Len(ShownOf(r)) = Len(r) /\ ShownAs(w) \in V
  BY <1>1, <1>2
<1> HIDE DEF a, V
<1>4. ShownOf(a) = [i \in 1..(Len(r) + 1) |-> ShownAs(a[i])]
  BY <1>1 DEF ShownOf
<1> DEFINE q == Append(ShownOf(r), ShownAs(w))
           h == ShownOf(a)
<1>5. /\ q \in Seq(V) /\ Len(q) = Len(r) + 1 /\ q[Len(r) + 1] = ShownAs(w)
      /\ \A i \in 1..Len(r) : q[i] = ShownOf(r)[i]
  BY <1>1, <1>3
<1> HIDE DEF q
<1>6. /\ h = [i \in 1..Len(q) |-> h[i]]
      /\ \A i \in 1..Len(q) : q[i] = h[i]
  BY <1>1, <1>2, <1>4, <1>5
<1> HIDE DEF h
<1>7. q = h
  BY <1>5, <1>6, SequenceIs
<1> QED BY <1>7 DEF a, q, h

(* Sealing is sealing all that waits.                                         *)
LEMMA SealsIsSealAll ==
  ASSUME TypeOK, NEW t \in Terminal, NEW x \in Names, NEW k,
         NEW r, SealsNow(t, x, r), \A i \in 1..Len(r) : r[i].key = k,
         Len(r) = asked'[t][x] - Len(sent[t][x]), UNCHANGED read
  PROVE  Mail!SealAll(t, x, k)
<1>1. r \in Seq(Seal) /\ sent' = [sent EXCEPT ![t][x] = sent[t][x] \o r]
  BY DEF SealsNow, NextOnes
<1>2. sent[t][x] \in Seq(Seal)
  BY QueueTypes
<1>3. /\ KeysOf(sent[t][x] \o r) = KeysOf(sent[t][x]) \o Times(Len(r), k)
      /\ Len(KeysOf(sent[t][x])) = Len(sent[t][x])
  <2> DEFINE q == sent[t][x]
  <2>1. q \in Seq(Seal) /\ r \in Seq(Seal) /\ \A i \in 1..Len(r) : r[i].key = k
    BY <1>1, <1>2
  <2> HIDE DEF q
  <2>2. KeysOf(q \o r) = KeysOf(q) \o Times(Len(r), k) /\ Len(KeysOf(q)) = Len(q)
    BY ONLY <2>1, KeysOfConcat
  <2> QED BY <2>2 DEF q
<1>4. Sealed' = [Sealed EXCEPT ![t][x] = KeysOf(sent[t][x] \o r)]
  <2>1. /\ sent'[t][x] = sent[t][x] \o r
        /\ \A v \in Terminal, y \in Names : ~(v = t /\ y = x) => sent'[v][y] = sent[v][y]
    BY <1>1 DEF TypeOK
  <2>2. /\ Sealed'[t][x] = KeysOf(sent[t][x] \o r)
        /\ \A v \in Terminal, y \in Names :
             ~(v = t /\ y = x) => Sealed'[v][y] = Sealed[v][y]
    BY <2>1 DEF Sealed
  <2>3. /\ Sealed = [v \in Terminal |-> [y \in Names |-> Sealed[v][y]]]
        /\ Sealed' = [v \in Terminal |-> [y \in Names |-> Sealed'[v][y]]]
    BY DEF Sealed
  <2>4. Sealed' = [Sealed EXCEPT ![t][x] = Sealed'[t][x]]
    BY <2>2, <2>3, UpdateIs
  <2> QED BY <2>2, <2>4
<1>5. Sealed[t][x] = KeysOf(sent[t][x])
  BY DEF Sealed
<1>6. Sealed' = [Sealed EXCEPT ![t][x] =
                   @ \o [i \in 1..(asked'[t][x] - Len(@)) |-> k]]
  BY <1>3, <1>4, <1>5 DEF Times
<1>7. UNCHANGED Shown
  BY DEF Shown
<1> QED BY <1>6, <1>7 DEF Mail!SealAll, Sealed, Shown, KeysOf, ShownOf, ShownAs

LEMMA ReadingShows ==
  ASSUME NEW u \in Terminal, NEW A, read \in [Terminal -> Seq(A)], NEW w \in A,
         read' = [read EXCEPT ![u] = Append(read[u], w)]
  PROVE  Shown' = [Shown EXCEPT ![u] = Append(@, ShownAs(w))]
<1>1. ShownOf(Append(read[u], w)) = Append(ShownOf(read[u]), ShownAs(w))
  BY ShownOfAppend
<1>2. read'[u] = Append(read[u], w) /\ \A v \in Terminal : v # u => read'[v] = read[v]
  OBVIOUS
<1>3. Shown' = [Shown EXCEPT ![u] = Append(ShownOf(read[u]), ShownAs(w))]
  BY <1>1, <1>2 DEF Shown
<1> QED BY <1>3 DEF Shown

(* Showing is opening, in order; what was typed by hand is shown as it comes. *)
LEMMA ShowingOpens ==
  ASSUME SealInv, WayInv, NEW u \in Terminal, EncryptedWhisper(u)
  PROVE  UNCHANGED read \/ Mail!Next
<1> USE DEF SealInv, TypeInv
<1> DEFINE A == [from : Names, seal : Seal]
           m == Head(toTerm[u])
           w == [from |-> m.from, seal |-> m.seal]
<1>1. Takes(u, "sealed") /\ toTerm[u] # <<>> /\ UNCHANGED <<asked, sent>>
  BY DEF EncryptedWhisper, Takes
<1>2. m \in Delivery \cup Answer /\ m.kind = "sealed"
  BY <1>1, TakesType
<1>3. m.seal \in Seal /\ m.from \in Names
  BY <1>2, TypeOfMessage
<1>4. PICK t \in Terminal, x \in Names, nr \in Nat :
        m.seal.by = t /\ m.seal.to = x /\ m.seal.nr = nr
  BY <1>3 DEF Seal
<1>7. w \in A /\ w.seal = m.seal
  BY <1>3
<1>8. ASSUME m.seal.key = u, nr = 0
      PROVE  Mail!Next
  <2>1. read' = [read EXCEPT ![u] = Append(read[u], w)]
    BY <1>8 DEF EncryptedWhisper, Decrypts
  <2>2. read \in [Terminal -> Seq(A)]
    BY DEF TypeOK
  <2>3. ShownAs(w) = [by |-> t, to |-> x, nr |-> 0]
    BY <1>4, <1>7, <1>8 DEF ShownAs
  <2> HIDE DEF m, A, w
  <2>4. Shown' = [Shown EXCEPT ![u] = Append(@, [by |-> t, to |-> x, nr |-> 0])]
    BY <1>7, <2>1, <2>2, <2>3, ReadingShows
  <2>5. Mail!OpenOther(u, t, x)
    BY <1>1, <2>4
    DEF Mail!OpenOther, Sealed, Shown, KeysOf, ShownOf, ShownAs
  <2> QED BY <2>5 DEF Mail!Next
<1>5. CASE m.seal.key # u
  BY <1>5 DEF EncryptedWhisper, Decrypts
<1>6. CASE m.seal.key = u
  <2>0. SUFFICES ASSUME nr # 0 PROVE Mail!Next
    BY <1>6, <1>8
  <2>1. read' = [read EXCEPT ![u] = Append(read[u], w)]
    BY <1>6 DEF EncryptedWhisper, Decrypts
  <2>2. read \in [Terminal -> Seq(A)] /\ toTerm[u] \in Seq(Delivery \cup Answer)
    BY DEF TypeOK
  <2>3. m \in SealedOf(t, x)
    BY <1>2, <1>4, <2>0 DEF SealedOf
  <2>4. m \in Elems(toTerm[u])
    BY <1>1, <2>2, ElemsOfTail
  <2> DEFINE G == SealedOf(t, x)
             H == ReadOf(t, x)
  <2> HIDE DEF m, A, w, G, H
  <2>5. Genuine(toTerm[u], G, sent[t][x]) /\ Before(Nrs(read[u], H), Nrs(toTerm[u], G))
    BY DEF WayInv, OnWay, Ranked, G, H
  <2>6. m \in Elems(toTerm[u]) \cap G
    BY <2>3, <2>4 DEF G
  <2>7. nr \in DOMAIN sent[t][x] /\ sent[t][x][nr] = m.seal
    BY <1>4, <2>5, <2>6 DEF Genuine
  <2>8. nr \in Nrs(toTerm[u], G)
    BY <1>4, <2>6 DEF Nrs
  <2>9. ASSUME NEW i \in DOMAIN read[u], ShownAs(read[u][i]).by = t, ShownAs(read[u][i]).to = x
        PROVE  ShownAs(read[u][i]).nr < nr
    <3>1. read[u][i] \in A
      BY <2>2, ElemsIn
    <3>2. read[u][i].seal.by = t /\ read[u][i].seal.to = x
          /\ ShownAs(read[u][i]).nr = read[u][i].seal.nr
      BY <2>9 DEF ShownAs
    <3>3. CASE read[u][i].seal.nr = 0
      BY <2>0, <3>2, <3>3
    <3>4. CASE read[u][i].seal.nr # 0
      <4>1. read[u][i] \in H
        BY <3>1, <3>2, <3>4 DEF H, A, ReadOf
      <4>2. read[u][i].seal.nr \in Nrs(read[u], H)
        BY <4>1 DEF Nrs, Elems
      <4> QED BY <2>5, <2>8, <3>2, <4>2 DEF Before
    <3> QED BY <3>3, <3>4
  <2>10. Sealed[t][x] = KeysOf(sent[t][x]) /\ Shown[u] = ShownOf(read[u])
    BY DEF Sealed, Shown
  <2>11. nr \in DOMAIN Sealed[t][x] /\ Sealed[t][x][nr] = u
    BY <1>6, <2>7, <2>10 DEF KeysOf
  <2>12. \A i \in DOMAIN Shown[u] :
           Shown[u][i].by = t /\ Shown[u][i].to = x => Shown[u][i].nr < nr
    BY <2>9, <2>10 DEF ShownOf
  <2>14. ShownAs(w) = [by |-> t, to |-> x, nr |-> nr]
    BY <1>4, <1>7 DEF ShownAs
  <2>15. Shown' = [Shown EXCEPT ![u] = Append(@, [by |-> t, to |-> x, nr |-> nr])]
    BY <1>7, <2>1, <2>2, <2>14, ReadingShows
  <2>16. UNCHANGED <<asked, Sealed>>
    BY <1>1 DEF Sealed
  <2>17. Mail!Open(u, t, x, nr)
    BY <2>11, <2>12, <2>15, <2>16
    DEF Mail!Open, Sealed, Shown, KeysOf, ShownOf, ShownAs
  <2>18. \E i \in DOMAIN Sealed[t][x] : Mail!Open(u, t, x, i)
    BY <2>11, <2>17
  <2> QED BY <2>18 DEF Mail!Next, Sealed, KeysOf
<1> QED BY <1>5, <1>6

LEMMA StepImplementsMail ==
  ASSUME SealInv, WhispersInOrder, WayInv, [Next]_vars
  PROVE  [Mail!Next]_(Mail!vars)
<1> USE DEF SealInv, TypeInv
<1>1. UNCHANGED <<asked, sent, read>> => UNCHANGED Mail!vars
  BY DEF Mail!vars
<1>2. CASE UNCHANGED vars
  BY <1>1, <1>2 DEF vars, tuiVars, shownVars
<1>3. CASE \E u \in Terminal : Next /\ EncryptedWhisper(u)
  <2>1. PICK u \in Terminal : EncryptedWhisper(u)
    BY <1>3
  <2>2. UNCHANGED <<asked, sent>>
    BY <2>1 DEF EncryptedWhisper, Takes
  <2> QED BY <1>1, <2>1, <2>2, ShowingOpens
<1>4. CASE \E t \in Terminal, x \in Names : Next /\ WhisperTo(t, x)
  <2>1. PICK t \in Terminal, x \in Names : WhisperTo(t, x)
    BY <1>4
  <2>2. UNCHANGED read
    BY <2>1 DEF WhisperTo, Enters
  <2>3. CASE x = Nick[t]
    BY <1>1, <2>1, <2>2, <2>3 DEF WhisperTo
  <2>4. CASE x # Nick[t] /\ peerKeys[t][x] # NoKey
    <3>1. asked' = [asked EXCEPT ![t][x] = @ + 1]
      BY <2>1, <2>4, WhisperSeals
    <3>2. PICK k \in Keys :
            SealsNow(t, x, <<EncryptMessage(t, x, Len(sent[t][x]) + 1, k)>>)
      BY <2>1, <2>4, WhisperSeals
    <3> DEFINE n == Len(sent[t][x])
               r == <<EncryptMessage(t, x, n + 1, k)>>
    <3>3. n \in Nat /\ pending[t][x] = <<>> /\ n + Len(pending[t][x]) = asked[t][x]
      BY <2>4, QueueTypes DEF WhispersInOrder
    <3>4. asked'[t][x] = n + 1
      <4>1. asked'[t][x] = asked[t][x] + 1
        BY <3>1 DEF TypeOK
      <4>2. Len(pending[t][x]) = 0
        BY <3>3
      <4> QED BY <3>3, <4>1, <4>2
    <3>5. Len(r) = 1 /\ \A i \in 1..Len(r) : r[i].key = k
      BY DEF EncryptMessage
    <3>6. Len(r) = asked'[t][x] - n
      BY <3>3, <3>4, <3>5
    <3> HIDE DEF r
    <3>7. SealsNow(t, x, r)
      BY <3>2 DEF r
    <3>8. Mail!SealAll(t, x, k)
      BY <2>2, <3>5, <3>6, <3>7, SealsIsSealAll
    <3>9. Mail!Enter(t, x)
      BY <3>1 DEF Mail!Enter
    <3> QED BY <3>8, <3>9 DEF Mail!Next
  <2>5. CASE x # Nick[t] /\ peerKeys[t][x] = NoKey
    <3>1. asked' = [asked EXCEPT ![t][x] = @ + 1] /\ UNCHANGED sent
      BY <2>1, <2>5 DEF WhisperTo
    <3>2. Mail!Queue(t, x)
      BY <2>2, <3>1 DEF Mail!Queue, Mail!Enter
    <3> QED BY <3>2 DEF Mail!Next
  <2> QED BY <2>3, <2>4, <2>5
<1>5. CASE \E t \in Terminal : Next /\ KeyLine(t) /\ Head(toTerm[t]).key # Garbled
  <2>1. PICK t \in Terminal : KeyLine(t) /\ Head(toTerm[t]).key # Garbled
    BY <1>5
  <2>2. PICK x \in Names, k \in Keys : x = Head(toTerm[t]).of /\ k = Head(toTerm[t]).key
    BY <2>1, KeyLineKey
  <2> DEFINE r == Flushed(t, x, k)
  <2>3. /\ SealsNow(t, x, r) /\ Len(r) = asked[t][x] - Len(sent[t][x])
        /\ \A i \in 1..Len(r) : r[i].key = k
        /\ asked' = asked
    BY <2>1, <2>2, KeySeals
  <2>4. UNCHANGED read
    BY <2>1 DEF KeyLine
  <2> HIDE DEF r
  <2>5. Mail!SealAll(t, x, k)
    BY <2>3, <2>4, SealsIsSealAll
  <2> QED BY <2>3, <2>5 DEF Mail!Next
<1>6. CASE /\ Next
           /\ \A t \in Terminal : ~EncryptedWhisper(t)
           /\ \A t \in Terminal, x \in Names : ~WhisperTo(t, x)
           /\ \A t \in Terminal : ~(KeyLine(t) /\ Head(toTerm[t]).key # Garbled)
  <2>1. UNCHANGED queueVars /\ UNCHANGED read
    BY <1>6, QueueFrame, ReadFrame
  <2> QED BY <1>1, <2>1 DEF queueVars
<1> QED BY <1>2, <1>3, <1>4, <1>5, <1>6

(* The terminals keep the promise of SealedMail, whatever the users enter,    *)
(* however the answers and the whispers of others cross, and whoever takes    *)
(* over a name: a whisper waits until a key is known, all that wait are       *)
(* sealed in order, and the owner of that key alone reads them, once and in   *)
(* that order.                                                                *)
THEOREM ImplementsMail == Spec => ImplementsSealedMail
<1>1. Init => Mail!Init
  <2> SUFFICES ASSUME Init PROVE Mail!Init
    OBVIOUS
  <2>1. /\ \A t \in Terminal, x \in Names : sent[t][x] = <<>>
        /\ \A u \in Terminal : read[u] = <<>>
    BY DEF Init
  <2>2. KeysOf(<<>>) = <<>> /\ ShownOf(<<>>) = <<>>
    BY DEF KeysOf, ShownOf
  <2>3. Sealed = [t \in Terminal |-> [x \in Names |-> <<>>]]
    BY <2>1, <2>2 DEF Sealed
  <2>4. Shown = [u \in Terminal |-> <<>>]
    BY <2>1, <2>2 DEF Shown
  <2> QED BY <2>3, <2>4, MailIs DEF Init
<1>2. Init => WayInv
  BY WayInit
<1>3. SealInv /\ WhispersInOrder /\ WayInv /\ [Next]_vars => WayInv'
  <2> SUFFICES ASSUME SealInv, WhispersInOrder, WayInv, [Next]_vars PROVE WayInv'
    OBVIOUS
  <2>1. CASE UNCHANGED vars
    BY <2>1 DEF WayInv, vars, tuiVars, shownVars, actorVars
  <2> QED BY <2>1, WayStep
<1>4. SealInv /\ WhispersInOrder /\ WayInv /\ [Next]_vars => [Mail!Next]_(Mail!vars)
  BY StepImplementsMail
<1> QED
  BY <1>1, <1>2, <1>3, <1>4, SealInit, SealStep, QueueCorrect, PTL
  DEF Spec, ImplementsSealedMail, Mail!Spec

====
