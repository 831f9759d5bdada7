--------------------------- MODULE Parsers_proofs ---------------------------
(***************************************************************************)
(* What the agent reads out of the output of traceroute and birdc and of   *)
(* the WireGuard and BIRD directories, against what was put there: for     *)
(* lines, files and peerings of any number.                                *)
(*                                                                         *)
(* The parsers are loops, modelled by recursive functions of the number of *)
(* lines read.  Such a function is first shown to be well defined, then    *)
(* the loop invariant is shown by induction.                               *)
(***************************************************************************)
EXTENDS NetworkTarget, ImportPeers, BirdOutput, TLAPS, WellFoundedInduction

-----------------------------------------------------------------------------
(* Induction. *)

(* Every set of naturals has a least member. *)
LEMMA LeastNat ==
  ASSUME NEW S \in SUBSET Nat, S # {}
  PROVE  \E n \in S : \A m \in S : n <= m
<1> DEFINE R == {ss \in Nat \X Nat : ss[1] < ss[2]}
<1>1. IsWellFoundedOn(R, Nat)
  BY NatLessThanWellFounded DEF OpToRel
<1> HIDE DEF R
<1>2. PICK x \in S : \A y \in S : ~(<<y, x>> \in R)
  BY <1>1, WFMin, Zenon
<1>3. \A y \in S : ~(y < x)
  BY <1>2, Zenon DEF R
<1> QED
  BY <1>2, <1>3

(* Induction on the naturals, for a set instead of a predicate. *)
LEMMA Induct ==
  ASSUME NEW S \in SUBSET Nat, 0 \in S, \A n \in S : n + 1 \in S
  PROVE  S = Nat
<1> SUFFICES ASSUME Nat \ S # {} PROVE FALSE
  BY Zenon
<1>1. PICK n \in Nat \ S : \A m \in Nat \ S : n <= m
  BY LeastNat, Zenon
<1>2. n # 0
  OBVIOUS
<1>3. n - 1 \in S
  BY <1>1, <1>2
<1> QED
  BY <1>3

(* The same up to N: the form in which the loops below use it. *)
LEMMA InductTo ==
  ASSUME NEW N \in Nat, NEW S \in SUBSET (0 .. N), 0 \in S,
         \A n \in 1 .. N : n - 1 \in S => n \in S
  PROVE  S = 0 .. N
<1> DEFINE T == {n \in Nat : n <= N => n \in S}
<1>1. 0 \in T
  OBVIOUS
<1>2. ASSUME NEW n \in T PROVE n + 1 \in T
  <2>1. n + 1 <= N => n + 1 \in 1 .. N /\ n \in S /\ (n + 1) - 1 = n
    OBVIOUS
  <2> QED
    BY <2>1
<1> HIDE DEF T
<1>3. T = Nat
  <2>1. T \in SUBSET Nat
    BY DEF T
  <2> QED
    BY <1>1, <1>2, <2>1, Induct
<1>4. ASSUME NEW n \in 0 .. N PROVE n \in S
  <2>1. n \in T /\ n <= N
    BY <1>3
  <2> QED
    BY <2>1 DEF T
<1> QED
  BY <1>4, Zenon

(* A bounded set of naturals has a greatest member. *)
LEMMA MaxIs ==
  ASSUME NEW S \in SUBSET Nat, NEW N \in Nat, \A x \in S : x <= N, S # {}
  PROVE  Max(S) \in S /\ \A y \in S : y <= Max(S)
<1> DEFINE D == {N - x : x \in S}
<1>1. D \in SUBSET Nat /\ D # {}
  OBVIOUS
<1>2. PICK d \in D : \A e \in D : d <= e
  BY <1>1, LeastNat, Zenon
<1>3. PICK x \in S : d = N - x
  BY <1>2
<1>4. ASSUME NEW y \in S PROVE x >= y
  <2>1. N - y \in D /\ x \in Nat /\ y \in Nat
    OBVIOUS
  <2>2. N - x <= N - y
    BY <1>2, <1>3, <2>1
  <2> QED
    BY <2>1, <2>2
<1> HIDE DEF D
<1>5. Max(S) \in S /\ \A y \in S : Max(S) >= y
  BY <1>4, Zenon DEF Max
<1> QED
  BY <1>5

(* It has only one. *)
LEMMA MaxUnique ==
  ASSUME NEW S \in SUBSET Nat, NEW m \in S, \A y \in S : y <= m
  PROVE  Max(S) = m
<1>1. Max(S) \in S /\ \A y \in S : y <= Max(S)
  <2>1. m \in Nat
    OBVIOUS
  <2> QED
    BY <2>1, MaxIs
<1>2. Max(S) \in Nat /\ m \in Nat /\ m <= Max(S) /\ Max(S) <= m
  BY <1>1, Zenon
<1> QED
  BY <1>2


-----------------------------------------------------------------------------
(* Loops. *)

(* A step takes the n-th of N inputs and a state to the next state. *)
Steps(V, N) == [(1 .. N) \X V -> V]

(* h is the run of states that the loop goes through. *)
Running(h, base, step, N) ==
  h[0] = base /\ \A n \in 1 .. N : h[n] = step[<<n, h[n - 1]>>]

(* A loop has a run, however many inputs there are: the recursive function *)
(* of its model is well defined.                                           *)
LEMMA Run ==
  ASSUME NEW V, NEW base \in V, NEW N \in Nat, NEW step \in Steps(V, N)
  PROVE  \E h \in [0 .. N -> V] : Running(h, base, step, N)
<1> DEFINE S == {n \in 0 .. N : \E h \in [0 .. n -> V] : Running(h, base, step, n)}
<1>1. 0 \in S
  <2> DEFINE h == [n \in 0 .. 0 |-> base]
  <2>1. h \in [0 .. 0 -> V] /\ Running(h, base, step, 0) /\ 0 \in 0 .. N
    BY DEF Running
  <2> HIDE DEF h
  <2> QED
    BY <2>1
<1>2. ASSUME NEW n \in 1 .. N, n - 1 \in S PROVE n \in S
  <2>1. PICK h \in [0 .. n - 1 -> V] : Running(h, base, step, n - 1)
    BY <1>2
  <2> DEFINE g == [k \in 0 .. n |-> IF k = n THEN step[<<n, h[n - 1]>>] ELSE h[k]]
  <2>2. step[<<n, h[n - 1]>>] \in V
    <3>1. h[n - 1] \in V
      OBVIOUS
    <3> QED
      BY <3>1 DEF Steps
  <2>3. g \in [0 .. n -> V] /\ n \in 0 .. N
    BY <2>2
  <2>4. \A k \in 0 .. n - 1 : g[k] = h[k]
    OBVIOUS
  <2>5. g[n] = step[<<n, h[n - 1]>>] /\ g[0] = h[0] /\ g[n - 1] = h[n - 1]
    OBVIOUS
  <2> HIDE DEF g
  <2>6. ASSUME NEW k \in 1 .. n PROVE g[k] = step[<<k, g[k - 1]>>]
    <3>1. CASE k = n
      BY <2>5, <3>1
    <3>2. CASE k # n
      <4>1. k \in 1 .. n - 1 /\ k \in 0 .. n - 1 /\ k - 1 \in 0 .. n - 1
        BY <3>2
      <4> QED
        BY <2>1, <2>4, <4>1 DEF Running
    <3> QED
      BY <3>1, <3>2
  <2>7. Running(g, base, step, n)
    BY <2>1, <2>5, <2>6 DEF Running
  <2> QED
    BY <2>3, <2>7
<1> HIDE DEF S
<1>3. S = 0 .. N
  <2>1. S \in SUBSET (0 .. N)
    BY DEF S
  <2> QED
    BY <1>1, <1>2, <2>1, InductTo
<1>4. N \in S
  BY <1>3
<1> QED
  BY <1>4 DEF S

(* All its states are of the type that the step preserves. *)
LEMMA Typed ==
  ASSUME NEW V, NEW N \in Nat, NEW h, h[0] \in V,
         \A n \in 1 .. N : h[n - 1] \in V => h[n] \in V
  PROVE  \A n \in 0 .. N : h[n] \in V
<1> DEFINE S == {n \in 0 .. N : h[n] \in V}
<1>1. 0 \in S /\ S \in SUBSET (0 .. N)
  OBVIOUS
<1>2. ASSUME NEW n \in 1 .. N, n - 1 \in S PROVE n \in S
  BY <1>2
<1> HIDE DEF S
<1>3. S = 0 .. N
  BY <1>1, <1>2, InductTo
<1> QED
  BY <1>3 DEF S

(* What a sequence is made of. *)
LEMMA Elements ==
  ASSUME NEW T, NEW s \in Seq(T)
  PROVE  Len(s) \in Nat /\ DOMAIN s = 1 .. Len(s) /\ \A n \in 1 .. Len(s) : s[n] \in T
OBVIOUS

(* Concatenation. *)
LEMMA Concat ==
  ASSUME NEW T, NEW s \in Seq(T), NEW t \in Seq(T)
  PROVE  /\ <<>> \o t = t
         /\ s \o t \in Seq(T)
         /\ Len(s \o t) = Len(s) + Len(t)
         /\ \A k \in 1 .. Len(s) : (s \o t)[k] = s[k]
         /\ \A k \in 1 .. Len(t) : (s \o t)[Len(s) + k] = t[k]
OBVIOUS

(* Sequences are equal element by element. *)
LEMMA SeqEqual ==
  ASSUME NEW T, NEW s \in Seq(T), NEW t \in Seq(T), Len(s) = Len(t),
         \A i \in 1 .. Len(s) : s[i] = t[i]
  PROVE  s = t
OBVIOUS

(* at[i] is the length of the first i sequences: where the next one starts *)
(* in all of them, one after the other.                                    *)
Pieces(at, seqs, all) ==
  /\ at \in [0 .. Len(seqs) -> Nat]
  /\ at[0] = 0 /\ at[Len(seqs)] = Len(all)
  /\ \A i \in 1 .. Len(seqs) :
       /\ at[i] = at[i - 1] + Len(seqs[i])
       /\ \A k \in 1 .. Len(seqs[i]) :
            at[i - 1] + k \in 1 .. Len(all) /\ all[at[i - 1] + k] = seqs[i][k]

JoinRun(h, seqs) ==
  h[0] = <<>> /\ \A n \in 1 .. Len(seqs) : h[n] = h[n - 1] \o seqs[n]

(* The loop over the texts. *)
LEMMA JoinScan ==
  ASSUME NEW T, NEW seqs \in Seq(Seq(T))
  PROVE  \E h \in [0 .. Len(seqs) -> Seq(T)] :
           JoinRun(h, seqs) /\ Joined(seqs) = h[Len(seqs)]
<1> DEFINE N == Len(seqs)
           V == Seq(T)
           step == [p \in (1 .. N) \X V |-> p[2] \o seqs[p[1]]]
           Loop(f) == f = [n \in 0 .. N |->
                             IF n = 0 THEN <<>> ELSE f[n - 1] \o seqs[n]]
           h == CHOOSE f : Loop(f)
<1>1. N \in Nat /\ \A n \in 1 .. N : seqs[n] \in Seq(T)
  BY Elements, Zenon
<1>2. <<>> \in V /\ \A n \in 1 .. N : \A v \in V : v \o seqs[n] \in V
  BY <1>1
<1>3. Joined(seqs) = h[N]
  BY Zenon DEF Joined
<1> HIDE DEF V, N
<1>4. /\ step \in Steps(V, N)
      /\ \A n \in 1 .. N : \A v \in V : step[<<n, v>>] = v \o seqs[n]
  BY <1>2, Zenon DEF Steps
<1> HIDE DEF step
<1>5. PICK g \in [0 .. N -> V] : Running(g, <<>>, step, N)
  BY <1>1, <1>2, <1>4, Run
<1> HIDE DEF h
<1>6. Loop(g)
  <2>1. ASSUME NEW n \in 0 .. N
        PROVE  g[n] = IF n = 0 THEN <<>> ELSE g[n - 1] \o seqs[n]
    <3>1. CASE n = 0
      BY <1>5, <3>1 DEF Running
    <3>2. CASE n # 0
      <4>1. n \in 1 .. N /\ g[n - 1] \in V
        BY <1>1, <3>2
      <4> QED
        BY <1>4, <1>5, <3>2, <4>1, Zenon DEF Running
    <3> QED
      BY <3>1, <3>2, Zenon
  <2> QED
    BY <2>1, Zenon
<1>7. Loop(h)
  <2> HIDE DEF Loop
  <2> QED
    BY <1>6, Zenon DEF h
<1>8. \A n \in 0 .. N : h[n] = IF n = 0 THEN <<>> ELSE h[n - 1] \o seqs[n]
  BY <1>7, Zenon
<1>9. h = [n \in 0 .. N |-> h[n]]
  BY <1>7, Zenon
<1>10. h[0] = <<>>
  BY <1>1, <1>8
<1>11. ASSUME NEW n \in 1 .. N PROVE h[n] = h[n - 1] \o seqs[n]
  <2>1. n \in 0 .. N /\ n # 0
    BY <1>1
  <2> QED
    BY <1>8, <2>1, Zenon
<1>12. \A n \in 0 .. N : h[n] \in V
  <2>1. h[0] \in V
    BY <1>2, <1>10
  <2>2. ASSUME NEW n \in 1 .. N, h[n - 1] \in V PROVE h[n] \in V
    BY <1>2, <1>11, <2>2, Zenon
  <2> QED
    BY <1>1, <2>1, <2>2, Typed, Zenon
<1>13. h \in [0 .. N -> V]
  BY <1>9, <1>12, Zenon
<1> QED
  BY <1>3, <1>10, <1>11, <1>13, Zenon DEF N, V, JoinRun

(* Joined puts the texts one after the other. *)
LEMMA Joins ==
  ASSUME NEW T, NEW seqs \in Seq(Seq(T))
  PROVE  /\ Joined(seqs) \in Seq(T)
         /\ \E at : Pieces(at, seqs, Joined(seqs))
<1> DEFINE L == Len(seqs)
<1>1. L \in Nat /\ DOMAIN seqs = 1 .. L /\ \A i \in 1 .. L : seqs[i] \in Seq(T)
  OBVIOUS
<1>3. PICK g \in [0 .. L -> Seq(T)] : JoinRun(g, seqs) /\ Joined(seqs) = g[L]
  BY JoinScan
<1>4. \A n \in 1 .. L : g[n] = g[n - 1] \o seqs[n]
  BY <1>3, Zenon DEF JoinRun
<1>a. g[0] = <<>>
  BY <1>3 DEF JoinRun
<1>5. Joined(seqs) = g[L]
  BY <1>3
<1> HIDE DEF L
<1> DEFINE at == [n \in 0 .. L |-> Len(g[n])]
           Holds(j) == \A i \in 1 .. j : \A k \in 1 .. Len(seqs[i]) :
                         /\ at[i - 1] + k \in 1 .. at[j]
                         /\ g[j][at[i - 1] + k] = seqs[i][k]
           S == {j \in 0 .. L : Holds(j)}
<1>6. at \in [0 .. L -> Nat] /\ at[0] = 0
  <2>1. 0 \in 0 .. L
    BY <1>1
  <2> QED
    BY <1>3, <1>a, <2>1
<1>7. ASSUME NEW n \in 1 .. L
      PROVE  /\ at[n - 1] \in Nat /\ Len(seqs[n]) \in Nat
             /\ at[n] = at[n - 1] + Len(seqs[n])
             /\ \A k \in 1 .. at[n - 1] : g[n][k] = g[n - 1][k]
             /\ \A k \in 1 .. Len(seqs[n]) : g[n][at[n - 1] + k] = seqs[n][k]
  <2>1. n - 1 \in 0 .. L /\ n \in 0 .. L
    BY <1>1
  <2>2. g[n - 1] \in Seq(T)
    BY <1>3, <2>1
  <2>3. seqs[n] \in Seq(T)
    BY <1>1
  <2>4. g[n] = g[n - 1] \o seqs[n]
    BY <1>4, Zenon
  <2>5. at[n - 1] = Len(g[n - 1]) /\ at[n] = Len(g[n])
    BY <2>1
  <2>6. Len(g[n - 1]) \in Nat /\ Len(seqs[n]) \in Nat
    BY <2>2, <2>3
  <2> HIDE DEF at
  <2>7. /\ Len(g[n]) = Len(g[n - 1]) + Len(seqs[n])
        /\ \A k \in 1 .. Len(g[n - 1]) : g[n][k] = g[n - 1][k]
        /\ \A k \in 1 .. Len(seqs[n]) : g[n][Len(g[n - 1]) + k] = seqs[n][k]
    <3> DEFINE x == g[n - 1]
               y == seqs[n]
    <3> HIDE DEF x, y
    <3>1. /\ Len(x \o y) = Len(x) + Len(y)
          /\ \A k \in 1 .. Len(x) : (x \o y)[k] = x[k]
          /\ \A k \in 1 .. Len(y) : (x \o y)[Len(x) + k] = y[k]
      <4>1. x \in Seq(T) /\ y \in Seq(T)
        BY <2>2, <2>3 DEF x, y
      <4> QED
        BY <4>1
    <3> QED
      BY <2>4, <3>1, Zenon DEF x, y
  <2> QED
    BY <2>5, <2>6, <2>7
<1> HIDE DEF at
<1>8. ASSUME NEW j \in 1 .. L, j - 1 \in S PROVE j \in S
  <2>1. /\ at[j - 1] \in Nat /\ Len(seqs[j]) \in Nat
        /\ at[j] = at[j - 1] + Len(seqs[j])
        /\ \A k \in 1 .. at[j - 1] : g[j][k] = g[j - 1][k]
        /\ \A k \in 1 .. Len(seqs[j]) : g[j][at[j - 1] + k] = seqs[j][k]
    BY <1>7
  <2>2. ASSUME NEW i \in 1 .. j, NEW k \in 1 .. Len(seqs[i])
        PROVE  at[i - 1] + k \in 1 .. at[j] /\ g[j][at[i - 1] + k] = seqs[i][k]
    <3>1. CASE i = j
      BY <2>1, <3>1, SMTT(30)
    <3>2. CASE i # j
      <4>1. i \in 1 .. j - 1
        BY <3>2
      <4>2. at[i - 1] + k \in 1 .. at[j - 1] /\ g[j - 1][at[i - 1] + k] = seqs[i][k]
        BY <1>8, <4>1, Zenon
      <4> DEFINE m == at[i - 1] + k
      <4> HIDE DEF m
      <4>3. m \in 1 .. at[j - 1] /\ g[j - 1][m] = seqs[i][k]
        BY <4>2 DEF m
      <4>4. m \in 1 .. at[j] /\ g[j][m] = seqs[i][k]
        BY <2>1, <4>3, SMTT(30)
      <4> QED
        BY <4>4 DEF m
    <3> QED
      BY <3>1, <3>2
  <2> QED
    BY <2>2
<1>9. 0 \in S /\ S \in SUBSET (0 .. L)
  BY <1>1
<1> HIDE DEF S
<1>10. S = 0 .. L
  BY <1>1, <1>8, <1>9, InductTo, Zenon
<1>11. L \in S
  BY <1>1, <1>10
<1>12. Holds(L)
  BY <1>11, Zenon DEF S
<1>13. g[L] \in Seq(T) /\ Len(g[L]) = at[L]
  BY <1>1, <1>3 DEF at
<1>14. \A i \in 1 .. L : at[i] = at[i - 1] + Len(seqs[i])
  BY <1>7, Zenon
<1>15. Pieces(at, seqs, g[L])
  BY <1>6, <1>12, <1>13, <1>14, Zenon DEF L, Pieces
<1> QED
  BY <1>5, <1>13, <1>15, Zenon

-----------------------------------------------------------------------------
(* parseTracerouteOutput. *)

HopRun(h, line) ==
  /\ h[0] = NoIP
  /\ \A n \in 1 .. Len(line) : h[n] = HopStep(h[n - 1], line[n])

(* The loop over the tokens of a line. *)
LEMMA HopScan ==
  ASSUME NEW K, NEW A, NoIP \in A, NEW line \in Seq([k : K, v : A])
  PROVE  \E h \in [0 .. Len(line) -> A] :
           HopRun(h, line) /\ HopIP(line) = h[Len(line)]
<1> DEFINE N == Len(line)
           V == A
           step == [p \in (1 .. N) \X V |-> HopStep(p[2], line[p[1]])]
           Loop(f) == f = [n \in 0 .. N |->
                             IF n = 0 THEN NoIP ELSE HopStep(f[n - 1], line[n])]
           h == CHOOSE f : Loop(f)
<1>1. N \in Nat /\ \A n \in 1 .. N : line[n] \in [k : K, v : A]
  BY Elements, Zenon
<1>2. NoIP \in V /\ \A n \in 1 .. N : \A v \in V : HopStep(v, line[n]) \in V
  BY <1>1 DEF HopStep
<1>3. HopIP(line) = h[N]
  BY Zenon DEF HopIP
<1> HIDE DEF V, N
<1>4. /\ step \in Steps(V, N)
      /\ \A n \in 1 .. N : \A v \in V : step[<<n, v>>] = HopStep(v, line[n])
  BY <1>2 DEF Steps
<1> HIDE DEF step
<1>5. PICK g \in [0 .. N -> V] : Running(g, NoIP, step, N)
  BY <1>1, <1>2, <1>4, Run
<1> HIDE DEF h
<1>6. Loop(g)
  <2>1. ASSUME NEW n \in 0 .. N
        PROVE  g[n] = IF n = 0 THEN NoIP ELSE HopStep(g[n - 1], line[n])
    <3>1. CASE n = 0
      BY <1>5, <3>1 DEF Running
    <3>2. CASE n # 0
      <4>1. n \in 1 .. N /\ g[n - 1] \in V
        BY <1>1, <3>2
      <4> QED
        BY <1>4, <1>5, <3>2, <4>1, Zenon DEF Running
    <3> QED
      BY <3>1, <3>2
  <2> QED
    BY <2>1
<1>7. Loop(h)
  <2> HIDE DEF Loop
  <2> QED
    BY <1>6, Zenon DEF h
<1>8. \A n \in 0 .. N : h[n] = IF n = 0 THEN NoIP ELSE HopStep(h[n - 1], line[n])
  BY <1>7, Zenon
<1>9. h = [n \in 0 .. N |-> h[n]]
  BY <1>7, Zenon
<1>10. h[0] = NoIP
  BY <1>1, <1>8
<1>11. ASSUME NEW n \in 1 .. N PROVE h[n] = HopStep(h[n - 1], line[n])
  <2>1. n \in 0 .. N /\ n # 0
    BY <1>1
  <2> QED
    BY <1>8, <2>1, Zenon
<1>12. \A n \in 0 .. N : h[n] \in V
  <2>1. h[0] \in V
    BY <1>2, <1>10
  <2>2. ASSUME NEW n \in 1 .. N, h[n - 1] \in V PROVE h[n] \in V
    BY <1>2, <1>11, <2>2
  <2> QED
    BY <1>1, <2>1, <2>2, Typed, Zenon
<1>13. h \in [0 .. N -> V]
  BY <1>9, <1>12, Zenon
<1> QED
  BY <1>3, <1>10, <1>11, <1>13, Zenon DEF N, V, HopRun

(* One probe more. *)
LEMMA HeardNext ==
  ASSUME NEW probes, NEW n \in Nat \ {0}
  PROVE  Heard(probes, n) = IF probes[n] = NoIP THEN Heard(probes, n - 1) ELSE probes[n]
<1>1. CASE probes[n] = NoIP
  <2>1. Answering(probes, n) = Answering(probes, n - 1)
    BY <1>1 DEF Answering
  <2> QED
    BY <1>1, <2>1 DEF Heard
<1>2. CASE probes[n] # NoIP
  <2>1. /\ Answering(probes, n) \in SUBSET Nat /\ n \in Answering(probes, n)
        /\ \A y \in Answering(probes, n) : y <= n
    BY <1>2 DEF Answering
  <2>2. Max(Answering(probes, n)) = n
    BY <2>1, MaxUnique
  <2> QED
    BY <1>2, <2>1, <2>2 DEF Heard
<1> QED
  BY <1>1, <1>2

(* Before the first probe. *)
LEMMA HeardFirst == \A probes : Heard(probes, 0) = NoIP
<1>1. \A probes : Answering(probes, 0) = {}
  BY DEF Answering
<1> QED
  BY <1>1 DEF Heard

(* The tokens of a line about the routers R. *)
Tok(R) == [k : {"star", "plain", "paren", "ms"}, v : R \cup {NoIP, "*", "name", "rtt", "ms"}]
Star == [k |-> "star", v |-> "*"]
Name == [k |-> "plain", v |-> "name"]
Paren(r) == [k |-> "paren", v |-> r]
Rtt == [k |-> "plain", v |-> "rtt"]
Ms == [k |-> "ms", v |-> "ms"]

(* What a probe leaves on the line. *)
LEMMA ProbeTokens ==
  ASSUME NEW probes, NEW i \in Nat \ {0}
  PROVE  Probe(probes, i) =
           IF probes[i] = NoIP THEN <<Star>>
           ELSE IF probes[i] = Heard(probes, i - 1) THEN <<Rtt, Ms>>
           ELSE <<Name, Paren(probes[i]), Rtt, Ms>>
<1>1. \A a, b, c, d : <<>> \o <<a, b>> = <<a, b>> /\ <<c, d>> \o <<a, b>> = <<c, d, a, b>>
  <2> TAKE a, b, c, d
  <2> DEFINE T == {a, b, c, d}
  <2>1. <<a, b>> \in Seq(T) /\ <<c, d>> \in Seq(T) /\ <<c, d, a, b>> \in Seq(T)
    OBVIOUS
  <2> HIDE DEF T
  <2>2. /\ <<>> \o <<a, b>> = <<a, b>>
        /\ <<c, d>> \o <<a, b>> \in Seq(T)
        /\ Len(<<c, d>> \o <<a, b>>) = 4
        /\ (<<c, d>> \o <<a, b>>)[1] = c /\ (<<c, d>> \o <<a, b>>)[2] = d
        /\ (<<c, d>> \o <<a, b>>)[3] = a /\ (<<c, d>> \o <<a, b>>)[4] = b
    BY <2>1
  <2> DEFINE s == <<c, d>> \o <<a, b>>
             t == <<c, d, a, b>>
  <2>3. s \in Seq(T) /\ t \in Seq(T) /\ Len(s) = Len(t) /\ Len(s) = 4
    BY <2>1, <2>2
  <2>4. s[1] = t[1] /\ s[2] = t[2] /\ s[3] = t[3] /\ s[4] = t[4]
    BY <2>2
  <2> HIDE DEF s, t
  <2>5. \A j \in 1 .. Len(s) : s[j] = t[j]
    BY <2>3, <2>4
  <2>6. s = t
    BY <2>3, <2>5, SeqEqual, Zenon
  <2> QED
    BY <2>2, <2>6 DEF s, t
<1>2. Probe(probes, i) =
        IF probes[i] = NoIP THEN <<Star>>
        ELSE (IF probes[i] = Heard(probes, i - 1) THEN <<>>
              ELSE <<Name, Paren(probes[i])>>) \o <<Rtt, Ms>>
  BY Zenon DEF Probe, Star, Name, Paren, Rtt, Ms
<1> QED
  BY <1>1, <1>2, ZenonT(30)

(* What the loop makes of each token. *)
LEMMA TokenSteps ==
  ASSUME NEW ip, NEW r
  PROVE  /\ HopStep(ip, Star) = ip
         /\ HopStep(ip, Paren(r)) = r
         /\ ip # NoIP => HopStep(ip, Rtt) = ip
         /\ HopStep(ip, Ms) = ip
  BY DEF HopStep, Star, Paren, Rtt, Ms

(* They are tokens. *)
LEMMA TokenTypes ==
  ASSUME NEW R, NEW r \in R
  PROVE  /\ Star \in Tok(R) /\ Name \in Tok(R) /\ Rtt \in Tok(R) /\ Ms \in Tok(R)
         /\ Paren(r) \in Tok(R)
  BY DEF Star, Name, Paren, Rtt, Ms, Tok

(* The loop finds the router that answered last, for any number of probes: *)
(* a name only counts until the address in brackets, and neither times nor *)
(* stars count.                                                            *)
LEMMA HopLast ==
  ASSUME NEW R, NEW probes \in Seq(R)
  PROVE  HopIP(TraceLine(probes)) = LastHop(probes)
<1> DEFINE L == Len(probes)
           seqs == [i \in 1 .. L |-> Probe(probes, i)]
           line == TraceLine(probes)
<1>1. L \in Nat /\ DOMAIN probes = 1 .. L /\ \A i \in 1 .. L : probes[i] \in R
  OBVIOUS
<1>2. ASSUME NEW i \in 1 .. L PROVE Probe(probes, i) \in Seq(Tok(R))
  <2>1. /\ Star \in Tok(R) /\ Name \in Tok(R) /\ Rtt \in Tok(R) /\ Ms \in Tok(R)
        /\ Paren(probes[i]) \in Tok(R)
    BY <1>1, TokenTypes
  <2>2. <<Star>> \in Seq(Tok(R)) /\ <<Rtt, Ms>> \in Seq(Tok(R))
        /\ <<Name, Paren(probes[i]), Rtt, Ms>> \in Seq(Tok(R))
    BY <2>1
  <2>3. i \in Nat \ {0}
    BY <1>1
  <2> QED
    BY <2>2, <2>3, ProbeTokens, Zenon
<1>3. seqs \in Seq(Seq(Tok(R))) /\ Len(seqs) = L /\ line = Joined(seqs)
  <2>1. seqs \in Seq(Seq(Tok(R))) /\ Len(seqs) = L
    BY <1>1, <1>2
  <2>2. line = Joined(seqs)
    BY <1>1, Zenon DEF TraceLine
  <2> QED
    BY <2>1, <2>2
<1>4. \A i \in 1 .. L : seqs[i] = Probe(probes, i)
  OBVIOUS
<1> HIDE DEF L, seqs, line
<1>5. line \in Seq(Tok(R)) /\ \E at : Pieces(at, seqs, line)
  BY <1>3, Joins
<1>6. PICK at : Pieces(at, seqs, line)
  BY <1>5
<1>a. PICK h : HopRun(h, line) /\ HopIP(line) = h[Len(line)]
  <2> DEFINE A == R \cup {NoIP, "*", "name", "rtt", "ms"}
             K == {"star", "plain", "paren", "ms"}
  <2>1. line \in Seq([k : K, v : A]) /\ NoIP \in A
    BY <1>5 DEF Tok
  <2> HIDE DEF A, K
  <2> QED
    BY <2>1, HopScan, Zenon
<1>b. /\ at \in [0 .. L -> Nat] /\ at[0] = 0 /\ at[L] = Len(line) /\ h[0] = NoIP
      /\ \A i \in 1 .. L : at[i] = at[i - 1] + Len(seqs[i])
  BY <1>3, <1>6, <1>a, Zenon DEF Pieces, HopRun
<1> DEFINE S == {n \in 0 .. L : h[at[n]] = Heard(probes, n)}
<1>7. 0 \in S /\ S \in SUBSET (0 .. L)
  BY <1>1, <1>b, HeardFirst
<1>8. ASSUME NEW n \in 1 .. L, n - 1 \in S PROVE n \in S
  <2> DEFINE a == at[n - 1]
             r == probes[n]
             ip == Heard(probes, n - 1)
  <2>1. n \in Nat \ {0} /\ n - 1 \in 0 .. L /\ n \in 0 .. L /\ a \in Nat
    BY <1>1, <1>b
  <2>2. h[a] = ip /\ at[n] = a + Len(seqs[n])
    BY <1>b, <1>8
  <2>3. \A k \in 1 .. Len(seqs[n]) : h[a + k] = HopStep(h[(a + k) - 1], seqs[n][k])
    <3> SUFFICES ASSUME NEW k \in 1 .. Len(seqs[n])
                 PROVE  h[a + k] = HopStep(h[(a + k) - 1], seqs[n][k])
      OBVIOUS
    <3>1. a + k \in 1 .. Len(line) /\ line[a + k] = seqs[n][k]
      BY <1>3, <1>6, Zenon DEF Pieces
    <3> DEFINE m == a + k
    <3>2. \A j \in 1 .. Len(line) : h[j] = HopStep(h[j - 1], line[j])
      BY <1>a DEF HopRun
    <3>3. h[m] = HopStep(h[m - 1], line[m])
      <4> HIDE DEF m
      <4>1. m \in 1 .. Len(line)
        BY <3>1 DEF m
      <4> QED
        BY <3>2, <4>1
    <3> QED
      BY <3>1, <3>3, Zenon
  <2>4. seqs[n] = IF r = NoIP THEN <<Star>>
                  ELSE IF r = ip THEN <<Rtt, Ms>>
                  ELSE <<Name, Paren(r), Rtt, Ms>>
    BY <1>4, <2>1, ProbeTokens, Zenon
  <2>5. Heard(probes, n) = IF r = NoIP THEN ip ELSE r
    BY <2>1, HeardNext
  <2> HIDE DEF a, r, ip
  <2>6. CASE r = NoIP
    <3>1. Len(seqs[n]) = 1 /\ seqs[n][1] = Star
      BY <2>4, <2>6
    <3>2. h[a + 1] = HopStep(h[a], Star)
      BY <2>1, <2>3, <3>1
    <3> QED
      BY <2>1, <2>2, <2>5, <2>6, <3>1, <3>2, TokenSteps, Zenon
  <2>7. CASE r # NoIP /\ r = ip
    <3>1. Len(seqs[n]) = 2 /\ seqs[n][1] = Rtt /\ seqs[n][2] = Ms
      BY <2>4, <2>7
    <3>2. h[a + 1] = HopStep(h[a], Rtt) /\ h[a + 2] = HopStep(h[a + 1], Ms)
      BY <2>1, <2>3, <3>1
    <3> QED
      BY <2>1, <2>2, <2>5, <2>7, <3>1, <3>2, TokenSteps, ZenonT(30)
  <2>8. CASE r # NoIP /\ r # ip
    <3>1. /\ Len(seqs[n]) = 4
          /\ seqs[n][2] = Paren(r) /\ seqs[n][3] = Rtt /\ seqs[n][4] = Ms
      BY <2>4, <2>8
    <3>2. /\ h[a + 2] = HopStep(h[a + 1], Paren(r))
          /\ h[a + 3] = HopStep(h[a + 2], Rtt)
          /\ h[a + 4] = HopStep(h[a + 3], Ms)
      BY <2>1, <2>3, <3>1, SMTT(30)
    <3>3. h[a + 4] = r
      <4>1. h[a + 2] = r
        BY <3>2, TokenSteps
      <4>2. h[a + 3] = r
        BY <2>8, <3>2, <4>1, TokenSteps, Zenon
      <4> QED
        BY <3>2, <4>2, TokenSteps, Zenon
    <3> QED
      BY <2>1, <2>2, <2>5, <2>8, <3>1, <3>3, Zenon
  <2> QED
    BY <2>6, <2>7, <2>8
<1> HIDE DEF S
<1>9. S = 0 .. L
  BY <1>1, <1>7, <1>8, InductTo
<1>10. L \in S
  BY <1>1, <1>9
<1>11. h[at[L]] = Heard(probes, L)
  BY <1>10, Zenon DEF S
<1> QED
  BY <1>a, <1>b, <1>11, Zenon DEF LastHop, L, line

-----------------------------------------------------------------------------
(* bird.ScanPeers, wg.ScanPeers and the matching of peers.import. *)

KeepRun(h, s, S) ==
  /\ h[0] = <<>>
  /\ \A n \in 1 .. Len(s) : h[n] = Keep(h[n - 1], s[n], S)

(* The loop that skips what is not in S. *)
LEMMA KeptRun ==
  ASSUME NEW T, NEW s \in Seq(T), NEW S
  PROVE  \E h \in [0 .. Len(s) -> Seq(T)] :
           KeepRun(h, s, S) /\ Kept(s, S) = h[Len(s)]
<1> DEFINE N == Len(s)
           V == Seq(T)
           step == [p \in (1 .. N) \X V |-> Keep(p[2], s[p[1]], S)]
           Loop(f) == f = [n \in 0 .. N |->
                             IF n = 0 THEN <<>> ELSE Keep(f[n - 1], s[n], S)]
           h == CHOOSE f : Loop(f)
<1>1. N \in Nat /\ \A n \in 1 .. N : s[n] \in T
  BY Elements, Zenon
<1>2. <<>> \in V /\ \A n \in 1 .. N : \A v \in V : Keep(v, s[n], S) \in V
  BY <1>1 DEF Keep
<1>3. Kept(s, S) = h[N]
  BY Zenon DEF Kept
<1> HIDE DEF V, N
<1>4. /\ step \in Steps(V, N)
      /\ \A n \in 1 .. N : \A v \in V : step[<<n, v>>] = Keep(v, s[n], S)
  BY <1>2 DEF Steps
<1> HIDE DEF step
<1>5. PICK g \in [0 .. N -> V] : Running(g, <<>>, step, N)
  BY <1>1, <1>2, <1>4, Run
<1> HIDE DEF h
<1>6. Loop(g)
  <2>1. ASSUME NEW n \in 0 .. N
        PROVE  g[n] = IF n = 0 THEN <<>> ELSE Keep(g[n - 1], s[n], S)
    <3>1. CASE n = 0
      BY <1>5, <3>1 DEF Running
    <3>2. CASE n # 0
      <4>1. n \in 1 .. N /\ g[n - 1] \in V
        BY <1>1, <3>2
      <4> QED
        BY <1>4, <1>5, <3>2, <4>1, Zenon DEF Running
    <3> QED
      BY <3>1, <3>2
  <2> QED
    BY <2>1
<1>7. Loop(h)
  <2> HIDE DEF Loop
  <2> QED
    BY <1>6, Zenon DEF h
<1>8. \A n \in 0 .. N : h[n] = IF n = 0 THEN <<>> ELSE Keep(h[n - 1], s[n], S)
  BY <1>7, Zenon
<1>9. h = [n \in 0 .. N |-> h[n]]
  BY <1>7, Zenon
<1>10. h[0] = <<>>
  <2>1. 0 \in 0 .. N
    BY <1>1
  <2> QED
    BY <1>8, <2>1, Zenon
<1>11. ASSUME NEW n \in 1 .. N PROVE h[n] = Keep(h[n - 1], s[n], S)
  <2>1. n \in 0 .. N /\ n # 0
    BY <1>1
  <2> QED
    BY <1>8, <2>1, Zenon
<1>12. \A n \in 0 .. N : h[n] \in V
  <2>1. h[0] \in V
    BY <1>2, <1>10
  <2>2. ASSUME NEW n \in 1 .. N, h[n - 1] \in V PROVE h[n] \in V
    BY <1>2, <1>11, <2>2
  <2> QED
    BY <1>1, <2>1, <2>2, Typed, Zenon
<1>13. h \in [0 .. N -> V]
  BY <1>9, <1>12, Zenon
<1> QED
  BY <1>3, <1>10, <1>11, <1>13, Zenon DEF N, V, KeepRun

(* One element more. *)
LEMMA RangeAppend ==
  ASSUME NEW T, NEW s \in Seq(T), NEW x \in T
  PROVE  Range(Append(s, x)) = Range(s) \cup {x}
<1> DEFINE t == Append(s, x)
<1>1. /\ t \in Seq(T) /\ Len(t) = Len(s) + 1 /\ Len(s) \in Nat
      /\ DOMAIN s = 1 .. Len(s) /\ DOMAIN t = 1 .. Len(t)
      /\ t[Len(t)] = x /\ \A i \in 1 .. Len(s) : t[i] = s[i]
  OBVIOUS
<1> HIDE DEF t
<1>2. Range(t) \subseteq Range(s) \cup {x}
  BY <1>1 DEF Range
<1>3. Range(s) \cup {x} \subseteq Range(t)
  BY <1>1 DEF Range
<1> QED
  BY <1>2, <1>3 DEF t

(* A new element is no repetition. *)
LEMMA InjectiveAppend ==
  ASSUME NEW T, NEW s \in Seq(T), NEW x \in T, IsInjective(s), x \notin Range(s)
  PROVE  IsInjective(Append(s, x))
<1> DEFINE t == Append(s, x)
<1>1. /\ Len(t) = Len(s) + 1 /\ Len(s) \in Nat
      /\ DOMAIN s = 1 .. Len(s) /\ DOMAIN t = 1 .. Len(t)
      /\ t[Len(t)] = x /\ \A i \in 1 .. Len(s) : t[i] = s[i]
  OBVIOUS
<1> HIDE DEF t
<1>2. \A i \in 1 .. Len(s) : s[i] # x
  BY <1>1 DEF Range
<1> QED
  BY <1>1, <1>2 DEF IsInjective, t

(* What the loop keeps is what is in S, and nothing twice that was not     *)
(* there twice.                                                            *)
LEMMA KeptIs ==
  ASSUME NEW T, NEW s \in Seq(T), NEW S
  PROVE  /\ Kept(s, S) \in Seq(T)
         /\ Range(Kept(s, S)) = {x \in Range(s) : x \in S}
         /\ IsInjective(s) => IsInjective(Kept(s, S))
<1> DEFINE N == Len(s)
           Some(n) == {s[i] : i \in {j \in 1 .. n : s[j] \in S}}
<1>1. N \in Nat /\ DOMAIN s = 1 .. N /\ \A n \in 1 .. N : s[n] \in T
  BY Elements, Zenon
<1>2. PICK h \in [0 .. N -> Seq(T)] : KeepRun(h, s, S) /\ Kept(s, S) = h[N]
  BY KeptRun
<1> DEFINE G == {n \in 0 .. N : /\ Range(h[n]) = Some(n)
                                /\ IsInjective(s) => IsInjective(h[n])}
<1> HIDE DEF N
<1>3. 0 \in G /\ G \in SUBSET (0 .. N)
  <2>1. h[0] = <<>> /\ 0 \in 0 .. N
    BY <1>1, <1>2 DEF KeepRun
  <2>2. Range(<<>>) = {} /\ Some(0) = {} /\ IsInjective(<<>>)
    BY DEF Range, IsInjective
  <2> HIDE DEF Some
  <2> QED
    BY <2>1, <2>2, Zenon
<1>4. ASSUME NEW n \in 1 .. N, n - 1 \in G PROVE n \in G
  <2>1. h[n] = Keep(h[n - 1], s[n], S)
    BY <1>2 DEF KeepRun, N
  <2>2. h[n - 1] \in Seq(T) /\ s[n] \in T /\ n \in 0 .. N
    BY <1>1, <1>2
  <2>3. Range(h[n - 1]) = Some(n - 1) /\ (IsInjective(s) => IsInjective(h[n - 1]))
    BY <1>4
  <2>4. CASE s[n] \in S
    <3>1. Range(Append(h[n - 1], s[n])) = Range(h[n - 1]) \cup {s[n]}
      BY <2>2, RangeAppend
    <3>2. Some(n) = Some(n - 1) \cup {s[n]}
      BY <2>4
    <3>3. ASSUME IsInjective(s) PROVE s[n] \notin Some(n - 1)
      <4>1. \A i \in 1 .. n - 1 : i \in DOMAIN s /\ n \in DOMAIN s /\ i # n
        BY <1>1
      <4> QED
        BY <3>3, <4>1, Zenon DEF IsInjective
    <3>4. ASSUME IsInjective(s) PROVE IsInjective(Append(h[n - 1], s[n]))
      BY <2>2, <2>3, <3>3, <3>4, InjectiveAppend, Zenon
    <3> HIDE DEF Some
    <3> QED
      BY <2>1, <2>2, <2>3, <2>4, <3>1, <3>2, <3>4, Zenon DEF Keep
  <2>5. CASE s[n] \notin S
    <3>1. Some(n) = Some(n - 1)
      BY <2>5
    <3> HIDE DEF Some
    <3> QED
      BY <2>1, <2>2, <2>3, <2>5, <3>1, Zenon DEF Keep
  <2> QED
    BY <2>4, <2>5
<1> HIDE DEF G
<1>5. G = 0 .. N
  BY <1>1, <1>3, <1>4, InductTo, Zenon
<1>6. N \in G /\ N \in 0 .. N
  BY <1>1, <1>5
<1>7. Range(h[N]) = Some(N) /\ (IsInjective(s) => IsInjective(h[N]))
  BY <1>6, Zenon DEF G
<1>8. Some(N) = {x \in Range(s) : x \in S}
  BY <1>1, Zenon DEF Range
<1> HIDE DEF Some
<1> QED
  BY <1>2, <1>6, <1>7, <1>8, Zenon

(* Whatever the order of the directory, every file is in it once. *)
LEMMA Directory ==
  ASSUME NEW S, Cardinality(S) \in Nat, NEW files \in Orders(S)
  PROVE  files \in Seq(S) /\ Range(files) = S /\ IsInjective(files)
<1> DEFINE n == Cardinality(S)
<1>1. n \in Nat
  OBVIOUS
<1>2. files \in [1 .. n -> S] /\ \A x \in S : \E i \in 1 .. n : files[i] = x
  BY Zenon DEF Orders, Bijection, Surjection
<1> HIDE DEF n
<1>3. files \in Seq(S) /\ DOMAIN files = 1 .. n
  BY <1>1, <1>2, SMTT(30)
<1>4. IsInjective(files)
  BY Zenon DEF Orders, Bijection, Injection
<1> QED
  BY <1>2, <1>3, <1>4 DEF Range

(* bgpByIface, then bgpByASN. *)
LEMMA Matching ==
  ASSUME NEW T, NEW bgps \in Seq(T), NEW w
  PROVE  LET m == Match(bgps, w)
         IN \/ m \in 1 .. Len(bgps) /\ bgps[m].iface = w.iface
            \/ /\ \A i \in 1 .. Len(bgps) : bgps[i].iface # w.iface
               /\ m \in 1 .. Len(bgps) /\ bgps[m].asn = w.asn
            \/ /\ \A i \in 1 .. Len(bgps) : bgps[i].iface # w.iface /\ bgps[i].asn # w.asn
               /\ m = 0
<1> DEFINE I == {i \in 1 .. Len(bgps) : bgps[i].iface = w.iface}
           J == {i \in 1 .. Len(bgps) : bgps[i].asn = w.asn}
<1>1. Match(bgps, w) = IF I # {} THEN Max(I) ELSE IF J # {} THEN Max(J) ELSE 0
  <2>1. DOMAIN bgps = 1 .. Len(bgps)
    OBVIOUS
  <2> QED
    BY <2>1, Zenon DEF Match
<1>2. Len(bgps) \in Nat
  OBVIOUS
<1>3. I # {} => Max(I) \in I /\ Max(I) # 0
  <2>1. I \in SUBSET (1 .. Len(bgps)) /\ 0 \notin I
    BY <1>2
  <2>2. I \in SUBSET Nat /\ \A x \in I : x <= Len(bgps)
    BY <1>2
  <2> HIDE DEF I
  <2> QED
    BY <1>2, <2>1, <2>2, MaxIs, Zenon
<1>4. J # {} => Max(J) \in J /\ Max(J) # 0
  <2>1. J \in SUBSET (1 .. Len(bgps)) /\ 0 \notin J
    BY <1>2
  <2>2. J \in SUBSET Nat /\ \A x \in J : x <= Len(bgps)
    BY <1>2
  <2> HIDE DEF J
  <2> QED
    BY <1>2, <2>1, <2>2, MaxIs, Zenon
<1>5. CASE I # {}
  <2>1. Match(bgps, w) \in I
    <3> HIDE DEF I, J
    <3> QED
      BY <1>1, <1>3, <1>5
  <2> QED
    BY <2>1
<1>6. CASE I = {} /\ J # {}
  <2>1. Match(bgps, w) \in J
    <3> HIDE DEF I, J
    <3> QED
      BY <1>1, <1>4, <1>6
  <2> QED
    BY <1>6, <2>1
<1>7. CASE I = {} /\ J = {}
  <2>1. Match(bgps, w) = 0
    <3> HIDE DEF I, J
    <3> QED
      BY <1>1, <1>7
  <2> QED
    BY <1>7, <2>1
<1> QED
  BY <1>5, <1>6, <1>7

(* The interface wg.ScanPeers finds of a peering. *)
Wg(p) == [iface |-> p.iface, asn |-> AsnOf(Conf(p))[1]]

(* A BIRD file is one of a peering. *)
LEMMA FileOf ==
  ASSUME NEW node, NEW b
  PROVE  b \in FilesOf(node) <=> \E p \in node : \E n \in 1 .. p.sessions : b = File(p, n)
  BY DEF FilesOf, File

(* A sequence, element by element. *)
LEMMA Mapped ==
  ASSUME NEW T, NEW s \in Seq(T), NEW E, NEW t \in [DOMAIN s -> E]
  PROVE  t \in Seq(E) /\ DOMAIN t = DOMAIN s
  OBVIOUS

(* wg.ScanPeers finds the interfaces that are up and of a known ASN, each  *)
(* once.                                                                   *)
LEMMA WgOf ==
  ASSUME NEW node, Distinct(node), Cardinality(ConfsOf(node)) \in Nat,
         NEW confs \in Orders(ConfsOf(node))
  PROVE  LET wgs == WgScanPeers(confs)
         IN /\ wgs \in Seq({Wg(p) : p \in node})
            /\ Range(wgs) = {Wg(p) : p \in {q \in node : Live(q)}}
            /\ \A i, j \in DOMAIN wgs : wgs[i].iface = wgs[j].iface => i = j
<1> DEFINE C == ConfsOf(node)
           S == {c \in Range(confs) : AsnOf(c) # <<>> /\ c.up}
           f == Kept(confs, S)
           wgs == WgScanPeers(confs)
<1>1. confs \in Seq(C) /\ Range(confs) = C /\ IsInjective(confs)
  BY Directory
<1>2. f \in Seq(C) /\ Range(f) = {c \in C : c \in S} /\ IsInjective(f)
  <2> HIDE DEF S, C
  <2>1. f \in Seq(C) /\ Range(f) = {c \in Range(confs) : c \in S} /\ IsInjective(f)
    BY <1>1, KeptIs
  <2> QED
    BY <1>1, <2>1, Zenon
<1>3. wgs = [i \in DOMAIN f |-> [iface |-> f[i].iface, asn |-> AsnOf(f[i])[1]]]
  BY Zenon DEF WgScanPeers
<1>4. ASSUME NEW c
      PROVE  c \in Range(f) <=> \E p \in node : Live(p) /\ c = Conf(p)
  <2>1. c \in Range(f) <=> c \in C /\ AsnOf(c) # <<>> /\ c.up
    <3> HIDE DEF f, C
    <3> QED
      BY <1>1, <1>2, Zenon
  <2>2. c \in C <=> \E p \in node : p.wg # "none" /\ c = Conf(p)
    BY Zenon DEF ConfsOf
  <2>3. \A p : Conf(p).up <=> p.wg = "up"
    BY DEF Conf
  <2>4. \A p : p.wg = "up" => p.wg # "none"
    OBVIOUS
  <2> HIDE DEF f, C
  <2> QED
    BY <2>1, <2>2, <2>3, <2>4, Zenon DEF Live
<1>5. \A p : Conf(p).iface = p.iface
  BY DEF Conf
<1> HIDE DEF f, wgs, S, C
<1>6. ASSUME NEW i \in DOMAIN f
      PROVE  \E p \in node : Live(p) /\ f[i] = Conf(p) /\ wgs[i] = Wg(p)
  <2>1. PICK p \in node : Live(p) /\ f[i] = Conf(p)
    BY <1>4, Zenon DEF Range
  <2>2. wgs[i] = [iface |-> f[i].iface, asn |-> AsnOf(f[i])[1]]
    BY <1>3, Zenon
  <2> QED
    BY <1>5, <2>1, <2>2, Zenon DEF Wg
<1>7. DOMAIN wgs = DOMAIN f /\ wgs \in [DOMAIN f -> {Wg(p) : p \in node}]
  BY <1>3, <1>6, Zenon
<1>8. wgs \in Seq({Wg(p) : p \in node})
  BY <1>2, <1>7, Mapped, Zenon
<1>9. Range(wgs) = {Wg(p) : p \in {q \in node : Live(q)}}
  <2>1. ASSUME NEW p \in node, Live(p) PROVE \E i \in DOMAIN f : wgs[i] = Wg(p)
    <3>1. PICK i \in DOMAIN f : f[i] = Conf(p)
      BY <1>4, <2>1, Zenon DEF Range
    <3>2. wgs[i] = [iface |-> f[i].iface, asn |-> AsnOf(f[i])[1]]
      BY <1>3, Zenon
    <3> QED
      BY <1>5, <3>1, <3>2, Zenon DEF Wg
  <2> QED
    BY <1>6, <1>7, <2>1, Zenon DEF Range
<1>10. ASSUME NEW i \in DOMAIN f, NEW j \in DOMAIN f, wgs[i].iface = wgs[j].iface
       PROVE  i = j
  <2>1. PICK p \in node : f[i] = Conf(p) /\ wgs[i] = Wg(p)
    BY <1>6, Zenon
  <2>2. PICK q \in node : f[j] = Conf(q) /\ wgs[j] = Wg(q)
    BY <1>6, Zenon
  <2>3. p.iface = q.iface
    <3>1. Wg(p).iface = p.iface /\ Wg(q).iface = q.iface
      BY DEF Wg
    <3> QED
      BY <1>10, <2>1, <2>2, <3>1, Zenon
  <2>4. p = q
    BY <2>3 DEF Distinct
  <2> QED
    BY <1>2, <2>1, <2>2, <2>4, Zenon DEF IsInjective
<1> QED
  BY <1>7, <1>8, <1>9, <1>10, Zenon DEF wgs

(* A WireGuard peer is matched with a BIRD file of its own peering, and    *)
(* with none only if that has no file and its name tells the ASN.          *)
LEMMA OwnMatch ==
  ASSUME NEW node, Distinct(node), NEW T, NEW bgps \in Seq(T),
         Range(bgps) = FilesOf(node),
         NEW p \in node, Live(p), WellNamed(p)
  PROVE  LET m == Match(bgps, Wg(p))
         IN \/ /\ p.sessions > 0
               /\ m \in 1 .. Len(bgps)
               /\ \E k \in 1 .. p.sessions : bgps[m] = File(p, k)
            \/ p.sessions = 0 /\ m = 0 /\ Wg(p).asn = p.asn
<1> DEFINE m == Match(bgps, Wg(p))
<1>1. ASSUME NEW i \in 1 .. Len(bgps)
      PROVE  \E q \in node : /\ q.sessions > 0
                             /\ bgps[i].iface = q.birdIface /\ bgps[i].asn = q.asn
                             /\ \E k \in 1 .. q.sessions : bgps[i] = File(q, k)
  <2>1. bgps[i] \in FilesOf(node)
    BY DEF Range
  <2>2. PICK q \in node : \E n \in 1 .. q.sessions : bgps[i] = File(q, n)
    BY <2>1, FileOf
  <2>3. q.sessions > 0
    BY <2>2 DEF Distinct
  <2>4. \A k : File(q, k).iface = q.birdIface /\ File(q, k).asn = q.asn
    BY DEF File
  <2> QED
    BY <2>2, <2>3, <2>4, Zenon
<1>2. ASSUME p.sessions > 0
      PROVE  \E i \in 1 .. Len(bgps) : bgps[i].iface = p.birdIface /\ bgps[i].asn = p.asn
  <2>1. File(p, 1) \in FilesOf(node)
    BY <1>2, FileOf DEF Distinct
  <2>2. PICK i \in 1 .. Len(bgps) : bgps[i] = File(p, 1)
    BY <2>1 DEF Range
  <2> QED
    BY <2>2 DEF File
<1>3. Wg(p).iface = p.iface
  BY DEF Wg
<1>4. \/ p.birdIface = p.iface /\ p.sessions > 0
      \/ Wg(p).asn = p.asn
  BY DEF WellNamed, Wg
<1>5. \A q \in node : q.asn = p.asn \/ q.birdIface = p.iface => q = p
  BY Zenon DEF Distinct
<1>6. p.sessions \in Nat
  BY DEF Distinct
<1>7. CASE m \in 1 .. Len(bgps) /\ bgps[m].iface = p.iface
  BY <1>1, <1>5, <1>7
<1>8. CASE /\ \A i \in 1 .. Len(bgps) : bgps[i].iface # p.iface
           /\ m \in 1 .. Len(bgps) /\ bgps[m].asn = Wg(p).asn
  <2>1. Wg(p).asn = p.asn
    BY <1>2, <1>4, <1>8
  <2> HIDE DEF m
  <2> QED
    BY <1>1, <1>5, <1>8, <2>1, SMTT(30) DEF m
<1>9. CASE /\ \A i \in 1 .. Len(bgps) : bgps[i].iface # p.iface /\ bgps[i].asn # Wg(p).asn
           /\ m = 0
  <2>1. Wg(p).asn = p.asn
    BY <1>2, <1>4, <1>9
  <2>2. ~(p.sessions > 0)
    BY <1>2, <1>9, <2>1
  <2> QED
    BY <1>6, <1>9, <2>1, <2>2
<1> QED
  BY <1>3, <1>7, <1>8, <1>9, Matching, SMTT(30)

(* Two sequences in a row. *)
LEMMA InARow ==
  ASSUME NEW E, NEW s \in Seq(E), NEW t \in Seq(E), IsInjective(s), IsInjective(t),
         \A i \in DOMAIN s, j \in DOMAIN t : s[i] # t[j]
  PROVE  /\ s \o t \in Seq(E) /\ Range(s \o t) = Range(s) \cup Range(t)
         /\ IsInjective(s \o t)
<1> DEFINE u == s \o t
           m == Len(s)
           n == Len(t)
<1>1. /\ m \in Nat /\ n \in Nat /\ u \in Seq(E)
      /\ DOMAIN s = 1 .. m /\ DOMAIN t = 1 .. n /\ DOMAIN u = 1 .. m + n
      /\ \A i \in 1 .. m + n : u[i] = IF i <= m THEN s[i] ELSE t[i - m]
  OBVIOUS
<1> HIDE DEF u, m, n
<1>2. /\ \A i \in 1 .. m : i \in 1 .. m + n /\ u[i] = s[i]
      /\ \A j \in 1 .. n : m + j \in 1 .. m + n /\ u[m + j] = t[j]
      /\ \A i \in 1 .. m + n : i \in 1 .. m \/ \E j \in 1 .. n : i = m + j
  <2>1. ASSUME NEW i \in 1 .. m + n, i \notin 1 .. m PROVE \E j \in 1 .. n : i = m + j
    <3>1. i - m \in 1 .. n /\ i = m + (i - m)
      BY <1>1, <2>1
    <3> QED
      BY <3>1, Zenon
  <2>2. \A j \in 1 .. n : /\ m + j \in 1 .. m + n /\ ~(m + j <= m) /\ (m + j) - m = j
    BY <1>1
  <2> QED
    BY <1>1, <2>1, <2>2
<1>3. Range(u) = Range(s) \cup Range(t)
  <2>1. \A i \in 1 .. m + n : u[i] \in Range(s) \cup Range(t)
    <3>1. /\ \A i \in 1 .. m : s[i] \in Range(s)
          /\ \A j \in 1 .. n : t[j] \in Range(t)
      BY <1>1, Zenon DEF Range
    <3>2. ASSUME NEW i \in 1 .. m + n, NEW j \in 1 .. n, i = m + j PROVE u[i] \in Range(t)
      BY <1>2, <3>1, <3>2, Zenon
    <3> QED
      BY <1>2, <3>1, <3>2, Zenon
  <2>2. /\ \A i \in 1 .. m : \E k \in 1 .. m + n : s[i] = u[k]
        /\ \A j \in 1 .. n : \E k \in 1 .. m + n : t[j] = u[k]
    BY <1>2, Zenon
  <2>3. ASSUME NEW x \in Range(u) PROVE x \in Range(s) \cup Range(t)
    <3>1. PICK i \in DOMAIN u : x = u[i]
      BY DEF Range
    <3> QED
      BY <1>1, <2>1, <3>1, Zenon
  <2>4. ASSUME NEW x \in Range(s) PROVE x \in Range(u)
    <3>1. PICK i \in DOMAIN s : x = s[i]
      BY DEF Range
    <3>2. PICK k \in DOMAIN u : x = u[k]
      BY <1>1, <2>2, <3>1, Zenon
    <3> QED
      BY <3>2, Zenon DEF Range
  <2>5. ASSUME NEW x \in Range(t) PROVE x \in Range(u)
    <3>1. PICK i \in DOMAIN t : x = t[i]
      BY DEF Range
    <3>2. PICK k \in DOMAIN u : x = u[k]
      BY <1>1, <2>2, <3>1, Zenon
    <3> QED
      BY <3>2, Zenon DEF Range
  <2> QED
    BY <2>3, <2>4, <2>5, Zenon
<1>4. ASSUME NEW i \in 1 .. m + n, NEW j \in 1 .. m + n, u[i] = u[j] PROVE i = j
  <2>1. \A a, b \in 1 .. m : s[a] = s[b] => a = b
    BY <1>1, Zenon DEF IsInjective
  <2>2. \A a, b \in 1 .. n : t[a] = t[b] => a = b
    BY <1>1, Zenon DEF IsInjective
  <2>3. \A a \in 1 .. m, b \in 1 .. n : s[a] # t[b]
    BY <1>1, Zenon
  <2>4. CASE i \in 1 .. m /\ j \in 1 .. m
    BY <1>2, <1>4, <2>1, <2>4, Zenon
  <2>5. CASE i \in 1 .. m /\ j \notin 1 .. m
    BY <1>2, <1>4, <2>3, <2>5
  <2>6. CASE i \notin 1 .. m /\ j \in 1 .. m
    BY <1>2, <1>4, <2>3, <2>6
  <2>7. CASE i \notin 1 .. m /\ j \notin 1 .. m
    <3>1. PICK a \in 1 .. n : i = m + a
      BY <1>2, <2>7, Zenon
    <3>2. PICK b \in 1 .. n : j = m + b
      BY <1>2, <2>7, Zenon
    <3>3. t[a] = t[b]
      BY <1>2, <1>4, <3>1, <3>2
    <3> QED
      BY <2>2, <3>1, <3>2, <3>3, Zenon
  <2> QED
    BY <2>4, <2>5, <2>6, <2>7, Zenon
<1> QED
  BY <1>1, <1>3, <1>4, Zenon DEF IsInjective, u

(* The entry that is due n-th for a peering. *)
Entry(bgps, p, n) == IF Live(p) THEN Managed(bgps, Wg(p)) ELSE Unmanaged(File(p, n))

(* Every entry is of one peering and tells which. *)
LEMMA EntryTells ==
  ASSUME NEW node, Distinct(node), \A p \in node : WellNamed(p),
         NEW T, NEW bgps \in Seq(T), Range(bgps) = FilesOf(node),
         NEW p \in node, NEW n \in Entries(p)
  PROVE  /\ Entry(bgps, p, n).asn = p.asn
         /\ \A q \in node : \A k \in Entries(q) :
              EntryFits(Entry(bgps, p, n), q, k) <=> p = q /\ n = k
<1> DEFINE e == Entry(bgps, p, n)
<1>1. p.sessions \in Nat
  BY DEF Distinct
<1>2. CASE Live(p)
  <2> DEFINE m == Match(bgps, Wg(p))
  <2>1. \/ /\ p.sessions > 0 /\ m # 0
           /\ bgps[m].asn = p.asn /\ \E k \in 1 .. p.sessions : bgps[m].file = <<p.asn, k>>
        \/ p.sessions = 0 /\ m = 0 /\ Wg(p).asn = p.asn
    <3>1. \/ /\ p.sessions > 0
             /\ m \in 1 .. Len(bgps)
             /\ \E k \in 1 .. p.sessions : bgps[m] = File(p, k)
          \/ p.sessions = 0 /\ m = 0 /\ Wg(p).asn = p.asn
      BY <1>2, OwnMatch
    <3>2. m \in 1 .. Len(bgps) => m # 0
      OBVIOUS
    <3>3. \A k : File(p, k).asn = p.asn /\ File(p, k).file = <<p.asn, k>>
      BY DEF File
    <3> HIDE DEF m
    <3> QED
      BY <3>1, <3>2, <3>3, Zenon
  <2>2. /\ e.asn = IF m = 0 THEN Wg(p).asn ELSE bgps[m].asn
        /\ e.iface = p.iface /\ e.managed = TRUE
        /\ e.file = IF m = 0 THEN <<>> ELSE bgps[m].file
    <3>1. Wg(p).iface = p.iface
      BY DEF Wg
    <3> QED
      BY <1>2, <3>1, Zenon DEF Entry, Managed
  <2> HIDE DEF m, e
  <2>3. e.asn = p.asn
    BY <2>1, <2>2, Zenon
  <2>4. EntryFits(e, p, n)
    BY <1>1, <1>2, <2>1, <2>2, <2>3 DEF EntryFits
  <2>5. \A q \in node : \A k \in Entries(q) : EntryFits(e, q, k) => p = q
    BY <2>3, Zenon DEF EntryFits, Distinct
  <2>6. \A k \in Entries(p) : k = n
    BY <1>2, Zenon DEF Entries
  <2> QED
    BY <2>3, <2>4, <2>5, <2>6, Zenon DEF e
<1>3. CASE ~Live(p)
  <2>1. /\ e.asn = p.asn /\ e.iface = p.birdIface /\ e.managed = FALSE
        /\ e.file = <<p.asn, n>>
    BY <1>3, Zenon DEF Entry, Unmanaged, File
  <2>2. n \in 1 .. p.sessions
    BY <1>3, Zenon DEF Entries
  <2> HIDE DEF e
  <2>3. EntryFits(e, p, n)
    BY <1>3, <2>1, <2>2, Zenon DEF EntryFits
  <2>4. \A q \in node : \A k \in Entries(q) : EntryFits(e, q, k) => p = q
    BY <2>1, Zenon DEF EntryFits, Distinct
  <2>5. ASSUME NEW k \in Entries(p), EntryFits(e, p, k) PROVE k = n
    <3>1. \E j \in 1 .. p.sessions : e.file = <<p.asn, j>> /\ j = k
      BY <1>3, <2>5, Zenon DEF EntryFits
    <3> QED
      BY <2>1, <3>1
  <2> QED
    BY <2>1, <2>3, <2>4, <2>5, Zenon DEF e
<1> QED
  BY <1>2, <1>3

(* Import returns exactly what is due, from the interfaces and the files   *)
(* found.                                                                  *)
LEMMA ImportAll ==
  ASSUME NEW node, Distinct(node), \A p \in node : WellNamed(p),
         NEW W, NEW wgs \in Seq(W), Range(wgs) = {Wg(p) : p \in {q \in node : Live(q)}},
         \A i, j \in DOMAIN wgs : wgs[i].iface = wgs[j].iface => i = j,
         NEW T, NEW bgps \in Seq(T), Range(bgps) = FilesOf(node), IsInjective(bgps),
         NEW tracked
  PROVE  ExactlyDue(Import(wgs, bgps, tracked), node, tracked)
<1> DEFINE M == MatchedBGP(bgps, wgs)
           L == {b \in Range(bgps) : b.iface \notin M}
           left == Kept(bgps, L)
           A == [i \in DOMAIN wgs |-> Managed(bgps, wgs[i])]
           B == [i \in DOMAIN left |-> Unmanaged(left[i])]
           J == A \o B
           U == {e \in Range(J) : e.asn \notin tracked}
           E == Range(A) \cup Range(B)
           out == Import(wgs, bgps, tracked)
<1>1. out = Kept(J, U)
  BY Zenon DEF Import
<1>2. left \in Seq(T) /\ Range(left) = {b \in Range(bgps) : b \in L} /\ IsInjective(left)
  <2> HIDE DEF L
  <2> QED
    BY KeptIs
<1>3. ASSUME NEW p \in node, p.sessions > 0
      PROVE  p.birdIface \in M <=> Live(p)
  <2>1. ASSUME NEW q \in node, Live(q)
        PROVE  LET m == Match(bgps, Wg(q))
               IN IF q.sessions > 0 THEN m # 0 /\ bgps[m].iface = q.birdIface ELSE m = 0
    <3> DEFINE m == Match(bgps, Wg(q))
    <3>1. \/ /\ q.sessions > 0
             /\ m \in 1 .. Len(bgps)
             /\ \E k \in 1 .. q.sessions : bgps[m] = File(q, k)
          \/ q.sessions = 0 /\ m = 0
      BY <2>1, OwnMatch
    <3>2. m \in 1 .. Len(bgps) => m # 0
      OBVIOUS
    <3>3. \A k : File(q, k).iface = q.birdIface
      BY DEF File
    <3> HIDE DEF m
    <3> QED
      BY <3>1, <3>2, <3>3 DEF m
  <2>2. ASSUME NEW x PROVE x \in M <=> \E q \in node : /\ Live(q) /\ q.sessions > 0
                                                       /\ x = q.birdIface
    BY <2>1, ZenonT(30) DEF MatchedBGP
  <2>3. \A q \in node : q.birdIface = p.birdIface => q = p
    BY DEF Distinct
  <2> HIDE DEF M
  <2> QED
    BY <1>3, <2>2, <2>3, Zenon
<1>4. ASSUME NEW b
      PROVE  b \in Range(left) <=>
               \E p \in node : \E n \in 1 .. p.sessions : ~Live(p) /\ b = File(p, n)
  <2>1. b \in Range(left) <=> b \in FilesOf(node) /\ b.iface \notin M
    <3> HIDE DEF left, M
    <3> QED
      BY <1>2, Zenon
  <2>2. b \in FilesOf(node) <=> \E p \in node : \E n \in 1 .. p.sessions : b = File(p, n)
    BY FileOf
  <2>3. ASSUME NEW p \in node, NEW n \in 1 .. p.sessions
        PROVE  p.sessions > 0 /\ File(p, n).iface = p.birdIface
    <3>1. p.sessions \in Nat
      BY DEF Distinct
    <3> QED
      BY <3>1 DEF File
  <2> HIDE DEF left, M
  <2> QED
    BY <1>3, <2>1, <2>2, <2>3, Zenon
<1> HIDE DEF M, L, left
<1>5. ASSUME NEW i \in DOMAIN wgs
      PROVE  \E p \in node : Live(p) /\ wgs[i] = Wg(p) /\ A[i] = Entry(bgps, p, 0)
  <2>1. wgs[i] \in Range(wgs)
    BY Zenon DEF Range
  <2>2. PICK p \in node : Live(p) /\ wgs[i] = Wg(p)
    BY <2>1, Zenon
  <2> QED
    BY <2>2, Zenon DEF Entry
<1>6. ASSUME NEW i \in DOMAIN left
      PROVE  \E p \in node : \E n \in 1 .. p.sessions :
               ~Live(p) /\ left[i] = File(p, n) /\ B[i] = Entry(bgps, p, n)
  <2>1. PICK p \in node : \E n \in 1 .. p.sessions : ~Live(p) /\ left[i] = File(p, n)
    BY <1>4, Zenon DEF Range
  <2> QED
    BY <2>1, Zenon DEF Entry
<1>7. A \in Seq(E) /\ B \in Seq(E) /\ DOMAIN A = DOMAIN wgs /\ DOMAIN B = DOMAIN left
  <2>1. A \in [DOMAIN wgs -> E] /\ B \in [DOMAIN left -> E]
    BY Zenon DEF Range
  <2> HIDE DEF A, B, E
  <2> QED
    BY <1>2, <2>1, Mapped, Zenon
<1>8. ASSUME NEW e
      PROVE  e \in Range(A) \cup Range(B) <=>
               \E p \in node : \E n \in Entries(p) : e = Entry(bgps, p, n)
  <2>1. ASSUME NEW p \in node, Live(p) PROVE \E i \in DOMAIN wgs : A[i] = Entry(bgps, p, 0)
    <3>1. PICK i \in DOMAIN wgs : wgs[i] = Wg(p)
      BY <2>1, Zenon DEF Range
    <3> QED
      BY <2>1, <3>1, Zenon DEF Entry
  <2>2. ASSUME NEW p \in node, ~Live(p), NEW n \in 1 .. p.sessions
        PROVE  \E i \in DOMAIN left : B[i] = Entry(bgps, p, n)
    <3>1. PICK i \in DOMAIN left : left[i] = File(p, n)
      BY <1>4, <2>2, Zenon DEF Range
    <3> QED
      BY <2>2, <3>1, Zenon DEF Entry
  <2> HIDE DEF A, B
  <2>3. ASSUME NEW p \in node, NEW n \in Entries(p)
        PROVE  Entry(bgps, p, n) \in Range(A) \cup Range(B)
    <3>1. CASE Live(p)
      <4>1. n = 0
        BY <3>1, Zenon DEF Entries
      <4> QED
        BY <1>7, <2>1, <3>1, <4>1 DEF Range
    <3>2. CASE ~Live(p)
      <4>1. n \in 1 .. p.sessions
        BY <3>2, Zenon DEF Entries
      <4> QED
        BY <1>7, <2>2, <3>2, <4>1 DEF Range
    <3> QED
      BY <3>1, <3>2
  <2>4. ASSUME e \in Range(A) PROVE \E p \in node : \E n \in Entries(p) : e = Entry(bgps, p, n)
    <3>1. PICK i \in DOMAIN wgs : e = A[i]
      BY <1>7, <2>4, Zenon DEF Range
    <3> QED
      BY <1>5, <3>1, Zenon DEF Entries
  <2>5. ASSUME e \in Range(B) PROVE \E p \in node : \E n \in Entries(p) : e = Entry(bgps, p, n)
    <3>1. PICK i \in DOMAIN left : e = B[i]
      BY <1>7, <2>5, Zenon DEF Range
    <3> QED
      BY <1>6, <3>1, Zenon DEF Entries
  <2> QED
    BY <2>3, <2>4, <2>5, Zenon
<1>9. ASSUME NEW p \in node, NEW n \in Entries(p)
       PROVE  /\ Entry(bgps, p, n).asn = p.asn
              /\ \A q \in node : \A k \in Entries(q) :
                   EntryFits(Entry(bgps, p, n), q, k) <=> p = q /\ n = k
  BY EntryTells, Zenon
<1>10. ASSUME NEW p \in node, NEW n \in Entries(p), NEW q \in node, NEW k \in Entries(q),
              Entry(bgps, p, n) = Entry(bgps, q, k)
       PROVE  p = q /\ n = k
  <2>1. EntryFits(Entry(bgps, q, k), q, k)
    BY <1>9, Zenon
  <2>2. EntryFits(Entry(bgps, p, n), q, k)
    BY <1>10, <2>1, Zenon
  <2> QED
    BY <1>9, <2>2, Zenon
<1>11. IsInjective(J) /\ J \in Seq(E) /\ Range(J) = Range(A) \cup Range(B)
  <2> HIDE DEF A, B, E
  <2>1. IsInjective(A)
    <3>1. ASSUME NEW i \in DOMAIN wgs, NEW j \in DOMAIN wgs, A[i] = A[j] PROVE i = j
      <4>1. PICK p \in node : Live(p) /\ wgs[i] = Wg(p) /\ A[i] = Entry(bgps, p, 0)
        BY <1>5, Zenon
      <4>2. PICK q \in node : Live(q) /\ wgs[j] = Wg(q) /\ A[j] = Entry(bgps, q, 0)
        BY <1>5, Zenon
      <4>3. p = q
        BY <1>10, <3>1, <4>1, <4>2, Zenon DEF Entries
      <4> QED
        BY <4>1, <4>2, <4>3, Zenon
    <3> QED
      BY <1>7, <3>1, Zenon DEF IsInjective
  <2>2. IsInjective(B)
    <3>1. ASSUME NEW i \in DOMAIN left, NEW j \in DOMAIN left, B[i] = B[j] PROVE i = j
      <4>1. PICK p \in node : \E n \in 1 .. p.sessions :
              ~Live(p) /\ left[i] = File(p, n) /\ B[i] = Entry(bgps, p, n)
        BY <1>6, Zenon
      <4>2. PICK q \in node : \E k \in 1 .. q.sessions :
              ~Live(q) /\ left[j] = File(q, k) /\ B[j] = Entry(bgps, q, k)
        BY <1>6, Zenon
      <4>3. PICK n \in 1 .. p.sessions : left[i] = File(p, n) /\ B[i] = Entry(bgps, p, n)
        BY <4>1, Zenon
      <4>4. PICK k \in 1 .. q.sessions : left[j] = File(q, k) /\ B[j] = Entry(bgps, q, k)
        BY <4>2, Zenon
      <4>5. n \in Entries(p) /\ k \in Entries(q)
        BY <4>1, <4>2, Zenon DEF Entries
      <4>6. p = q /\ n = k
        BY <1>10, <3>1, <4>3, <4>4, <4>5, Zenon
      <4> QED
        BY <1>2, <4>3, <4>4, <4>6, Zenon DEF IsInjective
    <3> QED
      BY <1>7, <3>1, Zenon DEF IsInjective
  <2>3. ASSUME NEW i \in DOMAIN A, NEW j \in DOMAIN B PROVE A[i] # B[j]
    <3>1. PICK p \in node : Live(p) /\ A[i] = Entry(bgps, p, 0)
      BY <1>5, <1>7, Zenon
    <3>2. j \in DOMAIN left
      BY <1>7, Zenon
    <3>3. PICK q \in node : \E k \in 1 .. q.sessions :
            ~Live(q) /\ left[j] = File(q, k) /\ B[j] = Entry(bgps, q, k)
      BY <1>6, <3>2, Zenon
    <3> QED
      BY <1>10, <3>1, <3>3, Zenon DEF Entries
  <2> QED
    BY <1>7, <2>1, <2>2, <2>3, InARow
<1>12. IsInjective(out) /\ Range(out) = {e \in Range(J) : e \in U}
  <2> HIDE DEF A, B, E, J, U, out
  <2> QED
    BY <1>1, <1>11, KeptIs
<1>13. ASSUME NEW e
       PROVE  e \in Range(out) <=>
                \E p \in node : \E n \in Entries(p) :
                  p.asn \notin tracked /\ e = Entry(bgps, p, n)
  <2>1. e \in Range(out) <=> e \in Range(A) \cup Range(B) /\ e.asn \notin tracked
    <3> HIDE DEF A, B, J, out
    <3> QED
      BY <1>11, <1>12, Zenon
  <2>2. e \in Range(A) \cup Range(B) <=>
          \E p \in node : \E n \in Entries(p) : e = Entry(bgps, p, n)
    BY <1>8, Zenon
  <2>3. \A p \in node : \A n \in Entries(p) : Entry(bgps, p, n).asn = p.asn
    BY <1>9, Zenon
  <2> HIDE DEF A, B, out
  <2> QED
    BY <2>1, <2>2, <2>3, Zenon
<1> HIDE DEF A, B, E, J, U, out
<1>14. ASSUME NEW k \in DOMAIN out
       PROVE  \E p \in node : \E n \in Entries(p) : p.asn \notin tracked /\ EntryFits(out[k], p, n)
  <2>1. out[k] \in Range(out)
    BY Zenon DEF Range
  <2>2. PICK p \in node : \E n \in Entries(p) :
          p.asn \notin tracked /\ out[k] = Entry(bgps, p, n)
    BY <1>13, <2>1, Zenon
  <2>3. PICK n \in Entries(p) : p.asn \notin tracked /\ out[k] = Entry(bgps, p, n)
    BY <2>2, Zenon
  <2>4. EntryFits(Entry(bgps, p, n), p, n)
    BY <1>9, Zenon
  <2> QED
    BY <2>3, <2>4, Zenon
<1>15. ASSUME NEW p \in node, p.asn \notin tracked, NEW n \in Entries(p)
       PROVE  \E k \in DOMAIN out : \A l \in DOMAIN out : EntryFits(out[l], p, n) <=> l = k
  <2>1. PICK k \in DOMAIN out : out[k] = Entry(bgps, p, n)
    BY <1>13, <1>15, Zenon DEF Range
  <2>2. ASSUME NEW l \in DOMAIN out, EntryFits(out[l], p, n) PROVE l = k
    <3>0. out[l] \in Range(out)
      BY Zenon DEF Range
    <3>1. PICK q \in node : \E m \in Entries(q) : out[l] = Entry(bgps, q, m)
      BY <1>13, <3>0, Zenon
    <3>2. PICK m \in Entries(q) : out[l] = Entry(bgps, q, m)
      BY <3>1, Zenon
    <3>3. EntryFits(Entry(bgps, q, m), p, n)
      BY <2>2, <3>2, Zenon
    <3>4. q = p /\ m = n
      BY <1>9, <3>3, Zenon
    <3> QED
      BY <1>12, <2>1, <3>2, <3>4, Zenon DEF IsInjective
  <2>3. EntryFits(out[k], p, n)
    <3>1. EntryFits(Entry(bgps, p, n), p, n)
      BY <1>9, Zenon
    <3> QED
      BY <2>1, <3>1, Zenon
  <2> QED
    BY <2>2, <2>3, Zenon
<1> QED
  BY <1>14, <1>15, Zenon DEF ExactlyDue, out

(* The same from the directories, read in any order and with other files   *)
(* among them.                                                             *)
LEMMA ImportWhole ==
  ASSUME NEW node, Distinct(node), \A p \in node : WellNamed(p),
         NEW foreign, \A f \in foreign : ~f.parses,
         Cardinality(ConfsOf(node)) \in Nat,
         Cardinality(FilesOf(node) \cup foreign) \in Nat,
         NEW confs \in Orders(ConfsOf(node)),
         NEW files \in Orders(FilesOf(node) \cup foreign), NEW tracked
  PROVE  ExactlyDue(Import(WgScanPeers(confs), BirdScanPeers(files), tracked), node, tracked)
<1> DEFINE S == FilesOf(node) \cup foreign
           bgps == BirdScanPeers(files)
           wgs == WgScanPeers(confs)
<1>1. files \in Seq(S) /\ Range(files) = S /\ IsInjective(files)
  BY Directory
<1>2. bgps \in Seq(S) /\ Range(bgps) = {f \in S : f.parses} /\ IsInjective(bgps)
  <2> DEFINE P == {f \in Range(files) : f.parses}
  <2>1. bgps = Kept(files, P)
    BY DEF BirdScanPeers
  <2>2. {f \in Range(files) : f \in P} = {f \in S : f.parses}
    BY <1>1, Zenon
  <2> HIDE DEF S, P, bgps
  <2> QED
    BY <1>1, <2>1, <2>2, KeptIs
<1>3. \A f \in FilesOf(node) : f.parses
  <2>1. \A p, n : File(p, n).parses
    BY DEF File
  <2> QED
    BY <2>1, FileOf
<1>4. Range(bgps) = FilesOf(node)
  <2> HIDE DEF bgps
  <2> QED
    BY <1>2, <1>3
<1>5. /\ wgs \in Seq({Wg(p) : p \in node})
      /\ Range(wgs) = {Wg(p) : p \in {q \in node : Live(q)}}
      /\ \A i, j \in DOMAIN wgs : wgs[i].iface = wgs[j].iface => i = j
  BY WgOf, Zenon
<1> HIDE DEF bgps, S, wgs
<1> QED
  BY <1>2, <1>4, <1>5, ImportAll, Zenon DEF bgps, wgs

-----------------------------------------------------------------------------
(* GetPeerStates and GetPeerDetails. *)

(* Days are rounded up. *)
LEMMA Quotient ==
  ASSUME NEW a \in Nat, NEW b \in Nat \ {0}
  PROVE  /\ (a + b - 1) \div b \in Int
         /\ a <= ((a + b - 1) \div b) * b /\ ((a + b - 1) \div b) * b < a + b
OBVIOUS

(* parseSinceToUptimeSecs undoes what BIRD prints, across midnight and     *)
(* over any number of days.                                                *)
LEMMA UptimeExact ==
  ASSUME NEW now \in 0 .. Day - 1, NEW age \in Nat
  PROVE  UptimeFits(parseSinceToUptimeSecs(now, Since(now, age)), age)
<1> USE DayAssumption
<1>1. CASE age < ClockLimit
  BY <1>1 DEF UptimeFits, parseSinceToUptimeSecs, Since
<1>2. CASE ~(age < ClockLimit) /\ age > now
  <2> DEFINE d == (age - now + Day - 1) \div Day
  <2>1. /\ d \in Int
        /\ age - now <= d * Day /\ d * Day < age - now + Day
    BY <1>2, Quotient, SMTT(30)
  <2>2. parseSinceToUptimeSecs(now, Since(now, age)) = now + d * Day
    BY <1>2 DEF parseSinceToUptimeSecs, Since
  <2> DEFINE x == d * Day
  <2>3. x \in Int
    BY <2>1
  <2> HIDE DEF d, x
  <2> QED
    BY <1>2, <2>1, <2>2, <2>3, SMTT(30) DEF UptimeFits, x
<1>3. CASE ~(age < ClockLimit) /\ ~(age > now)
  <2>1. parseSinceToUptimeSecs(now, Since(now, age)) = now
    BY <1>3 DEF parseSinceToUptimeSecs, Since
  <2> QED
    BY <1>3, <2>1, SMTT(30) DEF UptimeFits
<1> QED
  BY <1>1, <1>2, <1>3, Zenon

(* One more member, after all others. *)
LEMMA NumberedNext ==
  ASSUME NEW n \in Nat \ {0}, NEW c \in Nat, NEW S \in SUBSET (1 .. n - 1),
         NEW at \in Numbered(c, S)
  PROVE  [k \in 1 .. c + 1 |-> IF k = c + 1 THEN n ELSE at[k]]
           \in Numbered(c + 1, S \cup {n})
<1> DEFINE new == [k \in 1 .. c + 1 |-> IF k = c + 1 THEN n ELSE at[k]]
<1>1. /\ at \in [1 .. c -> S]
      /\ \A j, k \in 1 .. c : j < k => at[j] < at[k]
      /\ \A i \in S : \E k \in 1 .. c : at[k] = i
  BY DEF Numbered
<1>2. \A k \in 1 .. c : at[k] \in S /\ at[k] < n /\ at[k] \in Nat
  <2>1. \A x \in S : x < n /\ x \in Nat
    OBVIOUS
  <2>2. \A k \in 1 .. c : at[k] \in S
    BY <1>1
  <2> QED
    BY <2>1, <2>2, Zenon
<1>3. \A k \in 1 .. c + 1 : k # c + 1 => k \in 1 .. c
  OBVIOUS
<1>4. new \in [1 .. c + 1 -> S \cup {n}]
  BY <1>2, <1>3
<1>5. ASSUME NEW j \in 1 .. c + 1, NEW k \in 1 .. c + 1, j < k PROVE new[j] < new[k]
  <2>1. j \in 1 .. c
    BY <1>5
  <2> QED
    BY <1>1, <1>2, <1>3, <1>5, <2>1
<1>6. ASSUME NEW i \in S \cup {n} PROVE \E k \in 1 .. c + 1 : new[k] = i
  <2>1. CASE i = n
    <3>1. c + 1 \in 1 .. c + 1 /\ new[c + 1] = n
      OBVIOUS
    <3> QED
      BY <2>1, <3>1
  <2>2. CASE i \in S
    <3>1. PICK k \in 1 .. c : at[k] = i
      BY <1>1, <2>2
    <3>2. k \in 1 .. c + 1 /\ new[k] = i
      BY <3>1
    <3> QED
      BY <3>2
  <2> QED
    BY <2>1, <2>2
<1> HIDE DEF new
<1>7. new \in Numbered(c + 1, S \cup {n})
  BY <1>4, <1>5, <1>6 DEF Numbered
<1> QED
  BY <1>7 DEF new

(* No members. *)
LEMMA NumberedNone == \A at : at \in [1 .. 0 -> {}] => at \in Numbered(0, {})
  BY DEF Numbered

StateRun(h, lines) ==
  /\ h[0] = <<>>
  /\ \A n \in 1 .. Len(lines) : h[n] = StateStep(h[n - 1], lines[n])

(* The states that lines of T can give. *)
States(T) == [name : {l.name : l \in T}, state : {l.info : l \in T}]

(* A step of the loop adds one of them or nothing. *)
LEMMA StateType ==
  ASSUME NEW T, NEW s \in Seq(States(T)), NEW l \in T
  PROVE  StateStep(s, l) \in Seq(States(T))
<1>1. [name |-> l.name, state |-> l.info] \in States(T)
  BY DEF States
<1> QED
  BY <1>1 DEF StateStep

(* The loop over the lines of the table. *)
LEMMA StateScan ==
  ASSUME NEW T, NEW lines \in Seq(T)
  PROVE  \E h \in [0 .. Len(lines) -> Seq(States(T))] :
           StateRun(h, lines) /\ GetPeerStates(lines) = h[Len(lines)]
<1> DEFINE N == Len(lines)
           V == Seq(States(T))
           step == [p \in (1 .. N) \X V |-> StateStep(p[2], lines[p[1]])]
           Loop(f) == f = [n \in 0 .. N |->
                             IF n = 0 THEN <<>> ELSE StateStep(f[n - 1], lines[n])]
           h == CHOOSE f : Loop(f)
<1>1. N \in Nat /\ \A n \in 1 .. N : lines[n] \in T
  BY Elements, Zenon
<1>2. <<>> \in V /\ \A n \in 1 .. N : \A v \in V : StateStep(v, lines[n]) \in V
  <2>1. <<>> \in V
    OBVIOUS
  <2>2. ASSUME NEW n \in 1 .. N, NEW v \in V PROVE StateStep(v, lines[n]) \in V
    BY <1>1, StateType, ZenonT(30)
  <2> QED
    BY <2>1, <2>2
<1>3. GetPeerStates(lines) = h[N]
  BY Zenon DEF GetPeerStates
<1> HIDE DEF V, N
<1>4. /\ step \in Steps(V, N)
      /\ \A n \in 1 .. N : \A v \in V : step[<<n, v>>] = StateStep(v, lines[n])
  BY <1>2 DEF Steps
<1> HIDE DEF step
<1>5. PICK g \in [0 .. N -> V] : Running(g, <<>>, step, N)
  BY <1>1, <1>2, <1>4, Run
<1> HIDE DEF h
<1>6. Loop(g)
  <2>1. ASSUME NEW n \in 0 .. N
        PROVE  g[n] = IF n = 0 THEN <<>> ELSE StateStep(g[n - 1], lines[n])
    <3>1. CASE n = 0
      BY <1>5, <3>1 DEF Running
    <3>2. CASE n # 0
      <4>1. n \in 1 .. N /\ g[n - 1] \in V
        BY <1>1, <3>2
      <4> QED
        BY <1>4, <1>5, <3>2, <4>1, Zenon DEF Running
    <3> QED
      BY <3>1, <3>2
  <2> QED
    BY <2>1
<1>7. Loop(h)
  <2> HIDE DEF Loop
  <2> QED
    BY <1>6, Zenon DEF h
<1>8. \A n \in 0 .. N : h[n] = IF n = 0 THEN <<>> ELSE StateStep(h[n - 1], lines[n])
  BY <1>7, Zenon
<1>9. h = [n \in 0 .. N |-> h[n]]
  BY <1>7, Zenon
<1>10. h[0] = <<>>
  BY <1>1, <1>8
<1>11. ASSUME NEW n \in 1 .. N PROVE h[n] = StateStep(h[n - 1], lines[n])
  <2>1. n \in 0 .. N /\ n # 0
    BY <1>1
  <2> QED
    BY <1>8, <2>1, Zenon
<1>12. \A n \in 0 .. N : h[n] \in V
  <2>1. h[0] \in V
    BY <1>2, <1>10
  <2>2. ASSUME NEW n \in 1 .. N, h[n - 1] \in V PROVE h[n] \in V
    BY <1>2, <1>11, <2>2
  <2> QED
    BY <1>1, <2>1, <2>2, Typed, Zenon
<1>13. h \in [0 .. N -> V]
  BY <1>9, <1>12, Zenon
<1> QED
  BY <1>3, <1>10, <1>11, <1>13, Zenon DEF N, V, StateRun

DetailRun(h, lines, now) ==
  /\ h[0] = <<>>
  /\ \A n \in 1 .. Len(lines) : h[n] = DetailStep(h[n - 1], lines[n], now)

(* The details that lines of T can give. *)
DetailSet(T, now) ==
  [name : {l.name : l \in T}, state : {l.info : l \in T}, routes : Nat,
   uptime : {parseSinceToUptimeSecs(now, l.since) : l \in T}]

(* t is s with r routes more in its last entry. *)
Added(s, t, r) ==
  /\ Len(t) = Len(s) /\ \A k \in 1 .. Len(s) - 1 : t[k] = s[k]
  /\ t[Len(s)] = [s[Len(s)] EXCEPT !.routes = @ + r]

(* A line of routes is added to the last entry. *)
LEMMA RoutesAdded ==
  ASSUME NEW T, NEW now, NEW s \in Seq(DetailSet(T, now)), s # <<>>,
         NEW l, ~l.head, l.routes \in Nat
  PROVE  /\ DetailStep(s, l, now) \in Seq(DetailSet(T, now))
         /\ Added(s, DetailStep(s, l, now), l.routes)
<1> DEFINE E == DetailSet(T, now)
           c == Len(s)
           e == [s[c] EXCEPT !.routes = @ + l.routes]
           t == [s EXCEPT ![c] = e]
<1>1. c \in Nat \ {0} /\ c \in 1 .. Len(s) /\ s[c] \in E
  OBVIOUS
<1>2. e \in E
  <2>1. s[c].routes + l.routes \in Nat
    BY <1>1 DEF DetailSet
  <2> QED
    BY <1>1, <2>1, Zenon DEF DetailSet
<1>3. DetailStep(s, l, now) = t
  BY Zenon DEF DetailStep
<1> HIDE DEF E, e
<1>4. /\ t \in Seq(E) /\ Len(t) = Len(s)
      /\ \A k \in 1 .. Len(s) : t[k] = IF k = c THEN e ELSE s[k]
  <2> HIDE DEF c
  <2> QED
    BY <1>1, <1>2 DEF E
<1> HIDE DEF t
<1>5. t[c] = e /\ \A k \in 1 .. c - 1 : t[k] = s[k]
  <2> HIDE DEF c
  <2>1. \A k \in 1 .. c - 1 : k \in 1 .. Len(s) /\ k # c
    BY <1>1 DEF c
  <2> QED
    BY <1>1, <1>4, <2>1, SMTT(30)
<1> QED
  BY <1>3, <1>4, <1>5, Zenon DEF Added, c, e, E

(* A step of the loop adds an entry, changes the last one or does nothing. *)
LEMMA DetailType ==
  ASSUME NEW T, NEW now, NEW s \in Seq(DetailSet(T, now)), NEW l \in T,
         ~l.head => l.routes \in Nat
  PROVE  DetailStep(s, l, now) \in Seq(DetailSet(T, now))
<1>1. CASE l.head
  <2>1. NewDetail(l, now) \in DetailSet(T, now)
    BY DEF NewDetail, DetailSet
  <2> QED
    BY <1>1, <2>1 DEF DetailStep
<1>2. CASE ~l.head /\ s = <<>>
  BY <1>2 DEF DetailStep
<1>3. CASE ~l.head /\ s # <<>>
  BY <1>3, RoutesAdded, Zenon
<1> QED
  BY <1>1, <1>2, <1>3

(* The loop over the lines of the output. *)
LEMMA DetailScan ==
  ASSUME NEW T, NEW now, NEW lines \in Seq(T), \A l \in T : ~l.head => l.routes \in Nat
  PROVE  \E h \in [0 .. Len(lines) -> Seq(DetailSet(T, now))] :
           DetailRun(h, lines, now) /\ GetPeerDetails(lines, now) = h[Len(lines)]
<1> DEFINE N == Len(lines)
           V == Seq(DetailSet(T, now))
           step == [p \in (1 .. N) \X V |-> DetailStep(p[2], lines[p[1]], now)]
           Loop(f) == f = [n \in 0 .. N |->
                             IF n = 0 THEN <<>> ELSE DetailStep(f[n - 1], lines[n], now)]
           h == CHOOSE f : Loop(f)
<1>1. N \in Nat /\ \A n \in 1 .. N : lines[n] \in T
  BY Elements, Zenon
<1>2. <<>> \in V /\ \A n \in 1 .. N : \A v \in V : DetailStep(v, lines[n], now) \in V
  BY <1>1, DetailType
<1>3. GetPeerDetails(lines, now) = h[N]
  BY Zenon DEF GetPeerDetails
<1> HIDE DEF V, N
<1>4. /\ step \in Steps(V, N)
      /\ \A n \in 1 .. N : \A v \in V : step[<<n, v>>] = DetailStep(v, lines[n], now)
  BY <1>2 DEF Steps
<1> HIDE DEF step
<1>5. PICK g \in [0 .. N -> V] : Running(g, <<>>, step, N)
  BY <1>1, <1>2, <1>4, Run
<1> HIDE DEF h
<1>6. Loop(g)
  <2>1. ASSUME NEW n \in 0 .. N
        PROVE  g[n] = IF n = 0 THEN <<>> ELSE DetailStep(g[n - 1], lines[n], now)
    <3>1. CASE n = 0
      BY <1>5, <3>1 DEF Running
    <3>2. CASE n # 0
      <4>1. n \in 1 .. N /\ g[n - 1] \in V
        BY <1>1, <3>2
      <4> QED
        BY <1>4, <1>5, <3>2, <4>1, ZenonT(30) DEF Running
    <3> QED
      BY <3>1, <3>2
  <2> QED
    BY <2>1
<1>7. Loop(h)
  <2> HIDE DEF Loop
  <2> QED
    BY <1>6, Zenon DEF h
<1>8. \A n \in 0 .. N : h[n] = IF n = 0 THEN <<>> ELSE DetailStep(h[n - 1], lines[n], now)
  BY <1>7, Zenon
<1>9. h = [n \in 0 .. N |-> h[n]]
  BY <1>7, Zenon
<1>10. h[0] = <<>>
  BY <1>1, <1>8
<1>11. ASSUME NEW n \in 1 .. N PROVE h[n] = DetailStep(h[n - 1], lines[n], now)
  <2>1. n \in 0 .. N /\ n # 0
    BY <1>1
  <2> QED
    BY <1>8, <2>1, Zenon
<1>12. \A n \in 0 .. N : h[n] \in V
  <2>1. h[0] \in V
    BY <1>2, <1>10
  <2>2. ASSUME NEW n \in 1 .. N, h[n - 1] \in V PROVE h[n] \in V
    BY <1>2, <1>11, <2>2
  <2> QED
    BY <1>1, <2>1, <2>2, Typed, Zenon
<1>13. h \in [0 .. N -> V]
  BY <1>9, <1>12, Zenon
<1> QED
  BY <1>3, <1>10, <1>11, <1>13, Zenon DEF N, V, DetailRun

TotalRun(h, channels) ==
  h[0] = 0 /\ \A n \in 1 .. Len(channels) : h[n] = h[n - 1] + channels[n]

(* The sum of a list of counts. *)
LEMMA TotalScan ==
  ASSUME NEW channels \in Seq(Nat)
  PROVE  \E h \in [0 .. Len(channels) -> Nat] :
           TotalRun(h, channels) /\ Total(channels) = h[Len(channels)]
<1> DEFINE N == Len(channels)
           V == Nat
           step == [p \in (1 .. N) \X V |-> p[2] + channels[p[1]]]
           Loop(f) == f = [n \in 0 .. N |->
                             IF n = 0 THEN 0 ELSE f[n - 1] + channels[n]]
           h == CHOOSE f : Loop(f)
<1>1. N \in Nat /\ \A n \in 1 .. N : channels[n] \in Nat
  BY Elements, Zenon
<1>2. 0 \in V /\ \A n \in 1 .. N : \A v \in V : v + channels[n] \in V
  BY <1>1, SMTT(30)
<1>3. Total(channels) = h[N]
  BY Zenon DEF Total
<1> HIDE DEF V, N
<1>4. /\ step \in Steps(V, N)
      /\ \A n \in 1 .. N : \A v \in V : step[<<n, v>>] = v + channels[n]
  BY <1>2 DEF Steps
<1> HIDE DEF step
<1>5. PICK g \in [0 .. N -> V] : Running(g, 0, step, N)
  BY <1>1, <1>2, <1>4, Run, Zenon
<1> HIDE DEF h
<1>6. Loop(g)
  <2>1. ASSUME NEW n \in 0 .. N
        PROVE  g[n] = IF n = 0 THEN 0 ELSE g[n - 1] + channels[n]
    <3>1. CASE n = 0
      BY <1>5, <3>1 DEF Running
    <3>2. CASE n # 0
      <4>1. n \in 1 .. N /\ g[n - 1] \in V
        BY <1>1, <3>2
      <4> QED
        BY <1>4, <1>5, <3>2, <4>1, Zenon DEF Running
    <3> QED
      BY <3>1, <3>2
  <2> QED
    BY <2>1
<1>7. Loop(h)
  <2> HIDE DEF Loop
  <2> QED
    BY <1>6, Zenon DEF h
<1>8. \A n \in 0 .. N : h[n] = IF n = 0 THEN 0 ELSE h[n - 1] + channels[n]
  BY <1>7, Zenon
<1>9. h = [n \in 0 .. N |-> h[n]]
  BY <1>7, Zenon
<1>10. h[0] = 0
  BY <1>1, <1>8
<1>11. ASSUME NEW n \in 1 .. N PROVE h[n] = h[n - 1] + channels[n]
  <2>1. n \in 0 .. N /\ n # 0
    BY <1>1
  <2> QED
    BY <1>8, <2>1, Zenon
<1>12. \A n \in 0 .. N : h[n] \in V
  <2>1. h[0] \in V
    BY <1>2, <1>10
  <2>2. ASSUME NEW n \in 1 .. N, h[n - 1] \in V PROVE h[n] \in V
    BY <1>2, <1>11, <2>2
  <2> QED
    BY <1>1, <2>1, <2>2, Typed, Zenon
<1>13. h \in [0 .. N -> V]
  BY <1>9, <1>12, Zenon
<1> QED
  BY <1>3, <1>10, <1>11, <1>13, Zenon DEF N, V, TotalRun

(* Entry k of s is that of the k-th member of S. *)
Matched(s, S, rel) ==
  \E at \in Numbered(Len(s), S) : \A k \in 1 .. Len(s) : <<s[k], at[k]>> \in rel

(* The same after an entry and a member more. *)
LEMMA MatchedNext ==
  ASSUME NEW n \in Nat \ {0}, NEW S \in SUBSET (1 .. n - 1), NEW E, NEW rel,
         NEW s \in Seq(E), NEW t \in Seq(E), Matched(s, S, rel),
         Len(t) = Len(s) + 1, \A k \in 1 .. Len(s) : t[k] = s[k],
         <<t[Len(t)], n>> \in rel
  PROVE  Matched(t, S \cup {n}, rel)
<1> DEFINE c == Len(s)
<1>1. PICK at \in Numbered(c, S) : \A k \in 1 .. c : <<s[k], at[k]>> \in rel
  BY Zenon DEF Matched
<1> DEFINE new == [k \in 1 .. c + 1 |-> IF k = c + 1 THEN n ELSE at[k]]
<1>2. c \in Nat
  OBVIOUS
<1>3. Len(t) = c + 1 /\ \A k \in 1 .. c : t[k] = s[k]
  OBVIOUS
<1> HIDE DEF c
<1>4. new \in Numbered(c + 1, S \cup {n})
  BY <1>2, NumberedNext, Zenon
<1>5. ASSUME NEW k \in 1 .. c + 1 PROVE <<t[k], new[k]>> \in rel
  <2>1. CASE k = c + 1
    BY <1>3, <2>1, Zenon
  <2>2. CASE k # c + 1
    <3>1. k \in 1 .. c
      BY <1>2, <2>2
    <3>2. t[k] = s[k] /\ new[k] = at[k]
      BY <1>3, <2>2, <3>1
    <3> QED
      BY <1>1, <3>1, <3>2
  <2> QED
    BY <2>1, <2>2, Zenon
<1> HIDE DEF new
<1> QED
  BY <1>3, <1>4, <1>5 DEF Matched

(* Nothing is matched with nothing. *)
LEMMA MatchedNone == \A rel : Matched(<<>>, {}, rel)
<1> TAKE rel
<1> DEFINE at == [k \in 1 .. 0 |-> k]
<1>1. at \in [1 .. 0 -> {}] /\ Len(<<>>) = 0
  OBVIOUS
<1>2. at \in Numbered(0, {})
  BY <1>1, NumberedNone, Zenon
<1>3. \A k \in 1 .. 0 : <<<<>>[k], at[k]>> \in rel
  OBVIOUS
<1> HIDE DEF at
<1> QED
  BY <1>1, <1>2, <1>3, Zenon DEF Matched

(* out has an entry for each BGP protocol with an Info column, in order. *)
StatesOf(out, ps) ==
  \E at \in Numbered(Len(out), {i \in DOMAIN ps : ps[i].bgp /\ ps[i].info # NoInfo}) :
    \A k \in DOMAIN out : out[k] = [name |-> ps[at[k]].name, state |-> ps[at[k]].info]

(* GetPeerStates lists these protocols. *)
LEMMA StatesExact ==
  ASSUME NEW ps \in Seq(Protocols), NEW now
  PROVE  StatesOf(GetPeerStates(Table(ps, now)), ps)
<1> DEFINE lines == Table(ps, now)
           N == Len(ps)
           T == {Row(ps[i], now) : i \in 1 .. N}
           E == States(T)
           Listed(n) == {i \in 1 .. n : ps[i].bgp /\ ps[i].info # NoInfo}
           rel == {x \in E \X (1 .. N) :
                     x[1] = [name |-> ps[x[2]].name, state |-> ps[x[2]].info]}
<1>1. N \in Nat /\ DOMAIN ps = 1 .. N /\ \A n \in 1 .. N : ps[n] \in Protocols
  BY Elements, Zenon
<1>2. lines \in Seq(T) /\ Len(lines) = N /\ \A n \in 1 .. N : lines[n] = Row(ps[n], now)
  BY <1>1 DEF Table
<1> HIDE DEF lines, N
<1>3. PICK h \in [0 .. N -> Seq(E)] : StateRun(h, lines) /\ GetPeerStates(lines) = h[N]
  <2> HIDE DEF T
  <2> QED
    BY <1>2, StateScan, Zenon
<1> DEFINE S == {n \in 0 .. N : Matched(h[n], Listed(n), rel)}
<1>4. 0 \in S /\ S \in SUBSET (0 .. N)
  <2>1. h[0] = <<>> /\ 0 \in 0 .. N
    BY <1>1, <1>3 DEF StateRun
  <2>2. Listed(0) = {}
    OBVIOUS
  <2> HIDE DEF rel, Listed
  <2> QED
    BY <2>1, <2>2, MatchedNone, Zenon
<1>5. ASSUME NEW n \in 1 .. N, n - 1 \in S PROVE n \in S
  <2>1. n \in 0 .. N /\ n - 1 \in 0 .. N /\ n \in Nat \ {0}
    BY <1>1
  <2>2. h[n] = StateStep(h[n - 1], Row(ps[n], now)) /\ h[n - 1] \in Seq(E) /\ h[n] \in Seq(E)
    BY <1>2, <1>3, <2>1, ZenonT(30) DEF StateRun
  <2>3. Matched(h[n - 1], Listed(n - 1), rel) /\ Listed(n - 1) \in SUBSET (1 .. n - 1)
    BY <1>5
  <2>4. CASE ps[n].bgp /\ ps[n].info # NoInfo
    <3> DEFINE e == [name |-> ps[n].name, state |-> ps[n].info]
    <3>1. h[n] = Append(h[n - 1], e)
      BY <2>2, <2>4, Zenon DEF StateStep, Row
    <3>2. e \in E
      <4>1. Row(ps[n], now) \in T /\ Row(ps[n], now).name = ps[n].name
              /\ Row(ps[n], now).info = ps[n].info
        BY Zenon DEF Row
      <4> HIDE DEF T
      <4> QED
        BY <4>1 DEF States
    <3>3. <<e, n>> \in rel
      BY <3>2
    <3>4. Listed(n) = Listed(n - 1) \cup {n}
      BY <2>1, <2>4, SMTT(30)
    <3> HIDE DEF e, rel, Listed, E, T
    <3>5. /\ Len(h[n]) = Len(h[n - 1]) + 1 /\ h[n][Len(h[n])] = e
          /\ \A k \in 1 .. Len(h[n - 1]) : h[n][k] = h[n - 1][k]
      BY <2>2, <3>1, <3>2
    <3>6. Matched(h[n], Listed(n - 1) \cup {n}, rel)
      BY <2>1, <2>2, <2>3, <3>3, <3>5, MatchedNext, Zenon
    <3> QED
      BY <2>1, <3>4, <3>6, Zenon
  <2>5. CASE ~(ps[n].bgp /\ ps[n].info # NoInfo)
    <3>1. h[n] = h[n - 1]
      BY <2>2, <2>5 DEF StateStep, Row
    <3>2. Listed(n) = Listed(n - 1)
      BY <2>1, <2>5
    <3> HIDE DEF rel, Listed
    <3> QED
      BY <2>1, <2>3, <3>1, <3>2, Zenon
  <2> QED
    BY <2>4, <2>5
<1> HIDE DEF S
<1>6. S = 0 .. N
  BY <1>1, <1>4, <1>5, InductTo
<1>7. N \in S
  BY <1>1, <1>6
<1>8. Matched(h[N], Listed(N), rel)
  BY <1>7, Zenon DEF S
<1>9. PICK at \in Numbered(Len(h[N]), Listed(N)) :
        \A k \in 1 .. Len(h[N]) : <<h[N][k], at[k]>> \in rel
  <2> HIDE DEF rel, Listed
  <2> QED
    BY <1>8, Zenon DEF Matched
<1>10. \A x, i : <<x, i>> \in rel => x = [name |-> ps[i].name, state |-> ps[i].info]
  OBVIOUS
<1>11. Listed(N) = {i \in DOMAIN ps : ps[i].bgp /\ ps[i].info # NoInfo}
  BY <1>1
<1> HIDE DEF rel, Listed
<1>12. \A k \in 1 .. Len(h[N]) : h[N][k] = [name |-> ps[at[k]].name, state |-> ps[at[k]].info]
  BY <1>9, <1>10, Zenon
<1>13. DOMAIN h[N] = 1 .. Len(h[N])
  <2>1. h[N] \in Seq(E) /\ Len(h[N]) \in Nat
    <3> HIDE DEF E
    <3> QED
      BY <1>1, <1>3
  <2> QED
    BY <2>1, Elements
<1> QED
  BY <1>3, <1>9, <1>11, <1>12, <1>13, ZenonT(30) DEF lines, StatesOf

(* A protocol's lines: its row, and one for each channel. *)
LEMMA PrintedIs ==
  ASSUME NEW p \in Protocols, NEW now
  PROVE  /\ Len(Printed(p, now)) = 1 + Len(p.channels)
         /\ Printed(p, now)[1] = Row(p, now)
         /\ \A c \in 1 .. Len(p.channels) :
              Printed(p, now)[1 + c] = [head |-> FALSE, routes |-> p.channels[c]]
<1> DEFINE L == Len(p.channels)
           row == Row(p, now)
           rest == [i \in 1 .. L |-> [head |-> FALSE, routes |-> p.channels[i]]]
<1>1. L \in Nat /\ DOMAIN p.channels = 1 .. L
  BY DEF Protocols
<1>2. Printed(p, now) = <<row>> \o rest
  BY <1>1 DEF Printed
<1>3. \A c \in 1 .. L : rest[c] = [head |-> FALSE, routes |-> p.channels[c]]
  OBVIOUS
<1> DEFINE X == {row} \cup {rest[i] : i \in 1 .. L}
<1>4. rest \in Seq(X) /\ Len(rest) = L
  <2>1. DOMAIN rest = 1 .. L /\ \A i \in 1 .. L : rest[i] \in X
    BY Zenon
  <2>2. rest = [i \in 1 .. L |-> rest[i]]
    OBVIOUS
  <2> HIDE DEF X, rest, L
  <2> QED
    BY <1>1, <2>1, <2>2
<1>5. <<row>> \in Seq(X) /\ Len(<<row>>) = 1 /\ <<row>>[1] = row
  BY DEF X
<1> HIDE DEF X, row, rest, L
<1>6. /\ Len(<<row>> \o rest) = 1 + L /\ (<<row>> \o rest)[1] = row
      /\ \A c \in 1 .. L : (<<row>> \o rest)[1 + c] = rest[c]
  <2>1. 1 \in 1 .. 1
    OBVIOUS
  <2> QED
    BY <1>4, <1>5, <2>1, Concat
<1> QED
  BY <1>2, <1>3, <1>6, Zenon DEF L, row

(* The lines of p are those after the first a. *)
PrintedAt(lines, a, p, now) ==
  \A k \in 1 .. Len(Printed(p, now)) :
    a + k \in 1 .. Len(lines) /\ lines[a + k] = Printed(p, now)[k]

(* Their steps, one after the other. *)
StepsOf(d, a, p, now) ==
  /\ d[a + 1] = DetailStep(d[a], Row(p, now), now)
  /\ \A c \in 1 .. Len(p.channels) :
       d[a + 1 + c] = DetailStep(d[a + c], [head |-> FALSE, routes |-> p.channels[c]], now)

(* They are the steps the loop takes from there. *)
LEMMA Reading ==
  ASSUME NEW p \in Protocols, NEW now, NEW lines, NEW d,
         DetailRun(d, lines, now), NEW a \in Nat, PrintedAt(lines, a, p, now)
  PROVE  StepsOf(d, a, p, now)
<1> DEFINE L == Len(p.channels)
           M == Len(lines)
           P == Printed(p, now)
<1>1. L \in Nat
  BY DEF Protocols
<1>2. Len(P) = 1 + L /\ P[1] = Row(p, now)
      /\ \A c \in 1 .. L : P[1 + c] = [head |-> FALSE, routes |-> p.channels[c]]
  BY PrintedIs
<1>3. \A k \in 1 .. Len(P) : a + k \in 1 .. M /\ lines[a + k] = P[k]
  BY Zenon DEF PrintedAt
<1>4. \A n \in 1 .. M : d[n] = DetailStep(d[n - 1], lines[n], now)
  BY Zenon DEF DetailRun
<1> HIDE DEF L, M, P
<1>5. ASSUME NEW k \in 1 .. 1 + L
      PROVE  d[a + k] = DetailStep(d[(a + k) - 1], P[k], now)
  <2>1. a + k \in 1 .. M /\ lines[a + k] = P[k]
    BY <1>2, <1>3, Zenon
  <2> QED
    BY <1>4, <2>1, Zenon
<1>6. d[a + 1] = DetailStep(d[a], Row(p, now), now)
  <2>1. 1 \in 1 .. 1 + L /\ (a + 1) - 1 = a
    BY <1>1, SMTT(30)
  <2> QED
    BY <1>2, <1>5, <2>1, Zenon
<1>7. ASSUME NEW c \in 1 .. L
      PROVE  d[a + 1 + c] = DetailStep(d[a + c], [head |-> FALSE, routes |-> p.channels[c]], now)
  <2>1. 1 + c \in 1 .. 1 + L /\ (a + (1 + c)) - 1 = a + c /\ a + (1 + c) = a + 1 + c
    BY <1>1, SMTT(30)
  <2>2. P[1 + c] = [head |-> FALSE, routes |-> p.channels[c]]
    BY <1>2
  <2>3. d[a + (1 + c)] = DetailStep(d[(a + (1 + c)) - 1], P[1 + c], now)
    BY <1>5, <2>1
  <2> QED
    BY <2>1, <2>2, <2>3, Zenon
<1> QED
  BY <1>6, <1>7, Zenon DEF StepsOf, L

(* t is s with an entry for p more. *)
OneMore(s, t, p) ==
  /\ Len(t) = Len(s) + 1 /\ \A k \in 1 .. Len(s) : t[k] = s[k]
  /\ DetailFits(t[Len(t)], p)

(* The lines of a BGP protocol add one entry, which is right. *)
LEMMA BgpRead ==
  ASSUME NEW p \in Protocols, p.bgp, NEW now \in 0 .. Day - 1,
         NEW T, NEW lines, NEW d, DetailRun(d, lines, now),
         NEW a \in Nat, PrintedAt(lines, a, p, now),
         d[a] \in Seq(DetailSet(T, now)), Row(p, now) \in T
  PROVE  /\ d[a + 1 + Len(p.channels)] \in Seq(DetailSet(T, now))
         /\ OneMore(d[a], d[a + 1 + Len(p.channels)], p)
<1> DEFINE E == DetailSet(T, now)
           L == Len(p.channels)
           s == d[a]
           up == parseSinceToUptimeSecs(now, Since(now, p.age))
           Detail(r) == [name |-> p.name, state |-> p.info, routes |-> r, uptime |-> up]
<1>1. L \in Nat /\ \A c \in 1 .. L : p.channels[c] \in Nat
  BY DEF Protocols
<1>2. PICK sum \in [0 .. L -> Nat] : TotalRun(sum, p.channels) /\ Total(p.channels) = sum[L]
  <2>1. p.channels \in Seq(Nat)
    BY DEF Protocols
  <2> QED
    BY <2>1, TotalScan, Zenon
<1> DEFINE Good(c, t) ==
             /\ t \in Seq(E) /\ Len(t) = Len(s) + 1
             /\ \A k \in 1 .. Len(s) : t[k] = s[k]
             /\ t[Len(t)] = Detail(sum[c])
           S == {c \in 0 .. L : Good(c, d[a + 1 + c])}
<1>3. /\ d[a + 1] = DetailStep(s, Row(p, now), now)
      /\ \A c \in 1 .. L :
           d[a + 1 + c] = DetailStep(d[a + c], [head |-> FALSE, routes |-> p.channels[c]], now)
  <2>1. StepsOf(d, a, p, now)
    BY Reading
  <2> QED
    BY <2>1, Zenon DEF StepsOf
<1>4. 0 \in S /\ S \in SUBSET (0 .. L)
  <2>1. /\ Row(p, now).head /\ Row(p, now).bgp
        /\ NewDetail(Row(p, now), now) = Detail(0)
    BY DEF Row, NewDetail
  <2>2. Detail(0) \in E
    <3>1. NewDetail(Row(p, now), now) \in E
      BY DEF NewDetail, DetailSet
    <3> QED
      BY <2>1, <3>1, Zenon
  <2>3. d[a + 1] = Append(s, Detail(0))
    BY <1>3, <2>1, Zenon DEF DetailStep
  <2>4. sum[0] = 0 /\ 0 \in 0 .. L /\ a + 1 + 0 = a + 1
    BY <1>1, <1>2 DEF TotalRun
  <2> HIDE DEF Detail, E, s, L
  <2>5. s \in Seq(E)
    BY DEF s, E
  <2>6. Good(0, d[a + 1])
    BY <2>2, <2>3, <2>4, <2>5, SMTT(30)
  <2> HIDE DEF Good
  <2> QED
    BY <2>4, <2>6, Zenon
<1>5. ASSUME NEW c \in 1 .. L, c - 1 \in S PROVE c \in S
  <2> DEFINE x == d[a + c]
             l == [head |-> FALSE, routes |-> p.channels[c]]
             y == d[a + 1 + c]
  <2>1. c \in 0 .. L /\ c - 1 \in 0 .. L /\ a + 1 + (c - 1) = a + c
    BY <1>1
  <2>2. Good(c - 1, x)
    <3> HIDE DEF Good
    <3> QED
      BY <1>5, <2>1
  <2>3. y = DetailStep(x, l, now)
    BY <1>3, Zenon
  <2>4. ~l.head /\ l.routes \in Nat /\ l.routes = p.channels[c]
    BY <1>1
  <2>5. sum[c] = sum[c - 1] + p.channels[c] /\ sum[c - 1] \in Nat
    BY <1>2, <2>1, Zenon DEF TotalRun
  <2>6. Len(s) \in Nat
    BY DEF E
  <2> HIDE DEF x, y, l, s, L
  <2>7. x # <<>> /\ x \in Seq(E) /\ Len(x) = Len(s) + 1
    <3> HIDE DEF E, Detail
    <3>1. x \in Seq(E) /\ Len(x) = Len(s) + 1
      BY <2>2
    <3>2. x # <<>>
      BY <2>6, <3>1
    <3> QED
      BY <3>1, <3>2, Zenon
  <2>8. /\ y \in Seq(E) /\ Len(y) = Len(x)
        /\ \A k \in 1 .. Len(x) - 1 : y[k] = x[k]
        /\ y[Len(x)] = [x[Len(x)] EXCEPT !.routes = @ + l.routes]
    <3>1. y \in Seq(E) /\ Added(x, y, l.routes)
      BY <2>3, <2>4, <2>7, RoutesAdded, ZenonT(30)
    <3> QED
      BY <3>1, Zenon DEF Added
  <2>9. x[Len(x)] = Detail(sum[c - 1])
    BY <2>2
  <2>10. y[Len(y)] = Detail(sum[c])
    BY <2>4, <2>5, <2>8, <2>9, SMTT(30)
  <2>11. \A k \in 1 .. Len(s) : y[k] = s[k]
    <3>1. \A k \in 1 .. Len(s) : x[k] = s[k] /\ k \in 1 .. Len(x) - 1
      BY <2>2, <2>6, <2>7
    <3> QED
      BY <2>8, <3>1
  <2> HIDE DEF Detail, E
  <2>12. Good(c, y)
    BY <2>7, <2>8, <2>10, <2>11
  <2> HIDE DEF Good
  <2> QED
    BY <2>1, <2>12, Zenon DEF y
<1> HIDE DEF S, Good, s, L
<1>6. S = 0 .. L
  BY <1>1, <1>4, <1>5, InductTo, Zenon
<1>7. L \in S
  BY <1>1, <1>6
<1>8. Good(L, d[a + 1 + L])
  BY <1>7, Zenon DEF S
<1>9. UptimeFits(up, p.age)
  <2>1. p.age \in Nat
    BY DEF Protocols
  <2> QED
    BY <2>1, UptimeExact
<1>10. DetailFits(Detail(sum[L]), p)
  <2> HIDE DEF up
  <2> QED
    BY <1>2, <1>9 DEF DetailFits, L
<1> HIDE DEF Detail
<1> QED
  BY <1>8, <1>10, Zenon DEF OneMore, Good, L, s

(* Those of another protocol add nothing as long as there is no entry. *)
LEMMA OtherRead ==
  ASSUME NEW p \in Protocols, ~p.bgp, NEW now,
         NEW lines, NEW d, DetailRun(d, lines, now),
         NEW a \in Nat, PrintedAt(lines, a, p, now)
  PROVE  d[a] = <<>> => d[a + 1 + Len(p.channels)] = <<>>
<1> SUFFICES ASSUME d[a] = <<>> PROVE d[a + 1 + Len(p.channels)] = <<>>
  BY Zenon
<1> DEFINE L == Len(p.channels)
           S == {c \in 0 .. L : d[a + 1 + c] = <<>>}
<1>1. L \in Nat
  BY DEF Protocols
<1>2. /\ d[a + 1] = DetailStep(d[a], Row(p, now), now)
      /\ \A c \in 1 .. L :
           d[a + 1 + c] = DetailStep(d[a + c], [head |-> FALSE, routes |-> p.channels[c]], now)
  <2>1. StepsOf(d, a, p, now)
    BY Reading
  <2> QED
    BY <2>1, Zenon DEF StepsOf
<1>3. \A r : DetailStep(<<>>, [head |-> FALSE, routes |-> r], now) = <<>>
  <2>1. ASSUME NEW l, ~l.head PROVE DetailStep(<<>>, l, now) = <<>>
    BY <2>1, Zenon DEF DetailStep
  <2>2. \A r : ~[head |-> FALSE, routes |-> r].head
    OBVIOUS
  <2> QED
    BY <2>1, <2>2, Zenon
<1>4. DetailStep(<<>>, Row(p, now), now) = <<>>
  BY Zenon DEF DetailStep, Row
<1> HIDE DEF L
<1>5. 0 \in S /\ S \in SUBSET (0 .. L)
  <2>1. 0 \in 0 .. L /\ a + 1 + 0 = a + 1
    BY <1>1, SMTT(30)
  <2> QED
    BY <1>2, <1>4, <2>1, Zenon
<1>6. ASSUME NEW c \in 1 .. L, c - 1 \in S PROVE c \in S
  <2>1. c \in 0 .. L /\ a + 1 + (c - 1) = a + c
    BY <1>1, SMTT(30)
  <2>2. d[a + c] = <<>>
    BY <1>6, <2>1
  <2>3. d[a + 1 + c] = <<>>
    BY <1>2, <1>3, <2>2, Zenon
  <2> QED
    BY <2>1, <2>3, Zenon
<1> HIDE DEF S
<1>7. S = 0 .. L
  BY <1>1, <1>5, <1>6, InductTo, Zenon
<1>8. L \in S
  BY <1>1, <1>7
<1> QED
  BY <1>8, Zenon DEF S, L

(* The lines of all protocols. *)
LEMMA OutputIs ==
  ASSUME NEW ps \in Seq(Protocols), NEW now
  PROVE  \E T : \E at :
           /\ Output(ps, now) \in Seq(T) /\ \A l \in T : ~l.head => l.routes \in Nat
           /\ at \in [0 .. Len(ps) -> Nat] /\ at[0] = 0 /\ at[Len(ps)] = Len(Output(ps, now))
           /\ \A i \in 1 .. Len(ps) :
                /\ Row(ps[i], now) \in T
                /\ at[i] = at[i - 1] + 1 + Len(ps[i].channels)
                /\ PrintedAt(Output(ps, now), at[i - 1], ps[i], now)
<1> DEFINE N == Len(ps)
           T == {Row(ps[i], now) : i \in 1 .. N} \cup [head : {FALSE}, routes : Nat]
           seqs == [i \in 1 .. N |-> Printed(ps[i], now)]
<1>1. N \in Nat /\ DOMAIN ps = 1 .. N /\ \A i \in 1 .. N : ps[i] \in Protocols
  BY Elements, Zenon
<1>2. Output(ps, now) = Joined(seqs)
  BY <1>1 DEF Output
<1>3. ASSUME NEW l \in T, ~l.head PROVE l.routes \in Nat
  <2>1. \A i : Row(ps[i], now).head
    BY DEF Row
  <2>2. l \in [head : {FALSE}, routes : Nat]
    BY <1>3, <2>1, Zenon
  <2> QED
    BY <2>2, Zenon
<1>4. ASSUME NEW i \in 1 .. N PROVE Row(ps[i], now) \in T /\ Printed(ps[i], now) \in Seq(T)
  <2> DEFINE p == ps[i]
             row == Row(p, now)
             rest == [c \in DOMAIN p.channels |-> [head |-> FALSE, routes |-> p.channels[c]]]
  <2>1. p \in Protocols /\ row \in T
    BY <1>1, Zenon
  <2> HIDE DEF p, row
  <2>2. /\ Len(p.channels) \in Nat /\ DOMAIN p.channels = 1 .. Len(p.channels)
        /\ \A c \in 1 .. Len(p.channels) : p.channels[c] \in Nat
    BY <2>1, SMTT(30) DEF Protocols
  <2>3. <<row>> \in Seq(T) /\ rest \in Seq(T)
    <3> DEFINE L == Len(p.channels)
    <3>1. \A c \in 1 .. L : [head |-> FALSE, routes |-> p.channels[c]] \in T
      <4>1. \A r \in Nat : [head |-> FALSE, routes |-> r] \in [head : {FALSE}, routes : Nat]
        OBVIOUS
      <4> QED
        BY <2>2, <4>1, Zenon
    <3>2. DOMAIN rest = 1 .. L /\ \A c \in 1 .. L : rest[c] \in T
      <4> HIDE DEF T
      <4> QED
        BY <2>2, <3>1, Zenon
    <3>3. rest = [c \in 1 .. L |-> rest[c]]
      BY <2>2, Zenon
    <3>4. L \in Nat
      BY <2>2
    <3> HIDE DEF T, rest, L
    <3>5. rest \in Seq(T)
      BY <3>2, <3>3, <3>4, SMTT(30)
    <3> QED
      BY <2>1, <3>5
  <2>4. Printed(p, now) = <<row>> \o rest
    BY DEF Printed, row
  <2> HIDE DEF rest, T
  <2>5. Printed(p, now) \in Seq(T)
    BY <2>3, <2>4, Concat
  <2> QED
    BY <2>1, <2>5 DEF p, row
<1> HIDE DEF T
<1>5. seqs \in Seq(Seq(T)) /\ Len(seqs) = N /\ \A i \in 1 .. N : seqs[i] = Printed(ps[i], now)
  BY <1>1, <1>4
<1> HIDE DEF seqs
<1>6. Output(ps, now) \in Seq(T)
  BY <1>2, <1>5, Joins
<1>7. PICK at : Pieces(at, seqs, Output(ps, now))
  BY <1>2, <1>5, Joins
<1> HIDE DEF N
<1>8. at \in [0 .. N -> Nat] /\ at[0] = 0 /\ at[N] = Len(Output(ps, now))
  BY <1>5, <1>7, Zenon DEF Pieces
<1>9. ASSUME NEW i \in 1 .. N
      PROVE  /\ at[i] = at[i - 1] + 1 + Len(ps[i].channels)
             /\ PrintedAt(Output(ps, now), at[i - 1], ps[i], now)
  <2>a. i \in 1 .. Len(seqs) /\ seqs[i] = Printed(ps[i], now)
    BY <1>5, Zenon
  <2>b. /\ at[i] = at[i - 1] + Len(seqs[i])
        /\ \A k \in 1 .. Len(seqs[i]) :
             /\ at[i - 1] + k \in 1 .. Len(Output(ps, now))
             /\ Output(ps, now)[at[i - 1] + k] = seqs[i][k]
    BY <1>7, <2>a, Zenon DEF Pieces
  <2>1. /\ at[i] = at[i - 1] + Len(Printed(ps[i], now))
        /\ PrintedAt(Output(ps, now), at[i - 1], ps[i], now)
    BY <2>a, <2>b, Zenon DEF PrintedAt
  <2>2. Len(Printed(ps[i], now)) = 1 + Len(ps[i].channels) /\ Len(ps[i].channels) \in Nat
    <3>1. Len(ps[i].channels) \in Nat
      BY <1>1 DEF Protocols
    <3>2. Len(Printed(ps[i], now)) = 1 + Len(ps[i].channels)
      BY <1>1, PrintedIs, Zenon
    <3> QED
      BY <3>1, <3>2
  <2>3. at[i - 1] \in Nat
    <3>1. i - 1 \in 0 .. N
      BY <1>1
    <3> QED
      BY <1>8, <3>1
  <2> QED
    BY <2>1, <2>2, <2>3, SMTT(30)
<1>10. \A i \in 1 .. N : Row(ps[i], now) \in T
  BY <1>4
<1> QED
  BY <1>3, <1>6, <1>8, <1>9, <1>10, ZenonT(30) DEF N

(* GetPeerDetails lists the BGP protocols, each with what is its own. *)
LEMMA DetailsRight ==
  ASSUME NEW ps \in Seq(Protocols), OthersFirst(ps),
         NEW now \in 0 .. Day - 1
  PROVE  LET out == GetPeerDetails(Output(ps, now), now)
         IN \E at \in Numbered(Len(out), {i \in DOMAIN ps : ps[i].bgp}) :
              \A k \in DOMAIN out : DetailFits(out[k], ps[at[k]])
<1> DEFINE lines == Output(ps, now)
           N == Len(ps)
           Bgp(n) == {i \in 1 .. n : ps[i].bgp}
<1>1. N \in Nat /\ DOMAIN ps = 1 .. N /\ \A n \in 1 .. N : ps[n] \in Protocols
  BY Elements, Zenon
<1>2. PICK T, at :
        /\ lines \in Seq(T) /\ \A l \in T : ~l.head => l.routes \in Nat
        /\ at \in [0 .. N -> Nat] /\ at[0] = 0 /\ at[N] = Len(lines)
        /\ \A i \in 1 .. N : /\ Row(ps[i], now) \in T
                             /\ at[i] = at[i - 1] + 1 + Len(ps[i].channels)
                             /\ PrintedAt(lines, at[i - 1], ps[i], now)
  BY OutputIs, Zenon
<1> DEFINE E == DetailSet(T, now)
           rel == {x \in E \X (1 .. N) : DetailFits(x[1], ps[x[2]])}
<1>3. \A i, j \in 1 .. N : i < j /\ ps[i].bgp => ps[j].bgp
  BY <1>1, Zenon DEF OthersFirst
<1> HIDE DEF lines, N
<1>4. PICK d \in [0 .. Len(lines) -> Seq(E)] :
        DetailRun(d, lines, now) /\ GetPeerDetails(lines, now) = d[Len(lines)]
  <2> HIDE DEF E
  <2> QED
    BY <1>2, DetailScan, ZenonT(30) DEF E
<1> DEFINE Good(n) == d[at[n]] \in Seq(E) /\ Matched(d[at[n]], Bgp(n), rel)
           S == {n \in 0 .. N : Good(n)}
<1>5. 0 \in S /\ S \in SUBSET (0 .. N)
  <2>1. d[0] = <<>>
    BY <1>4, Zenon DEF DetailRun
  <2>2. at[0] = 0 /\ 0 \in 0 .. N /\ <<>> \in Seq(E) /\ Bgp(0) = {}
    <3> HIDE DEF E
    <3> QED
      BY <1>1, <1>2
  <2> HIDE DEF E, rel, Bgp
  <2> QED
    BY <2>1, <2>2, MatchedNone, Zenon
<1>6. ASSUME NEW n \in 1 .. N, n - 1 \in S PROVE n \in S
  <2> DEFINE a == at[n - 1]
             s == d[a]
             t == d[at[n]]
  <2>1. n \in 0 .. N /\ n - 1 \in 0 .. N /\ n \in Nat \ {0} /\ ps[n] \in Protocols
    BY <1>1
  <2>2. /\ Row(ps[n], now) \in T /\ a \in Nat /\ at[n] = a + 1 + Len(ps[n].channels)
        /\ PrintedAt(lines, a, ps[n], now)
    BY <1>2, <2>1, Zenon
  <2>3. Good(n - 1) /\ Bgp(n - 1) \in SUBSET (1 .. n - 1)
    BY <1>6
  <2>4. s \in Seq(E) /\ Matched(s, Bgp(n - 1), rel)
    BY <2>3, Zenon
  <2> HIDE DEF a
  <2>5. CASE ps[n].bgp
    <3>1. /\ t \in Seq(E) /\ Len(t) = Len(s) + 1
          /\ \A k \in 1 .. Len(s) : t[k] = s[k]
          /\ DetailFits(t[Len(t)], ps[n])
      <4>1. /\ d[a + 1 + Len(ps[n].channels)] \in Seq(E)
            /\ OneMore(d[a], d[a + 1 + Len(ps[n].channels)], ps[n])
        BY <1>4, <2>1, <2>2, <2>4, <2>5, BgpRead, ZenonT(30)
      <4> HIDE DEF E
      <4> QED
        BY <2>2, <4>1, Zenon DEF OneMore
    <3>2. Bgp(n) = Bgp(n - 1) \cup {n}
      BY <2>1, <2>5
    <3>3. <<t[Len(t)], n>> \in rel
      <4>1. t[Len(t)] \in E
        <5> HIDE DEF E, s, t
        <5> QED
          BY <2>4, <3>1
      <4> HIDE DEF E, t
      <4> QED
        BY <3>1, <4>1
    <3> HIDE DEF E, rel, Bgp, s, t
    <3>4. Matched(t, Bgp(n - 1) \cup {n}, rel)
      BY <2>1, <2>3, <2>4, <3>1, <3>3, MatchedNext, Zenon
    <3>5. Good(n)
      BY <3>1, <3>2, <3>4, ZenonT(30) DEF t
    <3> HIDE DEF Good
    <3> QED
      BY <2>1, <3>5
  <2>6. CASE ~ps[n].bgp
    <3>1. Bgp(n) = {} /\ Bgp(n - 1) = {}
      BY <1>1, <1>3, <2>1, <2>6, SMTT(30)
    <3>2. s = <<>>
      <4>1. PICK num \in Numbered(Len(s), {}) : TRUE
        <5> HIDE DEF E, rel, Bgp, s
        <5> QED
          BY <2>4, <3>1, Zenon DEF Matched
      <4>2. num \in [1 .. Len(s) -> {}]
        BY DEF Numbered
      <4>3. Len(s) \in Nat /\ ~(1 \in 1 .. Len(s))
        <5>1. Len(s) \in Nat
          <6> HIDE DEF E, s
          <6> QED
            BY <2>4
        <5>2. \A k \in 1 .. Len(s) : num[k] \in {}
          BY <4>2, Zenon
        <5> HIDE DEF s
        <5> QED
          BY <5>1, <5>2
      <4> HIDE DEF E, s
      <4> QED
        BY <2>4, <4>3
    <3>3. t = <<>>
      <4>1. d[a] = <<>> => d[a + 1 + Len(ps[n].channels)] = <<>>
        <5>1. /\ ps[n] \in Protocols /\ a \in Nat
              /\ DetailRun(d, lines, now) /\ PrintedAt(lines, a, ps[n], now)
          BY <1>4, <2>1, <2>2, Zenon
        <5> QED
          BY <2>6, <5>1, OtherRead, ZenonT(30)
      <4> QED
        BY <2>2, <3>2, <4>1, Zenon
    <3> HIDE DEF E, rel, Bgp, s
    <3>4. Good(n)
      BY <2>4, <3>1, <3>2, <3>3, Zenon
    <3> HIDE DEF Good
    <3> QED
      BY <2>1, <3>4
  <2> QED
    BY <2>5, <2>6
<1> HIDE DEF S
<1>7. S = 0 .. N
  BY <1>1, <1>5, <1>6, InductTo, Zenon
<1>8. N \in S
  BY <1>1, <1>7
<1>9. Matched(d[Len(lines)], Bgp(N), rel)
  <2>1. Good(N)
    <3> HIDE DEF Good
    <3> QED
      BY <1>8, Zenon DEF S
  <2> HIDE DEF rel, Bgp, E
  <2> QED
    BY <1>2, <2>1
<1> DEFINE out == d[Len(lines)]
<1>10. PICK num \in Numbered(Len(out), Bgp(N)) :
        \A k \in 1 .. Len(out) : <<out[k], num[k]>> \in rel
  <2> HIDE DEF rel, Bgp
  <2> QED
    BY <1>9, Zenon DEF Matched
<1>11. Bgp(N) = {i \in DOMAIN ps : ps[i].bgp}
  BY <1>1
<1>12. \A x, i : <<x, i>> \in rel => DetailFits(x, ps[i])
  OBVIOUS
<1> HIDE DEF rel, Bgp
<1>13. \A k \in 1 .. Len(out) : DetailFits(out[k], ps[num[k]])
  BY <1>10, <1>12, Zenon
<1>14. DOMAIN out = 1 .. Len(out)
  <2>1. out \in Seq(E)
    <3> HIDE DEF E
    <3> QED
      BY <1>2, <1>4
  <2> QED
    BY <2>1, Elements
<1> QED
  BY <1>4, <1>10, <1>11, <1>13, <1>14, Zenon DEF lines
=============================================================================
