-------------------------- MODULE FrontEnd_proofs --------------------------
(* Proofs about FrontEnd, for every file: unification finds out whether    *)
(* the .names lines are a forest, whatever their order, and the netlist    *)
(* passes the assertions of Model::check() after every stage.              *)
EXTENDS FrontEnd, TLAPS

(* Every net has one driver at most. *)
OneDriver(E) == \A q, t \in E : q[2] = t[2] => q[1] = t[1]
Pairs(E) == \A q \in E : q = <<q[1], q[2]>>
Closed(E, S) == \A q \in E : q[2] \in S => q[1] \in S

-----------------------------------------------------------------------------
(* Ways and origins.                                                       *)
LEMMA WayStart ==
  ASSUME NEW E, NEW n
  PROVE  n \in Way(E, n)
BY DEF Way

LEMMA WayUp ==
  ASSUME NEW E, NEW n, NEW q \in E, q[2] \in Way(E, n)
  PROVE  q[1] \in Way(E, n)
BY DEF Way

LEMMA WayLeast ==
  ASSUME NEW E, NEW n, NEW S, n \in S, Closed(E, S)
  PROVE  Way(E, n) \subseteq S
<1> DEFINE nets == {n} \cup {q[1] : q \in E}
<1>1. S \cap nets \in SUBSET nets
  OBVIOUS
<1>2. n \in S \cap nets /\ \A q \in E : q[2] \in S \cap nets => q[1] \in S \cap nets
  BY DEF Closed
<1>3. \A m \in Way(E, n) : m \in S \cap nets
  BY <1>1, <1>2 DEF Way
<1> QED BY <1>3

LEMMA WayUnfold ==
  ASSUME NEW E, OneDriver(E), NEW q \in E
  PROVE  Way(E, q[2]) \subseteq {q[2]} \cup Way(E, q[1])
<1> DEFINE S == {q[2]} \cup Way(E, q[1])
<1>1. ASSUME NEW t \in E, t[2] \in S PROVE t[1] \in S
  <2>1. CASE t[2] = q[2]
    BY <2>1, WayStart DEF OneDriver
  <2>2. CASE t[2] \in Way(E, q[1])
    BY <2>2, WayUp
  <2> QED BY <1>1, <2>1, <2>2
<1> HIDE DEF S
<1>2. Closed(E, S)
  BY <1>1 DEF Closed
<1>3. q[2] \in S
  BY DEF S
<1> QED BY <1>2, <1>3, WayLeast DEF S

LEMMA WayEnd ==
  ASSUME NEW E, NEW n, n \notin Driven(E)
  PROVE  Way(E, n) \subseteq {n}
<1>1. Closed(E, {n})
  BY DEF Closed, Driven
<1> QED BY <1>1, WayLeast

(* Without a loop, a way ends, and if every net has one driver, once.      *)
LEMMA OriginExists ==
  ASSUME NEW E, NEW n, Loopless(E)
  PROVE  Origin(E, n) \in Way(E, n) /\ Origin(E, n) \notin Driven(E)
<1>1. \E m \in Way(E, n) : m \notin Driven(E)
  <2>1. SUFFICES ASSUME Way(E, n) \subseteq Driven(E) PROVE FALSE
    OBVIOUS
  <2>2. PICK m \in Way(E, n) : \A q \in E : q[2] = m => q[1] \notin Way(E, n)
    BY <2>1, WayStart DEF Loopless
  <2>3. PICK q \in E : q[2] = m
    BY <2>1 DEF Driven
  <2> QED BY <2>2, <2>3, WayUp
<1> QED BY <1>1 DEF Origin

LEMMA OneOrigin ==
  ASSUME NEW E, NEW n, Loopless(E), OneDriver(E), NEW m \in Way(E, n), m \notin Driven(E)
  PROVE  m = Origin(E, n)
<1> DEFINE Last(x) == Way(E, x) \ Driven(E)
           Q == {x \in Driven(E) : \E a, b \in Last(x) : a # b}
<1>1. Q = {}
  <2>1. SUFFICES ASSUME Q # {} PROVE FALSE
    OBVIOUS
  <2>2. PICK x \in Q : \A q \in E : q[2] = x => q[1] \notin Q
    BY <2>1 DEF Loopless
  <2>3. PICK q \in E : q[2] = x
    BY DEF Driven
  <2>4. PICK a \in Last(x), b \in Last(x) : a # b
    OBVIOUS
  <2>5. a \in Last(q[1]) /\ b \in Last(q[1])
    BY <2>3, WayUnfold
  <2>6. CASE q[1] \in Driven(E)
    BY <2>2, <2>3, <2>4, <2>5, <2>6
  <2>7. CASE q[1] \notin Driven(E)
    BY <2>4, <2>5, <2>7, WayEnd
  <2> QED BY <2>6, <2>7
<1>2. CASE n \in Driven(E)
  BY <1>1, <1>2, OriginExists
<1>3. CASE n \notin Driven(E)
  BY <1>3, OriginExists, WayEnd
<1> QED BY <1>2, <1>3

-----------------------------------------------------------------------------
(* One line: n1 drives n2, which is not replaced yet.  What was on the way *)
(* from n1 and n2 are replaced by the origin of n1.                        *)
Shortened(E, n1, n2) ==
  LET P == Way(E, n1) \cap Driven(E)
  IN {q \in E : q[2] \notin P} \cup {<<Origin(E, n1), x>> : x \in P \cup {n2}}

LEMMA ShortenedFacts ==
  ASSUME NEW E, NEW n1, NEW n2,
         Loopless(E), OneDriver(E), n2 \notin Driven(E), n2 # Origin(E, n1)
  PROVE  /\ Driven(Shortened(E, n1, n2)) = Driven(E) \cup {n2}
         /\ Loopless(Shortened(E, n1, n2))
<1> DEFINE P == Way(E, n1) \cap Driven(E)
           r == Origin(E, n1)
           F == Shortened(E, n1, n2)
<1>1. \A q : q \in F <=> (q \in E /\ q[2] \notin P) \/ (\E x \in P \cup {n2} : q = <<r, x>>)
  BY DEF Shortened
<1>2. r \notin Driven(E)
  BY OriginExists
<1> HIDE DEF F
<1>3. Driven(F) = Driven(E) \cup {n2}
  <2>1. ASSUME NEW x \in Driven(F) PROVE x \in Driven(E) \cup {n2}
    <3>1. PICK q \in F : x = q[2]
      BY DEF Driven
    <3>2. CASE q \in E
      BY <3>1, <3>2 DEF Driven
    <3>3. CASE \E y \in P \cup {n2} : q = <<r, y>>
      BY <3>1, <3>3
    <3> QED BY <1>1, <3>2, <3>3
  <2>2. ASSUME NEW x \in Driven(E) \cup {n2} PROVE x \in Driven(F)
    <3>1. CASE x \in P \cup {n2}
      <4>1. <<r, x>> \in F
        BY <1>1, <3>1
      <4>2. <<r, x>>[2] = x
        OBVIOUS
      <4> QED BY <4>1, <4>2 DEF Driven
    <3>2. CASE x \notin P \cup {n2}
      BY <1>1, <2>2, <3>2 DEF Driven
    <3> QED BY <3>1, <3>2
  <2> QED BY <2>1, <2>2
<1>4. ASSUME NEW S \in (SUBSET Driven(F)) \ {{}}, \A n \in S : \E q \in F : q[2] = n /\ q[1] \in S
      PROVE  FALSE
  <2>1. r \notin S
    BY <1>2, <1>3
  <2>2. S \cap (P \cup {n2}) = {}
    <3>1. SUFFICES ASSUME NEW x \in S, x \in P \cup {n2} PROVE FALSE
      OBVIOUS
    <3>2. PICK q \in F : q[2] = x /\ q[1] \in S
      BY <1>4
    <3>3. CASE q \in E /\ q[2] \notin P
      BY <3>1, <3>2, <3>3 DEF Driven
    <3>4. CASE \E y \in P \cup {n2} : q = <<r, y>>
      BY <2>1, <3>2, <3>4
    <3> QED BY <1>1, <3>3, <3>4
  <2>3. S \subseteq Driven(E) \cup {n2} /\ n2 \notin S /\ S # {}
    BY <1>3, <2>2
  <2>4. PICK n \in S : \A q \in E : q[2] = n => q[1] \notin S
    <3>1. S \in (SUBSET Driven(E)) \ {{}}
      BY <2>3
    <3> QED BY <3>1 DEF Loopless
  <2>5. PICK q \in F : q[2] = n /\ q[1] \in S
    BY <1>4
  <2>6. CASE q \in E
    BY <2>4, <2>5, <2>6
  <2>7. CASE \E y \in P \cup {n2} : q = <<r, y>>
    BY <2>1, <2>5, <2>7
  <2> QED BY <1>1, <2>6, <2>7
<1>5. Loopless(F)
  BY <1>4 DEF Loopless
<1> QED BY <1>3, <1>5 DEF F

(* The lines U that are still to come close a loop together with what was  *)
(* replaced exactly if they did before n1 and n2 were.                     *)
LEMMA ShortenedLoops ==
  ASSUME NEW E, NEW n1, NEW n2, NEW U,
         Loopless(E), OneDriver(E), n2 \notin Driven(E), n2 # Origin(E, n1),
         n2 \notin Driven(U), Driven(E) \cap Driven(U) = {}
  PROVE  Loopless(E \cup {<<n1, n2>>} \cup U) <=> Loopless(Shortened(E, n1, n2) \cup U)
<1> DEFINE P == Way(E, n1) \cap Driven(E)
           r == Origin(E, n1)
           F == Shortened(E, n1, n2)
           G == E \cup {<<n1, n2>>} \cup U
           H == F \cup U
           Bad(X, S) == \A n \in S : \E q \in X : q[2] = n /\ q[1] \in S
<1>1. \A q : q \in F <=> (q \in E /\ q[2] \notin P) \/ (\E x \in P \cup {n2} : q = <<r, x>>)
  BY DEF Shortened
<1>2. Driven(F) = Driven(E) \cup {n2}
  BY ShortenedFacts
<1>3. /\ r \in Way(E, n1) /\ r \notin Driven(E)
      /\ \A m \in Way(E, n1) : m \notin Driven(E) => m = r
  BY OriginExists, OneOrigin
<1> HIDE DEF F
<1>4. /\ \A q : q \in G <=> q \in E \/ q = <<n1, n2>> \/ q \in U
      /\ \A q : q \in H <=> q \in F \/ q \in U
  OBVIOUS
<1>5. /\ Driven(G) = Driven(E) \cup {n2} \cup Driven(U)
      /\ Driven(H) = Driven(E) \cup {n2} \cup Driven(U)
  <2>1. Driven(G) = Driven(E) \cup Driven({<<n1, n2>>}) \cup Driven(U)
    BY DEF Driven
  <2>2. Driven({<<n1, n2>>}) = {n2}
    BY DEF Driven
  <2>3. Driven(H) = Driven(F) \cup Driven(U)
    BY DEF Driven
  <2> QED BY <1>2, <2>1, <2>2, <2>3
<1>6. \A X : Loopless(X) <=> \A S \in (SUBSET Driven(X)) \ {{}} : ~Bad(X, S)
  BY DEF Loopless
<1> HIDE DEF G, H
<1>7. ASSUME NEW S, S \cap (P \cup {n2}) = {}
      PROVE  Bad(G, S) <=> Bad(H, S)
  <2>1. ASSUME NEW q \in G, q[2] \in S PROVE q \in H
    <3>1. CASE q = <<n1, n2>>
      BY <1>7, <2>1, <3>1
    <3> QED BY <1>1, <1>4, <1>7, <2>1, <3>1
  <2>2. ASSUME NEW q \in H, q[2] \in S PROVE q \in G
    <3>1. CASE \E x \in P \cup {n2} : q = <<r, x>>
      BY <1>7, <2>2, <3>1
    <3> QED BY <1>1, <1>4, <2>2, <3>1
  <2> QED BY <2>1, <2>2
<1>8. ASSUME NEW S \in (SUBSET Driven(H)) \ {{}}, Bad(H, S), Loopless(G)
      PROVE  FALSE
  <2>1. CASE S \cap (P \cup {n2}) = {}
    BY <1>5, <1>6, <1>7, <1>8, <2>1
  <2>2. CASE S \cap (P \cup {n2}) # {}
    <3> DEFINE T == S \cup P \cup {n2}
    <3>1. r \in S
      <4>1. PICK x \in S : x \in P \cup {n2}
        BY <2>2
      <4>2. PICK q \in H : q[2] = x /\ q[1] \in S
        BY <1>8
      <4>3. q \notin U
        BY <4>1, <4>2 DEF Driven
      <4>4. CASE q \in E /\ q[2] \notin P
        BY <4>1, <4>2, <4>4 DEF Driven
      <4>5. CASE \E y \in P \cup {n2} : q = <<r, y>>
        BY <4>2, <4>5
      <4> QED BY <1>1, <1>4, <4>3, <4>4, <4>5
    <3>2. Way(E, n1) \subseteq P \cup {r}
      BY <1>3
    <3>3. T \in (SUBSET Driven(G)) \ {{}}
      BY <1>5
    <3>4. ASSUME NEW n \in T PROVE \E q \in G : q[2] = n /\ q[1] \in T
      <4>1. CASE n = n2
        <5>1. <<n1, n2>> \in G /\ <<n1, n2>>[2] = n2 /\ <<n1, n2>>[1] = n1
          BY <1>4
        <5>2. n1 \in T
          BY <3>1, <3>2, WayStart
        <5> QED BY <4>1, <5>1, <5>2
      <4>2. CASE n \in P
        <5>1. PICK q \in E : q[2] = n
          BY <4>2 DEF Driven
        <5>2. q[1] \in Way(E, n1)
          BY <4>2, <5>1, WayUp
        <5> QED BY <1>4, <3>1, <3>2, <5>1, <5>2
      <4>3. CASE n \notin P \cup {n2}
        <5>1. PICK q \in H : q[2] = n /\ q[1] \in S
          BY <1>8, <3>4, <4>3
        <5>2. ~\E x \in P \cup {n2} : q = <<r, x>>
          BY <4>3, <5>1
        <5> QED BY <1>1, <1>4, <5>1, <5>2
      <4> QED BY <4>1, <4>2, <4>3
    <3> HIDE DEF T
    <3> QED BY <1>6, <1>8, <3>3, <3>4
  <2> QED BY <2>1, <2>2
<1>9. ASSUME NEW S \in (SUBSET Driven(G)) \ {{}}, Bad(G, S), Loopless(H)
      PROVE  FALSE
  <2>1. CASE r \in S
    <3>1. ASSUME NEW n \in S PROVE \E q \in H : q[2] = n /\ q[1] \in S
      <4>1. CASE n \in P \cup {n2}
        <5>1. <<r, n>> \in H /\ <<r, n>>[2] = n /\ <<r, n>>[1] = r
          BY <1>1, <1>4, <4>1
        <5> QED BY <2>1, <5>1
      <4>2. CASE n \notin P \cup {n2}
        <5>1. PICK q \in G : q[2] = n /\ q[1] \in S
          BY <1>9
        <5>2. q # <<n1, n2>>
          BY <4>2, <5>1
        <5> QED BY <1>1, <1>4, <4>2, <5>1, <5>2
      <4> QED BY <4>1, <4>2
    <3>2. S \in (SUBSET Driven(H)) \ {{}}
      BY <1>5
    <3> QED BY <1>6, <1>9, <3>1, <3>2
  <2>2. CASE r \notin S
    <3>1. ASSUME NEW x \in P, x \in S PROVE FALSE
      <4>1. Closed(E, {m \in Way(E, n1) : m \in S})
        <5>1. ASSUME NEW q \in E, q[2] \in Way(E, n1), q[2] \in S
              PROVE  q[1] \in Way(E, n1) /\ q[1] \in S
          <6>1. PICK t \in G : t[2] = q[2] /\ t[1] \in S
            BY <1>9, <5>1
          <6>2. q[2] \in Driven(E)
            BY DEF Driven
          <6>3. t \notin U
            BY <6>1, <6>2 DEF Driven
          <6>4. t # <<n1, n2>>
            BY <6>1, <6>2
          <6>5. t \in E
            BY <1>4, <6>3, <6>4
          <6>6. t[1] = q[1]
            BY <6>1, <6>5 DEF OneDriver
          <6> QED BY <5>1, <6>1, <6>6, WayUp
        <5> QED BY <5>1 DEF Closed
      <4>2. Way(E, x) \subseteq {m \in Way(E, n1) : m \in S}
        BY <3>1, <4>1, WayLeast
      <4>3. Origin(E, x) \in Way(E, n1) /\ Origin(E, x) \in S /\ Origin(E, x) \notin Driven(E)
        BY <4>2, OriginExists
      <4> QED BY <1>3, <2>2, <4>3
    <3>2. n2 \notin S
      <4>1. SUFFICES ASSUME n2 \in S PROVE FALSE
        OBVIOUS
      <4>2. PICK q \in G : q[2] = n2 /\ q[1] \in S
        BY <1>9, <4>1
      <4>3. q = <<n1, n2>>
        BY <1>4, <4>2 DEF Driven
      <4>4. n1 \in S
        BY <4>2, <4>3
      <4>5. n1 \in P \/ n1 = r
        BY <1>3, WayStart
      <4> QED BY <2>2, <3>1, <4>4, <4>5
    <3>3. S \cap (P \cup {n2}) = {}
      BY <3>1, <3>2
    <3> QED BY <1>5, <1>6, <1>7, <1>9, <3>3
  <2> QED BY <2>1, <2>2
<1> QED BY <1>6, <1>8, <1>9 DEF F, G, H

(* n1's origin is n2: a loop. *)
LEMMA LoopFound ==
  ASSUME NEW E, NEW n1, NEW U, Loopless(E), OneDriver(E)
  PROVE  ~Loopless(E \cup {<<n1, Origin(E, n1)>>} \cup U)
<1> DEFINE r == Origin(E, n1)
           G == E \cup {<<n1, r>>} \cup U
           S == Way(E, n1)
<1>1. /\ r \in S /\ r \notin Driven(E)
      /\ \A m \in S : m \notin Driven(E) => m = r
  BY OriginExists, OneOrigin
<1>2. <<n1, r>> \in G /\ <<n1, r>>[2] = r /\ <<n1, r>>[1] = n1
  OBVIOUS
<1>3. E \subseteq G
  OBVIOUS
<1> HIDE DEF r, G
<1>4. S \in (SUBSET Driven(G)) \ {{}}
  <2>1. ASSUME NEW m \in S PROVE m \in Driven(G)
    BY <1>1, <1>2, <1>3 DEF Driven
  <2> QED BY <1>1, <2>1
<1>5. ASSUME NEW m \in S PROVE \E q \in G : q[2] = m /\ q[1] \in S
  <2>1. CASE m = r
    BY <1>2, <2>1, WayStart
  <2>2. CASE m \in Driven(E)
    <3>1. PICK q \in E : q[2] = m
      BY <2>2 DEF Driven
    <3> QED BY <1>3, <3>1, WayUp
  <2> QED BY <1>1, <2>1, <2>2
<1> HIDE DEF S
<1>6. ~Loopless(G)
  BY <1>4, <1>5 DEF Loopless
<1> QED BY <1>6 DEF G, r
-----------------------------------------------------------------------------
(* The lines, and what is left of them.                                    *)
Lines == {<<l.net, l.to>> : l \in {l \in file : l.cmd = "names"}}

Apart ==
  /\ \A i, j \in DOMAIN unify : i # j => unify[i][2] # unify[j][2]
  /\ \A i \in DOMAIN unify : unify[i][2] \notin DOMAIN replacement

(* While nets are unified: no loop was replaced, and the file has a        *)
(* meaning exactly if the lines that are left do not conflict with each    *)
(* other or with what was replaced.                                        *)
UnifyInv ==
  /\ unify \in Seq(Lines)
  /\ pc = "read" => replacement = <<>>
  /\ pc = "unify" =>
       /\ Loopless(Replaced)
       /\ meaning # <<>> <=> Apart /\ Loopless(Replaced \cup Range(unify))
  /\ RefusesConflicts

LEMMA ReplacedFacts ==
  /\ OneDriver(Replaced)
  /\ Driven(Replaced) = DOMAIN replacement
<1>1. ASSUME NEW q \in Replaced PROVE q[2] \in DOMAIN replacement /\ q[1] = replacement[q[2]]
  BY DEF Replaced
<1>2. ASSUME NEW n \in DOMAIN replacement PROVE n \in Driven(Replaced)
  <2>1. <<replacement[n], n>> \in Replaced
    BY DEF Replaced
  <2> QED BY <2>1 DEF Driven
<1>3. OneDriver(Replaced)
  <2>1. ASSUME NEW q \in Replaced, NEW t \in Replaced, q[2] = t[2] PROVE q[1] = t[1]
    BY <1>1, <2>1
  <2> QED BY <2>1 DEF OneDriver
<1>4. Driven(Replaced) = DOMAIN replacement
  BY <1>1, <1>2 DEF Driven
<1> QED BY <1>3, <1>4

LEMMA FirstLine ==
  ASSUME UnifyInv, unify # <<>>
  PROVE  /\ Head(unify) = <<Head(unify)[1], Head(unify)[2]>>
         /\ Tail(unify) \in Seq(Lines) /\ Head(unify) = unify[1] /\ 1 \in DOMAIN unify
         /\ Range(unify) = {Head(unify)} \cup Range(Tail(unify))
         /\ \A i \in DOMAIN Tail(unify) : i + 1 \in DOMAIN unify /\ Tail(unify)[i] = unify[i + 1]
         /\ \A i \in DOMAIN unify \ {1} : i - 1 \in DOMAIN Tail(unify) /\ Tail(unify)[i - 1] = unify[i]
         /\ DOMAIN unify \subseteq Int /\ DOMAIN Tail(unify) \subseteq Int
<1>0. unify \in Seq(Lines)
  BY DEF UnifyInv
<1>1. /\ Tail(unify) \in Seq(Lines) /\ Head(unify) = unify[1] /\ 1 \in DOMAIN unify
      /\ DOMAIN unify = 1 .. Len(unify) /\ DOMAIN Tail(unify) = 1 .. Len(unify) - 1
      /\ Len(unify) \in Nat
  BY <1>0
<1>2. \A i \in 1 .. Len(unify) - 1 : Tail(unify)[i] = unify[i + 1]
  BY <1>0
<1>3. \A i \in DOMAIN Tail(unify) : i + 1 \in DOMAIN unify /\ Tail(unify)[i] = unify[i + 1]
  BY <1>1, <1>2
<1>4. ASSUME NEW i \in DOMAIN unify \ {1} PROVE i - 1 \in DOMAIN Tail(unify) /\ Tail(unify)[i - 1] = unify[i]
  <2>1. i - 1 \in 1 .. Len(unify) - 1 /\ (i - 1) + 1 = i
    BY <1>1
  <2> QED BY <1>1, <1>2, <2>1
<1>5. Range(unify) = {Head(unify)} \cup Range(Tail(unify))
  <2>1. ASSUME NEW x \in Range(unify) PROVE x = Head(unify) \/ x \in Range(Tail(unify))
    <3>1. PICK i \in DOMAIN unify : x = unify[i]
      BY DEF Range
    <3>2. CASE i = 1
      BY <1>1, <3>1, <3>2
    <3>3. CASE i # 1
      BY <1>4, <3>1, <3>3 DEF Range
    <3> QED BY <3>2, <3>3
  <2>2. ASSUME NEW x \in Range(Tail(unify)) PROVE x \in Range(unify)
    <3>1. PICK i \in DOMAIN Tail(unify) : x = Tail(unify)[i]
      BY DEF Range
    <3> QED BY <1>3, <3>1 DEF Range
  <2>3. Head(unify) \in Range(unify)
    BY <1>1 DEF Range
  <2> QED BY <2>1, <2>2, <2>3
<1>6. Head(unify) = <<Head(unify)[1], Head(unify)[2]>>
  <2>1. Head(unify) \in Lines
    BY <1>0, <1>1
  <2> QED BY <2>1 DEF Lines
<1>7. DOMAIN unify \subseteq Int /\ DOMAIN Tail(unify) \subseteq Int
  BY <1>1
<1> QED BY <1>1, <1>3, <1>4, <1>5, <1>6, <1>7

(* The nets that the lines drive.                                          *)
LEMMA LineNets ==
  ASSUME NEW u, NEW n
  PROVE  n \in Driven(Range(u)) <=> \E i \in DOMAIN u : u[i][2] = n
BY DEF Driven, Range

(* Replacing n2 and shortening the way makes the pairs of Shortened.       *)
LEMMA ReplacedNext ==
  ASSUME NEW n1, NEW n2, n2 \notin DOMAIN replacement,
         replacement' = [n \in DOMAIN replacement \cup {n2} |->
                           IF n \in OnPath(n1) \cup {n2} THEN Root(n1) ELSE replacement[n]]
  PROVE  Replaced' = Shortened(Replaced, n1, n2) /\ DOMAIN replacement' = DOMAIN replacement \cup {n2}
<1> DEFINE P == Way(Replaced, n1) \cap Driven(Replaced)
           r == Root(n1)
<1>1. P = OnPath(n1) /\ r = Origin(Replaced, n1)
  BY ReplacedFacts DEF OnPath, Root
<1> HIDE DEF P, r
<1>2. /\ DOMAIN replacement' = DOMAIN replacement \cup {n2}
      /\ replacement'[n2] = r
      /\ \A n \in DOMAIN replacement : replacement'[n] = IF n \in P THEN r ELSE replacement[n]
  BY <1>1 DEF r
<1>3. P \subseteq DOMAIN replacement
  BY ReplacedFacts DEF P
<1>4. ASSUME NEW q PROVE q \in Replaced' <=> q \in Shortened(Replaced, n1, n2)
  <2>1. q \in Replaced' <=> \E n \in DOMAIN replacement \cup {n2} : q = <<replacement'[n], n>>
    BY <1>2 DEF Replaced
  <2>2. q \in Shortened(Replaced, n1, n2) <=>
          (q \in Replaced /\ q[2] \notin P) \/ \E x \in P \cup {n2} : q = <<r, x>>
    BY <1>1 DEF Shortened, P
  <2>3. (q \in Replaced /\ q[2] \notin P) <=> \E n \in DOMAIN replacement \ P : q = <<replacement[n], n>>
    BY DEF Replaced
  <2>4. ASSUME NEW n \in DOMAIN replacement \cup {n2}, q = <<replacement'[n], n>>
        PROVE  q \in Shortened(Replaced, n1, n2)
    <3>1. CASE n \in P \cup {n2}
      BY <1>2, <1>3, <2>2, <2>4, <3>1
    <3>2. CASE n \notin P \cup {n2}
      BY <1>2, <2>2, <2>3, <2>4, <3>2
    <3> QED BY <3>1, <3>2
  <2>5. ASSUME NEW n \in DOMAIN replacement \ P, q = <<replacement[n], n>> PROVE q \in Replaced'
    BY <1>2, <2>1, <2>5
  <2>6. ASSUME NEW n \in P \cup {n2}, q = <<r, n>> PROVE q \in Replaced'
    BY <1>2, <1>3, <2>1, <2>6
  <2> QED BY <2>1, <2>2, <2>3, <2>4, <2>5, <2>6
<1> QED BY <1>2, <1>4
LEMMA UnifyStep == UnifyInv /\ Unify => UnifyInv'
<1> SUFFICES ASSUME UnifyInv, Unify PROVE UnifyInv'
  OBVIOUS
<1> DEFINE n1 == Head(unify)[1]
           n2 == Head(unify)[2]
           E == Replaced
           U == Range(Tail(unify))
<1>1. /\ pc = "unify" /\ unify # <<>>
      /\ unify \in Seq(Lines) /\ Tail(unify) \in Seq(Lines) /\ Lines' = Lines
  BY FirstLine DEF Unify, UnifyInv, Go, Fatal, Lines
<1>2. /\ Loopless(E) /\ OneDriver(E) /\ Driven(E) = DOMAIN replacement
      /\ meaning # <<>> <=> Apart /\ Loopless(E \cup Range(unify))
  BY <1>1, ReplacedFacts DEF UnifyInv
<1>3. E \cup Range(unify) = E \cup {<<n1, n2>>} \cup U
  BY <1>1, FirstLine
<1>4. CASE n2 = Root(n1) /\ Fatal("cycle")
  <2>1. ~Loopless(E \cup {<<n1, n2>>} \cup U)
    BY <1>2, <1>4, LoopFound DEF Root
  <2>2. meaning = <<>>
    BY <1>2, <1>3, <2>1
  <2>3. pc' = "cycle" /\ meaning' = <<>> /\ unify' = unify
    BY <1>4, <2>2 DEF Fatal, Go
  <2> QED BY <1>1, <2>3 DEF UnifyInv, RefusesConflicts
<1>5. CASE n2 \in DOMAIN replacement /\ Fatal("conflict")
  <2>1. ~Apart
    BY <1>1, <1>5, FirstLine DEF Apart
  <2>2. pc' = "conflict" /\ meaning' = <<>> /\ unify' = unify
    BY <1>2, <1>5, <2>1 DEF Fatal, Go
  <2> QED BY <1>1, <2>2 DEF UnifyInv, RefusesConflicts
<1>6. CASE /\ n2 # Root(n1) /\ n2 \notin DOMAIN replacement
           /\ replacement' = [n \in DOMAIN replacement \cup {n2} |->
                                IF n \in OnPath(n1) \cup {n2} THEN Root(n1) ELSE replacement[n]]
           /\ unify' = Tail(unify) /\ Go("unify")
  <2>1. /\ Replaced' = Shortened(E, n1, n2) /\ DOMAIN replacement' = DOMAIN replacement \cup {n2}
    BY <1>6, ReplacedNext
  <2>2. n2 # Origin(E, n1) /\ n2 \notin Driven(E)
    BY <1>2, <1>6 DEF Root
  <2>3. Loopless(Shortened(E, n1, n2))
    BY <1>2, <2>2, ShortenedFacts
  <2>4. Apart <=> Apart'
    <3>1. ASSUME Apart PROVE Apart'
      <4>1. ASSUME NEW i \in DOMAIN Tail(unify), NEW j \in DOMAIN Tail(unify), i # j
            PROVE  Tail(unify)[i][2] # Tail(unify)[j][2]
        <5>1. i + 1 # j + 1
          BY <1>1, <4>1, FirstLine
        <5> QED BY <1>1, <3>1, <4>1, <5>1, FirstLine DEF Apart
      <4>2. ASSUME NEW i \in DOMAIN Tail(unify) PROVE Tail(unify)[i][2] \notin DOMAIN replacement \cup {n2}
        <5>1. i + 1 # 1 \/ i = 0
          BY <1>1, FirstLine
        <5>2. 0 \notin DOMAIN Tail(unify)
          BY <1>1
        <5> QED BY <1>1, <3>1, <4>2, <5>1, <5>2, FirstLine DEF Apart
      <4> QED BY <1>6, <2>1, <4>1, <4>2 DEF Apart
    <3>2. ASSUME Apart' PROVE Apart
      <4>1. \A i, j \in DOMAIN Tail(unify) : i # j => Tail(unify)[i][2] # Tail(unify)[j][2]
        BY <1>6, <3>2 DEF Apart
      <4>2. \A i \in DOMAIN Tail(unify) : Tail(unify)[i][2] \notin DOMAIN replacement \cup {n2}
        BY <1>6, <2>1, <3>2 DEF Apart
      <4>3. ASSUME NEW i \in DOMAIN unify, NEW j \in DOMAIN unify, i # j
            PROVE  unify[i][2] # unify[j][2]
        <5>1. CASE i = 1
          <6>1. unify[i][2] = n2 /\ j - 1 \in DOMAIN Tail(unify) /\ Tail(unify)[j - 1] = unify[j]
            BY <1>1, <4>3, <5>1, FirstLine
          <6> QED BY <4>2, <6>1
        <5>2. CASE j = 1
          <6>1. unify[j][2] = n2 /\ i - 1 \in DOMAIN Tail(unify) /\ Tail(unify)[i - 1] = unify[i]
            BY <1>1, <4>3, <5>2, FirstLine
          <6> QED BY <4>2, <6>1
        <5>3. CASE i # 1 /\ j # 1
          <6>1. /\ i - 1 \in DOMAIN Tail(unify) /\ Tail(unify)[i - 1] = unify[i]
                /\ j - 1 \in DOMAIN Tail(unify) /\ Tail(unify)[j - 1] = unify[j]
            BY <1>1, <5>3, FirstLine
          <6>2. i - 1 # j - 1
            BY <1>1, <4>3, FirstLine
          <6> QED BY <4>1, <6>1, <6>2
        <5> QED BY <5>1, <5>2, <5>3
      <4>4. ASSUME NEW i \in DOMAIN unify PROVE unify[i][2] \notin DOMAIN replacement
        <5>1. CASE i = 1
          BY <1>1, <1>6, <5>1, FirstLine
        <5>2. CASE i # 1
          BY <1>1, <4>2, <5>2, FirstLine
        <5> QED BY <5>1, <5>2
      <4> QED BY <4>3, <4>4 DEF Apart
    <3> QED BY <3>1, <3>2
  <2>5. ASSUME Apart'
        PROVE  Loopless(E \cup Range(unify)) <=> Loopless(Replaced' \cup Range(unify'))
    <3>1. \A n \in Driven(U) : n \notin DOMAIN replacement \cup {n2}
      <4>1. \A i \in DOMAIN Tail(unify) : Tail(unify)[i][2] \notin DOMAIN replacement \cup {n2}
        BY <1>6, <2>1, <2>5 DEF Apart
      <4>2. ASSUME NEW n \in Driven(U) PROVE \E i \in DOMAIN Tail(unify) : Tail(unify)[i][2] = n
        BY <4>2, LineNets
      <4> QED BY <4>1, <4>2
    <3>2. n2 \notin Driven(U) /\ Driven(E) \cap Driven(U) = {}
      BY <1>2, <3>1
    <3> HIDE DEF n1, n2, U, E
    <3>3. Loopless(E \cup {<<n1, n2>>} \cup U) <=> Loopless(Shortened(E, n1, n2) \cup U)
      BY <1>2, <2>2, <3>2, ShortenedLoops
    <3> QED BY <1>3, <1>6, <2>1, <3>3 DEF U
  <2>6. meaning' = meaning /\ pc' = "unify"
    BY <1>6 DEF Go
  <2>7. Loopless(Replaced') /\ (meaning' # <<>> <=> Apart' /\ Loopless(Replaced' \cup Range(unify')))
    BY <1>2, <2>1, <2>3, <2>4, <2>5, <2>6
  <2>8. RefusesConflicts'
    BY <2>6 DEF RefusesConflicts
  <2>9. unify' \in Seq(Lines')
    BY <1>1, <1>6
  <2> QED BY <2>6, <2>7, <2>8, <2>9 DEF UnifyInv
<1> QED BY <1>1, <1>4, <1>5, <1>6 DEF Unify
LEMMA InitUnify == Init => UnifyInv
BY DEF Init, UnifyInv, RefusesConflicts

LEMMA ReadStep ==
  ASSUME UnifyInv, NEW line \in file, ReadPort(line) \/ ReadConstant(line) \/ ReadNames(line) \/ ReadGate(line)
  PROVE  UnifyInv'
<1>1. pc = "read" /\ pc' = "read" /\ Lines' = Lines /\ replacement' = replacement
  BY DEF ReadPort, ReadConstant, ReadNames, ReadGate, Reading, Lines
<1>2. unify' \in Seq(Lines)
  <2>1. CASE ReadPort(line) \/ ReadConstant(line) \/ ReadGate(line)
    BY <2>1 DEF ReadPort, ReadConstant, ReadGate, UnifyInv
  <2>2. CASE ReadNames(line)
    <3>1. unify' = Append(unify, <<line.net, line.to>>) /\ <<line.net, line.to>> \in Lines
      BY <2>2 DEF ReadNames, Reading, Lines
    <3> QED BY <3>1 DEF UnifyInv
  <2> QED BY <2>1, <2>2
<1> QED BY <1>1, <1>2 DEF UnifyInv, RefusesConflicts

(* Before the first line nothing is replaced, and what Forest says is what *)
(* the invariant asks for.                                                 *)
LEMMA EndOfFileStep == UnifyInv /\ EndOfFile => UnifyInv'
<1> SUFFICES ASSUME UnifyInv, EndOfFile PROVE UnifyInv'
  OBVIOUS
<1>1. /\ pc = "read" /\ pc' = "unify" /\ Lines' = Lines
      /\ unify' = unify /\ replacement' = replacement /\ replacement = <<>>
  BY DEF EndOfFile, UnifyInv, Lines
<1>2. Replaced = {} /\ Replaced' = {} /\ DOMAIN replacement = {}
  BY <1>1 DEF Replaced
<1>3. Loopless({})
  BY DEF Loopless, Driven
<1>4. meaning' # <<>> <=> Forest
  <2>1. meaning' = IF Forest THEN <<Sources(d), Meaning(Unified, Sources(d))>> ELSE <<>>
    BY DEF EndOfFile
  <2>2. \A x, y : <<x, y>> # <<>>
    OBVIOUS
  <2> QED BY <2>1, <2>2
<1>5. Forest <=> Apart /\ Loopless(Range(unify))
  BY <1>2 DEF Forest, Apart
<1>6. Apart' <=> Apart
  BY <1>1 DEF Apart
<1>7. Loopless(Replaced') /\ (meaning' # <<>> <=> Apart' /\ Loopless(Replaced' \cup Range(unify')))
  <2>1. Replaced' \cup Range(unify') = Range(unify)
    BY <1>1, <1>2
  <2> QED BY <1>2, <1>3, <1>4, <1>5, <1>6, <2>1
<1>8. unify' \in Seq(Lines')
  BY <1>1 DEF UnifyInv
<1>9. RefusesConflicts'
  BY <1>1 DEF RefusesConflicts
<1> QED BY <1>1, <1>7, <1>8, <1>9 DEF UnifyInv

LEMMA RemoveReplacedStep == UnifyInv /\ RemoveReplaced => UnifyInv'
<1> SUFFICES ASSUME UnifyInv, RemoveReplaced PROVE UnifyInv'
  OBVIOUS
<1>1. /\ pc = "unify" /\ pc' = "open_drain" /\ unify = <<>> /\ Lines' = Lines
      /\ UNCHANGED <<unify, replacement, meaning>>
  BY DEF RemoveReplaced, Go, Lines
<1>2. Apart /\ Replaced \cup Range(unify) = Replaced
  BY <1>1 DEF Apart, Range
<1>3. meaning # <<>>
  BY <1>1, <1>2 DEF UnifyInv
<1> QED BY <1>1, <1>3 DEF UnifyInv, RefusesConflicts

(* The later stages.                                                       *)
LEMMA LaterUnify ==
  ASSUME UnifyInv, UNCHANGED <<file, meaning, unify>>,
         pc \notin {"read", "unify", "cycle", "conflict"}, pc' \notin {"read", "unify", "cycle", "conflict"}
  PROVE  UnifyInv'
BY DEF UnifyInv, RefusesConflicts, Lines

LEMMA NextUnify == UnifyInv /\ [Next]_vars => UnifyInv'
<1> SUFFICES ASSUME UnifyInv, [Next]_vars PROVE UnifyInv'
  OBVIOUS
<1>1. CASE \E line \in file : ReadPort(line) \/ ReadConstant(line) \/ ReadNames(line) \/ ReadGate(line)
  BY <1>1, ReadStep
<1>2. CASE EndOfFile
  BY <1>2, EndOfFileStep
<1>3. CASE Unify
  BY <1>3, UnifyStep
<1>4. CASE RemoveReplaced
  BY <1>4, RemoveReplacedStep
<1>5. CASE ReplaceOpenDrain
  BY <1>5, LaterUnify DEF ReplaceOpenDrain, Go
<1>6. CASE RedirectInouts
  BY <1>6, LaterUnify DEF RedirectInouts, Go, Fatal
<1>7. CASE CheckDrivers
  BY <1>7, LaterUnify DEF CheckDrivers, Go, Fatal
<1>8. CASE CheckTbufs
  BY <1>8, LaterUnify DEF CheckTbufs, Go, Fatal
<1>9. CASE \E x \in todo : InstantiateIo(x)
  <2>1. PICK x \in todo : InstantiateIo(x)
    BY <1>9
  <2>2. /\ pc = "io" /\ UNCHANGED unify
        /\ Go("io") \/ Go("inout_undriven")
    BY <2>1 DEF InstantiateIo
  <2> QED BY <2>2, LaterUnify DEF Go
<1>10. CASE IoDone
  BY <1>10, LaterUnify DEF IoDone, Go
<1>11. CASE OptimizeLuts
  BY <1>11, LaterUnify DEF OptimizeLuts, Go
<1>12. CASE PackDff
  BY <1>12, LaterUnify DEF PackDff, Go
<1>13. CASE PackLut
  BY <1>13, LaterUnify DEF PackLut, Go
<1>14. CASE EndPack
  BY <1>14, LaterUnify DEF EndPack, Go
<1>15. CASE RealizeConstants
  BY <1>15, LaterUnify DEF RealizeConstants, Go
<1>16. CASE Stopped \/ UNCHANGED vars
  <2>1. UNCHANGED vars
    BY <1>16 DEF Stopped
  <2> QED BY <2>1 DEF vars, UnifyInv, RefusesConflicts, Apart, Replaced, Lines
<1> QED BY <1>1, <1>2, <1>3, <1>4, <1>5, <1>6, <1>7, <1>8, <1>9, <1>10, <1>11, <1>12, <1>13, <1>14, <1>15, <1>16
        DEF Next

(* A file is refused for its .names lines exactly if they are no forest,   *)
(* whatever order they come in: unification, which looks only at what the  *)
(* lines before have replaced, finds every cycle and every second driver.  *)
THEOREM ConflictsRefused == Spec => []RefusesConflicts
<1>1. UnifyInv => RefusesConflicts
  BY DEF UnifyInv
<1> QED BY InitUnify, NextUnify, <1>1, PTL DEF Spec

-----------------------------------------------------------------------------
(* Designs: what the operations of Netlist leave of the fields, said with  *)
(* Conn, and that they keep the shape of a design.                         *)
IsDesign(e) ==
  e = [conn |-> e.conn, nets |-> e.nets, const |-> e.const, dir |-> e.dir, gate |-> e.gate, temps |-> e.temps]

Models == {"SB_LUT4", "SB_DFF", "$_TBUF_", "SB_IO", "SB_IO_OD", "SB_IO_OD_A", "ICESTORM_LC"}
IsGate(h) == h = [model |-> h.model, p |-> h.p] /\ h.model \in Models
PortOf(e, p) ==
  /\ p = <<p[1], p[2]>>
  /\ \/ p[1] = Top /\ p[2] \in DOMAIN e.dir
     \/ p[1] \in DOMAIN e.gate /\ p[2] \in PortsOf(e.gate[p[1]].model)

Numbered(e, S) == \A n \in S : n \in Nat /\ n # 0 /\ n <= NName + e.temps
Shape(e) ==
  /\ IsDesign(e)
  /\ e.temps \in Nat
  /\ Numbered(e, e.nets) /\ Numbered(e, DOMAIN e.gate)
  /\ DOMAIN e.const \subseteq e.nets /\ \A n \in DOMAIN e.const : e.const[n] \in {0, 1}
  /\ \A x \in DOMAIN e.dir : e.dir[x] \in {"IN", "OUT", "INOUT"}
  /\ \A g \in DOMAIN e.gate : IsGate(e.gate[g])
  /\ \A p \in DOMAIN e.conn : e.conn[p] \in e.nets /\ PortOf(e, p)

LEMMA ConnFacts ==
  ASSUME NEW e, Shape(e), NEW p
  PROVE  /\ p \in DOMAIN e.conn <=> Conn(e, p) # None
         /\ p \in DOMAIN e.conn => e.conn[p] = Conn(e, p) /\ Conn(e, p) \in e.nets /\ PortOf(e, p)
         /\ \A n : n # None => (p \in Connections(e, n) <=> Conn(e, p) = n)
         /\ p \notin Connections(e, None)
<1>1. \A q \in DOMAIN e.conn : e.conn[q] \in e.nets /\ e.conn[q] # None /\ PortOf(e, q)
  BY DEF Shape, Numbered, None
<1> QED BY <1>1 DEF Conn, Connections

(* A design whose connections are given by Conn has the shape. *)
LEMMA ShapeByConn ==
  ASSUME NEW e, IsDesign(e), e.temps \in Nat, Numbered(e, e.nets), Numbered(e, DOMAIN e.gate),
         DOMAIN e.const \subseteq e.nets, \A n \in DOMAIN e.const : e.const[n] \in {0, 1},
         \A x \in DOMAIN e.dir : e.dir[x] \in {"IN", "OUT", "INOUT"},
         \A g \in DOMAIN e.gate : IsGate(e.gate[g]),
         \A p \in DOMAIN e.conn : Conn(e, p) # None,
         \A p : Conn(e, p) # None => Conn(e, p) \in e.nets /\ PortOf(e, p)
  PROVE  Shape(e)
BY DEF Shape, Conn

LEMMA ConnectFields ==
  ASSUME NEW e, IsDesign(e), NEW f
  PROVE  LET c == ConnectAll(e, f)
         IN /\ IsDesign(c) /\ c.nets = e.nets /\ c.const = e.const /\ c.dir = e.dir /\ c.gate = e.gate
            /\ c.temps = e.temps
            /\ \A p : Conn(c, p) = IF p \in DOMAIN f THEN f[p] ELSE Conn(e, p)
            /\ \A p \in DOMAIN c.conn : Conn(c, p) # None
<1> DEFINE net(p) == IF p \in DOMAIN f THEN f[p] ELSE e.conn[p]
           ports == {p \in DOMAIN e.conn \cup DOMAIN f : net(p) # None}
           conn == [p \in ports |-> net(p)]
           c == ConnectAll(e, f)
<1>1. c = [e EXCEPT !.conn = conn]
  BY DEF ConnectAll
<1>2. c = [conn |-> conn, nets |-> e.nets, const |-> e.const, dir |-> e.dir, gate |-> e.gate, temps |-> e.temps]
  BY <1>1 DEF IsDesign
<1> HIDE DEF conn, c
<1>3. c.conn = conn /\ c.nets = e.nets /\ c.const = e.const /\ c.dir = e.dir /\ c.gate = e.gate /\ c.temps = e.temps
  BY <1>2
<1>4. IsDesign(c)
  BY <1>2, <1>3 DEF IsDesign
<1>5. DOMAIN conn = ports /\ \A p \in ports : conn[p] = net(p) /\ net(p) # None
  BY DEF conn
<1>6. ASSUME NEW p PROVE Conn(c, p) = IF p \in DOMAIN f THEN f[p] ELSE Conn(e, p)
  BY <1>3, <1>5 DEF Conn
<1>7. ASSUME NEW p \in DOMAIN c.conn PROVE Conn(c, p) # None
  BY <1>3, <1>5 DEF Conn
<1> QED BY <1>3, <1>4, <1>6, <1>7 DEF c

LEMMA RemoveNetsFields ==
  ASSUME NEW e, IsDesign(e), NEW N, None \notin N, \A p \in DOMAIN e.conn : Conn(e, p) # None
  PROVE  LET c == RemoveNets(e, N)
         IN /\ IsDesign(c) /\ c.nets = e.nets \ N /\ c.dir = e.dir /\ c.gate = e.gate /\ c.temps = e.temps
            /\ DOMAIN c.const = DOMAIN e.const \ N /\ \A n \in DOMAIN c.const : c.const[n] = e.const[n]
            /\ \A p : Conn(c, p) = IF Conn(e, p) \in N THEN None ELSE Conn(e, p)
            /\ \A p \in DOMAIN c.conn : Conn(c, p) # None
<1> DEFINE const == [n \in DOMAIN e.const \ N |-> e.const[n]]
           ports == {p \in DOMAIN e.conn : e.conn[p] \notin N}
           conn == [p \in ports |-> e.conn[p]]
           c == RemoveNets(e, N)
<1>1. c = [e EXCEPT !.nets = @ \ N, !.const = const, !.conn = conn]
  BY DEF RemoveNets, Restrict
<1>2. c = [conn |-> conn, nets |-> e.nets \ N, const |-> const, dir |-> e.dir, gate |-> e.gate, temps |-> e.temps]
  BY <1>1 DEF IsDesign
<1>3. DOMAIN conn = ports /\ (\A p \in ports : conn[p] = e.conn[p])
      /\ DOMAIN const = DOMAIN e.const \ N /\ (\A n \in DOMAIN const : const[n] = e.const[n])
  OBVIOUS
<1> HIDE DEF conn, const, c
<1>4. c.conn = conn /\ c.nets = e.nets \ N /\ c.const = const /\ c.dir = e.dir /\ c.gate = e.gate /\ c.temps = e.temps
  BY <1>2
<1>5. IsDesign(c)
  BY <1>2, <1>4 DEF IsDesign
<1>6. ASSUME NEW p
      PROVE  /\ Conn(c, p) = IF Conn(e, p) \in N THEN None ELSE Conn(e, p)
             /\ p \in DOMAIN c.conn => Conn(c, p) # None
  BY <1>3, <1>4 DEF Conn
<1> QED BY <1>3, <1>4, <1>5, <1>6 DEF c

LEMMA RemoveGatesFields ==
  ASSUME NEW e, IsDesign(e), NEW G, \A p \in DOMAIN e.conn : Conn(e, p) # None
  PROVE  LET c == RemoveGates(e, G)
         IN /\ IsDesign(c) /\ c.nets = e.nets /\ c.const = e.const /\ c.dir = e.dir /\ c.temps = e.temps
            /\ DOMAIN c.gate = DOMAIN e.gate \ G /\ \A g \in DOMAIN c.gate : c.gate[g] = e.gate[g]
            /\ \A p : Conn(c, p) = IF p[1] \in G THEN None ELSE Conn(e, p)
            /\ \A p \in DOMAIN c.conn : Conn(c, p) # None
<1> DEFINE gate == [g \in DOMAIN e.gate \ G |-> e.gate[g]]
           ports == {p \in DOMAIN e.conn : p[1] \notin G}
           conn == [p \in ports |-> e.conn[p]]
           c == RemoveGates(e, G)
<1>1. c = [e EXCEPT !.gate = gate, !.conn = conn]
  BY DEF RemoveGates, Restrict
<1>2. c = [conn |-> conn, nets |-> e.nets, const |-> e.const, dir |-> e.dir, gate |-> gate, temps |-> e.temps]
  BY <1>1 DEF IsDesign
<1>3. DOMAIN conn = ports /\ (\A p \in ports : conn[p] = e.conn[p])
      /\ DOMAIN gate = DOMAIN e.gate \ G /\ (\A n \in DOMAIN gate : gate[n] = e.gate[n])
  OBVIOUS
<1> HIDE DEF conn, gate, c
<1>4. c.conn = conn /\ c.nets = e.nets /\ c.const = e.const /\ c.dir = e.dir /\ c.gate = gate /\ c.temps = e.temps
  BY <1>2
<1>5. IsDesign(c)
  BY <1>2, <1>4 DEF IsDesign
<1>6. ASSUME NEW p
      PROVE  /\ Conn(c, p) = IF p[1] \in G THEN None ELSE Conn(e, p)
             /\ p \in DOMAIN c.conn => Conn(c, p) # None
  BY <1>3, <1>4 DEF Conn
<1> QED BY <1>3, <1>4, <1>5, <1>6 DEF c

LEMMA SetGateFields ==
  ASSUME NEW e, IsDesign(e), NEW g, NEW model, NEW par
  PROVE  LET c == SetGate(e, g, model, par)
         IN /\ IsDesign(c) /\ c.conn = e.conn /\ c.nets = e.nets /\ c.const = e.const /\ c.dir = e.dir
            /\ c.temps = e.temps
            /\ DOMAIN c.gate = DOMAIN e.gate \cup {g} /\ c.gate[g] = [model |-> model, p |-> par]
            /\ \A h \in DOMAIN e.gate : h # g => c.gate[h] = e.gate[h]
            /\ \A p : Conn(c, p) = Conn(e, p)
<1> DEFINE gate == [h \in DOMAIN e.gate \cup {g} |-> IF h = g THEN [model |-> model, p |-> par] ELSE e.gate[h]]
           c == SetGate(e, g, model, par)
<1>1. c = [e EXCEPT !.gate = gate]
  BY DEF SetGate
<1>2. c = [conn |-> e.conn, nets |-> e.nets, const |-> e.const, dir |-> e.dir, gate |-> gate, temps |-> e.temps]
  BY <1>1 DEF IsDesign
<1>3. DOMAIN gate = DOMAIN e.gate \cup {g} /\ gate[g] = [model |-> model, p |-> par]
      /\ \A h \in DOMAIN e.gate : h # g => gate[h] = e.gate[h]
  OBVIOUS
<1> HIDE DEF gate, c
<1>4. c.conn = e.conn /\ c.nets = e.nets /\ c.const = e.const /\ c.dir = e.dir /\ c.gate = gate /\ c.temps = e.temps
  BY <1>2
<1>5. IsDesign(c)
  BY <1>2, <1>4 DEF IsDesign
<1>6. ASSUME NEW p PROVE Conn(c, p) = Conn(e, p)
  BY <1>4 DEF Conn
<1> QED BY <1>3, <1>4, <1>5, <1>6 DEF c

LEMMA AddNetFields ==
  ASSUME NEW e, IsDesign(e)
  PROVE  LET c == AddNet(e)
         IN /\ IsDesign(c) /\ c.conn = e.conn /\ c.nets = e.nets \cup {NewNet(e)} /\ c.const = e.const
            /\ c.dir = e.dir /\ c.gate = e.gate /\ c.temps = e.temps + 1
            /\ \A p : Conn(c, p) = Conn(e, p)
<1> DEFINE c == AddNet(e)
<1>1. c = [conn |-> e.conn, nets |-> e.nets \cup {NewNet(e)}, const |-> e.const, dir |-> e.dir,
           gate |-> e.gate, temps |-> e.temps + 1]
  <2> DEFINE n == NewNet(e)
  <2> HIDE DEF n
  <2>1. c = [e EXCEPT !.nets = @ \cup {n}, !.temps = @ + 1]
    BY DEF AddNet, n
  <2> HIDE DEF c
  <2>2. c = [conn |-> e.conn, nets |-> e.nets \cup {n}, const |-> e.const, dir |-> e.dir,
             gate |-> e.gate, temps |-> e.temps + 1]
    BY <2>1 DEF IsDesign
  <2> QED BY <2>2 DEF n
<1> HIDE DEF c
<1>2. c.conn = e.conn /\ c.nets = e.nets \cup {NewNet(e)} /\ c.const = e.const /\ c.dir = e.dir
      /\ c.gate = e.gate /\ c.temps = e.temps + 1
  BY <1>1
<1>3. IsDesign(c)
  BY <1>1, <1>2 DEF IsDesign
<1> QED BY <1>2, <1>3 DEF Conn, c

LEMMA NewIsNew ==
  ASSUME NEW e, Shape(e)
  PROVE  /\ NewNet(e) \notin e.nets \cup DOMAIN e.gate /\ NewNet(e) # 0
         /\ NewNet(e) \in Nat /\ NewNet(e) = NName + e.temps + 1
BY NameAssumption DEF Shape, Numbered, NewNet

LEMMA ShapeConn ==
  ASSUME NEW e, Shape(e)
  PROVE  IsDesign(e) /\ None \notin e.nets /\ (\A p \in DOMAIN e.conn : Conn(e, p) # None)
         /\ (\A p : Conn(e, p) # None => Conn(e, p) \in e.nets /\ PortOf(e, p))
BY ConnFacts DEF Shape, Numbered, None

LEMMA ConnectShape ==
  ASSUME NEW e, Shape(e), NEW f,
         \A p \in DOMAIN f : f[p] = None \/ (f[p] \in e.nets /\ PortOf(e, p))
  PROVE  Shape(ConnectAll(e, f))
<1> DEFINE c == ConnectAll(e, f)
<1>1. /\ IsDesign(c) /\ c.nets = e.nets /\ c.const = e.const /\ c.dir = e.dir /\ c.gate = e.gate
      /\ c.temps = e.temps
      /\ \A p : Conn(c, p) = IF p \in DOMAIN f THEN f[p] ELSE Conn(e, p)
      /\ \A p \in DOMAIN c.conn : Conn(c, p) # None
  BY ConnectFields, ShapeConn
<1> HIDE DEF c
<1>2. \A p : Conn(c, p) # None => Conn(c, p) \in c.nets /\ PortOf(e, p)
  BY <1>1, ShapeConn
<1>3. \A p : PortOf(e, p) => PortOf(c, p)
  BY <1>1 DEF PortOf
<1>4. c.temps \in Nat /\ Numbered(c, c.nets) /\ Numbered(c, DOMAIN c.gate)
  BY <1>1 DEF Shape, Numbered
<1>5. /\ DOMAIN c.const \subseteq c.nets /\ \A n \in DOMAIN c.const : c.const[n] \in {0, 1}
      /\ \A x \in DOMAIN c.dir : c.dir[x] \in {"IN", "OUT", "INOUT"}
      /\ \A g \in DOMAIN c.gate : IsGate(c.gate[g])
  BY <1>1 DEF Shape
<1>6. Shape(c)
  BY <1>1, <1>2, <1>3, <1>4, <1>5, ShapeByConn
<1> QED BY <1>6 DEF c

LEMMA RemoveNetsShape ==
  ASSUME NEW e, Shape(e), NEW N, None \notin N
  PROVE  Shape(RemoveNets(e, N))
<1> DEFINE c == RemoveNets(e, N)
<1>1. /\ IsDesign(c) /\ c.nets = e.nets \ N /\ c.dir = e.dir /\ c.gate = e.gate /\ c.temps = e.temps
      /\ DOMAIN c.const = DOMAIN e.const \ N /\ (\A n \in DOMAIN c.const : c.const[n] = e.const[n])
      /\ (\A p : Conn(c, p) = IF Conn(e, p) \in N THEN None ELSE Conn(e, p))
      /\ \A p \in DOMAIN c.conn : Conn(c, p) # None
  BY RemoveNetsFields, ShapeConn
<1> HIDE DEF c
<1>2. \A p : Conn(c, p) # None => Conn(c, p) \in c.nets /\ PortOf(e, p)
  BY <1>1, ShapeConn
<1>3. \A p : PortOf(e, p) => PortOf(c, p)
  BY <1>1 DEF PortOf
<1>4. c.temps \in Nat /\ Numbered(c, c.nets) /\ Numbered(c, DOMAIN c.gate)
  BY <1>1 DEF Shape, Numbered
<1>5. /\ DOMAIN c.const \subseteq c.nets /\ \A n \in DOMAIN c.const : c.const[n] \in {0, 1}
      /\ \A x \in DOMAIN c.dir : c.dir[x] \in {"IN", "OUT", "INOUT"}
      /\ \A g \in DOMAIN c.gate : IsGate(c.gate[g])
  BY <1>1 DEF Shape
<1>6. Shape(c)
  BY <1>1, <1>2, <1>3, <1>4, <1>5, ShapeByConn
<1> QED BY <1>6 DEF c

LEMMA RemoveGatesShape ==
  ASSUME NEW e, Shape(e), NEW G
  PROVE  Shape(RemoveGates(e, G))
<1> DEFINE c == RemoveGates(e, G)
<1>1. /\ IsDesign(c) /\ c.nets = e.nets /\ c.const = e.const /\ c.dir = e.dir /\ c.temps = e.temps
      /\ DOMAIN c.gate = DOMAIN e.gate \ G /\ (\A g \in DOMAIN c.gate : c.gate[g] = e.gate[g])
      /\ (\A p : Conn(c, p) = IF p[1] \in G THEN None ELSE Conn(e, p))
      /\ \A p \in DOMAIN c.conn : Conn(c, p) # None
  BY RemoveGatesFields, ShapeConn
<1> HIDE DEF c
<1>2. \A p : Conn(c, p) # None => Conn(c, p) \in c.nets /\ PortOf(e, p) /\ p[1] \notin G
  BY <1>1, ShapeConn
<1>3. \A p : PortOf(e, p) /\ p[1] \notin G => PortOf(c, p)
  BY <1>1 DEF PortOf
<1>4. c.temps \in Nat /\ Numbered(c, c.nets) /\ Numbered(c, DOMAIN c.gate)
  BY <1>1 DEF Shape, Numbered
<1>5. /\ DOMAIN c.const \subseteq c.nets /\ \A n \in DOMAIN c.const : c.const[n] \in {0, 1}
      /\ \A x \in DOMAIN c.dir : c.dir[x] \in {"IN", "OUT", "INOUT"}
      /\ \A g \in DOMAIN c.gate : IsGate(c.gate[g])
  BY <1>1 DEF Shape
<1>6. Shape(c)
  BY <1>1, <1>2, <1>3, <1>4, <1>5, ShapeByConn
<1> QED BY <1>6 DEF c

(* Setting a gate keeps the shape if what was connected to it fits. *)
LEMMA SetGateShape ==
  ASSUME NEW e, Shape(e), NEW g, NEW model, NEW par, Numbered(e, {g}), model \in Models,
         \A p : Conn(e, p) # None /\ p[1] = g => p[2] \in PortsOf(model)
  PROVE  Shape(SetGate(e, g, model, par))
<1> DEFINE c == SetGate(e, g, model, par)
<1>1. /\ IsDesign(c) /\ c.conn = e.conn /\ c.nets = e.nets /\ c.const = e.const /\ c.dir = e.dir /\ c.temps = e.temps
      /\ DOMAIN c.gate = DOMAIN e.gate \cup {g} /\ c.gate[g] = [model |-> model, p |-> par]
      /\ (\A h \in DOMAIN e.gate : h # g => c.gate[h] = e.gate[h])
      /\ \A p : Conn(c, p) = Conn(e, p)
  BY SetGateFields, ShapeConn
<1> HIDE DEF c
<1>2. ASSUME NEW p, Conn(c, p) # None PROVE Conn(c, p) \in c.nets /\ PortOf(c, p)
  <2>1. Conn(e, p) \in e.nets /\ PortOf(e, p)
    BY <1>1, <1>2, ShapeConn
  <2>2. c.gate[g].model = model
    BY <1>1
  <2> QED BY <1>1, <1>2, <2>1, <2>2 DEF PortOf
<1>3. IsGate(c.gate[g])
  BY <1>1 DEF IsGate
<1>4. \A h \in DOMAIN c.gate : IsGate(c.gate[h])
  BY <1>1, <1>3 DEF Shape
<1>5. c.temps \in Nat /\ Numbered(c, c.nets) /\ Numbered(c, DOMAIN c.gate)
  BY <1>1 DEF Shape, Numbered
<1>6. /\ DOMAIN c.const \subseteq c.nets /\ \A n \in DOMAIN c.const : c.const[n] \in {0, 1}
      /\ \A x \in DOMAIN c.dir : c.dir[x] \in {"IN", "OUT", "INOUT"}
  BY <1>1 DEF Shape
<1>7. \A p \in DOMAIN c.conn : Conn(c, p) # None
  BY <1>1, ShapeConn
<1>8. Shape(c)
  BY <1>1, <1>2, <1>4, <1>5, <1>6, <1>7, ShapeByConn
<1> QED BY <1>8 DEF c

LEMMA AddNetShape ==
  ASSUME NEW e, Shape(e)
  PROVE  Shape(AddNet(e))
<1> DEFINE c == AddNet(e)
<1>1. /\ IsDesign(c) /\ c.conn = e.conn /\ c.nets = e.nets \cup {NewNet(e)} /\ c.const = e.const
      /\ c.dir = e.dir /\ c.gate = e.gate /\ c.temps = e.temps + 1
      /\ \A p : Conn(c, p) = Conn(e, p)
  BY AddNetFields, ShapeConn
<1> HIDE DEF c
<1>2. c.temps \in Nat /\ Numbered(c, c.nets) /\ Numbered(c, DOMAIN c.gate)
  BY <1>1, NewIsNew, NameAssumption DEF Shape, Numbered
<1>3. /\ DOMAIN c.const \subseteq c.nets /\ \A n \in DOMAIN c.const : c.const[n] \in {0, 1}
      /\ \A x \in DOMAIN c.dir : c.dir[x] \in {"IN", "OUT", "INOUT"}
      /\ \A g \in DOMAIN c.gate : IsGate(c.gate[g])
  BY <1>1 DEF Shape
<1>4. \A p : Conn(c, p) # None => Conn(c, p) \in c.nets /\ PortOf(c, p)
  BY <1>1, ShapeConn DEF PortOf
<1>5. \A p \in DOMAIN c.conn : Conn(c, p) # None
  BY <1>1, ShapeConn
<1>6. Shape(c)
  BY <1>1, <1>2, <1>3, <1>4, <1>5, ShapeByConn
<1> QED BY <1>6 DEF c

LEMMA BecomeFields ==
  ASSUME NEW e, Shape(e), NEW g \in DOMAIN e.gate, NEW model \in Models, NEW par, NEW f,
         DOMAIN f \subseteq PortsOf(model), \A x \in DOMAIN f : f[x] = None \/ f[x] \in e.nets,
         NEW c, c = Become(e, g, model, par, f)
  PROVE  /\ Shape(c) /\ c.nets = e.nets /\ c.const = e.const /\ c.dir = e.dir /\ c.temps = e.temps
         /\ DOMAIN c.gate = DOMAIN e.gate \cup {g} /\ c.gate[g].model = model
         /\ \A h \in DOMAIN e.gate : h # g => c.gate[h] = e.gate[h]
         /\ \A p : p[1] # g => Conn(c, p) = Conn(e, p)
         /\ \A x \in DOMAIN f : Conn(c, <<g, x>>) = f[x]
         /\ \A p : p[1] = g /\ Conn(c, p) # None => p = <<g, p[2]>> /\ p[2] \in DOMAIN f
<1> DEFINE a == RemoveGates(e, {g})
           b == SetGate(a, g, model, par)
           ports == {<<g, x>> : x \in DOMAIN f}
           h == [q \in ports |-> f[q[2]]]
<1>1. c = ConnectAll(b, h)
  BY DEF Become
<1>2. /\ IsDesign(a) /\ a.nets = e.nets /\ a.const = e.const /\ a.dir = e.dir /\ a.temps = e.temps
      /\ DOMAIN a.gate = DOMAIN e.gate \ {g} /\ (\A k \in DOMAIN a.gate : a.gate[k] = e.gate[k])
      /\ (\A p : Conn(a, p) = IF p[1] \in {g} THEN None ELSE Conn(e, p))
      /\ Shape(a)
  BY RemoveGatesFields, RemoveGatesShape, ShapeConn
<1> HIDE DEF a
<1>3. /\ IsDesign(b) /\ b.nets = a.nets /\ b.const = a.const /\ b.dir = a.dir /\ b.temps = a.temps
      /\ DOMAIN b.gate = DOMAIN a.gate \cup {g} /\ b.gate[g] = [model |-> model, p |-> par]
      /\ (\A k \in DOMAIN a.gate : k # g => b.gate[k] = a.gate[k])
      /\ \A p : Conn(b, p) = Conn(a, p)
  BY <1>2, SetGateFields
<1>4. Shape(b)
  <2>1. Numbered(a, {g})
    BY <1>2 DEF Shape, Numbered
  <2>2. \A p : Conn(a, p) # None /\ p[1] = g => p[2] \in PortsOf(model)
    BY <1>2
  <2> QED BY <1>2, <2>1, <2>2, SetGateShape
<1> HIDE DEF b
<1>5. DOMAIN h = ports /\ (\A q \in ports : h[q] = f[q[2]])
  OBVIOUS
<1>6. \A x \in DOMAIN f : <<g, x>> \in ports /\ h[<<g, x>>] = f[x]
  OBVIOUS
<1>7. \A q \in ports : q = <<g, q[2]>> /\ q[1] = g /\ q[2] \in DOMAIN f
  OBVIOUS
<1> HIDE DEF h, ports
<1>8. \A q \in DOMAIN h : h[q] = None \/ (h[q] \in b.nets /\ PortOf(b, q))
  <2> SUFFICES ASSUME NEW q \in ports, f[q[2]] # None
               PROVE  f[q[2]] \in b.nets /\ PortOf(b, q)
    BY <1>5
  <2>1. q = <<g, q[2]>> /\ q[1] = g /\ q[2] \in DOMAIN f
    BY <1>7
  <2>2. b.gate[q[1]].model = model /\ q[1] \in DOMAIN b.gate
    BY <1>3, <2>1
  <2>3. PortOf(b, q)
    BY <2>1, <2>2 DEF PortOf
  <2> QED BY <1>2, <1>3, <2>1, <2>3
<1>9. Shape(c)
  BY <1>1, <1>4, <1>8, ConnectShape
<1>10. /\ c.nets = b.nets /\ c.const = b.const /\ c.dir = b.dir /\ c.gate = b.gate /\ c.temps = b.temps
       /\ \A p : Conn(c, p) = IF p \in DOMAIN h THEN h[p] ELSE Conn(b, p)
  BY <1>1, <1>3, ConnectFields
<1>11. /\ c.nets = e.nets /\ c.const = e.const /\ c.dir = e.dir /\ c.temps = e.temps
       /\ DOMAIN c.gate = DOMAIN e.gate \cup {g} /\ c.gate[g] = [model |-> model, p |-> par]
  BY <1>2, <1>3, <1>10
<1>12. \A k \in DOMAIN e.gate : k # g => c.gate[k] = e.gate[k]
  BY <1>2, <1>3, <1>10
<1>13. \A p : p[1] # g => Conn(c, p) = Conn(e, p)
  BY <1>2, <1>3, <1>5, <1>7, <1>10
<1>14. \A x \in DOMAIN f : Conn(c, <<g, x>>) = f[x]
  BY <1>5, <1>6, <1>10
<1>15. \A p : p[1] = g /\ Conn(c, p) # None => p = <<g, p[2]>> /\ p[2] \in DOMAIN f
  BY <1>2, <1>3, <1>5, <1>7, <1>10
<1>16. c.gate[g].model = model
  BY <1>11
<1> QED BY <1>9, <1>11, <1>12, <1>13, <1>14, <1>15, <1>16

LEMMA WithConstFields ==
  ASSUME NEW e, Shape(e), NEW v \in {0, 1}
  PROVE  LET c == WithConst(e, v)
         IN /\ Shape(c) /\ c.dir = e.dir /\ c.gate = e.gate
            /\ (\A p : Conn(c, p) = Conn(e, p))
            /\ c.nets \subseteq e.nets \cup {NewNet(e)} /\ e.nets \subseteq c.nets
            /\ c.nets \ e.nets = DOMAIN c.const \ DOMAIN e.const
            /\ DOMAIN e.const \subseteq DOMAIN c.const
            /\ \A n \in DOMAIN e.const : c.const[n] = e.const[n]
            /\ \E n \in DOMAIN c.const : c.const[n] = v
<1> DEFINE c == WithConst(e, v)
           a == AddNet(e)
           n == NewNet(e)
           const == Put(e.const, n, v)
<1>1. CASE \E m \in DOMAIN e.const : e.const[m] = v
  <2>1. c = e
    BY <1>1 DEF WithConst
  <2> QED BY <1>1, <2>1
<1>2. CASE ~\E m \in DOMAIN e.const : e.const[m] = v
  <2>1. c = [a EXCEPT !.const = Put(@, n, v)]
    BY <1>2 DEF WithConst
  <2>2. /\ IsDesign(a) /\ a.conn = e.conn /\ a.nets = e.nets \cup {n} /\ a.const = e.const
        /\ a.dir = e.dir /\ a.gate = e.gate /\ a.temps = e.temps + 1
        /\ Shape(a)
    BY AddNetFields, AddNetShape, ShapeConn
  <2>3. n \notin e.nets /\ n \notin DOMAIN e.const
    BY NewIsNew DEF Shape
  <2>4. DOMAIN const = DOMAIN e.const \cup {n} /\ const[n] = v /\ (\A m \in DOMAIN e.const : const[m] = e.const[m])
    <3>1. const = Put(e.const, n, v)
      OBVIOUS
    <3> DEFINE one == [y \in {n} |-> v]
    <3>2. DOMAIN one = {n} /\ one[n] = v
      OBVIOUS
    <3>3. const = Over(one, e.const)
      BY DEF Put
    <3> HIDE DEF n, const, one
    <3>4. DOMAIN const = DOMAIN e.const \cup {n} /\ const[n] = v
      BY <3>2, <3>3 DEF Over
    <3>5. \A m \in DOMAIN e.const \ {n} : const[m] = e.const[m]
      BY <3>2, <3>3 DEF Over
    <3> QED BY <2>3, <3>4, <3>5
  <2>5. c = [a EXCEPT !.const = const]
    BY <2>1, <2>2
  <2> HIDE DEF a, const, c, n
  <2>6. c = [conn |-> a.conn, nets |-> a.nets, const |-> const, dir |-> a.dir, gate |-> a.gate, temps |-> a.temps]
    BY <2>2, <2>5 DEF IsDesign
  <2>7. /\ c.conn = a.conn /\ c.nets = a.nets /\ c.const = const /\ c.dir = a.dir /\ c.gate = a.gate /\ c.temps = a.temps
        /\ IsDesign(c)
    BY <2>6 DEF IsDesign
  <2>8. \A p : Conn(c, p) = Conn(a, p) /\ Conn(a, p) = Conn(e, p)
    BY <2>2, <2>7 DEF Conn
  <2>9. Shape(c)
    <3>1. DOMAIN c.const \subseteq c.nets /\ \A m \in DOMAIN c.const : c.const[m] \in {0, 1}
      BY <2>2, <2>4, <2>7 DEF Shape
    <3>2. c.temps \in Nat /\ Numbered(c, c.nets) /\ Numbered(c, DOMAIN c.gate)
      BY <2>2, <2>7 DEF Shape, Numbered
    <3>3. /\ \A x \in DOMAIN c.dir : c.dir[x] \in {"IN", "OUT", "INOUT"}
          /\ \A g \in DOMAIN c.gate : IsGate(c.gate[g])
      BY <2>2, <2>7 DEF Shape
    <3>4. \A p \in DOMAIN c.conn : Conn(c, p) # None
      BY <2>2, <2>7, <2>8, ShapeConn
    <3>5. \A p : Conn(c, p) # None => Conn(c, p) \in c.nets /\ PortOf(c, p)
      BY <2>2, <2>7, <2>8, ShapeConn DEF PortOf
    <3> QED BY <2>7, <3>1, <3>2, <3>3, <3>4, <3>5, ShapeByConn
  <2>10. /\ c.nets = e.nets \cup {n} /\ DOMAIN c.const = DOMAIN e.const \cup {n} /\ c.const[n] = v
         /\ c.dir = e.dir /\ c.gate = e.gate
         /\ (\A m \in DOMAIN e.const : c.const[m] = e.const[m])
         /\ (\A p : Conn(c, p) = Conn(e, p))
    BY <2>2, <2>4, <2>7, <2>8
  <2> QED BY <2>3, <2>9, <2>10 DEF c, n
<1> QED BY <1>1, <1>2

LEMMA ConstNetFacts ==
  ASSUME NEW e, Shape(e), NEW v, \E n \in DOMAIN e.const : e.const[n] = v
  PROVE  ConstNet(e, v) \in DOMAIN e.const /\ e.const[ConstNet(e, v)] = v /\ ConstNet(e, v) \in e.nets
BY DEF ConstNet, Shape

LEMMA PruneFields ==
  ASSUME NEW e, Shape(e)
  PROVE  LET c == Prune(e)
         IN /\ Shape(c) /\ c.dir = e.dir /\ c.gate = e.gate
            /\ c.nets = {n \in e.nets : Used(e, n)}
            /\ DOMAIN c.const = DOMAIN e.const \cap c.nets /\ (\A n \in DOMAIN c.const : c.const[n] = e.const[n])
            /\ \A p : Conn(c, p) = IF Conn(e, p) \in c.nets THEN Conn(e, p) ELSE None
            /\ \A n \in c.nets : Connections(c, n) = Connections(e, n)
<1> DEFINE N == {n \in e.nets : ~Used(e, n)}
           c == Prune(e)
<1>1. c = RemoveNets(e, N)
  BY DEF Prune
<1>2. None \notin N
  BY ShapeConn
<1>3. /\ Shape(c) /\ c.nets = e.nets \ N /\ c.dir = e.dir /\ c.gate = e.gate
      /\ DOMAIN c.const = DOMAIN e.const \ N /\ (\A n \in DOMAIN c.const : c.const[n] = e.const[n])
      /\ (\A p : Conn(c, p) = IF Conn(e, p) \in N THEN None ELSE Conn(e, p))
  <2> HIDE DEF c, N
  <2> QED BY <1>1, <1>2, ShapeConn, RemoveNetsFields, RemoveNetsShape
<1>4. DOMAIN e.const \subseteq e.nets
  BY DEF Shape
<1>5. \A p : Conn(e, p) = None \/ Conn(e, p) \in e.nets
  BY ShapeConn
<1> HIDE DEF c
<1>6. \A p : Conn(c, p) = IF Conn(e, p) \in c.nets THEN Conn(e, p) ELSE None
  BY <1>2, <1>3, <1>5
<1>7. \A n \in c.nets : Connections(c, n) = Connections(e, n)
  <2> SUFFICES ASSUME NEW n \in c.nets, NEW p PROVE p \in Connections(c, n) <=> p \in Connections(e, n)
    BY DEF Connections
  <2>1. n # None
    BY <1>2, <1>3, ShapeConn
  <2> QED BY <1>3, <1>6, <2>1, ConnFacts
<1>8. c.nets = {n \in e.nets : Used(e, n)} /\ DOMAIN c.const = DOMAIN e.const \cap c.nets
  BY <1>3, <1>4
<1> QED BY <1>3, <1>6, <1>7, <1>8 DEF c

-----------------------------------------------------------------------------
(* The reader keeps the shape: the lines, and unification.                 *)
ReadInv ==
  /\ file \in Files
  /\ pc \in {"read", "unify"} =>
       /\ Shape(d)
       /\ \A i \in DOMAIN unify : unify[i][1] \in d.nets /\ unify[i][2] \in d.nets
       /\ \A n \in DOMAIN replacement : replacement[n] \in d.nets /\ n \in d.nets
       /\ \A l \in file : l.cmd = "gate" /\ l.id \in DOMAIN d.gate => d.gate[l.id].model = l.model

LEMMA LineFacts ==
  ASSUME file \in Files, NEW l \in file
  PROVE  /\ l.cmd = "gate" =>
              /\ l.id \in 1 .. NName /\ \A k \in file : k.cmd = "gate" /\ k.id = l.id => k = l
              /\ l.model \in Models
              /\ DOMAIN l.ports \subseteq PortsOf(l.model) /\ \A x \in DOMAIN l.ports : l.ports[x] \in 1 .. NName
         /\ l.cmd # "gate" =>
              /\ l.net \in 1 .. NName
              /\ l.cmd = "constant" => l.value \in {0, 1}
              /\ l.cmd = "names" => l.to \in 1 .. NName
BY FilesAssumption DEF Models

LEMMA InitRead == Init => ReadInv
<1> SUFFICES ASSUME Init PROVE ReadInv
  OBVIOUS
<1>1. d = [conn |-> <<>>, nets |-> {}, const |-> <<>>, dir |-> <<>>, gate |-> <<>>, temps |-> 0]
  BY DEF Init
<1>2. IsDesign(d)
  BY <1>1 DEF IsDesign
<1>3. DOMAIN d.conn = {} /\ DOMAIN d.const = {} /\ DOMAIN d.dir = {} /\ DOMAIN d.gate = {} /\ d.nets = {} /\ d.temps = 0
  BY <1>1
<1>4. Shape(d)
  BY <1>2, <1>3 DEF Shape, Numbered
<1>5. DOMAIN unify = {} /\ DOMAIN replacement = {} /\ file \in Files
  BY DEF Init
<1> QED BY <1>3, <1>4, <1>5 DEF ReadInv

(* More nets keep the shape, and so do other constants and directions.     *)
LEMMA ShapeWith ==
  ASSUME NEW e, Shape(e), NEW N, Numbered(e, N), NEW const, NEW dir, NEW conn,
         DOMAIN const \subseteq e.nets \cup N, \A n \in DOMAIN const : const[n] \in {0, 1},
         DOMAIN e.dir \subseteq DOMAIN dir, \A x \in DOMAIN dir : dir[x] \in {"IN", "OUT", "INOUT"},
         \A p \in DOMAIN conn :
           \/ p \in DOMAIN e.conn /\ conn[p] = e.conn[p]
           \/ \E x \in DOMAIN dir : p = <<Top, x>> /\ conn[p] \in e.nets \cup N
  PROVE  Shape([conn |-> conn, nets |-> e.nets \cup N, const |-> const, dir |-> dir,
                gate |-> e.gate, temps |-> e.temps])
<1> DEFINE c == [conn |-> conn, nets |-> e.nets \cup N, const |-> const, dir |-> dir,
                 gate |-> e.gate, temps |-> e.temps]
<1>1. /\ c.conn = conn /\ c.nets = e.nets \cup N /\ c.const = const /\ c.dir = dir /\ c.gate = e.gate
      /\ c.temps = e.temps
      /\ IsDesign(c)
  BY DEF IsDesign
<1> HIDE DEF c
<1>2. ASSUME NEW p \in DOMAIN c.conn PROVE c.conn[p] \in c.nets /\ PortOf(c, p)
  <2>1. CASE p \in DOMAIN e.conn /\ conn[p] = e.conn[p]
    <3>1. e.conn[p] \in e.nets /\ PortOf(e, p)
      BY <2>1 DEF Shape
    <3> QED BY <1>1, <2>1, <3>1 DEF PortOf
  <2>2. CASE \E x \in DOMAIN dir : p = <<Top, x>> /\ conn[p] \in e.nets \cup N
    <3>1. PICK x \in DOMAIN dir : p = <<Top, x>> /\ conn[p] \in e.nets \cup N
      BY <2>2
    <3>2. p[1] = Top /\ p[2] = x /\ p = <<p[1], p[2]>>
      BY <3>1
    <3> QED BY <1>1, <3>1, <3>2 DEF PortOf
  <2> QED BY <1>1, <1>2, <2>1, <2>2
<1>3. c.temps \in Nat /\ Numbered(c, c.nets) /\ Numbered(c, DOMAIN c.gate)
  BY <1>1 DEF Shape, Numbered
<1>4. \A g \in DOMAIN c.gate : IsGate(c.gate[g])
  BY <1>1 DEF Shape
<1>5. Shape(c)
  BY <1>1, <1>2, <1>3, <1>4 DEF Shape
<1> QED BY <1>5 DEF c

LEMMA NamedNet ==
  ASSUME NEW e, Shape(e), NEW n \in 1 .. NName
  PROVE  Numbered(e, {n})
BY NameAssumption DEF Shape, Numbered

LEMMA ReadPortShape ==
  ASSUME ReadInv, NEW line \in file, ReadPort(line)
  PROVE  Shape(d') /\ d'.nets = d.nets \cup {line.net} /\ d'.gate = d.gate
<1> DEFINE n == line.net
           w == IF line.net \in DOMAIN d.dir /\ d.dir[line.net] # line.cmd THEN "INOUT" ELSE line.cmd
           one == [y \in {n} |-> w]
           two == [y \in {<<Top, n>>} |-> n]
           dir == Over(one, d.dir)
           conn == Over(two, d.conn)
<1>1. /\ pc = "read" /\ line.cmd \in {"IN", "OUT"}
      /\ d' = [d EXCEPT !.dir = dir, !.nets = @ \cup {n}, !.conn = conn]
  BY DEF ReadPort, Reading, Put
<1>2. Shape(d) /\ n \in 1 .. NName
  BY <1>1, LineFacts DEF ReadInv
<1>3. DOMAIN one = {n} /\ one[n] = w /\ DOMAIN two = {<<Top, n>>} /\ two[<<Top, n>>] = n
  OBVIOUS
<1>4. w \in {"IN", "OUT", "INOUT"}
  BY <1>1
<1> HIDE DEF one, two, w
<1>5. DOMAIN dir = {n} \cup DOMAIN d.dir /\ dir[n] = w /\ \A y \in DOMAIN d.dir \ {n} : dir[y] = d.dir[y]
  BY <1>3 DEF Over
<1>6. /\ DOMAIN conn = {<<Top, n>>} \cup DOMAIN d.conn /\ conn[<<Top, n>>] = n
      /\ \A p \in DOMAIN d.conn \ {<<Top, n>>} : conn[p] = d.conn[p]
  BY <1>3 DEF Over
<1> HIDE DEF dir, conn
<1>7. d' = [conn |-> conn, nets |-> d.nets \cup {n}, const |-> d.const, dir |-> dir,
            gate |-> d.gate, temps |-> d.temps]
  BY <1>1, <1>2 DEF Shape, IsDesign
<1>8. Numbered(d, {n})
  BY <1>2, NamedNet
<1>9. \A y \in DOMAIN dir : dir[y] \in {"IN", "OUT", "INOUT"}
  BY <1>2, <1>4, <1>5 DEF Shape
<1>10. DOMAIN d.const \subseteq d.nets \cup {n} /\ \A m \in DOMAIN d.const : d.const[m] \in {0, 1}
  BY <1>2 DEF Shape
<1>11. \A p \in DOMAIN conn :
         \/ p \in DOMAIN d.conn /\ conn[p] = d.conn[p]
         \/ \E x \in DOMAIN dir : p = <<Top, x>> /\ conn[p] \in d.nets \cup {n}
  BY <1>5, <1>6
<1>12. DOMAIN d.dir \subseteq DOMAIN dir
  BY <1>5
<1>13. Shape([conn |-> conn, nets |-> d.nets \cup {n}, const |-> d.const, dir |-> dir,
              gate |-> d.gate, temps |-> d.temps])
  BY <1>2, <1>8, <1>9, <1>10, <1>11, <1>12, ShapeWith
<1> QED BY <1>7, <1>13

LEMMA ReadConstantShape ==
  ASSUME ReadInv, NEW line \in file, ReadConstant(line)
  PROVE  Shape(d') /\ d'.nets = d.nets \cup {line.net} /\ d'.gate = d.gate
<1> DEFINE n == line.net
           w == line.value
           one == [y \in {n} |-> w]
           const == Over(one, d.const)
<1>1. /\ pc = "read" /\ line.cmd = "constant"
      /\ d' = [d EXCEPT !.const = const, !.nets = @ \cup {n}]
  BY DEF ReadConstant, Reading, Put
<1>2. Shape(d) /\ n \in 1 .. NName /\ w \in {0, 1}
  BY <1>1, LineFacts DEF ReadInv
<1>3. DOMAIN one = {n} /\ one[n] = w
  OBVIOUS
<1> HIDE DEF one, w
<1>4. DOMAIN const = {n} \cup DOMAIN d.const /\ const[n] = w /\ \A y \in DOMAIN d.const \ {n} : const[y] = d.const[y]
  BY <1>3 DEF Over
<1> HIDE DEF const
<1>5. d' = [conn |-> d.conn, nets |-> d.nets \cup {n}, const |-> const, dir |-> d.dir,
            gate |-> d.gate, temps |-> d.temps]
  BY <1>1, <1>2 DEF Shape, IsDesign
<1>6. Numbered(d, {n})
  BY <1>2, NamedNet
<1>7. \A y \in DOMAIN d.dir : d.dir[y] \in {"IN", "OUT", "INOUT"}
  BY <1>2 DEF Shape
<1>8. DOMAIN const \subseteq d.nets \cup {n} /\ \A m \in DOMAIN const : const[m] \in {0, 1}
  BY <1>2, <1>4 DEF Shape
<1>9. Shape([conn |-> d.conn, nets |-> d.nets \cup {n}, const |-> const, dir |-> d.dir,
             gate |-> d.gate, temps |-> d.temps])
  BY <1>2, <1>6, <1>7, <1>8, ShapeWith
<1> QED BY <1>5, <1>9

LEMMA MoreNets ==
  ASSUME NEW e, Shape(e), NEW N, \A n \in N : n \in 1 .. NName
  PROVE  LET c == [e EXCEPT !.nets = @ \cup N]
         IN /\ Shape(c) /\ c.nets = e.nets \cup N /\ c.gate = e.gate /\ c.conn = e.conn
            /\ c.const = e.const /\ c.dir = e.dir /\ c.temps = e.temps
<1> DEFINE c == [e EXCEPT !.nets = @ \cup N]
<1>1. c = [conn |-> e.conn, nets |-> e.nets \cup N, const |-> e.const, dir |-> e.dir,
           gate |-> e.gate, temps |-> e.temps]
  BY DEF Shape, IsDesign
<1>2. Numbered(e, N)
  BY NameAssumption DEF Shape, Numbered
<1>3. \A y \in DOMAIN e.dir : e.dir[y] \in {"IN", "OUT", "INOUT"}
  BY DEF Shape
<1>4. DOMAIN e.const \subseteq e.nets \cup N /\ \A m \in DOMAIN e.const : e.const[m] \in {0, 1}
  BY DEF Shape
<1>5. Shape([conn |-> e.conn, nets |-> e.nets \cup N, const |-> e.const, dir |-> e.dir,
             gate |-> e.gate, temps |-> e.temps])
  BY <1>2, <1>3, <1>4, ShapeWith
<1> HIDE DEF c
<1>6. Shape(c) /\ c.nets = e.nets \cup N /\ c.gate = e.gate /\ c.conn = e.conn
      /\ c.const = e.const /\ c.dir = e.dir /\ c.temps = e.temps
  BY <1>1, <1>5
<1> QED BY <1>6 DEF c

LEMMA ReadGateShape ==
  ASSUME ReadInv, NEW line \in file, ReadGate(line)
  PROVE  /\ Shape(d') /\ d.nets \subseteq d'.nets
         /\ DOMAIN d'.gate = DOMAIN d.gate \cup {line.id} /\ d'.gate[line.id].model = line.model
         /\ \A g \in DOMAIN d.gate \ {line.id} : d'.gate[g] = d.gate[g]
<1> DEFINE g == line.id
           R == Range(line.ports)
           a == SetGate(d, g, line.model, line.p)
           b == [a EXCEPT !.nets = @ \cup R]
           ports == {<<g, x>> : x \in DOMAIN line.ports}
           h == [q \in ports |-> line.ports[q[2]]]
<1>1. pc = "read" /\ line.cmd = "gate" /\ d' = ConnectAll(b, h)
  BY DEF ReadGate, Reading
<1>2. /\ Shape(d) /\ file \in Files
      /\ g \in DOMAIN d.gate => d.gate[g].model = line.model
  BY <1>1 DEF ReadInv
<1>3. /\ g \in 1 .. NName /\ line.model \in Models
      /\ DOMAIN line.ports \subseteq PortsOf(line.model) /\ \A x \in DOMAIN line.ports : line.ports[x] \in 1 .. NName
  BY <1>1, <1>2, LineFacts
<1>4. Numbered(d, {g})
  BY <1>2, <1>3, NamedNet
<1>5. \A p : Conn(d, p) # None /\ p[1] = g => p[2] \in PortsOf(line.model)
  <2> SUFFICES ASSUME NEW p, Conn(d, p) # None, p[1] = g PROVE p[2] \in PortsOf(line.model)
    OBVIOUS
  <2>1. PortOf(d, p)
    BY <1>2, ShapeConn
  <2>2. g # Top
    BY <1>3, NameAssumption DEF Top
  <2> QED BY <1>2, <2>1, <2>2 DEF PortOf
<1>6. Shape(a)
  BY <1>2, <1>3, <1>4, <1>5, SetGateShape
<1>7. /\ a.nets = d.nets /\ DOMAIN a.gate = DOMAIN d.gate \cup {g} /\ a.gate[g] = [model |-> line.model, p |-> line.p]
      /\ \A k \in DOMAIN d.gate : k # g => a.gate[k] = d.gate[k]
  BY <1>2, SetGateFields, ShapeConn
<1>8. \A n \in R : n \in 1 .. NName
  BY <1>3 DEF Range
<1> HIDE DEF a, R
<1>9. Shape(b) /\ b.nets = a.nets \cup R /\ b.gate = a.gate
  BY <1>6, <1>8, MoreNets
<1> HIDE DEF b
<1>10. DOMAIN h = ports /\ (\A q \in ports : h[q] = line.ports[q[2]])
       /\ \A q \in ports : q = <<g, q[2]>> /\ q[1] = g /\ q[2] \in DOMAIN line.ports
  OBVIOUS
<1> HIDE DEF h, ports
<1>11. \A q \in DOMAIN h : h[q] = None \/ (h[q] \in b.nets /\ PortOf(b, q))
  <2> SUFFICES ASSUME NEW q \in ports PROVE h[q] \in b.nets /\ PortOf(b, q)
    BY <1>10
  <2>1. h[q] = line.ports[q[2]] /\ q = <<g, q[2]>> /\ q[1] = g /\ q[2] \in DOMAIN line.ports
    BY <1>10
  <2>2. h[q] \in R
    BY <2>1 DEF R, Range
  <2>3. b.gate[g].model = line.model /\ g \in DOMAIN b.gate
    BY <1>7, <1>9
  <2>4. PortOf(b, q)
    BY <1>3, <2>1, <2>3 DEF PortOf
  <2> QED BY <1>9, <2>2, <2>4
<1>12. Shape(d')
  BY <1>1, <1>9, <1>11, ConnectShape
<1>13. d'.nets = b.nets /\ d'.gate = b.gate
  BY <1>1, <1>9, ConnectFields, ShapeConn
<1>14. d'.gate[g].model = line.model
  BY <1>7, <1>9, <1>13
<1> QED BY <1>7, <1>9, <1>12, <1>13, <1>14

LEMMA ReadNamesShape ==
  ASSUME ReadInv, NEW line \in file, ReadNames(line)
  PROVE  Shape(d') /\ d'.nets = d.nets \cup {line.net, line.to} /\ d'.gate = d.gate
<1>1. /\ pc = "read" /\ line.cmd = "names"
      /\ d' = [d EXCEPT !.nets = @ \cup {line.net, line.to}]
  BY DEF ReadNames, Reading
<1>2. Shape(d) /\ \A n \in {line.net, line.to} : n \in 1 .. NName
  BY <1>1, LineFacts DEF ReadInv
<1> DEFINE N == {line.net, line.to}
<1>3. d' = [d EXCEPT !.nets = @ \cup N] /\ \A n \in N : n \in 1 .. NName
  BY <1>1, <1>2
<1> HIDE DEF N
<1>4. Shape(d') /\ d'.nets = d.nets \cup N /\ d'.gate = d.gate
  BY <1>2, <1>3, MoreNets
<1> QED BY <1>4 DEF N

LEMMA ReadInvStep ==
  ASSUME ReadInv, UnifyInv, NEW line \in file, ReadPort(line) \/ ReadConstant(line) \/ ReadNames(line) \/ ReadGate(line)
  PROVE  ReadInv'
<1>1. pc = "read" /\ pc' = "read" /\ file' = file /\ replacement' = replacement
  BY DEF ReadPort, ReadConstant, ReadNames, ReadGate, Reading
<1>2. replacement = <<>> /\ DOMAIN replacement = {}
  BY <1>1 DEF UnifyInv
<1>3. /\ file \in Files /\ Shape(d)
      /\ \A i \in DOMAIN unify : unify[i][1] \in d.nets /\ unify[i][2] \in d.nets
      /\ \A l \in file : l.cmd = "gate" /\ l.id \in DOMAIN d.gate => d.gate[l.id].model = l.model
  BY <1>1 DEF ReadInv
<1>4. CASE ReadPort(line) \/ ReadConstant(line)
  <2>1. Shape(d') /\ d'.nets = d.nets \cup {line.net} /\ d'.gate = d.gate /\ unify' = unify
    BY <1>4, ReadPortShape, ReadConstantShape DEF ReadPort, ReadConstant
  <2> QED BY <1>1, <1>2, <1>3, <2>1 DEF ReadInv
<1>5. CASE ReadNames(line)
  <2>1. Shape(d') /\ d'.nets = d.nets \cup {line.net, line.to} /\ d'.gate = d.gate
    BY <1>5, ReadNamesShape
  <2>2. unify' = Append(unify, <<line.net, line.to>>) /\ unify \in Seq(Lines)
    BY <1>5 DEF ReadNames, UnifyInv
  <2>3. \A i \in DOMAIN unify' : unify'[i] = <<line.net, line.to>> \/ (i \in DOMAIN unify /\ unify'[i] = unify[i])
    BY <2>2
  <2>4. \A i \in DOMAIN unify' : unify'[i][1] \in d'.nets /\ unify'[i][2] \in d'.nets
    <3> TAKE i \in DOMAIN unify'
    <3>1. CASE unify'[i] = <<line.net, line.to>>
      <4>1. unify'[i][1] = line.net /\ unify'[i][2] = line.to
        BY <3>1
      <4> QED BY <2>1, <4>1
    <3>2. CASE i \in DOMAIN unify /\ unify'[i] = unify[i]
      BY <1>3, <2>1, <3>2
    <3> QED BY <2>3, <3>1, <3>2
  <2> QED BY <1>1, <1>2, <1>3, <2>1, <2>4 DEF ReadInv
<1>6. CASE ReadGate(line)
  <2>1. /\ Shape(d') /\ d.nets \subseteq d'.nets
        /\ DOMAIN d'.gate = DOMAIN d.gate \cup {line.id} /\ d'.gate[line.id].model = line.model
        /\ \A g \in DOMAIN d.gate \ {line.id} : d'.gate[g] = d.gate[g]
    BY <1>6, ReadGateShape
  <2>2. unify' = unify /\ line.cmd = "gate"
    BY <1>6 DEF ReadGate
  <2>3. \A l \in file : l.cmd = "gate" /\ l.id \in DOMAIN d'.gate => d'.gate[l.id].model = l.model
    <3> TAKE l \in file
    <3>1. l.cmd = "gate" /\ l.id = line.id => l = line
      BY <1>3, <2>2, LineFacts
    <3> QED BY <1>3, <2>1, <3>1
  <2> QED BY <1>1, <1>2, <1>3, <2>1, <2>2, <2>3 DEF ReadInv
<1> QED BY <1>4, <1>5, <1>6

LEMMA UnifyReadInv == ReadInv /\ UnifyInv /\ Unify => ReadInv'
<1> SUFFICES ASSUME ReadInv, UnifyInv, Unify PROVE ReadInv'
  OBVIOUS
<1> DEFINE n1 == Head(unify)[1]
           n2 == Head(unify)[2]
           r == Root(n1)
           now == OnPath(n1) \cup {n2}
<1>1. pc = "unify" /\ unify # <<>> /\ file' = file
  BY DEF Unify, Go, Fatal
<1>2. /\ file \in Files /\ Shape(d)
      /\ \A i \in DOMAIN unify : unify[i][1] \in d.nets /\ unify[i][2] \in d.nets
      /\ \A n \in DOMAIN replacement : replacement[n] \in d.nets /\ n \in d.nets
      /\ \A l \in file : l.cmd = "gate" /\ l.id \in DOMAIN d.gate => d.gate[l.id].model = l.model
  BY <1>1 DEF ReadInv
<1>3. CASE Fatal("cycle") \/ Fatal("conflict")
  BY <1>1, <1>2, <1>3 DEF ReadInv, Fatal, Go
<1>4. CASE /\ d' = Replace(d, n2, r)
           /\ replacement' = [n \in DOMAIN replacement \cup {n2} |-> IF n \in now THEN r ELSE replacement[n]]
           /\ unify' = Tail(unify)
           /\ Go("unify")
  <2>1. n1 \in d.nets /\ n2 \in d.nets
    BY <1>1, <1>2, FirstLine
  <2>2. r \in d.nets
    <3>1. r \in Way(Replaced, n1)
      BY <1>1, OriginExists DEF UnifyInv, Root
    <3>2. \A q \in Replaced : q[1] \in d.nets
      BY <1>2 DEF Replaced
    <3> QED BY <2>1, <3>1, <3>2 DEF Way
  <2>3. \A i \in DOMAIN unify' : unify'[i][1] \in d.nets /\ unify'[i][2] \in d.nets
    BY <1>1, <1>2, <1>4, FirstLine
  <2> HIDE DEF r, n1, n2, now
  <2>4. \A n \in DOMAIN replacement' : replacement'[n] \in d.nets /\ n \in d.nets
    <3>1. DOMAIN replacement' = DOMAIN replacement \cup {n2}
      BY <1>4
    <3>2. \A n \in DOMAIN replacement \cup {n2} : replacement'[n] = IF n \in now THEN r ELSE replacement[n]
      BY <1>4
    <3>3. n2 \in now
      BY DEF now
    <3> QED BY <1>2, <2>1, <2>2, <3>1, <3>2, <3>3
  <2> DEFINE f == [p \in Connections(d, n2) |-> r]
  <2>5. d' = ConnectAll(d, f)
    BY <1>4 DEF Replace
  <2>6. \A p \in DOMAIN f : f[p] = None \/ (f[p] \in d.nets /\ PortOf(d, p))
    BY <1>2, <2>2 DEF Connections, Shape
  <2> HIDE DEF f
  <2>7. Shape(d') /\ d'.nets = d.nets /\ d'.gate = d.gate
    BY <1>2, <2>5, <2>6, ConnectShape, ConnectFields, ShapeConn
  <2> QED BY <1>1, <1>2, <2>3, <2>4, <2>7 DEF ReadInv
<1> QED BY <1>3, <1>4 DEF Unify

LEMMA RemoveReplacedShape == ReadInv /\ RemoveReplaced => Shape(d')
<1> SUFFICES ASSUME ReadInv, RemoveReplaced PROVE Shape(d')
  OBVIOUS
<1>1. Shape(d) /\ (\A n \in DOMAIN replacement : n \in d.nets) /\ d' = RemoveNets(d, DOMAIN replacement)
  BY DEF RemoveReplaced, ReadInv
<1>2. None \notin DOMAIN replacement
  BY <1>1, ShapeConn
<1> QED BY <1>1, <1>2, RemoveNetsShape

-----------------------------------------------------------------------------
(* The pads and drivers that the reader looks at.                          *)
PinOf(g) == <<g, "PACKAGE_PIN">>
Pads(e) == {g \in DOMAIN e.gate : e.gate[g].model \in {"SB_IO", "SB_IO_OD_A"}}

LEMMA PortKinds ==
  ASSUME NEW model \in Models, NEW x \in PortsOf(model)
  PROVE  /\ x \in InoutPorts => x \notin OutputPorts
         /\ x \in InoutPorts /\ model # "SB_IO_OD" => x = "PACKAGE_PIN" /\ model \in {"SB_IO", "SB_IO_OD_A"}
         /\ x = "Y" => model = "$_TBUF_"
         /\ x = "PACKAGE_PIN" => model \in {"SB_IO", "SB_IO_OD_A"}
BY DEF Models, PortsOf, InoutPorts, OutputPorts, LutIn

(* Kinds of ports, of which every port has one. *)
LEMMA KindFacts ==
  ASSUME NEW e, Shape(e), NEW p, PortOf(e, p)
  PROVE  /\ IsBidir(e, p) => ~IsOutput(e, p)
         /\ p[1] # Top => p[1] \in DOMAIN e.gate /\ e.gate[p[1]].model \in Models /\ p[2] \in PortsOf(e.gate[p[1]].model)
         /\ p[1] = Top => p[2] \in TopPorts(e) /\ p = <<Top, p[2]>>
         /\ p[1] # Top /\ IsBidir(e, p) /\ GatesOf(e, "SB_IO_OD") = {} => p[1] \in Pads(e) /\ p = PinOf(p[1])
         /\ IsPad(e, p) <=> p[1] \in Pads(e) /\ p = PinOf(p[1])
         /\ IsPhysical(e, p) => p[1] # Top
<1>1. p = <<p[1], p[2]>>
  BY DEF PortOf
<1>2. Top \notin DOMAIN e.gate
  BY DEF Shape, Numbered, Top
<1>3. p[1] # Top => p[1] \in DOMAIN e.gate /\ e.gate[p[1]].model \in Models /\ p[2] \in PortsOf(e.gate[p[1]].model)
  BY DEF PortOf, Shape, IsGate
<1>4. p[1] = Top => p[2] \in TopPorts(e) /\ p = <<Top, p[2]>>
  BY <1>1, <1>2 DEF PortOf, TopPorts
<1>5. IsBidir(e, p) => ~IsOutput(e, p)
  BY <1>3, <1>4, PortKinds DEF IsBidir, IsOutput, TopPorts, Shape
<1>6. p[1] # Top /\ IsBidir(e, p) /\ GatesOf(e, "SB_IO_OD") = {} => p[1] \in Pads(e) /\ p = PinOf(p[1])
  BY <1>1, <1>3, PortKinds DEF IsBidir, GatesOf, Pads, PinOf
<1>7. IsPad(e, p) <=> p[1] \in Pads(e) /\ p = PinOf(p[1])
  BY <1>1, <1>2, <1>3 DEF IsPad, Pads, PinOf
<1>8. IsPhysical(e, p) => p[1] # Top
  BY DEF IsPhysical
<1> QED BY <1>3, <1>4, <1>5, <1>6, <1>7, <1>8

LEMMA OpenDrainStep ==
  ASSUME Shape(d), ReplaceOpenDrain
  PROVE  Shape(d') /\ (pc' = "inouts" => GatesOf(d', "SB_IO_OD") = {})
<1>1. CASE GatesOf(d, "SB_IO_OD") = {} /\ UNCHANGED d
  BY <1>1
<1>2. CASE \E g \in GatesOf(d, "SB_IO_OD") :
             /\ d' = Become(d, g, "SB_IO_OD_A", d.gate[g].p, [x \in DOMAIN NamesOfOd |-> Conn(d, <<g, NamesOfOd[x]>>)])
             /\ Go("open_drain")
  <2>1. PICK g \in GatesOf(d, "SB_IO_OD") :
             /\ d' = Become(d, g, "SB_IO_OD_A", d.gate[g].p, [x \in DOMAIN NamesOfOd |-> Conn(d, <<g, NamesOfOd[x]>>)])
             /\ pc' = "open_drain"
    BY <1>2 DEF Go
  <2> DEFINE f == [x \in DOMAIN NamesOfOd |-> Conn(d, <<g, NamesOfOd[x]>>)]
             par == d.gate[g].p
  <2>2. DOMAIN f \subseteq PortsOf("SB_IO_OD_A") /\ "SB_IO_OD_A" \in Models
    BY DEF NamesOfOd, PortsOf, Models
  <2>3. \A x \in DOMAIN f : f[x] = None \/ f[x] \in d.nets
    BY ShapeConn
  <2>4. g \in DOMAIN d.gate
    BY DEF GatesOf
  <2>5. d' = Become(d, g, "SB_IO_OD_A", par, f)
    BY <2>1
  <2> HIDE DEF f, par
  <2>6. Shape(d')
    BY <2>2, <2>3, <2>4, <2>5, BecomeFields
  <2> QED BY <2>1, <2>6
<1> QED BY <1>1, <1>2 DEF ReplaceOpenDrain

(* After the directions are set, a connected bidirectional port has a      *)
(* tristate buffer or a pad on its net.                                    *)
InoutsDriven(e) ==
  \A x \in TopPorts(e) :
    e.dir[x] = "INOUT" /\ Conn(e, <<Top, x>>) # None =>
      \E q \in Connections(e, Conn(e, <<Top, x>>)) : IsPhysical(e, q)

LEMMA InoutsStep ==
  ASSUME Shape(d), GatesOf(d, "SB_IO_OD") = {}, RedirectInouts, pc' = "drivers"
  PROVE  Shape(d') /\ GatesOf(d', "SB_IO_OD") = {} /\ InoutsDriven(d')
<1> DEFINE dir == [x \in DOMAIN d.dir |-> Redirected(x)]
<1>1. d' = [d EXCEPT !.dir = dir]
  BY DEF RedirectInouts, Fatal, Go
<1>2. \A x \in DOMAIN d.dir : dir[x] = Redirected(x)
  OBVIOUS
<1>3. DOMAIN dir = DOMAIN d.dir
  OBVIOUS
<1> HIDE DEF dir
<1>4. d' = [conn |-> d.conn, nets |-> d.nets, const |-> d.const, dir |-> dir, gate |-> d.gate, temps |-> d.temps]
  BY <1>1 DEF Shape, IsDesign
<1>5. /\ d'.conn = d.conn /\ d'.nets = d.nets /\ d'.const = d.const /\ d'.dir = dir /\ d'.gate = d.gate
      /\ d'.temps = d.temps /\ IsDesign(d')
  BY <1>4 DEF IsDesign
<1>6. \A x \in DOMAIN dir : dir[x] \in {"IN", "OUT", "INOUT"}
  BY <1>2, <1>3 DEF Redirected, Shape
<1>7. \A p : PortOf(d, p) => PortOf(d', p)
  BY <1>3, <1>5 DEF PortOf
<1>8. Shape(d')
  BY <1>5, <1>6, <1>7 DEF Shape, Numbered
<1>9. \A p : Conn(d', p) = Conn(d, p) /\ (IsPhysical(d', p) <=> IsPhysical(d, p))
  BY <1>5 DEF Conn, IsPhysical, IsPad
<1>10. \A n : Connections(d', n) = Connections(d, n)
  BY <1>5 DEF Connections
<1>11. GatesOf(d', "SB_IO_OD") = {}
  BY <1>5 DEF GatesOf
<1>12. ASSUME NEW x \in TopPorts(d'), d'.dir[x] = "INOUT", Conn(d', <<Top, x>>) # None
       PROVE  \E q \in Connections(d', Conn(d', <<Top, x>>)) : IsPhysical(d', q)
  <2>1. x \in TopPorts(d) /\ Redirected(x) = "INOUT" /\ Conn(d, <<Top, x>>) # None
    BY <1>2, <1>3, <1>5, <1>9, <1>12 DEF TopPorts
  <2>2. HasTristate(x)
    BY <2>1 DEF Redirected, Inouts
  <2> QED BY <1>9, <1>10, <2>2 DEF HasTristate, Others
<1> QED BY <1>8, <1>11, <1>12 DEF InoutsDriven

(* After the reader and prune(): every net is used, bidirectional ports    *)
(* and SB_IO pads are alone with what they need, and only the nets of such *)
(* pads may have several drivers.                                          *)
InoutsPaired(e) ==
  \A x \in TopPorts(e) :
    e.dir[x] = "INOUT" /\ Conn(e, <<Top, x>>) # None => \E q \in OtherPort(e, <<Top, x>>) : IsPhysical(e, q)
Checked(e) ==
  /\ Shape(e) /\ GatesOf(e, "SB_IO_OD") = {}
  /\ \A n \in e.nets : Used(e, n)
  /\ InoutsPaired(e)
  /\ \A g \in GatesOf(e, "SB_IO") : Conn(e, PinOf(g)) = None \/ \E q \in OtherPort(e, PinOf(g)) : q[1] = Top
  /\ \A n \in e.nets : ManyDrivers(e, n) => \E g \in GatesOf(e, "SB_IO") : Conn(e, PinOf(g)) = n

(* prune() does not change what it leaves. *)
LEMMA PruneKeeps ==
  ASSUME NEW e, Shape(e)
  PROVE  LET c == Prune(e)
         IN /\ \A p : (IsOutput(c, p) <=> IsOutput(e, p)) /\ (IsInput(c, p) <=> IsInput(e, p))
                      /\ (IsBidir(c, p) <=> IsBidir(e, p)) /\ (IsPhysical(c, p) <=> IsPhysical(e, p))
            /\ \A n \in c.nets : /\ Used(c, n)
                                 /\ ManyDrivers(c, n) <=> ManyDrivers(e, n)
                                 /\ n \in DOMAIN c.const <=> n \in DOMAIN e.const
            /\ \A p : Conn(c, p) # None => Conn(c, p) = Conn(e, p) /\ OtherPort(c, p) = OtherPort(e, p)
            /\ \A m : GatesOf(c, m) = GatesOf(e, m)
            /\ Pads(c) = Pads(e) /\ TopPorts(c) = TopPorts(e)
<1> DEFINE c == Prune(e)
<1>1. /\ Shape(c) /\ c.dir = e.dir /\ c.gate = e.gate
      /\ c.nets = {n \in e.nets : Used(e, n)}
      /\ DOMAIN c.const = DOMAIN e.const \cap c.nets
      /\ (\A p : Conn(c, p) = IF Conn(e, p) \in c.nets THEN Conn(e, p) ELSE None)
      /\ \A n \in c.nets : Connections(c, n) = Connections(e, n)
  BY PruneFields
<1> HIDE DEF c
<1>2. \A p : (IsOutput(c, p) <=> IsOutput(e, p)) /\ (IsBidir(c, p) <=> IsBidir(e, p))
             /\ (IsPhysical(c, p) <=> IsPhysical(e, p))
  BY <1>1 DEF IsOutput, IsBidir, IsPhysical, IsPad
<1>3. \A p : IsInput(c, p) <=> IsInput(e, p)
  BY <1>2 DEF IsInput
<1>4. ASSUME NEW n \in c.nets
      PROVE  /\ Used(c, n)
             /\ ManyDrivers(c, n) <=> ManyDrivers(e, n)
             /\ n \in DOMAIN c.const <=> n \in DOMAIN e.const
  <2>1. n \in DOMAIN c.const <=> n \in DOMAIN e.const
    BY <1>1
  <2>2. Connections(c, n) = Connections(e, n) /\ Used(e, n)
    BY <1>1
  <2>3. Tied(c, n) = Tied(e, n)
    BY <2>1 DEF Tied
  <2>4. Drivers(c, n) = Drivers(e, n)
    BY <1>2, <2>2 DEF Drivers
  <2>5. Used(c, n)
    BY <1>2, <1>3, <2>1, <2>2, <2>3 DEF Used
  <2> QED BY <2>1, <2>3, <2>4, <2>5 DEF ManyDrivers
<1>5. ASSUME NEW p, Conn(c, p) # None
      PROVE  Conn(c, p) = Conn(e, p) /\ OtherPort(c, p) = OtherPort(e, p)
  <2>1. Conn(c, p) = Conn(e, p) /\ Conn(c, p) \in c.nets
    BY <1>1, <1>5
  <2>2. Connections(c, Conn(c, p)) = Connections(e, Conn(e, p))
    BY <1>1, <2>1
  <2> QED BY <1>5, <2>1, <2>2 DEF OtherPort
<1>6. (\A m : GatesOf(c, m) = GatesOf(e, m)) /\ Pads(c) = Pads(e) /\ TopPorts(c) = TopPorts(e)
  BY <1>1 DEF GatesOf, Pads, TopPorts
<1> QED BY <1>2, <1>3, <1>4, <1>5, <1>6 DEF c

LEMMA DriversStep ==
  ASSUME Shape(d), GatesOf(d, "SB_IO_OD") = {}, InoutsDriven(d), CheckDrivers, pc' = "tbufs"
  PROVE  Checked(d')
<1> DEFINE c == Prune(d)
<1>1. /\ ~PadWithoutPort /\ (\A n \in d.nets \ PadNets : ~ManyDrivers(d, n))
      /\ ~BadBoundary(c) /\ d' = c
  BY DEF CheckDrivers, Fatal, Go
<1>2. /\ Shape(c) /\ c.dir = d.dir /\ c.gate = d.gate /\ c.nets = {n \in d.nets : Used(d, n)}
      /\ \A n \in c.nets : Connections(c, n) = Connections(d, n)
  BY PruneFields
<1>3. /\ \A p : IsPhysical(c, p) <=> IsPhysical(d, p)
      /\ \A n \in c.nets : Used(c, n) /\ (ManyDrivers(c, n) <=> ManyDrivers(d, n))
      /\ \A p : Conn(c, p) # None => Conn(c, p) = Conn(d, p) /\ OtherPort(c, p) = OtherPort(d, p)
      /\ \A m : GatesOf(c, m) = GatesOf(d, m)
      /\ TopPorts(c) = TopPorts(d)
  BY PruneKeeps
<1> HIDE DEF c
<1>4. GatesOf(c, "SB_IO_OD") = {}
  BY <1>3
<1>5. InoutsPaired(c)
  <2> SUFFICES ASSUME NEW x \in TopPorts(c), c.dir[x] = "INOUT", Conn(c, <<Top, x>>) # None
               PROVE  \E q \in OtherPort(c, <<Top, x>>) : IsPhysical(c, q)
    BY DEF InoutsPaired
  <2> DEFINE p == <<Top, x>>
             n == Conn(c, p)
  <2>1. n = Conn(d, p) /\ n \in c.nets
    BY <1>2, <1>3, ShapeConn
  <2>2. \E q \in Connections(d, n) : IsPhysical(d, q)
    BY <1>2, <1>3, <2>1 DEF InoutsDriven
  <2>3. PICK q \in Connections(c, n) : IsPhysical(c, q)
    BY <1>2, <1>3, <2>1, <2>2
  <2>4. OtherPort(c, p) # {}
    BY <1>1, <2>3 DEF BadBoundary
  <2>5. PICK t \in OtherPort(c, p) : TRUE
    BY <2>4
  <2>6. Connections(c, n) = {p, t}
    BY <2>5 DEF OtherPort
  <2>7. p[1] = Top /\ q[1] # Top
    BY <2>3 DEF IsPhysical
  <2>8. q = t
    BY <2>3, <2>6, <2>7
  <2> QED BY <2>3, <2>5, <2>8
<1>6. ASSUME NEW g \in GatesOf(c, "SB_IO"), Conn(c, PinOf(g)) # None
      PROVE  \E q \in OtherPort(c, PinOf(g)) : q[1] = Top
  <2>1. g \in GatesOf(d, "SB_IO")
    BY <1>3
  <2>2. \E q \in OtherPort(d, PinOf(g)) : q[1] = Top
    BY <1>1, <2>1 DEF PadWithoutPort, PinOf
  <2> QED BY <1>3, <1>6, <2>2
<1>7. ASSUME NEW n \in c.nets, ManyDrivers(c, n) PROVE \E g \in GatesOf(c, "SB_IO") : Conn(c, PinOf(g)) = n
  <2>1. n \in d.nets /\ ManyDrivers(d, n)
    BY <1>2, <1>3, <1>7
  <2>2. n \in PadNets
    BY <1>1, <2>1
  <2>3. PICK g \in GatesOf(d, "SB_IO") : Conn(d, PinOf(g)) = n
    BY <2>2 DEF PadNets, PinOf
  <2>4. n # None
    BY <1>2, ShapeConn
  <2>5. PinOf(g) \in Connections(c, n)
    BY <1>2, <2>3, <2>4, ConnFacts
  <2>6. Conn(c, PinOf(g)) = n
    BY <1>2, <2>4, <2>5, ConnFacts
  <2> QED BY <1>3, <2>3, <2>6
<1> QED BY <1>1, <1>2, <1>3, <1>4, <1>5, <1>6, <1>7 DEF Checked

-----------------------------------------------------------------------------
(* Netlists that pass Model::check().  A pad is alone with a port, its net *)
(* is not constant, and no net has several drivers.                        *)
PadAlone(e, g) ==
  /\ \E x \in TopPorts(e) : Connections(e, Conn(e, PinOf(g))) = {<<Top, x>>, PinOf(g)}
  /\ Conn(e, PinOf(g)) \notin DOMAIN e.const
Plain(e) ==
  /\ Shape(e) /\ GatesOf(e, "SB_IO_OD") = {}
  /\ \A g \in Pads(e) : Conn(e, PinOf(g)) = None \/ PadAlone(e, g)
  /\ InoutsPaired(e)
  /\ \A n \in e.nets : ~ManyDrivers(e, n)
Live(e) ==
  \A n \in e.nets :
    /\ \E p \in Connections(e, n) : ~IsOutput(e, p)
    /\ n \in DOMAIN e.const \/ \E p \in Connections(e, n) : ~IsInput(e, p)

(* What the reader does not test: that an open drain pad is alone with a   *)
(* port, too, and that the net of a pad is not set to a constant.          *)
PadsPlain ==
  /\ \A g \in GatesOf(d, "SB_IO_OD_A") :
       Conn(d, PinOf(g)) = None \/ \E q \in OtherPort(d, PinOf(g)) : q[1] = Top
  /\ \A g \in Pads(d) : Conn(d, PinOf(g)) \notin DOMAIN d.const

LEMMA PlainThen == ASSUME Checked(d), PadsPlain PROVE Plain(d) /\ Live(d)
<1>1. Shape(d) /\ GatesOf(d, "SB_IO_OD") = {} /\ InoutsPaired(d)
  BY DEF Checked
<1>2. ASSUME NEW g \in Pads(d), Conn(d, PinOf(g)) # None PROVE PadAlone(d, g)
  <2>1. \E q \in OtherPort(d, PinOf(g)) : q[1] = Top
    BY <1>2 DEF Checked, PadsPlain, Pads, GatesOf
  <2>2. PICK q \in OtherPort(d, PinOf(g)) : q[1] = Top
    BY <2>1
  <2>3. q \in Connections(d, Conn(d, PinOf(g))) /\ Connections(d, Conn(d, PinOf(g))) = {PinOf(g), q}
    BY <1>2, <2>2 DEF OtherPort
  <2>4. PortOf(d, q)
    BY <1>1, <1>2, <2>3, ConnFacts, ShapeConn
  <2>5. q[2] \in TopPorts(d) /\ q = <<Top, q[2]>>
    BY <1>1, <2>2, <2>4, KindFacts
  <2> QED BY <2>3, <2>5 DEF PadAlone, PadsPlain
<1>3. ASSUME NEW n \in d.nets PROVE ~ManyDrivers(d, n)
  <2> SUFFICES ASSUME ManyDrivers(d, n) PROVE FALSE
    OBVIOUS
  <2>1. PICK g \in GatesOf(d, "SB_IO") : Conn(d, PinOf(g)) = n
    BY <1>3 DEF Checked
  <2>2. n # None /\ g \in Pads(d)
    BY <1>1, ShapeConn DEF GatesOf, Pads
  <2>3. PICK x \in TopPorts(d) : Connections(d, n) = {<<Top, x>>, PinOf(g)}
    BY <1>2, <2>1, <2>2 DEF PadAlone
  <2>4. Tied(d, n) = {}
    BY <2>1, <2>2 DEF PadsPlain, Tied
  <2>5. g # Top /\ PinOf(g)[1] = g /\ PinOf(g)[2] = "PACKAGE_PIN"
    BY <1>1, <2>2 DEF PinOf, Pads, Shape, Numbered, Top
  <2>6. ~IsOutput(d, PinOf(g))
    BY <2>5 DEF IsOutput, OutputPorts
  <2>7. Drivers(d, n) \subseteq {<<Top, x>>}
    BY <2>3, <2>6 DEF Drivers
  <2> QED BY <2>4, <2>7 DEF ManyDrivers, Several
<1>4. Live(d)
  BY DEF Checked, Used, Live
<1> QED BY <1>1, <1>2, <1>3, <1>4 DEF Plain

LEMMA CheckHolds == ASSUME NEW e, Plain(e), Live(e) PROVE Check(e)
<1>1. Shape(e) /\ GatesOf(e, "SB_IO_OD") = {} /\ InoutsPaired(e)
  BY DEF Plain
<1>2. \A n \in e.nets : Connections(e, n) # {}
  BY DEF Live
<1>3. ASSUME NEW n \in e.nets \ BoundaryNets(e), NEW p \in Connections(e, n), IsBidir(e, p) PROVE FALSE
  <2>1. n # None /\ Conn(e, p) = n /\ PortOf(e, p)
    BY <1>1, <1>3, ConnFacts, ShapeConn
  <2>2. CASE p[1] = Top
    <3>1. p[2] \in TopPorts(e) /\ p = <<Top, p[2]>> /\ e.dir[p[2]] = "INOUT"
      BY <1>1, <1>3, <2>1, <2>2, KindFacts DEF IsBidir
    <3>2. \E q \in OtherPort(e, <<Top, p[2]>>) : IsPhysical(e, q)
      BY <1>1, <2>1, <3>1 DEF InoutsPaired
    <3>3. Conn(e, <<Top, p[2]>>) \in BoundaryNets(e)
      BY <3>1, <3>2 DEF BoundaryNets
    <3> QED BY <1>3, <2>1, <3>1, <3>3
  <2>3. CASE p[1] # Top
    <3>1. p[1] \in Pads(e) /\ p = PinOf(p[1])
      BY <1>1, <1>3, <2>1, <2>3, KindFacts
    <3>2. PICK x \in TopPorts(e) : Connections(e, n) = {<<Top, x>>, p}
      BY <2>1, <3>1 DEF Plain, PadAlone
    <3>3. Conn(e, <<Top, x>>) = n
      BY <1>1, <2>1, <3>2, ConnFacts
    <3>4. <<Top, x>> # p
      BY <2>3
    <3>5. p \in OtherPort(e, <<Top, x>>)
      BY <2>1, <3>2, <3>3, <3>4 DEF OtherPort
    <3>6. IsPhysical(e, p)
      BY <1>1, <2>1, <2>3, <3>1, KindFacts DEF IsPhysical
    <3>7. n \in BoundaryNets(e)
      BY <3>3, <3>5, <3>6 DEF BoundaryNets
    <3> QED BY <1>3, <3>7
  <2> QED BY <2>2, <2>3
<1>4. ASSUME NEW n \in e.nets \ BoundaryNets(e)
      PROVE  /\ Drivers(e, n) \cup Tied(e, n) # {} /\ ~ManyDrivers(e, n)
             /\ \E p \in Connections(e, n) : IsInput(e, p)
             /\ \A p \in Connections(e, n) : ~IsBidir(e, p)
  <2>1. \A p \in Connections(e, n) : ~IsBidir(e, p)
    BY <1>3
  <2>2. \E p \in Connections(e, n) : IsInput(e, p)
    BY <2>1 DEF Live, IsInput
  <2>3. Drivers(e, n) \cup Tied(e, n) # {}
    BY <2>1 DEF Live, IsInput, Drivers, Tied
  <2> QED BY <2>1, <2>2, <2>3 DEF Plain
<1>5. \A x \in TopPorts(e) :
        e.dir[x] = "INOUT" /\ Conn(e, <<Top, x>>) # None => \E q \in OtherPort(e, <<Top, x>>) : IsPhysical(e, q)
  BY <1>1 DEF InoutsPaired
<1> QED BY <1>2, <1>4, <1>5 DEF Check

-----------------------------------------------------------------------------
(* instantiate_io(): a new pad on a net of its own.                        *)
PadPorts == {"D_IN_0", "D_OUT_0", "OUTPUT_ENABLE"}

LEMMA PutPadFields ==
  ASSUME Shape(d), NEW x \in TopPorts(d), NEW type, NEW f, DOMAIN f \subseteq PadPorts,
         \A y \in DOMAIN f : f[y] = None \/ f[y] \in d.nets
  PROVE  LET c == PutPad(x, type, f)
             k == NewNet(d)
         IN /\ Shape(c) /\ c.nets = d.nets \cup {k} /\ c.const = d.const /\ c.dir = d.dir
            /\ DOMAIN c.gate = DOMAIN d.gate \cup {k} /\ c.gate[k].model = "SB_IO"
            /\ \A g \in DOMAIN d.gate : c.gate[g] = d.gate[g]
            /\ Conn(c, <<Top, x>>) = k /\ Conn(c, PinOf(k)) = k
            /\ \A p : p # <<Top, x>> /\ p[1] # k => Conn(c, p) = Conn(d, p)
            /\ \A y \in DOMAIN f : Conn(c, <<k, y>>) = f[y]
            /\ \A p : p[1] = k /\ Conn(c, p) # None => p = PinOf(k) \/ (p = <<k, p[2]>> /\ p[2] \in DOMAIN f)
<1> DEFINE k == NewNet(d)
           par == [pin |-> type]
           a == AddNet(d)
           b == SetGate(a, k, "SB_IO", par)
           h1 == [p \in {<<Top, x>>, PinOf(k)} |-> k]
           new == {<<k, y>> : y \in DOMAIN f}
           h2 == [p \in new |-> f[p[2]]]
           h == Over(h1, h2)
           c == PutPad(x, type, f)
<1>1. c = ConnectAll(b, h)
  BY DEF PutPad, NewGate, PinOf
<1>2. /\ IsDesign(a) /\ a.nets = d.nets \cup {k} /\ a.const = d.const
      /\ a.dir = d.dir /\ a.gate = d.gate /\ a.temps = d.temps + 1
      /\ (\A p : Conn(a, p) = Conn(d, p))
      /\ Shape(a)
  BY AddNetFields, AddNetShape, ShapeConn
<1>3. /\ k \notin d.nets \cup DOMAIN d.gate /\ k # Top /\ k # None
      /\ k \in Nat /\ k <= NName + a.temps
  BY <1>2, NewIsNew, NameAssumption DEF Top, None, Shape
<1>4. \A p : p[1] = k => Conn(d, p) = None
  BY <1>3, ShapeConn DEF PortOf
<1> HIDE DEF a, k, par
<1>5. /\ IsDesign(b) /\ b.nets = a.nets /\ b.const = a.const /\ b.dir = a.dir
      /\ DOMAIN b.gate = DOMAIN a.gate \cup {k} /\ b.gate[k] = [model |-> "SB_IO", p |-> par]
      /\ (\A g \in DOMAIN a.gate : g # k => b.gate[g] = a.gate[g])
      /\ \A p : Conn(b, p) = Conn(a, p)
  BY <1>2, SetGateFields
<1>6. Shape(b)
  <2>1. Numbered(a, {k}) /\ "SB_IO" \in Models
    BY <1>3 DEF Numbered, Top, Models
  <2>2. \A p : Conn(a, p) # None /\ p[1] = k => p[2] \in PortsOf("SB_IO")
    BY <1>2, <1>4
  <2> QED BY <1>2, <2>1, <2>2, SetGateShape
<1> HIDE DEF b
<1>7. /\ DOMAIN h1 = {<<Top, x>>, PinOf(k)} /\ h1[<<Top, x>>] = k /\ h1[PinOf(k)] = k
      /\ DOMAIN h2 = new /\ \A p \in new : h2[p] = f[p[2]]
  OBVIOUS
<1>8. \A p \in new : p = <<k, p[2]>> /\ p[1] = k /\ p[2] \in DOMAIN f /\ p # PinOf(k) /\ p # <<Top, x>>
  BY <1>3 DEF PadPorts, PinOf
<1>9. \A y \in DOMAIN f : <<k, y>> \in new /\ <<k, y>>[2] = y
  OBVIOUS
<1> HIDE DEF h1, h2, new
<1>10. /\ DOMAIN h = {<<Top, x>>, PinOf(k)} \cup new
       /\ h[<<Top, x>>] = k /\ h[PinOf(k)] = k
       /\ \A p \in new : h[p] = f[p[2]]
  BY <1>7, <1>8 DEF Over
<1> HIDE DEF h
<1>11. b.gate[k].model = "SB_IO" /\ k \in DOMAIN b.gate
  BY <1>5
<1>12. PortOf(b, <<Top, x>>) /\ PortOf(b, PinOf(k)) /\ \A p \in new : PortOf(b, p)
  <2>1. "PACKAGE_PIN" \in PortsOf("SB_IO") /\ PadPorts \subseteq PortsOf("SB_IO")
    BY DEF PortsOf, PadPorts
  <2>2. PortOf(b, <<Top, x>>)
    BY <1>2, <1>5 DEF PortOf, TopPorts
  <2>3. PortOf(b, PinOf(k))
    BY <1>11, <2>1 DEF PortOf, PinOf
  <2>4. ASSUME NEW p \in new PROVE PortOf(b, p)
    <3>1. p = <<k, p[2]>> /\ p[1] = k /\ p[2] \in PortsOf("SB_IO")
      BY <1>8, <2>1
    <3> QED BY <1>11, <3>1 DEF PortOf
  <2> QED BY <2>2, <2>3, <2>4
<1>13. \A p \in DOMAIN h : h[p] = None \/ (h[p] \in b.nets /\ PortOf(b, p))
  BY <1>2, <1>5, <1>8, <1>10, <1>12
<1>14. Shape(c)
  BY <1>1, <1>6, <1>13, ConnectShape
<1>15. /\ c.nets = b.nets /\ c.const = b.const /\ c.dir = b.dir /\ c.gate = b.gate
       /\ \A p : Conn(c, p) = IF p \in DOMAIN h THEN h[p] ELSE Conn(b, p)
  BY <1>1, <1>5, ConnectFields
<1> HIDE DEF c
<1>16. Conn(c, <<Top, x>>) = k /\ Conn(c, PinOf(k)) = k
  BY <1>10, <1>15
<1>17. \A p : p # <<Top, x>> /\ p[1] # k => Conn(c, p) = Conn(d, p)
  BY <1>2, <1>5, <1>8, <1>10, <1>15 DEF PinOf
<1>18. \A y \in DOMAIN f : Conn(c, <<k, y>>) = f[y]
  BY <1>9, <1>10, <1>15
<1>19. \A p : p[1] = k /\ Conn(c, p) # None => p = PinOf(k) \/ (p = <<k, p[2]>> /\ p[2] \in DOMAIN f)
  <2> SUFFICES ASSUME NEW p, p[1] = k, Conn(c, p) # None PROVE p = PinOf(k) \/ (p = <<k, p[2]>> /\ p[2] \in DOMAIN f)
    OBVIOUS
  <2>1. p \in DOMAIN h
    BY <1>2, <1>4, <1>5, <1>15
  <2>2. p # <<Top, x>>
    BY <1>3
  <2> QED BY <1>8, <1>10, <2>1, <2>2
<1>20. /\ c.nets = d.nets \cup {k} /\ c.const = d.const /\ c.dir = d.dir
       /\ DOMAIN c.gate = DOMAIN d.gate \cup {k} /\ c.gate[k].model = "SB_IO"
  BY <1>2, <1>5, <1>11, <1>15
<1>21. \A g \in DOMAIN d.gate : c.gate[g] = d.gate[g]
  BY <1>2, <1>3, <1>5, <1>15
<1> QED BY <1>14, <1>16, <1>17, <1>18, <1>19, <1>20, <1>21 DEF c, k

(* The invariant of instantiate_io(): the ports in T are still to come,    *)
(* and each tristate buffer drives one of them.                            *)
WithPad(e, x) == \E g \in Pads(e) : Connections(e, Conn(e, <<Top, x>>)) = {<<Top, x>>, PinOf(g)}
Between(e, T) ==
  /\ Plain(e)
  /\ T \subseteq TopPorts(e)
  /\ \A x \in TopPorts(e) \ T : Conn(e, <<Top, x>>) = None \/ WithPad(e, x)
  /\ \A g \in GatesOf(e, "$_TBUF_") :
       /\ Conn(e, <<g, "Y">>) # None
       /\ \E x \in T : Conn(e, <<Top, x>>) = Conn(e, <<g, "Y">>) /\ e.dir[x] # "IN"

(* What PutPad makes of d, followed by the removal of the buffers G: the   *)
(* new outputs and inputs are in the place of old ones.                    *)
PadPut(c, x, G) ==
  LET k == NewNet(d)
      n == Conn(d, <<Top, x>>)
  IN /\ Shape(c) /\ c.nets = d.nets \cup {k} /\ c.const = d.const /\ c.dir = d.dir
     /\ G \subseteq GatesOf(d, "$_TBUF_") /\ \A g \in G : Conn(d, <<g, "Y">>) = n
     /\ DOMAIN c.gate = (DOMAIN d.gate \ G) \cup {k} /\ c.gate[k].model = "SB_IO"
     /\ \A g \in DOMAIN d.gate \ G : c.gate[g] = d.gate[g]
     /\ Conn(c, <<Top, x>>) = k /\ Conn(c, PinOf(k)) = k
     /\ \A p : p # <<Top, x>> /\ p[1] # k => Conn(c, p) = IF p[1] \in G THEN None ELSE Conn(d, p)
     /\ \A p : p[1] = k /\ Conn(c, p) # None => p = PinOf(k) \/ (p = <<k, p[2]>> /\ p[2] \in PadPorts)
     /\ Conn(c, <<k, "D_IN_0">>) \in {None, n}
     /\ Conn(c, <<k, "D_IN_0">>) # None => d.dir[x] = "IN" \/ G # {}
     /\ \A y \in {"D_OUT_0", "OUTPUT_ENABLE"} :
          Conn(c, <<k, y>>) = None
          \/ (\E q : Conn(d, q) = Conn(c, <<k, y>>) /\ (q = <<Top, x>> \/ (q[2] \in {"A", "E"} /\ q[1] # Top)))

(* Two ports alone on a net, one of them physical, stay so. *)
LEMMA PairStays ==
  ASSUME Shape(d), NEW x \in TopPorts(d), NEW c, NEW G, PadPut(c, x, G),
         NEW y, y # x, NEW q, IsPhysical(d, q), NEW m, m # None, Connections(d, m) = {<<Top, y>>, q}
  PROVE  /\ Connections(c, m) = {<<Top, y>>, q} /\ IsPhysical(c, q)
         /\ Conn(c, <<Top, y>>) = m /\ Conn(c, q) = m
<1> DEFINE k == NewNet(d)
           n == Conn(d, <<Top, x>>)
           t == <<Top, y>>
<1>1. /\ k \notin d.nets /\ k \notin DOMAIN d.gate /\ k # Top
  BY NewIsNew DEF Top
<1>2. Conn(d, t) = m /\ Conn(d, q) = m /\ m \in d.nets /\ PortOf(d, q) /\ PortOf(d, t)
  BY ConnFacts, ShapeConn
<1>3. t # <<Top, x>> /\ t[1] = Top /\ q[1] # Top /\ (q[2] = "Y" \/ q[2] = "PACKAGE_PIN") /\ t[2] = y
  BY DEF IsPhysical, IsPad
<1>4. m # n
  <2> SUFFICES ASSUME m = n PROVE FALSE
    OBVIOUS
  <2>1. <<Top, x>> \in Connections(d, m)
    BY ConnFacts
  <2>2. <<Top, x>>[1] = Top
    OBVIOUS
  <2> QED BY <1>3, <2>1, <2>2
<1> HIDE DEF k, n, t
<1>5. /\ Shape(c)
      /\ G \subseteq GatesOf(d, "$_TBUF_") /\ \A g \in G : Conn(d, <<g, "Y">>) = n
      /\ \A g \in DOMAIN d.gate \ G : c.gate[g] = d.gate[g]
      /\ Conn(c, <<Top, x>>) = k /\ Conn(c, PinOf(k)) = k
      /\ \A p : p # <<Top, x>> /\ p[1] # k => Conn(c, p) = IF p[1] \in G THEN None ELSE Conn(d, p)
      /\ \A p : p[1] = k /\ Conn(c, p) # None => p = PinOf(k) \/ (p = <<k, p[2]>> /\ p[2] \in PadPorts)
      /\ Conn(c, <<k, "D_IN_0">>) \in {None, n}
      /\ \A z \in {"D_OUT_0", "OUTPUT_ENABLE"} :
           Conn(c, <<k, z>>) = None
           \/ (\E r : Conn(d, r) = Conn(c, <<k, z>>) /\ (r = <<Top, x>> \/ (r[2] \in {"A", "E"} /\ r[1] # Top)))
  BY DEF PadPut, k, n
<1>6. q[1] \in DOMAIN d.gate /\ q = <<q[1], q[2]>> /\ q[2] \in PortsOf(d.gate[q[1]].model)
  BY <1>2, <1>3, KindFacts DEF PortOf
<1>7. q[1] \notin G
  <2> SUFFICES ASSUME q[1] \in G PROVE FALSE
    OBVIOUS
  <2>1. Conn(d, <<q[1], "Y">>) = n /\ d.gate[q[1]].model = "$_TBUF_"
    BY <1>5 DEF GatesOf
  <2>2. q[2] # "PACKAGE_PIN"
    BY <1>6, <2>1 DEF PortsOf
  <2> QED BY <1>2, <1>3, <1>4, <1>6, <2>1, <2>2
<1>8. Top \notin G /\ q[1] # k /\ t[1] # k
  BY <1>1, <1>3, <1>5, <1>6 DEF GatesOf, Shape, Numbered, Top
<1>9. Conn(c, t) = m /\ Conn(c, q) = m
  BY <1>2, <1>3, <1>5, <1>7, <1>8
<1>10. ASSUME NEW p, Conn(c, p) = m PROVE p \in {t, q}
  <2>1. CASE p[1] # k
    <3>1. p # <<Top, x>>
      BY <1>1, <1>2, <1>5, <1>10 DEF k
    <3>2. Conn(d, p) = m
      BY <1>5, <1>10, <2>1, <3>1
    <3> QED BY <3>2, ConnFacts DEF t
  <2>2. CASE p[1] = k
    <3>1. p # PinOf(k)
      BY <1>1, <1>2, <1>5, <1>10 DEF k
    <3>2. p = <<k, p[2]>> /\ p[2] \in PadPorts
      BY <1>5, <1>10, <2>2, <3>1
    <3>3. p[2] # "D_IN_0"
      BY <1>4, <1>5, <1>10, <3>2
    <3>4. p[2] \in {"D_OUT_0", "OUTPUT_ENABLE"}
      BY <3>2, <3>3 DEF PadPorts
    <3>5. PICK r : Conn(d, r) = m /\ (r = <<Top, x>> \/ (r[2] \in {"A", "E"} /\ r[1] # Top))
      BY <1>5, <1>10, <3>2, <3>4
    <3>6. r = t \/ r = q
      BY <3>5, ConnFacts DEF t
    <3> QED BY <1>3, <1>4, <3>5, <3>6 DEF n
  <2> QED BY <2>1, <2>2
<1>11. Connections(c, m) = {t, q}
  BY <1>5, <1>9, <1>10, ConnFacts
<1>12. IsPhysical(c, q)
  BY <1>5, <1>6, <1>7 DEF IsPhysical, IsPad
<1> QED BY <1>9, <1>11, <1>12 DEF t

(* The net of the new pad has the port and the pad. *)
LEMMA NewPair ==
  ASSUME Shape(d), NEW x \in TopPorts(d), NEW c, NEW G, PadPut(c, x, G)
  PROVE  LET k == NewNet(d)
         IN /\ Connections(c, k) = {<<Top, x>>, PinOf(k)}
            /\ k \notin DOMAIN c.const /\ k # None /\ k # Top
            /\ Pads(c) = Pads(d) \cup {k}
            /\ GatesOf(c, "SB_IO_OD") = GatesOf(d, "SB_IO_OD")
            /\ GatesOf(c, "$_TBUF_") = GatesOf(d, "$_TBUF_") \ G
<1> DEFINE k == NewNet(d)
           n == Conn(d, <<Top, x>>)
<1>1. k \notin d.nets /\ k \notin DOMAIN d.gate /\ k # Top /\ k # None
  BY NewIsNew DEF Top, None
<1> HIDE DEF k, n
<1>2. /\ Shape(c) /\ c.const = d.const
      /\ G \subseteq GatesOf(d, "$_TBUF_")
      /\ DOMAIN c.gate = (DOMAIN d.gate \ G) \cup {k} /\ c.gate[k].model = "SB_IO"
      /\ \A g \in DOMAIN d.gate \ G : c.gate[g] = d.gate[g]
      /\ Conn(c, <<Top, x>>) = k /\ Conn(c, PinOf(k)) = k
      /\ \A p : p # <<Top, x>> /\ p[1] # k => Conn(c, p) = IF p[1] \in G THEN None ELSE Conn(d, p)
      /\ \A p : p[1] = k /\ Conn(c, p) # None => p = PinOf(k) \/ (p = <<k, p[2]>> /\ p[2] \in PadPorts)
      /\ Conn(c, <<k, "D_IN_0">>) \in {None, n}
      /\ \A z \in {"D_OUT_0", "OUTPUT_ENABLE"} :
           Conn(c, <<k, z>>) = None \/ (\E r : Conn(d, r) = Conn(c, <<k, z>>))
  BY DEF PadPut, k, n
<1>3. \A r : Conn(d, r) # k
  BY <1>1, ShapeConn
<1>4. ASSUME NEW p, Conn(c, p) = k PROVE p \in {<<Top, x>>, PinOf(k)}
  <2>1. p = <<Top, x>> \/ p[1] = k
    BY <1>1, <1>2, <1>3, <1>4
  <2>2. p[1] = k => p = PinOf(k) \/ (p = <<k, p[2]>> /\ p[2] \in PadPorts)
    BY <1>1, <1>2, <1>4
  <2>3. \A z \in PadPorts : Conn(c, <<k, z>>) # k
    BY <1>1, <1>2, <1>3 DEF PadPorts, n
  <2> QED BY <1>4, <2>1, <2>2, <2>3
<1>5. Connections(c, k) = {<<Top, x>>, PinOf(k)}
  BY <1>1, <1>2, <1>4, ConnFacts
<1>6. k \notin DOMAIN c.const
  BY <1>1, <1>2 DEF Shape
<1>7. Pads(c) = Pads(d) \cup {k}
  BY <1>2 DEF Pads, GatesOf
<1>8. GatesOf(c, "SB_IO_OD") = GatesOf(d, "SB_IO_OD")
  BY <1>1, <1>2 DEF GatesOf
<1>9. GatesOf(c, "$_TBUF_") = GatesOf(d, "$_TBUF_") \ G
  BY <1>1, <1>2 DEF GatesOf
<1> QED BY <1>1, <1>5, <1>6, <1>7, <1>8, <1>9 DEF k

(* The new driver of a net is in the place of an old one. *)
LEMMA PadDrivers ==
  ASSUME Plain(d), NEW x \in TopPorts(d), NEW c, NEW G, PadPut(c, x, G), NEW m \in d.nets
  PROVE  ~ManyDrivers(c, m)
<1> DEFINE k == NewNet(d)
           n == Conn(d, <<Top, x>>)
<1>1. /\ k \notin d.nets /\ k # Top /\ m # None /\ m # k /\ Shape(d) /\ Top \notin G /\ k \notin G
  BY NewIsNew, ShapeConn DEF Plain, Top, PadPut, GatesOf, Shape, Numbered
<1> HIDE DEF k, n
<1>2. /\ Shape(c) /\ c.const = d.const /\ c.dir = d.dir
      /\ \A g \in G : Conn(d, <<g, "Y">>) = n
      /\ Conn(c, <<Top, x>>) = k /\ Conn(c, PinOf(k)) = k
      /\ \A p : p # <<Top, x>> /\ p[1] # k => Conn(c, p) = IF p[1] \in G THEN None ELSE Conn(d, p)
      /\ \A p : p[1] = k /\ Conn(c, p) # None => p = PinOf(k) \/ (p = <<k, p[2]>> /\ p[2] \in PadPorts)
      /\ Conn(c, <<k, "D_IN_0">>) \in {None, n}
      /\ Conn(c, <<k, "D_IN_0">>) # None => d.dir[x] = "IN" \/ G # {}
  BY DEF PadPut, k, n
<1>3. \A p : IsOutput(c, p) <=> IsOutput(d, p)
  BY <1>2 DEF IsOutput
<1>4. Tied(c, m) = Tied(d, m)
  BY <1>2 DEF Tied
<1>5. ASSUME NEW p \in Drivers(c, m)
      PROVE  p = <<k, "D_IN_0">> \/ (p \in Drivers(d, m) /\ p # <<Top, x>> /\ p[1] \notin G)
  <2>1. Conn(c, p) = m /\ IsOutput(d, p)
    BY <1>1, <1>2, <1>3, <1>5, ConnFacts DEF Drivers
  <2>2. p # <<Top, x>>
    BY <1>1, <1>2, <2>1
  <2>3. CASE p[1] # k
    BY <1>1, <1>2, <2>1, <2>2, <2>3, ConnFacts DEF Drivers
  <2>4. CASE p[1] = k
    <3>1. p = PinOf(k) \/ (p = <<k, p[2]>> /\ p[2] \in PadPorts)
      BY <1>1, <1>2, <2>1, <2>4
    <3>2. p # PinOf(k)
      BY <1>1, <1>2, <2>1
    <3>3. p[2] \in OutputPorts
      BY <1>1, <2>1, <2>4 DEF IsOutput
    <3>4. p[2] = "D_IN_0"
      BY <3>1, <3>2, <3>3 DEF PadPorts, OutputPorts
    <3> QED BY <3>1, <3>2, <3>4
  <2> QED BY <2>3, <2>4
<1>6. ASSUME <<k, "D_IN_0">> \in Drivers(c, m)
      PROVE  \E w \in Drivers(d, m) : w = <<Top, x>> \/ w[1] \in G
  <2>1. n = m
    BY <1>1, <1>2, <1>6, ConnFacts DEF Drivers
  <2>2. CASE d.dir[x] = "IN"
    <3>1. <<Top, x>> \in Connections(d, m)
      BY <1>1, <2>1, ConnFacts DEF n
    <3>2. IsOutput(d, <<Top, x>>)
      BY <2>2 DEF IsOutput
    <3> QED BY <3>1, <3>2 DEF Drivers
  <2>3. CASE G # {}
    <3>1. PICK g \in G : Conn(d, <<g, "Y">>) = n
      BY <1>2, <2>3
    <3>2. <<g, "Y">> \in Connections(d, m) /\ g # Top
      BY <1>1, <2>1, <3>1, ConnFacts
    <3>3. IsOutput(d, <<g, "Y">>)
      BY <3>2 DEF IsOutput, OutputPorts
    <3>4. <<g, "Y">>[1] = g
      OBVIOUS
    <3> QED BY <3>1, <3>2, <3>3, <3>4 DEF Drivers
  <2>4. Conn(c, <<k, "D_IN_0">>) # None
    BY <1>1, <1>2, <1>6, ConnFacts DEF Drivers
  <2> QED BY <1>2, <2>2, <2>3, <2>4
<1>7. ASSUME ManyDrivers(c, m) PROVE FALSE
  <2>1. PICK p, q \in Drivers(c, m) \cup Tied(c, m) : p # q
    BY <1>7 DEF ManyDrivers, Several
  <2>2. \A w \in Tied(c, m) : w \in Tied(d, m) /\ w = <<>>
    BY <1>4 DEF Tied
  <2>3. \A w \in Drivers(d, m) : w # <<>>
    <3> SUFFICES ASSUME NEW w \in Drivers(d, m) PROVE w # <<>>
      OBVIOUS
    <3>1. w = <<w[1], w[2]>>
      BY <1>1, ConnFacts DEF Drivers, PortOf
    <3>2. \A y, z : <<y, z>> # <<>>
      OBVIOUS
    <3> QED BY <3>1, <3>2
  <2>4. ASSUME NEW a \in Drivers(d, m) \cup Tied(d, m), NEW b \in Drivers(d, m) \cup Tied(d, m), a # b PROVE FALSE
    BY <2>4 DEF Plain, ManyDrivers, Several
  <2> HIDE DEF n
  <2>5. ASSUME NEW b \in Drivers(c, m) \cup Tied(c, m), b # <<k, "D_IN_0">>, <<k, "D_IN_0">> \in Drivers(c, m)
        PROVE  FALSE
    <3>1. PICK w \in Drivers(d, m) : w = <<Top, x>> \/ w[1] \in G
      BY <1>6, <2>5
    <3>2. b \in Tied(d, m) \/ (b \in Drivers(d, m) /\ b # <<Top, x>> /\ b[1] \notin G)
      BY <1>5, <2>2, <2>5
    <3>3. w # b
      BY <2>2, <2>3, <2>5, <3>1, <3>2, <1>4
    <3> QED BY <2>4, <3>1, <3>2, <3>3
  <2>6. <<k, "D_IN_0">> \notin Tied(c, m)
    <3>1. \A y, z : <<y, z>> # <<>>
      OBVIOUS
    <3> QED BY <2>2, <3>1
  <2>7. CASE p = <<k, "D_IN_0">> \/ q = <<k, "D_IN_0">>
    BY <2>1, <2>5, <2>6, <2>7
  <2>8. CASE p # <<k, "D_IN_0">> /\ q # <<k, "D_IN_0">>
    BY <1>5, <2>1, <2>2, <2>4, <2>8
  <2> QED BY <2>7, <2>8
<1> QED BY <1>7

LEMMA PadStep ==
  ASSUME NEW T, Between(d, T), NEW x \in T, NEW c, NEW G, PadPut(c, x, G),
         ~\E g \in Pads(d) : PinOf(g) \in OtherPort(d, <<Top, x>>),
         \A g \in GatesOf(d, "$_TBUF_") \ G : Conn(d, <<g, "Y">>) # Conn(d, <<Top, x>>)
  PROVE  Between(c, T \ {x})
<1> DEFINE k == NewNet(d)
           n == Conn(d, <<Top, x>>)
<1>1. Plain(d) /\ Shape(d) /\ x \in TopPorts(d) /\ T \subseteq TopPorts(d)
  BY DEF Between, Plain
<1>2. /\ Shape(c) /\ c.nets = d.nets \cup {k} /\ c.const = d.const /\ c.dir = d.dir
      /\ TopPorts(c) = TopPorts(d)
      /\ Conn(c, <<Top, x>>) = k /\ Conn(c, PinOf(k)) = k
      /\ \A p : p # <<Top, x>> /\ p[1] # k => Conn(c, p) = IF p[1] \in G THEN None ELSE Conn(d, p)
      /\ Top \notin G /\ G \subseteq DOMAIN d.gate
  BY <1>1 DEF PadPut, TopPorts, GatesOf, Shape, Numbered, Top
<1>3. /\ Connections(c, k) = {<<Top, x>>, PinOf(k)}
      /\ k \notin DOMAIN c.const /\ k # None /\ k # Top
      /\ Pads(c) = Pads(d) \cup {k}
      /\ GatesOf(c, "SB_IO_OD") = GatesOf(d, "SB_IO_OD")
      /\ GatesOf(c, "$_TBUF_") = GatesOf(d, "$_TBUF_") \ G
      /\ k \notin DOMAIN d.gate /\ k \notin d.nets
  BY <1>1, NewPair, NewIsNew
<1>4. PadAlone(c, k) /\ WithPad(c, x)
  BY <1>1, <1>2, <1>3 DEF PadAlone, WithPad
<1>5. \A m \in c.nets : ~ManyDrivers(c, m)
  <2>1. \A m \in d.nets : ~ManyDrivers(c, m)
    BY <1>1, PadDrivers
  <2>2. ~ManyDrivers(c, k)
    <3>1. Tied(c, k) = {}
      BY <1>3 DEF Tied
    <3>2. PinOf(k)[1] = k /\ PinOf(k)[2] = "PACKAGE_PIN"
      BY DEF PinOf
    <3>3. ~IsOutput(c, PinOf(k))
      BY <1>3, <3>2 DEF IsOutput, OutputPorts
    <3>4. Drivers(c, k) \subseteq {<<Top, x>>}
      BY <1>3, <3>3 DEF Drivers
    <3> QED BY <3>1, <3>4 DEF ManyDrivers, Several
  <2> QED BY <1>2, <2>1, <2>2
<1> HIDE DEF k
<1>6. ASSUME NEW y \in TopPorts(d), NEW g \in Pads(d), NEW m, m # None, Connections(d, m) = {<<Top, y>>, PinOf(g)}
      PROVE  /\ y # x /\ Connections(c, m) = {<<Top, y>>, PinOf(g)}
             /\ Conn(c, <<Top, y>>) = m /\ Conn(c, PinOf(g)) = m
  <2>1. Conn(d, <<Top, y>>) = m /\ Conn(d, PinOf(g)) = m
    BY <1>1, <1>6, ConnFacts
  <2>2. g # Top /\ <<Top, y>> # PinOf(g)
    BY <1>1 DEF Pads, Shape, Numbered, Top, PinOf
  <2>3. PinOf(g) \in OtherPort(d, <<Top, y>>)
    BY <1>6, <2>1, <2>2 DEF OtherPort
  <2>4. y # x
    BY <2>3
  <2>5. PortOf(d, PinOf(g))
    BY <1>1, <1>6, <2>1, ShapeConn
  <2>6. PinOf(g)[1] = g
    BY DEF PinOf
  <2>7. IsPhysical(d, PinOf(g))
    BY <1>1, <2>2, <2>5, <2>6, KindFacts DEF IsPhysical
  <2> QED BY <1>1, <1>6, <2>4, <2>7, PairStays
<1>7. ASSUME NEW g \in Pads(c), Conn(c, PinOf(g)) # None PROVE PadAlone(c, g)
  <2>1. CASE g = k
    BY <1>4, <2>1
  <2>2. CASE g # k
    <3>1. g \in Pads(d) /\ PinOf(g)[1] = g /\ PinOf(g) # <<Top, x>>
      BY <1>1, <1>3, <2>2 DEF PinOf, Pads, Shape, Numbered, Top
    <3>2. Conn(d, PinOf(g)) # None
      BY <1>2, <1>7, <2>2, <3>1
    <3> DEFINE m == Conn(d, PinOf(g))
    <3>3. PadAlone(d, g)
      BY <1>1, <3>1, <3>2 DEF Plain
    <3>4. PICK y \in TopPorts(d) : Connections(d, m) = {<<Top, y>>, PinOf(g)}
      BY <3>3 DEF PadAlone
    <3>5. Connections(c, m) = {<<Top, y>>, PinOf(g)} /\ Conn(c, PinOf(g)) = m
      BY <1>6, <3>1, <3>2, <3>4
    <3> QED BY <1>2, <3>3, <3>4, <3>5 DEF PadAlone
  <2> QED BY <2>1, <2>2
<1>8. ASSUME NEW y \in TopPorts(c), c.dir[y] = "INOUT", Conn(c, <<Top, y>>) # None
      PROVE  \E q \in OtherPort(c, <<Top, y>>) : IsPhysical(c, q)
  <2>1. CASE y = x
    <3>1. PinOf(k) \in OtherPort(c, <<Top, x>>)
      <4>1. PinOf(k) # <<Top, x>>
        BY <1>3 DEF PinOf
      <4> QED BY <1>2, <1>3, <4>1 DEF OtherPort
    <3>2. PortOf(c, PinOf(k)) /\ PinOf(k)[1] = k
      BY <1>2, <1>3, ShapeConn DEF PinOf
    <3>3. IsPhysical(c, PinOf(k))
      BY <1>2, <1>3, <3>2, KindFacts DEF IsPhysical
    <3> QED BY <2>1, <3>1, <3>3
  <2>2. CASE y # x
    <3> DEFINE m == Conn(d, <<Top, y>>)
    <3>1. <<Top, y>>[1] = Top /\ <<Top, y>> # <<Top, x>>
      BY <2>2
    <3>2. Conn(c, <<Top, y>>) = m
      BY <1>2, <1>3, <3>1
    <3>3. PICK q \in OtherPort(d, <<Top, y>>) : IsPhysical(d, q)
      BY <1>1, <1>2, <1>8, <3>2 DEF Plain, InoutsPaired
    <3>4. Connections(d, m) = {<<Top, y>>, q} /\ q # <<Top, y>>
      BY <1>8, <3>2, <3>3 DEF OtherPort
    <3> HIDE DEF m
    <3>5. Connections(c, m) = {<<Top, y>>, q} /\ IsPhysical(c, q)
      BY <1>1, <1>8, <2>2, <3>2, <3>3, <3>4, PairStays
    <3> QED BY <1>8, <3>2, <3>4, <3>5 DEF OtherPort
  <2> QED BY <2>1, <2>2
<1>9. Plain(c)
  BY <1>1, <1>2, <1>3, <1>5, <1>7, <1>8 DEF Plain, InoutsPaired
<1>10. ASSUME NEW y \in TopPorts(c) \ (T \ {x}), Conn(c, <<Top, y>>) # None PROVE WithPad(c, y)
  <2>1. CASE y = x
    BY <1>4, <2>1
  <2>2. CASE y # x
    <3>1. y \in TopPorts(d) \ T /\ <<Top, y>>[1] = Top /\ <<Top, y>> # <<Top, x>>
      BY <1>2, <1>10, <2>2
    <3>2. Conn(c, <<Top, y>>) = Conn(d, <<Top, y>>)
      BY <1>2, <1>3, <3>1
    <3>3. PICK g \in Pads(d) : Connections(d, Conn(d, <<Top, y>>)) = {<<Top, y>>, PinOf(g)}
      BY <1>10, <3>1, <3>2 DEF Between, WithPad
    <3>4. Connections(c, Conn(d, <<Top, y>>)) = {<<Top, y>>, PinOf(g)}
      BY <1>6, <1>10, <3>1, <3>2, <3>3
    <3> QED BY <1>3, <3>2, <3>4 DEF WithPad
  <2> QED BY <2>1, <2>2
<1>11. ASSUME NEW g \in GatesOf(c, "$_TBUF_")
       PROVE  /\ Conn(c, <<g, "Y">>) # None
              /\ \E y \in T \ {x} : Conn(c, <<Top, y>>) = Conn(c, <<g, "Y">>) /\ c.dir[y] # "IN"
  <2>1. g \in GatesOf(d, "$_TBUF_") \ G
    BY <1>3
  <2>2. PICK y \in T : Conn(d, <<Top, y>>) = Conn(d, <<g, "Y">>) /\ d.dir[y] # "IN"
    BY <2>1 DEF Between
  <2>3. Conn(d, <<g, "Y">>) # None
    BY <2>1 DEF Between
  <2>4. y # x
    BY <2>1, <2>2
  <2>5. /\ <<g, "Y">>[1] = g /\ g # k /\ <<g, "Y">> # <<Top, x>>
        /\ <<Top, y>>[1] = Top /\ <<Top, y>> # <<Top, x>>
    BY <1>1, <1>3, <2>1, <2>4 DEF GatesOf, Shape, Numbered, Top
  <2>6. Conn(c, <<g, "Y">>) = Conn(d, <<g, "Y">>) /\ Conn(c, <<Top, y>>) = Conn(d, <<Top, y>>)
    BY <1>2, <1>3, <2>1, <2>5
  <2> QED BY <1>2, <2>2, <2>3, <2>4, <2>6
<1> QED BY <1>1, <1>2, <1>9, <1>10, <1>11 DEF Between

LEMMA TbufsStep ==
  ASSUME Plain(d), CheckTbufs, pc' = "io"
  PROVE  Between(d', todo')
<1>1. /\ d' = d /\ todo' = TopPorts(d)
      /\ \A g \in GatesOf(d, "$_TBUF_") : \E q \in DrivenPorts(<<g, "Y">>) : DrivenPorts(<<g, "Y">>) = {q}
  BY DEF CheckTbufs, Fatal, Go
<1>2. Shape(d)
  BY DEF Plain
<1>3. ASSUME NEW g \in GatesOf(d, "$_TBUF_")
      PROVE  /\ Conn(d, <<g, "Y">>) # None
             /\ \E x \in TopPorts(d) : Conn(d, <<Top, x>>) = Conn(d, <<g, "Y">>) /\ d.dir[x] # "IN"
  <2>1. PICK q \in DrivenPorts(<<g, "Y">>) : TRUE
    BY <1>1
  <2>2. q \in Connections(d, Conn(d, <<g, "Y">>)) /\ q[1] = Top /\ d.dir[q[2]] \in {"OUT", "INOUT"}
    BY <2>1 DEF DrivenPorts
  <2>3. Conn(d, <<g, "Y">>) # None
    BY <1>2, <2>2, ConnFacts
  <2>4. Conn(d, q) = Conn(d, <<g, "Y">>) /\ PortOf(d, q)
    BY <1>2, <2>2, <2>3, ConnFacts, ShapeConn
  <2>5. q[2] \in TopPorts(d) /\ q = <<Top, q[2]>>
    BY <1>2, <2>2, <2>4, KindFacts
  <2> QED BY <2>2, <2>3, <2>4, <2>5
<1> QED BY <1>1, <1>3 DEF Between

(* No other tristate buffer drives the net of one, or of an input.         *)
LEMMA TbufAlone ==
  ASSUME Plain(d), NEW g \in GatesOf(d, "$_TBUF_"), NEW q, Conn(d, q) = Conn(d, <<g, "Y">>), Conn(d, q) # None,
         IsOutput(d, q)
  PROVE  q = <<g, "Y">>
<1> DEFINE n == Conn(d, q)
<1>1. Shape(d) /\ n \in d.nets /\ g # Top
  BY ShapeConn DEF Plain, GatesOf, Shape, Numbered, Top
<1>2. q \in Connections(d, n) /\ <<g, "Y">> \in Connections(d, n)
  BY <1>1, ConnFacts
<1>3. IsOutput(d, <<g, "Y">>)
  BY <1>1 DEF IsOutput, OutputPorts
<1>4. q \in Drivers(d, n) /\ <<g, "Y">> \in Drivers(d, n)
  BY <1>2, <1>3 DEF Drivers
<1> QED BY <1>1, <1>4 DEF Plain, ManyDrivers, Several

LEMMA TbufsOf ==
  ASSUME Shape(d), NEW x \in TopPorts(d), NEW g
  PROVE  g \in TbufOf(x) <=> /\ g \in GatesOf(d, "$_TBUF_") /\ Conn(d, <<Top, x>>) # None
                             /\ Conn(d, <<g, "Y">>) = Conn(d, <<Top, x>>)
<1> DEFINE n == Conn(d, <<Top, x>>)
<1>1. g \in TbufOf(x) => g \in GatesOf(d, "$_TBUF_") /\ n # None /\ Conn(d, <<g, "Y">>) = n
  <2> SUFFICES ASSUME g \in TbufOf(x) PROVE g \in GatesOf(d, "$_TBUF_") /\ n # None /\ Conn(d, <<g, "Y">>) = n
    OBVIOUS
  <2>1. PICK q \in Others(x) : q[1] # Top /\ q[2] = "Y" /\ g = q[1]
    BY DEF TbufOf
  <2>2. n # None /\ Conn(d, q) = n /\ PortOf(d, q)
    BY <2>1, ConnFacts, ShapeConn DEF Others
  <2>3. q = <<g, "Y">> /\ g \in DOMAIN d.gate /\ d.gate[g].model \in Models /\ "Y" \in PortsOf(d.gate[g].model)
    BY <2>1, <2>2, KindFacts DEF PortOf
  <2>4. d.gate[g].model = "$_TBUF_"
    BY <2>3, PortKinds
  <2> QED BY <2>2, <2>3, <2>4 DEF GatesOf
<1>2. g \in GatesOf(d, "$_TBUF_") /\ n # None /\ Conn(d, <<g, "Y">>) = n => g \in TbufOf(x)
  <2> SUFFICES ASSUME g \in GatesOf(d, "$_TBUF_"), n # None, Conn(d, <<g, "Y">>) = n PROVE g \in TbufOf(x)
    OBVIOUS
  <2>1. g # Top /\ <<g, "Y">> # <<Top, x>> /\ <<g, "Y">>[1] = g /\ <<g, "Y">>[2] = "Y"
    BY DEF GatesOf, Shape, Numbered, Top
  <2>2. <<g, "Y">> \in Others(x)
    BY <2>1, ConnFacts DEF Others
  <2> QED BY <2>1, <2>2 DEF TbufOf
<1> QED BY <1>1, <1>2

LEMMA IoStep ==
  ASSUME Between(d, todo), NEW x \in todo, InstantiateIo(x), pc' = "io"
  PROVE  Between(d', todo')
<1> DEFINE n == Conn(d, <<Top, x>>)
           k == NewNet(d)
<1>1. Plain(d) /\ Shape(d) /\ x \in TopPorts(d) /\ todo' = todo \ {x}
  BY DEF Between, Plain, InstantiateIo
<1>2. n = None \/ n \in d.nets
  BY <1>1, ShapeConn
<1>3. CASE HasPad(x) /\ UNCHANGED d
  <2>1. PICK q \in OtherPort(d, <<Top, x>>) : IsPad(d, q)
    BY <1>3 DEF HasPad
  <2>2. n # None /\ Connections(d, n) = {<<Top, x>>, q} /\ q # <<Top, x>>
    BY <2>1 DEF OtherPort
  <2>3. PortOf(d, q)
    BY <1>1, <2>2, ConnFacts, ShapeConn
  <2>4. q[1] \in Pads(d) /\ q = PinOf(q[1])
    BY <1>1, <2>1, <2>3, KindFacts
  <2>5. WithPad(d, x)
    BY <2>2, <2>4 DEF WithPad
  <2>6. ASSUME NEW g \in GatesOf(d, "$_TBUF_"), n = Conn(d, <<g, "Y">>) PROVE FALSE
    <3>1. <<g, "Y">> \in {<<Top, x>>, q}
      BY <1>1, <2>2, <2>6, ConnFacts
    <3>2. g # Top
      BY <1>1 DEF GatesOf, Shape, Numbered, Top
    <3>3. q[2] = "PACKAGE_PIN"
      BY <2>4 DEF PinOf
    <3> QED BY <3>1, <3>2, <3>3
  <2>7. ASSUME NEW g \in GatesOf(d, "$_TBUF_")
        PROVE  /\ Conn(d, <<g, "Y">>) # None
               /\ \E y \in todo \ {x} : Conn(d, <<Top, y>>) = Conn(d, <<g, "Y">>) /\ d.dir[y] # "IN"
    <3>1. PICK y \in todo : Conn(d, <<Top, y>>) = Conn(d, <<g, "Y">>) /\ d.dir[y] # "IN"
      BY DEF Between
    <3>2. y # x
      BY <2>6, <3>1
    <3>3. Conn(d, <<g, "Y">>) # None
      BY DEF Between
    <3> QED BY <3>1, <3>2, <3>3
  <2>8. \A y \in TopPorts(d) \ (todo \ {x}) : Conn(d, <<Top, y>>) = None \/ WithPad(d, y)
    BY <2>5 DEF Between
  <2>9. Between(d, todo \ {x})
    BY <1>1, <2>7, <2>8 DEF Between
  <2> QED BY <1>1, <1>3, <2>9
<1>4. ~HasPad(x) => ~\E g \in Pads(d) : PinOf(g) \in OtherPort(d, <<Top, x>>)
  <2> SUFFICES ASSUME NEW g \in Pads(d), PinOf(g) \in OtherPort(d, <<Top, x>>) PROVE HasPad(x)
    OBVIOUS
  <2>1. IsPad(d, PinOf(g))
    BY <1>1 DEF IsPad, PinOf, Pads, Shape, Numbered, Top
  <2> QED BY <2>1 DEF HasPad
<1>5. CASE ~HasPad(x) /\ d.dir[x] = "IN" /\ d' = PutPad(x, "in", [D_IN_0 |-> n])
  <2> DEFINE f == [D_IN_0 |-> n]
  <2>1. DOMAIN f = {"D_IN_0"} /\ f["D_IN_0"] = n
    OBVIOUS
  <2>2. d' = PutPad(x, "in", f)
    BY <1>5
  <2> HIDE DEF f, n, k
  <2>3. DOMAIN f \subseteq PadPorts /\ \A y \in DOMAIN f : f[y] = None \/ f[y] \in d.nets
    BY <1>2, <2>1 DEF PadPorts
  <2>4. /\ Shape(d') /\ d'.nets = d.nets \cup {k} /\ d'.const = d.const /\ d'.dir = d.dir
        /\ DOMAIN d'.gate = DOMAIN d.gate \cup {k} /\ d'.gate[k].model = "SB_IO"
        /\ \A g \in DOMAIN d.gate : d'.gate[g] = d.gate[g]
        /\ Conn(d', <<Top, x>>) = k /\ Conn(d', PinOf(k)) = k
        /\ \A p : p # <<Top, x>> /\ p[1] # k => Conn(d', p) = Conn(d, p)
        /\ \A y \in DOMAIN f : Conn(d', <<k, y>>) = f[y]
        /\ \A p : p[1] = k /\ Conn(d', p) # None => p = PinOf(k) \/ (p = <<k, p[2]>> /\ p[2] \in DOMAIN f)
    BY <1>1, <2>2, <2>3, PutPadFields DEF k
  <2>5. Conn(d', <<k, "D_IN_0">>) = n
    BY <2>1, <2>4
  <2>6. ASSUME NEW y \in {"D_OUT_0", "OUTPUT_ENABLE"} PROVE Conn(d', <<k, y>>) = None
    <3>1. <<k, y>>[1] = k /\ <<k, y>>[2] = y /\ <<k, y>> # PinOf(k)
      BY DEF PinOf
    <3> QED BY <2>1, <2>4, <3>1
  <2>7. PadPut(d', x, {})
    BY <1>5, <2>1, <2>3, <2>4, <2>5, <2>6 DEF PadPut, k, n
  <2>8. ASSUME NEW g \in GatesOf(d, "$_TBUF_"), Conn(d, <<g, "Y">>) = n PROVE FALSE
    <3>1. Conn(d, <<g, "Y">>) # None
      BY DEF Between
    <3>2. IsOutput(d, <<Top, x>>)
      BY <1>5 DEF IsOutput
    <3>3. <<Top, x>> = <<g, "Y">>
      BY <1>1, <2>8, <3>1, <3>2, TbufAlone DEF n
    <3>4. g # Top
      BY <1>1 DEF GatesOf, Shape, Numbered, Top
    <3> QED BY <3>3, <3>4
  <2> QED BY <1>1, <1>4, <1>5, <2>7, <2>8, PadStep DEF n
<1>6. CASE /\ ~HasPad(x) /\ d.dir[x] # "IN" /\ (n = None \/ TbufOf(x) = {})
           /\ d' = PutPad(x, "out", [D_OUT_0 |-> n])
  <2> DEFINE f == [D_OUT_0 |-> n]
  <2>1. DOMAIN f = {"D_OUT_0"} /\ f["D_OUT_0"] = n
    OBVIOUS
  <2>2. d' = PutPad(x, "out", f)
    BY <1>6
  <2> HIDE DEF f, n, k
  <2>3. DOMAIN f \subseteq PadPorts /\ \A y \in DOMAIN f : f[y] = None \/ f[y] \in d.nets
    BY <1>2, <2>1 DEF PadPorts
  <2>4. /\ Shape(d') /\ d'.nets = d.nets \cup {k} /\ d'.const = d.const /\ d'.dir = d.dir
        /\ DOMAIN d'.gate = DOMAIN d.gate \cup {k} /\ d'.gate[k].model = "SB_IO"
        /\ \A g \in DOMAIN d.gate : d'.gate[g] = d.gate[g]
        /\ Conn(d', <<Top, x>>) = k /\ Conn(d', PinOf(k)) = k
        /\ \A p : p # <<Top, x>> /\ p[1] # k => Conn(d', p) = Conn(d, p)
        /\ \A y \in DOMAIN f : Conn(d', <<k, y>>) = f[y]
        /\ \A p : p[1] = k /\ Conn(d', p) # None => p = PinOf(k) \/ (p = <<k, p[2]>> /\ p[2] \in DOMAIN f)
    BY <1>1, <2>2, <2>3, PutPadFields DEF k
  <2>5. Conn(d', <<k, "D_OUT_0">>) = n
    BY <2>1, <2>4
  <2>6. ASSUME NEW y \in {"D_IN_0", "OUTPUT_ENABLE"} PROVE Conn(d', <<k, y>>) = None
    <3>1. <<k, y>>[1] = k /\ <<k, y>>[2] = y /\ <<k, y>> # PinOf(k)
      BY DEF PinOf
    <3> QED BY <2>1, <2>4, <3>1
  <2>7. PadPut(d', x, {})
    BY <2>1, <2>3, <2>4, <2>5, <2>6 DEF PadPut, k, n
  <2>8. \A g \in GatesOf(d, "$_TBUF_") : Conn(d, <<g, "Y">>) # n
    <3>1. \A g \in GatesOf(d, "$_TBUF_") : Conn(d, <<g, "Y">>) # None
      BY DEF Between
    <3> QED BY <1>1, <1>6, <3>1, TbufsOf DEF n
  <2> QED BY <1>1, <1>4, <1>6, <2>7, <2>8, PadStep DEF n
<1>7. CASE /\ ~HasPad(x) /\ d.dir[x] # "IN" /\ n # None
           /\ \E g \in TbufOf(x) :
                d' = RemoveGates(PutPad(x, "tristate", [D_OUT_0 |-> Conn(d, <<g, "A">>), D_IN_0 |-> n,
                                                        OUTPUT_ENABLE |-> Conn(d, <<g, "E">>)]), {g})
  <2>1. PICK g \in TbufOf(x) :
                d' = RemoveGates(PutPad(x, "tristate", [D_OUT_0 |-> Conn(d, <<g, "A">>), D_IN_0 |-> n,
                                                        OUTPUT_ENABLE |-> Conn(d, <<g, "E">>)]), {g})
    BY <1>7
  <2> DEFINE f == [D_OUT_0 |-> Conn(d, <<g, "A">>), D_IN_0 |-> n, OUTPUT_ENABLE |-> Conn(d, <<g, "E">>)]
             b == PutPad(x, "tristate", f)
  <2>2. /\ DOMAIN f = PadPorts /\ f["D_IN_0"] = n
        /\ f["D_OUT_0"] = Conn(d, <<g, "A">>) /\ f["OUTPUT_ENABLE"] = Conn(d, <<g, "E">>)
    BY DEF PadPorts
  <2>3. d' = RemoveGates(b, {g})
    BY <2>1
  <2>4. g \in GatesOf(d, "$_TBUF_") /\ Conn(d, <<g, "Y">>) = n
    BY <1>1, TbufsOf
  <2> HIDE DEF f, n, k
  <2>5. \A y \in DOMAIN f : f[y] = None \/ f[y] \in d.nets
    BY <1>1, <1>2, <2>2, ShapeConn DEF PadPorts
  <2>6. /\ Shape(b) /\ b.nets = d.nets \cup {k} /\ b.const = d.const /\ b.dir = d.dir
        /\ DOMAIN b.gate = DOMAIN d.gate \cup {k} /\ b.gate[k].model = "SB_IO"
        /\ \A h \in DOMAIN d.gate : b.gate[h] = d.gate[h]
        /\ Conn(b, <<Top, x>>) = k /\ Conn(b, PinOf(k)) = k
        /\ \A p : p # <<Top, x>> /\ p[1] # k => Conn(b, p) = Conn(d, p)
        /\ \A y \in DOMAIN f : Conn(b, <<k, y>>) = f[y]
        /\ \A p : p[1] = k /\ Conn(b, p) # None => p = PinOf(k) \/ (p = <<k, p[2]>> /\ p[2] \in DOMAIN f)
    BY <1>1, <2>2, <2>5, PutPadFields DEF k
  <2> HIDE DEF b
  <2>7. /\ Shape(d') /\ d'.nets = b.nets /\ d'.const = b.const /\ d'.dir = b.dir
        /\ DOMAIN d'.gate = DOMAIN b.gate \ {g} /\ (\A h \in DOMAIN d'.gate : d'.gate[h] = b.gate[h])
        /\ \A p : Conn(d', p) = IF p[1] \in {g} THEN None ELSE Conn(b, p)
    BY <2>3, <2>6, RemoveGatesFields, RemoveGatesShape, ShapeConn
  <2>8. g # k /\ g # Top /\ k # Top /\ k \notin DOMAIN d.gate /\ g \in DOMAIN d.gate
    BY <1>1, <2>4, NewIsNew DEF GatesOf, Shape, Numbered, Top, k
  <2>9. \A y : <<k, y>>[1] = k /\ <<Top, x>>[1] = Top /\ PinOf(k)[1] = k
    BY DEF PinOf
  <2>10. /\ DOMAIN d'.gate = (DOMAIN d.gate \ {g}) \cup {k} /\ d'.gate[k].model = "SB_IO"
         /\ \A h \in DOMAIN d.gate \ {g} : d'.gate[h] = d.gate[h]
    BY <2>6, <2>7, <2>8
  <2>11. /\ Conn(d', <<Top, x>>) = k /\ Conn(d', PinOf(k)) = k
         /\ \A y \in PadPorts : Conn(d', <<k, y>>) = f[y]
    BY <2>2, <2>6, <2>7, <2>8, <2>9
  <2>12. \A p : p # <<Top, x>> /\ p[1] # k => Conn(d', p) = IF p[1] \in {g} THEN None ELSE Conn(d, p)
    BY <2>6, <2>7
  <2>13. \A p : p[1] = k /\ Conn(d', p) # None => p = PinOf(k) \/ (p = <<k, p[2]>> /\ p[2] \in PadPorts)
    BY <2>2, <2>6, <2>7
  <2>14. \A y \in {"D_OUT_0", "OUTPUT_ENABLE"} :
          Conn(d', <<k, y>>) = None
          \/ (\E q : Conn(d, q) = Conn(d', <<k, y>>) /\ (q = <<Top, x>> \/ (q[2] \in {"A", "E"} /\ q[1] # Top)))
    <3>1. Conn(d', <<k, "D_OUT_0">>) = Conn(d, <<g, "A">>) /\ <<g, "A">>[1] # Top /\ <<g, "A">>[2] = "A"
      BY <2>2, <2>8, <2>11 DEF PadPorts
    <3>2. Conn(d', <<k, "OUTPUT_ENABLE">>) = Conn(d, <<g, "E">>) /\ <<g, "E">>[1] # Top /\ <<g, "E">>[2] = "E"
      BY <2>2, <2>8, <2>11 DEF PadPorts
    <3> QED BY <3>1, <3>2
  <2>15. Conn(d', <<k, "D_IN_0">>) = n
    BY <2>2, <2>11 DEF PadPorts
  <2>16. d'.nets = d.nets \cup {k} /\ d'.const = d.const /\ d'.dir = d.dir
    BY <2>6, <2>7
  <2>17. PadPut(d', x, {g})
    BY <2>4, <2>7, <2>10, <2>11, <2>12, <2>13, <2>14, <2>15, <2>16 DEF PadPut, k, n
  <2>18. ASSUME NEW h \in GatesOf(d, "$_TBUF_") \ {g}, Conn(d, <<h, "Y">>) = n PROVE FALSE
    <3>1. h # Top /\ <<h, "Y">>[1] = h /\ <<h, "Y">>[2] = "Y"
      BY <1>1 DEF GatesOf, Shape, Numbered, Top
    <3>2. IsOutput(d, <<h, "Y">>)
      BY <3>1 DEF IsOutput, OutputPorts
    <3>3. <<h, "Y">> = <<g, "Y">>
      BY <1>1, <1>7, <2>4, <2>18, <3>2, TbufAlone
    <3> QED BY <2>18, <3>3
  <2> QED BY <1>1, <1>4, <1>7, <2>17, <2>18, PadStep DEF n
<1> QED BY <1>3, <1>5, <1>6, <1>7 DEF InstantiateIo, Go

-----------------------------------------------------------------------------
(* From the end of instantiate_io() on, every connected port has a pad of  *)
(* its own, and the rest of the netlist is rewired around these pairs.     *)
Tidy(e) ==
  /\ Plain(e) /\ GatesOf(e, "$_TBUF_") = {}
  /\ \A x \in TopPorts(e) : Conn(e, <<Top, x>>) = None \/ WithPad(e, x)

LEMMA PruneTidy ==
  ASSUME NEW e, Tidy(e)
  PROVE  Tidy(Prune(e)) /\ Live(Prune(e))
<1> DEFINE c == Prune(e)
<1>1. Plain(e) /\ Shape(e) /\ GatesOf(e, "SB_IO_OD") = {}
  BY DEF Tidy, Plain
<1>2. /\ Shape(c) /\ c.dir = e.dir /\ c.nets \subseteq e.nets
      /\ DOMAIN c.const \subseteq DOMAIN e.const
      /\ \A n \in c.nets : Connections(c, n) = Connections(e, n)
  BY <1>1, PruneFields
<1>3. /\ \A p : IsPhysical(c, p) <=> IsPhysical(e, p)
      /\ \A n \in c.nets : Used(c, n) /\ (ManyDrivers(c, n) <=> ManyDrivers(e, n))
      /\ \A p : Conn(c, p) # None => Conn(c, p) = Conn(e, p) /\ OtherPort(c, p) = OtherPort(e, p)
      /\ \A m : GatesOf(c, m) = GatesOf(e, m)
      /\ Pads(c) = Pads(e) /\ TopPorts(c) = TopPorts(e)
  BY <1>1, PruneKeeps
<1> HIDE DEF c
<1>4. Live(c)
  BY <1>3 DEF Used, Live
<1>5. \A p : Conn(c, p) # None => Connections(c, Conn(c, p)) = Connections(e, Conn(e, p))
  BY <1>2, <1>3, ShapeConn
<1>6. ASSUME NEW g \in Pads(c), Conn(c, PinOf(g)) # None PROVE PadAlone(c, g)
  <2>1. Conn(c, PinOf(g)) = Conn(e, PinOf(g)) /\ PadAlone(e, g)
    BY <1>1, <1>3, <1>6 DEF Plain
  <2> QED BY <1>2, <1>3, <1>5, <1>6, <2>1 DEF PadAlone
<1>7. InoutsPaired(c)
  <2> SUFFICES ASSUME NEW x \in TopPorts(c), c.dir[x] = "INOUT", Conn(c, <<Top, x>>) # None
               PROVE  \E q \in OtherPort(c, <<Top, x>>) : IsPhysical(c, q)
    BY DEF InoutsPaired
  <2>1. Conn(c, <<Top, x>>) = Conn(e, <<Top, x>>) /\ OtherPort(c, <<Top, x>>) = OtherPort(e, <<Top, x>>)
    BY <1>3
  <2>2. \E q \in OtherPort(e, <<Top, x>>) : IsPhysical(e, q)
    BY <1>1, <1>2, <1>3, <2>1 DEF Plain, InoutsPaired
  <2> QED BY <1>3, <2>1, <2>2
<1>8. Plain(c)
  BY <1>1, <1>2, <1>3, <1>6, <1>7 DEF Plain
<1>9. ASSUME NEW x \in TopPorts(c), Conn(c, <<Top, x>>) # None PROVE WithPad(c, x)
  <2>1. Conn(c, <<Top, x>>) = Conn(e, <<Top, x>>) /\ WithPad(e, x)
    BY <1>3, <1>9 DEF Tidy
  <2> QED BY <1>3, <1>5, <1>9, <2>1 DEF WithPad
<1>10. Tidy(c)
  BY <1>3, <1>8, <1>9 DEF Tidy
<1> QED BY <1>4, <1>10 DEF c

LEMMA IoDoneStep ==
  ASSUME Between(d, todo), IoDone
  PROVE  Tidy(d') /\ Live(d')
<1>1. todo = {} /\ d' = Prune(d)
  BY DEF IoDone
<1>2. Tidy(d)
  BY <1>1 DEF Between, Tidy, Plain
<1> QED BY <1>1, <1>2, PruneTidy

(* Ports that are neither of the top model nor the pins of pads may be     *)
(* moved: inputs to nets of other such ports, to constants or to new nets, *)
(* and every output in the place of one (src).                             *)
Inner(e, p) == p[1] # Top /\ ~(p[1] \in Pads(e) /\ p = PinOf(p[1]))
Rewired(e, c, src) ==
  /\ Shape(c) /\ c.dir = e.dir /\ Pads(c) = Pads(e)
  /\ GatesOf(c, "SB_IO_OD") = {} /\ GatesOf(c, "$_TBUF_") = {}
  /\ \A n \in DOMAIN c.const : n \in DOMAIN e.const \/ n \notin e.nets
  /\ \A p : ~Inner(e, p) => Conn(c, p) = Conn(e, p)
  /\ \A p : Inner(e, p) /\ ~IsOutput(c, p) /\ Conn(c, p) # None =>
       \/ Conn(c, p) \in DOMAIN c.const \/ Conn(c, p) \notin e.nets
       \/ \E q : Inner(e, q) /\ Conn(e, q) = Conn(c, p)
  /\ \A p : Inner(e, p) /\ IsOutput(c, p) /\ Conn(c, p) \in e.nets =>
       src[p][1] # Top /\ IsOutput(e, src[p]) /\ Conn(e, src[p]) = Conn(c, p)
  /\ \A p, q : /\ Inner(e, p) /\ IsOutput(c, p) /\ Conn(c, p) \in e.nets
               /\ Inner(e, q) /\ IsOutput(c, q) /\ Conn(c, q) \in e.nets
               /\ src[p] = src[q]
               => p = q
  /\ \A m \in c.nets \ e.nets : ~ManyDrivers(c, m)

Pair(e, m, x, g) == Connections(e, m) = {<<Top, x>>, PinOf(g)}

LEMMA PairsStay ==
  ASSUME NEW e, Tidy(e), NEW c, NEW src, Rewired(e, c, src)
  PROVE  \A x \in TopPorts(e), g \in Pads(e) : \A m :
           m # None /\ Pair(e, m, x, g) =>
             /\ Pair(c, m, x, g)
             /\ Conn(c, <<Top, x>>) = m /\ Conn(c, PinOf(g)) = m
<1> SUFFICES ASSUME NEW x \in TopPorts(e), NEW g \in Pads(e), NEW m, m # None, Pair(e, m, x, g)
             PROVE  /\ Pair(c, m, x, g)
                    /\ Conn(c, <<Top, x>>) = m /\ Conn(c, PinOf(g)) = m
  OBVIOUS
<1>a. Connections(e, m) = {<<Top, x>>, PinOf(g)}
  BY DEF Pair
<1>1. Shape(e) /\ Shape(c)
  BY DEF Tidy, Plain, Rewired
<1>2. Conn(e, <<Top, x>>) = m /\ Conn(e, PinOf(g)) = m /\ m \in e.nets
  BY <1>1, <1>a, ConnFacts, ShapeConn
<1>3. m \notin DOMAIN e.const
  BY <1>2 DEF Tidy, Plain, PadAlone
<1>4. /\ g # Top /\ PinOf(g)[1] = g /\ PinOf(g)[2] = "PACKAGE_PIN" /\ <<Top, x>>[1] = Top
      /\ ~Inner(e, <<Top, x>>) /\ ~Inner(e, PinOf(g))
  BY <1>1 DEF Inner, PinOf, Pads, Shape, Numbered, Top
<1>5. ~IsOutput(e, PinOf(g))
  BY <1>4 DEF IsOutput, OutputPorts
<1>6. m \notin DOMAIN c.const
  BY <1>2, <1>3 DEF Rewired
<1>7. Conn(c, <<Top, x>>) = m /\ Conn(c, PinOf(g)) = m
  BY <1>2, <1>4 DEF Rewired
<1>8. ASSUME NEW p, Conn(c, p) = m PROVE p \in {<<Top, x>>, PinOf(g)}
  <2>1. CASE ~Inner(e, p)
    <3>1. Conn(e, p) = m
      BY <1>8, <2>1 DEF Rewired
    <3> QED BY <1>1, <1>a, <3>1, ConnFacts
  <2>2. CASE Inner(e, p) /\ IsOutput(c, p)
    <3>1. src[p][1] # Top /\ IsOutput(e, src[p]) /\ Conn(e, src[p]) = m
      BY <1>2, <1>8, <2>2 DEF Rewired
    <3>2. src[p] \in {<<Top, x>>, PinOf(g)}
      BY <1>1, <1>a, <3>1, ConnFacts
    <3> QED BY <1>4, <1>5, <3>1, <3>2
  <2>3. CASE Inner(e, p) /\ ~IsOutput(c, p)
    <3>1. \E q : Inner(e, q) /\ Conn(e, q) = m
      BY <1>2, <1>6, <1>8, <2>3 DEF Rewired
    <3>2. PICK q : Inner(e, q) /\ Conn(e, q) = m
      BY <3>1
    <3>3. q \in {<<Top, x>>, PinOf(g)}
      BY <1>1, <1>a, <3>2, ConnFacts
    <3> QED BY <1>4, <3>2, <3>3
  <2> QED BY <2>1, <2>2, <2>3
<1>9. Connections(c, m) = {<<Top, x>>, PinOf(g)}
  BY <1>1, <1>a, <1>7, <1>8, ConnFacts
<1> QED BY <1>7, <1>9 DEF Pair

LEMMA RewiredTidy ==
  ASSUME NEW e, Tidy(e), NEW c, NEW src, Rewired(e, c, src)
  PROVE  Tidy(c)
<1>1. Plain(e) /\ Shape(e) /\ Shape(c)
  BY DEF Tidy, Plain, Rewired
<1>2. /\ c.dir = e.dir /\ Pads(c) = Pads(e) /\ TopPorts(c) = TopPorts(e)
      /\ GatesOf(c, "SB_IO_OD") = {} /\ GatesOf(c, "$_TBUF_") = {}
      /\ \A n \in DOMAIN c.const : n \in DOMAIN e.const \/ n \notin e.nets
      /\ \A p : ~Inner(e, p) => Conn(c, p) = Conn(e, p)
  BY DEF Rewired, TopPorts
<1>3. ASSUME NEW g \in Pads(e) PROVE g # Top /\ PinOf(g)[1] = g /\ ~Inner(e, PinOf(g))
  BY <1>1 DEF Inner, PinOf, Pads, Shape, Numbered, Top
<1>4. ASSUME NEW x PROVE ~Inner(e, <<Top, x>>)
  BY DEF Inner
<1>5. ASSUME NEW g \in Pads(c), Conn(c, PinOf(g)) # None PROVE PadAlone(c, g)
  <2> DEFINE m == Conn(e, PinOf(g))
  <2>1. g \in Pads(e) /\ Conn(c, PinOf(g)) = m
    BY <1>2, <1>3
  <2>2. PICK x \in TopPorts(e) : Connections(e, m) = {<<Top, x>>, PinOf(g)}
    BY <1>1, <1>5, <2>1 DEF Plain, PadAlone
  <2>3. m # None
    BY <1>5, <2>1
  <2> HIDE DEF m
  <2>4. Connections(c, m) = {<<Top, x>>, PinOf(g)}
    <3>1. g \in Pads(e) /\ m # None /\ Pair(e, m, x, g)
      BY <2>1, <2>2, <2>3 DEF Pair
    <3>2. Pair(c, m, x, g)
      BY <2>2, <3>1, PairsStay
    <3> QED BY <3>2 DEF Pair
  <2>5. m \notin DOMAIN c.const
    <3>1. m \in e.nets
      BY <1>1, <2>2, ConnFacts, ShapeConn
    <3>2. m \notin DOMAIN e.const
      BY <1>1, <1>5, <2>1 DEF Plain, PadAlone, m
    <3> QED BY <1>2, <3>1, <3>2
  <2> QED BY <1>2, <2>1, <2>4, <2>5 DEF PadAlone
<1>6. ASSUME NEW x \in TopPorts(c), Conn(c, <<Top, x>>) # None
      PROVE  WithPad(c, x) /\ \E q \in OtherPort(c, <<Top, x>>) : IsPhysical(c, q)
  <2> DEFINE m == Conn(e, <<Top, x>>)
  <2>1. x \in TopPorts(e) /\ Conn(c, <<Top, x>>) = m
    BY <1>2, <1>4
  <2>2. PICK g \in Pads(e) : Connections(e, m) = {<<Top, x>>, PinOf(g)}
    BY <1>6, <2>1 DEF Tidy, WithPad
  <2> HIDE DEF m
  <2>3. Connections(c, m) = {<<Top, x>>, PinOf(g)} /\ Conn(c, PinOf(g)) = m
    <3>1. m # None /\ Pair(e, m, x, g)
      BY <1>6, <2>1, <2>2 DEF Pair
    <3>2. Pair(c, m, x, g) /\ Conn(c, PinOf(g)) = m
      BY <2>1, <2>2, <3>1, PairsStay
    <3> QED BY <3>2 DEF Pair
  <2>4. PinOf(g) # <<Top, x>> /\ PinOf(g)[1] = g
    BY <1>3, <2>2 DEF PinOf
  <2>5. PinOf(g) \in OtherPort(c, <<Top, x>>)
    BY <1>6, <2>1, <2>3, <2>4 DEF OtherPort
  <2>6. PortOf(c, PinOf(g))
    BY <1>1, <1>6, <2>1, <2>3, ShapeConn
  <2>7. IsPhysical(c, PinOf(g))
    BY <1>1, <1>2, <1>3, <2>2, <2>4, <2>6, KindFacts DEF IsPhysical
  <2> QED BY <1>2, <2>1, <2>2, <2>3, <2>5, <2>7 DEF WithPad
<1>7. ASSUME NEW m \in e.nets PROVE ~ManyDrivers(c, m)
  <2> SUFFICES ASSUME ManyDrivers(c, m) PROVE FALSE
    OBVIOUS
  <2>1. PICK p, q \in Drivers(c, m) \cup Tied(c, m) : p # q
    BY DEF ManyDrivers, Several
  <2>2. m # None
    BY <1>1, ShapeConn
  <2>3. Tied(c, m) \subseteq Tied(e, m) /\ \A w \in Tied(e, m) : w = <<>>
    BY <1>2 DEF Tied
  <2>4. \A w : Conn(e, w) # None => w # <<>>
    <3>1. \A y, z : <<y, z>> # <<>>
      OBVIOUS
    <3> QED BY <1>1, <3>1, ShapeConn DEF PortOf
  <2> DEFINE old(w) == IF w \in Drivers(c, m) /\ Inner(e, w) THEN src[w] ELSE w
  <2>5. ASSUME NEW w \in Drivers(c, m)
        PROVE  /\ old(w) \in Drivers(e, m) /\ old(w) # <<>>
               /\ Inner(e, w) => IsOutput(c, w) /\ Conn(c, w) = m /\ old(w)[1] # Top
               /\ ~Inner(e, w) => w[1] = Top
    <3>1. IsOutput(c, w) /\ Conn(c, w) = m
      BY <1>1, <2>2, <2>5, ConnFacts DEF Drivers
    <3>2. CASE Inner(e, w)
      <4>1. src[w][1] # Top /\ IsOutput(e, src[w]) /\ Conn(e, src[w]) = m
        BY <3>1, <3>2 DEF Rewired
      <4>2. src[w] \in Connections(e, m)
        BY <1>1, <2>2, <4>1, ConnFacts
      <4> QED BY <2>2, <2>4, <2>5, <3>1, <3>2, <4>1, <4>2 DEF Drivers
    <3>3. CASE ~Inner(e, w)
      <4>1. Conn(e, w) = m
        BY <1>2, <3>1, <3>3
      <4>2. w[1] = Top
        <5> SUFFICES ASSUME w[1] # Top PROVE FALSE
          OBVIOUS
        <5>1. w[1] \in Pads(e) /\ w = PinOf(w[1])
          BY <3>3 DEF Inner
        <5>2. w[2] = "PACKAGE_PIN"
          BY <5>1 DEF PinOf
        <5> QED BY <3>1, <5>2 DEF IsOutput, OutputPorts
      <4>3. IsOutput(e, w)
        BY <1>2, <3>1, <4>2 DEF IsOutput
      <4>4. w \in Connections(e, m)
        BY <1>1, <2>2, <4>1, ConnFacts
      <4> QED BY <2>2, <2>4, <3>3, <4>1, <4>2, <4>3, <4>4 DEF Drivers
    <3> QED BY <3>2, <3>3
  <2>6. \A w \in Tied(c, m) : w = <<>> /\ w \in Tied(e, m)
    BY <2>3
  <2>7. ASSUME NEW a \in Drivers(e, m) \cup Tied(e, m), NEW b \in Drivers(e, m) \cup Tied(e, m), a # b PROVE FALSE
    BY <1>1, <2>7 DEF Plain, ManyDrivers, Several
  <2>8. CASE p \in Tied(c, m) \/ q \in Tied(c, m)
    <3> HIDE DEF old
    <3> QED BY <2>1, <2>5, <2>6, <2>7, <2>8
  <2>9. CASE p \in Drivers(c, m) /\ q \in Drivers(c, m)
    <3>1. old(p) # old(q)
      <4>1. CASE Inner(e, p) /\ Inner(e, q)
        <5>1. IsOutput(c, p) /\ Conn(c, p) = m /\ IsOutput(c, q) /\ Conn(c, q) = m
          BY <2>5, <2>9, <4>1
        <5>2. src[p] # src[q]
          BY <2>1, <4>1, <5>1 DEF Rewired
        <5> QED BY <2>9, <4>1, <5>2
      <4>2. CASE ~Inner(e, p) /\ ~Inner(e, q)
        BY <2>1, <4>2
      <4>3. CASE Inner(e, p) /\ ~Inner(e, q)
        <5>1. old(p)[1] # Top /\ q[1] = Top /\ old(q) = q
          BY <2>5, <2>9, <4>3
        <5> QED BY <5>1
      <4>4. CASE ~Inner(e, p) /\ Inner(e, q)
        <5>1. old(q)[1] # Top /\ p[1] = Top /\ old(p) = p
          BY <2>5, <2>9, <4>4
        <5> QED BY <5>1
      <4> QED BY <4>1, <4>2, <4>3, <4>4
    <3> HIDE DEF old
    <3> QED BY <2>5, <2>7, <2>9, <3>1
  <2> QED BY <2>1, <2>8, <2>9
<1>8. \A m \in c.nets : ~ManyDrivers(c, m)
  BY <1>7 DEF Rewired
<1>9. InoutsPaired(c)
  BY <1>6 DEF InoutsPaired
<1>10. Plain(c)
  BY <1>1, <1>2, <1>5, <1>8, <1>9 DEF Plain
<1> QED BY <1>2, <1>6, <1>10 DEF Tidy

-----------------------------------------------------------------------------
(* Packing keeps the netlist tidy.                                         *)
HasConsts(e) == \A v \in {0, 1} : \E n \in DOMAIN e.const : e.const[n] = v

LEMMA NewTable ==
  ASSUME NEW h, IsGate(h), NEW init
  PROVE  LET k == [h EXCEPT !.p.init = init] IN IsGate(k) /\ k.model = h.model
<1> DEFINE par == [h.p EXCEPT !.init = init]
           k == [h EXCEPT !.p.init = init]
<1>1. k = [h EXCEPT !.p = par]
  OBVIOUS
<1> HIDE DEF k, par
<1>2. k = [model |-> h.model, p |-> par]
  BY <1>1 DEF IsGate
<1>3. k.model = h.model /\ k.p = par
  BY <1>2
<1> QED BY <1>2, <1>3 DEF IsGate, k

LEMMA WithGates ==
  ASSUME NEW e, Shape(e), NEW gate, DOMAIN gate = DOMAIN e.gate,
         \A g \in DOMAIN gate : IsGate(gate[g]) /\ gate[g].model = e.gate[g].model
  PROVE  LET c == [e EXCEPT !.gate = gate]
         IN /\ Shape(c) /\ c.nets = e.nets /\ c.const = e.const /\ c.dir = e.dir /\ c.gate = gate
            /\ \A p : Conn(c, p) = Conn(e, p)
<1> DEFINE c == [e EXCEPT !.gate = gate]
<1>1. c = [conn |-> e.conn, nets |-> e.nets, const |-> e.const, dir |-> e.dir, gate |-> gate, temps |-> e.temps]
  BY DEF Shape, IsDesign
<1> HIDE DEF c
<1>2. c.conn = e.conn /\ c.nets = e.nets /\ c.const = e.const /\ c.dir = e.dir /\ c.gate = gate /\ c.temps = e.temps
  BY <1>1
<1>3. IsDesign(c)
  BY <1>1, <1>2 DEF IsDesign
<1>4. \A p : Conn(c, p) = Conn(e, p)
  BY <1>2 DEF Conn
<1>5. c.temps \in Nat /\ Numbered(c, c.nets) /\ Numbered(c, DOMAIN c.gate)
  BY <1>2 DEF Shape, Numbered
<1>6. /\ DOMAIN c.const \subseteq c.nets /\ \A n \in DOMAIN c.const : c.const[n] \in {0, 1}
      /\ \A x \in DOMAIN c.dir : c.dir[x] \in {"IN", "OUT", "INOUT"}
      /\ \A g \in DOMAIN c.gate : IsGate(c.gate[g])
  BY <1>2 DEF Shape
<1>7. \A p : PortOf(e, p) => PortOf(c, p)
  BY <1>2 DEF PortOf
<1>8. \A p \in DOMAIN c.conn : Conn(c, p) # None
  BY <1>2, <1>4, ShapeConn
<1>9. \A p : Conn(c, p) # None => Conn(c, p) \in c.nets /\ PortOf(c, p)
  BY <1>2, <1>4, <1>7, ShapeConn
<1>10. Shape(c)
  BY <1>3, <1>5, <1>6, <1>8, <1>9, ShapeByConn
<1> QED BY <1>2, <1>4, <1>10 DEF c

LEMMA TwoConsts ==
  ASSUME NEW e, Shape(e)
  PROVE  LET c == WithConst(WithConst(e, 0), 1)
         IN /\ Shape(c) /\ HasConsts(c) /\ c.dir = e.dir /\ c.gate = e.gate
            /\ (\A p : Conn(c, p) = Conn(e, p))
            /\ e.nets \subseteq c.nets
            /\ c.nets \ e.nets = DOMAIN c.const \ DOMAIN e.const
<1> DEFINE a == WithConst(e, 0)
           c == WithConst(a, 1)
<1>1. /\ Shape(a) /\ a.dir = e.dir /\ a.gate = e.gate /\ (\A p : Conn(a, p) = Conn(e, p))
      /\ e.nets \subseteq a.nets /\ a.nets \ e.nets = DOMAIN a.const \ DOMAIN e.const
      /\ DOMAIN e.const \subseteq DOMAIN a.const
      /\ \E n \in DOMAIN a.const : a.const[n] = 0
  BY WithConstFields
<1> HIDE DEF a
<1>2. /\ Shape(c) /\ c.dir = a.dir /\ c.gate = a.gate /\ (\A p : Conn(c, p) = Conn(a, p))
      /\ a.nets \subseteq c.nets /\ c.nets \ a.nets = DOMAIN c.const \ DOMAIN a.const
      /\ DOMAIN a.const \subseteq DOMAIN c.const /\ \A n \in DOMAIN a.const : c.const[n] = a.const[n]
      /\ \E n \in DOMAIN c.const : c.const[n] = 1
  BY <1>1, WithConstFields
<1> HIDE DEF c
<1>3. HasConsts(c)
  BY <1>1, <1>2 DEF HasConsts
<1>4. DOMAIN e.const \subseteq e.nets /\ DOMAIN a.const \subseteq a.nets
  BY <1>1 DEF Shape
<1>5. c.nets \ e.nets = DOMAIN c.const \ DOMAIN e.const
  BY <1>1, <1>2, <1>4
<1> QED BY <1>1, <1>2, <1>3, <1>5 DEF c, a

LEMMA SameModels ==
  ASSUME NEW e, NEW c, DOMAIN c.gate = DOMAIN e.gate, \A g \in DOMAIN c.gate : c.gate[g].model = e.gate[g].model
  PROVE  Pads(c) = Pads(e) /\ \A model : GatesOf(c, model) = GatesOf(e, model)
BY DEF Pads, GatesOf

LEMMA OptimizeStep ==
  ASSUME Tidy(d), OptimizeLuts
  PROVE  Tidy(d') /\ HasConsts(d')
<1> DEFINE e == WithConst(WithConst(d, 0), 1)
           G == {g \in GatesOf(d, "SB_LUT4") : d.gate[g].p.full}
           table(g) == Table(e.gate[g].p.init, Ones(g))
           gate == [g \in DOMAIN e.gate |-> IF g \in G THEN [e.gate[g] EXCEPT !.p.init = table(g)] ELSE e.gate[g]]
           h == [e EXCEPT !.gate = gate]
           D == {q \in G \X LutIn : q[2] \in Ones(q[1])}
           f == [q \in D |-> ConstNet(e, 0)]
           c == ConnectAll(h, f)
           src == [p \in DOMAIN d.conn |-> p]
<1>1. d' = c
  BY DEF OptimizeLuts
<1>2. Shape(d) /\ Plain(d) /\ GatesOf(d, "$_TBUF_") = {} /\ GatesOf(d, "SB_IO_OD") = {}
  BY DEF Tidy, Plain
<1>3. /\ Shape(e) /\ HasConsts(e) /\ e.dir = d.dir /\ e.gate = d.gate
      /\ (\A p : Conn(e, p) = Conn(d, p))
      /\ d.nets \subseteq e.nets
      /\ e.nets \ d.nets = DOMAIN e.const \ DOMAIN d.const
  BY <1>2, TwoConsts
<1> DEFINE z == ConstNet(e, 0)
<1>4. z \in DOMAIN e.const /\ z \in e.nets /\ z # None
  BY <1>3, ConstNetFacts, ShapeConn DEF HasConsts
<1>5. DOMAIN gate = DOMAIN d.gate /\ (\A g \in DOMAIN gate : IsGate(gate[g]) /\ gate[g].model = d.gate[g].model)
  <2>1. DOMAIN gate = DOMAIN d.gate
    BY <1>3
  <2>2. ASSUME NEW g \in DOMAIN gate PROVE IsGate(gate[g]) /\ gate[g].model = d.gate[g].model
    <3> DEFINE k == e.gate[g]
               t == table(g)
    <3>1. IsGate(k) /\ k = d.gate[g]
      BY <1>2, <1>3, <2>2 DEF Shape
    <3>2. gate[g] = IF g \in G THEN [k EXCEPT !.p.init = t] ELSE k
      BY <2>2
    <3> HIDE DEF gate, k, t, G, table
    <3>3. IsGate([k EXCEPT !.p.init = t]) /\ [k EXCEPT !.p.init = t].model = k.model
      BY <3>1, NewTable
    <3> QED BY <3>1, <3>2, <3>3
  <2> QED BY <2>1, <2>2
<1> HIDE DEF gate, e
<1>6. /\ Shape(h) /\ h.nets = e.nets /\ h.const = e.const /\ h.dir = e.dir /\ h.gate = gate
      /\ \A p : Conn(h, p) = Conn(e, p)
  BY <1>3, <1>5, WithGates
<1>7. ASSUME NEW q \in D
      PROVE  /\ q[1] \in DOMAIN d.gate /\ d.gate[q[1]].model = "SB_LUT4" /\ q[2] \in LutIn /\ q = <<q[1], q[2]>>
             /\ PortOf(h, q) /\ Inner(d, q) /\ ~IsOutput(c, q)
  <2>1. q[1] \in DOMAIN d.gate /\ d.gate[q[1]].model = "SB_LUT4" /\ q[2] \in LutIn /\ q = <<q[1], q[2]>>
    BY DEF GatesOf
  <2>2. q[1] # Top /\ q[1] \notin Pads(d)
    BY <1>2, <2>1 DEF Shape, Numbered, Top, Pads
  <2>3. PortOf(h, q)
    BY <1>5, <1>6, <2>1 DEF PortOf, PortsOf
  <2>4. ~IsOutput(c, q)
    BY <2>1, <2>2 DEF IsOutput, LutIn, OutputPorts
  <2> QED BY <2>1, <2>2, <2>3, <2>4 DEF Inner
<1> HIDE DEF h, c
<1>8. DOMAIN f = D /\ \A q \in D : f[q] = z
  OBVIOUS
<1> HIDE DEF f, D, z
<1>9. /\ c.nets = h.nets /\ c.const = h.const /\ c.dir = h.dir /\ c.gate = h.gate
      /\ \A p : Conn(c, p) = IF p \in D THEN z ELSE Conn(h, p)
  BY <1>6, <1>8, ConnectFields, ShapeConn DEF c
<1>10. Shape(c)
  BY <1>4, <1>6, <1>7, <1>8, ConnectShape DEF c
<1>11. Pads(c) = Pads(d) /\ GatesOf(c, "SB_IO_OD") = {} /\ GatesOf(c, "$_TBUF_") = {}
  <2>1. DOMAIN c.gate = DOMAIN d.gate /\ \A g \in DOMAIN c.gate : c.gate[g].model = d.gate[g].model
    BY <1>5, <1>6, <1>9
  <2> QED BY <1>2, <2>1, SameModels
<1>12. \A n \in DOMAIN c.const : n \in DOMAIN d.const \/ n \notin d.nets
  BY <1>3, <1>6, <1>9
<1>13. \A p : Conn(c, p) = IF p \in D THEN z ELSE Conn(d, p)
  BY <1>3, <1>6, <1>9
<1>14. ASSUME NEW m \in c.nets \ d.nets PROVE ~ManyDrivers(c, m)
  <2>1. m # None
    BY <1>10, ShapeConn
  <2>2. \A p \in Connections(c, m) : ~IsOutput(c, p)
    <3> SUFFICES ASSUME NEW p \in Connections(c, m) PROVE p \in D
      BY <1>7
    <3>1. Conn(c, p) = m
      BY <1>10, <2>1, ConnFacts
    <3> QED BY <1>2, <1>13, <1>14, <2>1, <3>1, ShapeConn
  <2>3. Drivers(c, m) = {}
    BY <2>2 DEF Drivers
  <2>4. \A p \in Tied(c, m) : p = <<>>
    BY DEF Tied
  <2> QED BY <2>3, <2>4 DEF ManyDrivers, Several
<1>15. \A p : ~Inner(d, p) => Conn(c, p) = Conn(d, p)
  BY <1>7, <1>13
<1>16. \A p : Inner(d, p) /\ ~IsOutput(c, p) /\ Conn(c, p) # None =>
         \/ Conn(c, p) \in DOMAIN c.const \/ Conn(c, p) \notin d.nets
         \/ \E q : Inner(d, q) /\ Conn(d, q) = Conn(c, p)
  BY <1>4, <1>6, <1>9, <1>13
<1>17. ASSUME NEW p, Inner(d, p), IsOutput(c, p), Conn(c, p) \in d.nets
       PROVE  src[p] = p /\ p[1] # Top /\ IsOutput(d, p) /\ Conn(d, p) = Conn(c, p)
  <2>1. Conn(d, p) = Conn(c, p) /\ Conn(d, p) # None
    BY <1>2, <1>7, <1>13, <1>17, ShapeConn
  <2>2. p \in DOMAIN d.conn
    BY <1>2, <2>1, ConnFacts
  <2> QED BY <1>17, <2>1, <2>2 DEF Inner, IsOutput
<1> HIDE DEF src
<1>18. c.dir = d.dir
  BY <1>3, <1>6, <1>9
<1>19. Rewired(d, c, src)
  BY <1>10, <1>11, <1>12, <1>14, <1>15, <1>16, <1>17, <1>18 DEF Rewired
<1>20. Tidy(c)
  BY <1>19, RewiredTidy
<1>21. HasConsts(c)
  BY <1>3, <1>6, <1>9 DEF HasConsts
<1> QED BY <1>1, <1>20, <1>21

(* Gate g becomes a cell, with the output of the port out, and the gates R *)
(* go: the other ports of the cell are at nets of g or R, or at constants. *)
CellMade(e, c, g, R, out, f) ==
  /\ Shape(c) /\ c.nets = e.nets /\ c.const = e.const /\ c.dir = e.dir
  /\ g \in DOMAIN e.gate \ Pads(e) /\ R \subseteq DOMAIN e.gate \ (Pads(e) \cup {g})
  /\ DOMAIN c.gate = DOMAIN e.gate \ R /\ c.gate[g].model = "ICESTORM_LC"
  /\ \A h \in DOMAIN c.gate : h # g => c.gate[h] = e.gate[h]
  /\ \A p : p[1] \notin R \cup {g} => Conn(c, p) = Conn(e, p)
  /\ \A p : p[1] \in R => Conn(c, p) = None
  /\ \A p : p[1] = g /\ Conn(c, p) # None => p = <<g, p[2]>> /\ p[2] \in DOMAIN f
  /\ \A x \in DOMAIN f : Conn(c, <<g, x>>) = f[x]
  /\ out[1] = g /\ out[2] \in OutputPorts
  /\ DOMAIN f \subseteq PortsOf("ICESTORM_LC") /\ f["O"] = Conn(e, out)
  /\ \A x \in DOMAIN f \ {"O"} :
       f[x] = None \/ f[x] \in DOMAIN e.const \/ \E q : q[1] \in R \cup {g} /\ Conn(e, q) = f[x]

LEMMA CellTidy ==
  ASSUME NEW e, Tidy(e), HasConsts(e), NEW c, NEW g, NEW R, NEW out, NEW f, CellMade(e, c, g, R, out, f)
  PROVE  Tidy(c) /\ HasConsts(c)
<1> DEFINE src == [p \in DOMAIN c.conn |-> IF p = <<g, "O">> THEN out ELSE p]
<1>1. Shape(e) /\ Plain(e) /\ GatesOf(e, "$_TBUF_") = {} /\ GatesOf(e, "SB_IO_OD") = {}
  BY DEF Tidy, Plain
<1>2. /\ Shape(c) /\ c.nets = e.nets /\ c.const = e.const /\ c.dir = e.dir
      /\ g \in DOMAIN e.gate \ Pads(e) /\ R \subseteq DOMAIN e.gate \ (Pads(e) \cup {g})
      /\ DOMAIN c.gate = DOMAIN e.gate \ R /\ c.gate[g].model = "ICESTORM_LC"
      /\ \A h \in DOMAIN c.gate : h # g => c.gate[h] = e.gate[h]
  BY DEF CellMade
<1>3. ASSUME NEW p, p[1] \in R \cup {g} PROVE p[1] # Top /\ p[1] \notin Pads(e) /\ Inner(e, p)
  BY <1>1, <1>2, <1>3 DEF Inner, Shape, Numbered, Top
<1>4. Pads(c) = Pads(e) /\ GatesOf(c, "SB_IO_OD") = {} /\ GatesOf(c, "$_TBUF_") = {}
  BY <1>1, <1>2 DEF Pads, GatesOf
<1>5. ASSUME NEW p, ~Inner(e, p) PROVE Conn(c, p) = Conn(e, p)
  BY <1>3, <1>5 DEF CellMade
<1>6. ASSUME NEW p, p[1] = g, Conn(c, p) # None PROVE p = <<g, p[2]>> /\ p[2] \in DOMAIN f /\ Conn(c, p) = f[p[2]]
  BY <1>6 DEF CellMade
<1>7. ASSUME NEW p, p[1] = g, Conn(c, p) # None, IsOutput(c, p) PROVE p = <<g, "O">> /\ Conn(c, p) = Conn(e, out)
  <2>1. p = <<g, p[2]>> /\ p[2] \in DOMAIN f /\ Conn(c, p) = f[p[2]]
    BY <1>6, <1>7
  <2>2. p[2] \in PortsOf("ICESTORM_LC")
    BY <2>1 DEF CellMade
  <2>3. p[2] \in OutputPorts
    BY <1>3, <1>7 DEF IsOutput
  <2>4. p[2] = "O"
    BY <2>2, <2>3 DEF PortsOf, LutIn, OutputPorts
  <2> QED BY <2>1, <2>4 DEF CellMade
<1>8. ASSUME NEW p, Inner(e, p), ~IsOutput(c, p), Conn(c, p) # None
      PROVE  Conn(c, p) \in DOMAIN c.const \/ \E q : Inner(e, q) /\ Conn(e, q) = Conn(c, p)
  <2>1. CASE p[1] = g
    <3>1. p = <<g, p[2]>> /\ p[2] \in DOMAIN f /\ Conn(c, p) = f[p[2]]
      BY <1>6, <1>8, <2>1
    <3>2. p[2] # "O"
      BY <1>3, <1>8, <2>1 DEF IsOutput, OutputPorts
    <3>3. f[p[2]] \in DOMAIN e.const \/ \E q : q[1] \in R \cup {g} /\ Conn(e, q) = f[p[2]]
      BY <1>8, <3>1, <3>2 DEF CellMade
    <3> QED BY <1>2, <1>3, <3>1, <3>3
  <2>2. CASE p[1] \in R
    BY <1>8, <2>2 DEF CellMade
  <2>3. CASE p[1] \notin R \cup {g}
    BY <1>8, <2>3 DEF CellMade
  <2> QED BY <2>1, <2>2, <2>3
<1>9. ASSUME NEW p, Inner(e, p), IsOutput(c, p), Conn(c, p) \in e.nets
      PROVE  /\ src[p] = IF p[1] = g THEN out ELSE p
             /\ src[p][1] # Top /\ IsOutput(e, src[p]) /\ Conn(e, src[p]) = Conn(c, p)
             /\ p[1] = g => p = <<g, "O">>
  <2>1. Conn(c, p) # None
    BY <1>1, <1>9, ShapeConn
  <2>2. p \in DOMAIN c.conn
    BY <1>2, <2>1, ConnFacts
  <2>3. CASE p[1] = g
    <3>1. p = <<g, "O">> /\ Conn(c, p) = Conn(e, out)
      BY <1>7, <1>9, <2>1, <2>3
    <3>2. out[1] = g /\ out[2] \in OutputPorts
      BY DEF CellMade, OutputPorts
    <3>3. IsOutput(e, out) /\ out[1] # Top
      BY <1>3, <3>2 DEF IsOutput
    <3> QED BY <2>2, <3>1, <3>2, <3>3
  <2>4. CASE p[1] # g
    <3>1. p[1] \notin R
      BY <2>1 DEF CellMade
    <3>2. Conn(e, p) = Conn(c, p)
      BY <2>4, <3>1 DEF CellMade
    <3>3. src[p] = p
      BY <2>2, <2>4
    <3> QED BY <1>9, <2>4, <3>2, <3>3 DEF Inner, IsOutput
  <2> QED BY <2>3, <2>4
<1>10. ASSUME NEW p, Inner(e, p), IsOutput(c, p), Conn(c, p) \in e.nets,
              NEW q, Inner(e, q), IsOutput(c, q), Conn(c, q) \in e.nets, src[p] = src[q], p # q
       PROVE  FALSE
  <2> SUFFICES ASSUME NEW u, NEW w, u[1] = g, w[1] # g, src[u] = src[w],
                      Inner(e, u), IsOutput(c, u), Conn(c, u) \in e.nets,
                      Inner(e, w), IsOutput(c, w), Conn(c, w) \in e.nets
               PROVE  FALSE
    BY <1>9, <1>10
  <2>1. src[w] = w /\ src[u] = out
    BY <1>9
  <2> QED BY <2>1 DEF CellMade
<1> HIDE DEF src
<1>11. Rewired(e, c, src)
  BY <1>2, <1>4, <1>5, <1>8, <1>9, <1>10 DEF Rewired
<1> QED BY <1>2, <1>11, RewiredTidy DEF HasConsts

LEMMA BecomeLc ==
  ASSUME NEW e, Shape(e), NEW g \in DOMAIN e.gate, NEW par, NEW f,
         DOMAIN f \subseteq PortsOf("ICESTORM_LC"), \A x \in DOMAIN f : f[x] = None \/ f[x] \in e.nets,
         NEW b, b = Become(e, g, "ICESTORM_LC", par, f)
  PROVE  /\ Shape(b) /\ b.nets = e.nets /\ b.const = e.const /\ b.dir = e.dir
         /\ DOMAIN b.gate = DOMAIN e.gate /\ b.gate[g].model = "ICESTORM_LC"
         /\ (\A h \in DOMAIN e.gate : h # g => b.gate[h] = e.gate[h])
         /\ (\A p : p[1] # g => Conn(b, p) = Conn(e, p))
         /\ (\A x \in DOMAIN f : Conn(b, <<g, x>>) = f[x])
         /\ (\A p : p[1] = g /\ Conn(b, p) # None => p = <<g, p[2]>> /\ p[2] \in DOMAIN f)
<1> DEFINE model == "ICESTORM_LC"
<1>2. model \in Models
  BY DEF Models
<1>3. DOMAIN f \subseteq PortsOf(model) /\ b = Become(e, g, model, par, f)
  OBVIOUS
<1> HIDE DEF model
<1>4. Shape(b) /\ b.nets = e.nets /\ b.const = e.const /\ b.dir = e.dir
  BY <1>2, <1>3, BecomeFields
<1>5. DOMAIN b.gate = DOMAIN e.gate \cup {g} /\ b.gate[g].model = model
  BY <1>2, <1>3, BecomeFields
<1>6. \A h \in DOMAIN e.gate : h # g => b.gate[h] = e.gate[h]
  BY <1>2, <1>3, BecomeFields
<1>7. \A p : p[1] # g => Conn(b, p) = Conn(e, p)
  BY <1>2, <1>3, BecomeFields
<1>8. \A x \in DOMAIN f : Conn(b, <<g, x>>) = f[x]
  BY <1>2, <1>3, BecomeFields
<1>9. \A p : p[1] = g /\ Conn(b, p) # None => p = <<g, p[2]>> /\ p[2] \in DOMAIN f
  BY <1>2, <1>3, BecomeFields
<1>10. DOMAIN b.gate = DOMAIN e.gate
  BY <1>5
<1> QED BY <1>4, <1>5, <1>6, <1>7, <1>8, <1>9, <1>10 DEF model

LEMMA BecomeCell ==
  ASSUME NEW e, Shape(e), NEW g \in DOMAIN e.gate \ Pads(e), NEW R, R \subseteq DOMAIN e.gate \ (Pads(e) \cup {g}),
         NEW out, out[1] = g, out[2] \in OutputPorts, NEW par, NEW f,
         DOMAIN f \subseteq PortsOf("ICESTORM_LC"), f["O"] = Conn(e, out),
         \A x \in DOMAIN f : f[x] = None \/ f[x] \in e.nets,
         \A x \in DOMAIN f \ {"O"} :
           f[x] = None \/ f[x] \in DOMAIN e.const \/ \E q : q[1] \in R \cup {g} /\ Conn(e, q) = f[x],
         NEW b, b = Become(e, g, "ICESTORM_LC", par, f),
         NEW c, (R = {} /\ c = b) \/ c = RemoveGates(b, R)
  PROVE  CellMade(e, c, g, R, out, f)
<1>1. g \in DOMAIN e.gate
  OBVIOUS
<1>2. /\ Shape(b) /\ b.nets = e.nets /\ b.const = e.const /\ b.dir = e.dir
      /\ DOMAIN b.gate = DOMAIN e.gate /\ b.gate[g].model = "ICESTORM_LC"
      /\ (\A h \in DOMAIN e.gate : h # g => b.gate[h] = e.gate[h])
      /\ (\A p : p[1] # g => Conn(b, p) = Conn(e, p))
      /\ (\A x \in DOMAIN f : Conn(b, <<g, x>>) = f[x])
      /\ (\A p : p[1] = g /\ Conn(b, p) # None => p = <<g, p[2]>> /\ p[2] \in DOMAIN f)
  BY <1>1, BecomeLc
<1>3. /\ Shape(c) /\ c.nets = b.nets /\ c.const = b.const /\ c.dir = b.dir
      /\ DOMAIN c.gate = DOMAIN b.gate \ R /\ (\A h \in DOMAIN c.gate : c.gate[h] = b.gate[h])
      /\ (\A p : Conn(c, p) = IF p[1] \in R THEN None ELSE Conn(b, p))
  <2>1. CASE R = {} /\ c = b
    BY <1>2, <2>1
  <2>2. CASE c = RemoveGates(b, R)
    BY <1>2, <2>2, RemoveGatesFields, RemoveGatesShape, ShapeConn
  <2> QED BY <2>1, <2>2
<1>4. DOMAIN c.gate = DOMAIN e.gate \ R /\ c.gate[g].model = "ICESTORM_LC"
      /\ \A h \in DOMAIN c.gate : h # g => c.gate[h] = e.gate[h]
  BY <1>2, <1>3
<1>5. /\ \A p : p[1] \notin R \cup {g} => Conn(c, p) = Conn(e, p)
      /\ \A p : p[1] \in R => Conn(c, p) = None
      /\ \A p : p[1] = g /\ Conn(c, p) # None => p = <<g, p[2]>> /\ p[2] \in DOMAIN f
  BY <1>2, <1>3
<1>6. \A x \in DOMAIN f : Conn(c, <<g, x>>) = f[x]
  BY <1>2, <1>3
<1> QED BY <1>2, <1>3, <1>4, <1>5, <1>6 DEF CellMade

LEMMA PackLutStep ==
  ASSUME Tidy(d), HasConsts(d), PackLut
  PROVE  Tidy(d') /\ HasConsts(d')
<1>1. PICK g \in GatesOf(d, "SB_LUT4") :
        d' = Become(d, g, "ICESTORM_LC", LcP(d.gate[g].p.init, FALSE, FALSE, FALSE, FALSE),
                    Over(FromLut(g), [O |-> Conn(d, <<g, "O">>)]))
  BY DEF PackLut
<1> DEFINE f == Over(FromLut(g), [O |-> Conn(d, <<g, "O">>)])
           lut == FromLut(g)
           o == [O |-> Conn(d, <<g, "O">>)]
           out == <<g, "O">>
<1>2. DOMAIN lut = LutIn /\ (\A x \in LutIn : lut[x] = Conn(d, <<g, x>>))
      /\ DOMAIN o = {"O"} /\ o["O"] = Conn(d, <<g, "O">>)
  BY DEF FromLut
<1>3. f = Over(lut, o)
  OBVIOUS
<1> HIDE DEF f, lut, o
<1>4. DOMAIN f = LutIn \cup {"O"} /\ \A x \in DOMAIN f : f[x] = Conn(d, <<g, x>>)
  BY <1>2, <1>3 DEF Over, LutIn
<1>5. Shape(d)
  BY DEF Tidy, Plain
<1>6. g \in DOMAIN d.gate \ Pads(d)
  BY DEF GatesOf, Pads
<1>7. DOMAIN f \subseteq PortsOf("ICESTORM_LC") /\ f["O"] = Conn(d, out)
  BY <1>4 DEF PortsOf
<1>8. \A x \in DOMAIN f : f[x] = None \/ f[x] \in d.nets
  BY <1>4, <1>5, ShapeConn
<1>9. \A x \in DOMAIN f : \E q : q[1] \in {} \cup {g} /\ Conn(d, q) = f[x]
  BY <1>4
<1>10. d' = Become(d, g, "ICESTORM_LC", LcP(d.gate[g].p.init, FALSE, FALSE, FALSE, FALSE), f)
  BY <1>1 DEF f
<1> HIDE DEF out
<1>11. out[1] = g /\ out[2] \in OutputPorts
  BY DEF out, OutputPorts
<1>12. CellMade(d, d', g, {}, out, f)
  BY <1>5, <1>6, <1>7, <1>8, <1>9, <1>10, <1>11, BecomeCell
<1> QED BY <1>12, CellTidy

LEMMA EndPackStep ==
  ASSUME Tidy(d), EndPack
  PROVE  Tidy(d') /\ Live(d')
BY PruneTidy DEF EndPack

LEMMA FromDffFacts ==
  ASSUME Tidy(d), HasConsts(d), NEW g
  PROVE  /\ DOMAIN FromDff(g) = {"O", "CLK", "CEN", "SR"} /\ FromDff(g)["O"] = Conn(d, <<g, "Q">>)
         /\ \A x \in DOMAIN FromDff(g) :
              FromDff(g)[x] \in DOMAIN d.const \/ \E y : FromDff(g)[x] = Conn(d, <<g, y>>)
         /\ DOMAIN PassThrough(g) = LutIn
         /\ \A x \in DOMAIN PassThrough(g) :
              PassThrough(g)[x] \in DOMAIN d.const \/ \E y : PassThrough(g)[x] = Conn(d, <<g, y>>)
         /\ DOMAIN FromLut(g) = LutIn
         /\ \A x \in DOMAIN FromLut(g) : FromLut(g)[x] = Conn(d, <<g, x>>)
<1>1. ConstNet(d, 0) \in DOMAIN d.const /\ ConstNet(d, 1) \in DOMAIN d.const
  BY ConstNetFacts DEF HasConsts, Tidy, Plain
<1>2. DOMAIN FromDff(g) = {"O", "CLK", "CEN", "SR"} /\ FromDff(g)["O"] = Conn(d, <<g, "Q">>)
  BY DEF FromDff
<1>3. ASSUME NEW x \in DOMAIN FromDff(g)
      PROVE  FromDff(g)[x] \in DOMAIN d.const \/ \E y : FromDff(g)[x] = Conn(d, <<g, y>>)
  <2> DEFINE k == FromDff(g)
             par == d.gate[g].p
  <2>1. /\ k["O"] = Conn(d, <<g, "Q">>) /\ k["CLK"] = Conn(d, <<g, "C">>)
        /\ k["CEN"] = IF par.cen THEN Conn(d, <<g, "E">>) ELSE ConstNet(d, 1)
        /\ k["SR"] = IF par.sr = "" THEN ConstNet(d, 0) ELSE Conn(d, <<g, IF par.sr \in {"S", "SS"} THEN "S" ELSE "R">>)
    BY DEF FromDff
  <2> DEFINE reset == IF par.sr \in {"S", "SS"} THEN "S" ELSE "R"
  <2>2. k["SR"] = ConstNet(d, 0) \/ k["SR"] = Conn(d, <<g, reset>>)
    BY <2>1
  <2>3. k["CEN"] = ConstNet(d, 1) \/ k["CEN"] = Conn(d, <<g, "E">>)
    BY <2>1
  <2> HIDE DEF k, reset, par
  <2>4. x \in {"O", "CLK", "CEN", "SR"}
    BY <1>2, <1>3
  <2>5. k[x] \in DOMAIN d.const \/ \E y : k[x] = Conn(d, <<g, y>>)
    BY <1>1, <2>1, <2>2, <2>3, <2>4
  <2> QED BY <2>5 DEF k
<1>4. DOMAIN PassThrough(g) = LutIn
      /\ \A x \in DOMAIN PassThrough(g) :
           PassThrough(g)[x] \in DOMAIN d.const \/ \E y : PassThrough(g)[x] = Conn(d, <<g, y>>)
  BY <1>1 DEF PassThrough
<1>5. DOMAIN FromLut(g) = LutIn /\ \A x \in DOMAIN FromLut(g) : FromLut(g)[x] = Conn(d, <<g, x>>)
  BY DEF FromLut
<1> QED BY <1>2, <1>3, <1>4, <1>5

LEMMA PackDffStep ==
  ASSUME Tidy(d), HasConsts(d), PackDff
  PROVE  Tidy(d') /\ HasConsts(d')
<1>1. PICK g \in GatesOf(d, "SB_DFF") :
        IF LutBefore(g) = {}
        THEN d' = Become(d, g, "ICESTORM_LC", DffP({{"I0"}}, d.gate[g].p), Over(FromDff(g), PassThrough(g)))
        ELSE \E lut \in LutBefore(g) :
               d' = RemoveGates(Become(d, g, "ICESTORM_LC", DffP(d.gate[lut].p.init, d.gate[g].p),
                                       Over(FromDff(g), FromLut(lut))), {lut})
  BY DEF PackDff
<1> DEFINE dff == FromDff(g)
           out == <<g, "Q">>
<1>2. Shape(d) /\ DOMAIN d.const \subseteq d.nets
  BY DEF Tidy, Plain, Shape
<1>3. g \in DOMAIN d.gate \ Pads(d) /\ d.gate[g].model = "SB_DFF"
  BY DEF GatesOf, Pads
<1>4. out[1] = g /\ out[2] \in OutputPorts
  BY DEF OutputPorts
<1>5. /\ DOMAIN dff = {"O", "CLK", "CEN", "SR"} /\ dff["O"] = Conn(d, out)
      /\ \A x \in DOMAIN dff : dff[x] \in DOMAIN d.const \/ \E y : dff[x] = Conn(d, <<g, y>>)
  BY FromDffFacts
<1> HIDE DEF dff, out
<1>6. ASSUME NEW h, NEW lut, NEW R, R \subseteq {lut}, R \subseteq DOMAIN d.gate \ (Pads(d) \cup {g}),
             DOMAIN h = LutIn,
             \A x \in LutIn : h[x] \in DOMAIN d.const \/ \E q : q[1] \in R \cup {g} /\ h[x] = Conn(d, q),
             NEW par, NEW f, f = Over(dff, h),
             NEW b, b = Become(d, g, "ICESTORM_LC", par, f), NEW c, (R = {} /\ c = b) \/ c = RemoveGates(b, R)
      PROVE  Tidy(c) /\ HasConsts(c)
  <2>1. DOMAIN f = DOMAIN dff \cup LutIn
        /\ (\A x \in DOMAIN dff : f[x] = dff[x]) /\ (\A x \in DOMAIN f \ DOMAIN dff : x \in LutIn /\ f[x] = h[x])
    BY <1>6 DEF Over
  <2>2. DOMAIN f \subseteq PortsOf("ICESTORM_LC") /\ f["O"] = Conn(d, out)
    BY <1>5, <2>1 DEF PortsOf
  <2>3. ASSUME NEW x \in DOMAIN f
        PROVE  f[x] \in DOMAIN d.const \/ \E q : q[1] \in R \cup {g} /\ Conn(d, q) = f[x]
    <3>1. CASE x \in DOMAIN dff
      <4>1. dff[x] \in DOMAIN d.const \/ \E y : dff[x] = Conn(d, <<g, y>>)
        BY <1>5, <3>1
      <4>2. \A y : <<g, y>>[1] = g
        OBVIOUS
      <4> QED BY <2>1, <3>1, <4>1, <4>2
    <3>2. CASE x \notin DOMAIN dff
      BY <1>6, <2>1, <3>2
    <3> QED BY <3>1, <3>2
  <2>4. \A x \in DOMAIN f : f[x] = None \/ f[x] \in d.nets
    BY <1>2, <2>3, ShapeConn
  <2>5. CellMade(d, c, g, R, out, f)
    <3>1. \A x \in DOMAIN f \ {"O"} :
            f[x] = None \/ f[x] \in DOMAIN d.const \/ \E q : q[1] \in R \cup {g} /\ Conn(d, q) = f[x]
      BY <2>3
    <3>2. R \subseteq DOMAIN d.gate \ (Pads(d) \cup {g})
      BY <1>6
    <3>3. b = Become(d, g, "ICESTORM_LC", par, f) /\ ((R = {} /\ c = b) \/ c = RemoveGates(b, R))
      BY <1>6
    <3> QED BY <1>2, <1>3, <1>4, <2>2, <2>4, <3>1, <3>2, <3>3, BecomeCell
  <2> QED BY <2>5, CellTidy
<1>7. CASE LutBefore(g) = {}
  <2> DEFINE h == PassThrough(g)
             par == DffP({{"I0"}}, d.gate[g].p)
             f == Over(dff, h)
             R == {}
  <2>1. d' = Become(d, g, "ICESTORM_LC", par, f)
    BY <1>1, <1>7 DEF dff
  <2>2. DOMAIN h = LutIn /\ \A x \in LutIn : h[x] \in DOMAIN d.const \/ \E y : h[x] = Conn(d, <<g, y>>)
    BY FromDffFacts
  <2> HIDE DEF h, par
  <2>3. \A x \in LutIn : h[x] \in DOMAIN d.const \/ \E q : q[1] \in R \cup {g} /\ h[x] = Conn(d, q)
    <3>1. \A y : <<g, y>>[1] = g
      OBVIOUS
    <3> QED BY <2>2, <3>1
  <2>4. R \subseteq {g} /\ R \subseteq DOMAIN d.gate \ (Pads(d) \cup {g}) /\ R = {}
    OBVIOUS
  <2>5. f = Over(dff, h)
    OBVIOUS
  <2> HIDE DEF R, f
  <2> QED BY <1>6, <2>1, <2>2, <2>3, <2>4, <2>5
<1>8. CASE LutBefore(g) # {}
  <2>1. PICK lut \in LutBefore(g) :
          d' = RemoveGates(Become(d, g, "ICESTORM_LC", DffP(d.gate[lut].p.init, d.gate[g].p),
                                  Over(FromDff(g), FromLut(lut))), {lut})
    BY <1>1, <1>8
  <2> DEFINE h == FromLut(lut)
             par == DffP(d.gate[lut].p.init, d.gate[g].p)
             f == Over(dff, h)
             R == {lut}
             b == Become(d, g, "ICESTORM_LC", par, f)
  <2>2. d' = RemoveGates(b, R)
    BY <2>1 DEF dff
  <2>3. DOMAIN h = LutIn /\ \A x \in LutIn : h[x] = Conn(d, <<lut, x>>)
    BY FromDffFacts
  <2>4. lut \in DOMAIN d.gate /\ d.gate[lut].model = "SB_LUT4"
    <3>1. PICK q \in OtherPort(d, <<g, "D">>) : q[1] # Top /\ d.gate[q[1]].model = "SB_LUT4" /\ lut = q[1]
      BY DEF LutBefore
    <3>2. q \in DOMAIN d.conn
      BY DEF OtherPort, Connections
    <3> QED BY <1>2, <3>1, <3>2, ConnFacts DEF PortOf
  <2> HIDE DEF h, par
  <2>5. \A x \in LutIn : h[x] \in DOMAIN d.const \/ \E q : q[1] \in R \cup {g} /\ h[x] = Conn(d, q)
    <3>1. \A y : <<lut, y>>[1] = lut
      OBVIOUS
    <3> QED BY <2>3, <3>1
  <2>6. R \subseteq {lut} /\ R \subseteq DOMAIN d.gate \ (Pads(d) \cup {g})
    BY <1>3, <2>4 DEF Pads
  <2>7. f = Over(dff, h) /\ b = Become(d, g, "ICESTORM_LC", par, f)
    OBVIOUS
  <2> HIDE DEF R, f, b
  <2> QED BY <1>6, <2>2, <2>3, <2>5, <2>6, <2>7
<1> QED BY <1>7, <1>8

-----------------------------------------------------------------------------
(* realize_constants(): a new cell, on a net of its own, for inputs S.     *)
Realizable(e, S) == \A p \in S : Inner(e, p) /\ ~IsOutput(e, p) /\ Conn(e, p) \in DOMAIN e.const

CellAdded(e, c, S, k, z) ==
  /\ Shape(c) /\ c.dir = e.dir
  /\ k # Top /\ k \notin DOMAIN e.gate /\ DOMAIN c.gate = DOMAIN e.gate \cup {k} /\ c.gate[k].model = "ICESTORM_LC"
  /\ \A g \in DOMAIN e.gate : c.gate[g] = e.gate[g]
  /\ e.nets \subseteq c.nets /\ k \in c.nets \ e.nets /\ k \notin DOMAIN c.const
  /\ \A m \in c.nets \ e.nets : m = k \/ m \in DOMAIN c.const
  /\ DOMAIN e.const \subseteq DOMAIN c.const /\ \A m \in DOMAIN e.const : c.const[m] = e.const[m]
  /\ \A m \in DOMAIN c.const : m \in DOMAIN e.const \/ m \notin e.nets
  /\ z \in DOMAIN c.const /\ c.const[z] = 0
  /\ \A p : p \notin S /\ p[1] # k => Conn(c, p) = Conn(e, p)
  /\ \A p \in S : p[1] # k /\ Conn(c, p) = k
  /\ \A p : p[1] = k /\ Conn(c, p) # None => (p[2] \in LutIn /\ Conn(c, p) = z) \/ (p[2] = "O" /\ Conn(c, p) = k)
  /\ \E p : p[1] = k /\ p[2] = "O" /\ Conn(c, p) = k

LEMMA RealizeFields ==
  ASSUME NEW e, Shape(e), NEW v, NEW S, S # {}, Realizable(e, S), NEW c, c = Realize(e, v, S)
  PROVE  \E k, z : CellAdded(e, c, S, k, z)
<1> DEFINE f == WithConst(e, 0)
           k == NewNet(f)
           z == ConstNet(f, 0)
           par == LcP(IF v = 1 THEN {{}} ELSE {}, FALSE, FALSE, FALSE, FALSE)
           a == AddNet(f)
           b == SetGate(a, k, "ICESTORM_LC", par)
           ins == {<<k, x>> : x \in LutIn}
           h1 == [p \in ins |-> z]
           outs == {<<k, "O">>} \cup S
           h2 == [p \in outs |-> k]
           h == Over(h1, h2)
<1>1. c = ConnectAll(b, h)
  BY DEF Realize, NewGate
<1>2. /\ Shape(f) /\ f.dir = e.dir /\ f.gate = e.gate /\ (\A p : Conn(f, p) = Conn(e, p))
      /\ e.nets \subseteq f.nets /\ f.nets \ e.nets = DOMAIN f.const \ DOMAIN e.const
      /\ DOMAIN e.const \subseteq DOMAIN f.const /\ (\A n \in DOMAIN e.const : f.const[n] = e.const[n])
      /\ \E n \in DOMAIN f.const : f.const[n] = 0
  BY WithConstFields
<1> HIDE DEF f
<1>3. z \in DOMAIN f.const /\ f.const[z] = 0 /\ z \in f.nets /\ z # None
  BY <1>2, ConstNetFacts, ShapeConn
<1>4. /\ IsDesign(a) /\ a.nets = f.nets \cup {k} /\ a.const = f.const
      /\ a.dir = f.dir /\ a.gate = f.gate /\ a.temps = f.temps + 1
      /\ (\A p : Conn(a, p) = Conn(f, p))
      /\ Shape(a)
  BY <1>2, AddNetFields, AddNetShape, ShapeConn
<1>5. /\ k \notin f.nets \cup DOMAIN f.gate /\ k # Top /\ k # None
      /\ k \in Nat /\ k <= NName + a.temps
  BY <1>2, <1>4, NewIsNew, NameAssumption DEF Top, None, Shape
<1>6. \A p : p[1] = k => Conn(f, p) = None
  BY <1>2, <1>5, ShapeConn DEF PortOf
<1> HIDE DEF a, k, par, z
<1>7. /\ IsDesign(b) /\ b.nets = a.nets /\ b.const = a.const /\ b.dir = a.dir
      /\ DOMAIN b.gate = DOMAIN a.gate \cup {k} /\ b.gate[k] = [model |-> "ICESTORM_LC", p |-> par]
      /\ (\A g \in DOMAIN a.gate : g # k => b.gate[g] = a.gate[g])
      /\ \A p : Conn(b, p) = Conn(a, p)
  BY <1>4, SetGateFields
<1>8. Shape(b)
  <2>1. Numbered(a, {k}) /\ "ICESTORM_LC" \in Models
    BY <1>5 DEF Numbered, Top, Models
  <2>2. \A p : Conn(a, p) # None /\ p[1] = k => p[2] \in PortsOf("ICESTORM_LC")
    BY <1>4, <1>6
  <2> QED BY <1>4, <2>1, <2>2, SetGateShape
<1> HIDE DEF b
<1>9. b.gate[k].model = "ICESTORM_LC" /\ k \in DOMAIN b.gate
  BY <1>7
<1>10. ASSUME NEW p \in S
       PROVE  Conn(e, p) # None /\ p[1] # k /\ PortOf(b, p)
  <2>1. Conn(e, p) # None
    BY ShapeConn DEF Realizable, Shape
  <2>2. PortOf(f, p) /\ p[1] # Top
    BY <1>2, <2>1, ShapeConn DEF Realizable, Inner
  <2>3. p[1] # k
    BY <1>5, <2>2 DEF PortOf
  <2> QED BY <1>4, <1>7, <2>1, <2>2, <2>3 DEF PortOf
<1>11. /\ DOMAIN h1 = ins /\ (\A p \in ins : h1[p] = z)
       /\ DOMAIN h2 = outs /\ (\A p \in outs : h2[p] = k)
  OBVIOUS
<1>12. \A p \in ins : p = <<k, p[2]>> /\ p[1] = k /\ p[2] \in LutIn
  OBVIOUS
<1>13. \A p \in outs : p \in S \/ (p = <<k, p[2]>> /\ p[1] = k /\ p[2] = "O")
  OBVIOUS
<1>14. S \subseteq outs /\ \E p \in outs : p[1] = k /\ p[2] = "O"
  <2>1. <<k, "O">> \in outs /\ <<k, "O">>[1] = k /\ <<k, "O">>[2] = "O"
    OBVIOUS
  <2> QED BY <2>1
<1>15. \A p \in outs : p \notin ins
  BY <1>10, <1>12, <1>13 DEF LutIn
<1> HIDE DEF h1, h2, ins, outs
<1>16. /\ DOMAIN h = ins \cup outs
       /\ (\A p \in ins : h[p] = z) /\ (\A p \in outs : h[p] = k)
  BY <1>11, <1>15 DEF Over
<1> HIDE DEF h
<1>17. \A p \in DOMAIN h : h[p] \in b.nets /\ PortOf(b, p)
  <2>1. LutIn \cup {"O"} \subseteq PortsOf("ICESTORM_LC")
    BY DEF PortsOf
  <2>2. ASSUME NEW p \in ins PROVE PortOf(b, p)
    BY <1>9, <1>12, <2>1 DEF PortOf
  <2>3. ASSUME NEW p \in outs PROVE PortOf(b, p)
    <3>1. CASE p \in S
      BY <1>10, <3>1
    <3>2. CASE p = <<k, p[2]>> /\ p[1] = k /\ p[2] = "O"
      <4>1. p[2] \in PortsOf("ICESTORM_LC")
        BY <2>1, <3>2
      <4> QED BY <1>9, <3>2, <4>1 DEF PortOf
    <3> QED BY <1>13, <3>1, <3>2
  <2>4. z \in b.nets /\ k \in b.nets
    BY <1>3, <1>4, <1>7
  <2> QED BY <1>16, <2>2, <2>3, <2>4
<1>18. Shape(c)
  BY <1>1, <1>8, <1>17, ConnectShape
<1>19. /\ c.nets = b.nets /\ c.const = b.const /\ c.dir = b.dir /\ c.gate = b.gate
       /\ \A p : Conn(c, p) = IF p \in DOMAIN h THEN h[p] ELSE Conn(b, p)
  BY <1>1, <1>7, ConnectFields
<1>20. \A p : p \notin S /\ p[1] # k => Conn(c, p) = Conn(e, p)
  BY <1>2, <1>4, <1>7, <1>12, <1>13, <1>16, <1>19
<1>21. \A p \in S : p[1] # k /\ Conn(c, p) = k
  BY <1>10, <1>14, <1>16, <1>19
<1>22. ASSUME NEW p, p[1] = k, Conn(c, p) # None
       PROVE  (p[2] \in LutIn /\ Conn(c, p) = z) \/ (p[2] = "O" /\ Conn(c, p) = k)
  <2>1. p \in DOMAIN h
    BY <1>4, <1>6, <1>7, <1>19, <1>22
  <2>2. CASE p \in ins
    BY <1>12, <1>16, <1>19, <2>1, <2>2
  <2>3. CASE p \in outs
    BY <1>10, <1>13, <1>16, <1>19, <1>22, <2>1, <2>3
  <2> QED BY <1>16, <2>1, <2>2, <2>3
<1>23. \E p : p[1] = k /\ p[2] = "O" /\ Conn(c, p) = k
  BY <1>14, <1>16, <1>19
<1>24. /\ c.dir = e.dir /\ k # Top /\ k \notin DOMAIN e.gate /\ DOMAIN c.gate = DOMAIN e.gate \cup {k}
       /\ c.gate[k].model = "ICESTORM_LC" /\ \A g \in DOMAIN e.gate : c.gate[g] = e.gate[g]
  BY <1>2, <1>4, <1>5, <1>7, <1>9, <1>19
<1>25. /\ e.nets \subseteq c.nets /\ k \in c.nets \ e.nets /\ k \notin DOMAIN c.const
       /\ (\A m \in c.nets \ e.nets : m = k \/ m \in DOMAIN c.const)
       /\ (\A m \in DOMAIN c.const : m \in DOMAIN e.const \/ m \notin e.nets)
  <2>1. DOMAIN f.const \subseteq f.nets
    BY <1>2 DEF Shape
  <2> QED BY <1>2, <1>4, <1>5, <1>7, <1>19, <2>1
<1>26. /\ DOMAIN e.const \subseteq DOMAIN c.const /\ (\A m \in DOMAIN e.const : c.const[m] = e.const[m])
       /\ z \in DOMAIN c.const /\ c.const[z] = 0
  BY <1>2, <1>3, <1>4, <1>7, <1>19
<1>27. CellAdded(e, c, S, k, z)
  BY <1>18, <1>20, <1>21, <1>22, <1>23, <1>24, <1>25, <1>26 DEF CellAdded
<1> QED BY <1>27

(* What holds of a netlist whose constants are realized but for inputs S.  *)
Fed(e, n) ==
  /\ \E p : Conn(e, p) = n /\ ~IsOutput(e, p)
  /\ \E p : Conn(e, p) = n /\ ~IsInput(e, p)
NetsFed(e) == \A n \in e.nets \ DOMAIN e.const : Fed(e, n)
ReadsConsts(e, S) ==
  \A p : p \notin S /\ p[1] # Top /\ Conn(e, p) \in DOMAIN e.const =>
           p[2] = "CIN" \/ Undriven(e, p) = e.const[Conn(e, p)]
Ready(e, S) == Tidy(e) /\ NetsFed(e) /\ ReadsConsts(e, S) /\ Realizable(e, S)

LEMMA SameKinds ==
  ASSUME NEW e, NEW c, c.dir = e.dir, NEW p
  PROVE  (IsOutput(c, p) <=> IsOutput(e, p)) /\ (IsInput(c, p) <=> IsInput(e, p))
BY DEF IsOutput, IsInput, IsBidir

LEMMA CellAddedTidy ==
  ASSUME NEW e, NEW S, Tidy(e), Realizable(e, S), NEW c, NEW k, NEW z, CellAdded(e, c, S, k, z)
  PROVE  Tidy(c)
<1> DEFINE src == [p \in DOMAIN e.conn |-> p]
<1>1. Shape(e) /\ Plain(e) /\ GatesOf(e, "$_TBUF_") = {} /\ GatesOf(e, "SB_IO_OD") = {}
  BY DEF Tidy, Plain
<1>2. /\ Shape(c) /\ c.dir = e.dir
      /\ k # Top /\ k \notin DOMAIN e.gate /\ DOMAIN c.gate = DOMAIN e.gate \cup {k} /\ c.gate[k].model = "ICESTORM_LC"
      /\ \A g \in DOMAIN e.gate : c.gate[g] = e.gate[g]
  BY DEF CellAdded
<1>3. Pads(c) = Pads(e) /\ GatesOf(c, "SB_IO_OD") = {} /\ GatesOf(c, "$_TBUF_") = {}
  BY <1>1, <1>2 DEF Pads, GatesOf
<1>4. \A m \in DOMAIN c.const : m \in DOMAIN e.const \/ m \notin e.nets
  BY DEF CellAdded
<1>5. ASSUME NEW p, p[1] = k PROVE Inner(e, p)
  BY <1>2, <1>5 DEF Inner, Pads
<1>6. ASSUME NEW p, ~Inner(e, p) PROVE Conn(c, p) = Conn(e, p)
  BY <1>5, <1>6 DEF CellAdded, Realizable
<1>7. k \notin e.nets /\ z \in DOMAIN c.const /\ k \notin DOMAIN c.const
  BY DEF CellAdded
<1>8. ASSUME NEW p, Inner(e, p), ~IsOutput(c, p), Conn(c, p) # None
      PROVE  \/ Conn(c, p) \in DOMAIN c.const \/ Conn(c, p) \notin e.nets
             \/ \E q : Inner(e, q) /\ Conn(e, q) = Conn(c, p)
  <2>1. CASE p[1] = k
    <3>1. Conn(c, p) = z \/ Conn(c, p) = k
      BY <1>8, <2>1 DEF CellAdded
    <3> QED BY <1>7, <3>1
  <2>2. CASE p \in S
    BY <1>7, <2>2 DEF CellAdded
  <2>3. CASE p \notin S /\ p[1] # k
    BY <1>8, <2>3 DEF CellAdded
  <2> QED BY <2>1, <2>2, <2>3
<1>9. ASSUME NEW p, IsOutput(c, p), Conn(c, p) # None
      PROVE  Conn(c, p) = Conn(e, p) \/ (p[1] = k /\ p[2] = "O" /\ Conn(c, p) = k)
  <2>1. CASE p[1] = k
    <3>1. p[2] \notin LutIn
      BY <1>2, <1>9, <2>1 DEF IsOutput, OutputPorts, LutIn
    <3> QED BY <1>9, <2>1, <3>1 DEF CellAdded
  <2>2. p \notin S
    BY <1>2, <1>9, SameKinds DEF Realizable
  <2>3. CASE p[1] # k
    BY <2>2, <2>3 DEF CellAdded
  <2> QED BY <2>1, <2>3
<1>10. ASSUME NEW p, Inner(e, p), IsOutput(c, p), Conn(c, p) \in e.nets
       PROVE  src[p] = p /\ p[1] # Top /\ IsOutput(e, p) /\ Conn(e, p) = Conn(c, p)
  <2>1. Conn(c, p) # None
    BY <1>1, <1>10, ShapeConn
  <2>2. Conn(e, p) = Conn(c, p)
    BY <1>7, <1>9, <1>10, <2>1
  <2>3. p \in DOMAIN e.conn
    BY <1>1, <2>1, <2>2, ConnFacts
  <2> QED BY <1>2, <1>10, <2>2, <2>3, SameKinds DEF Inner
<1>11. ASSUME NEW m \in c.nets \ e.nets PROVE ~ManyDrivers(c, m)
  <2>1. m # None
    BY <1>2, <1>11, ShapeConn
  <2>2. ASSUME NEW p \in Drivers(c, m) PROVE m = k /\ p = <<k, p[2]>> /\ p[2] = "O"
    <3>1. p \in Connections(c, m) /\ IsOutput(c, p)
      BY DEF Drivers
    <3>2. Conn(c, p) = m /\ p = <<p[1], p[2]>>
      BY <1>2, <2>1, <3>1, ConnFacts, ShapeConn DEF PortOf
    <3>3. Conn(e, p) # m
      BY <1>1, <1>11, <2>1, ShapeConn
    <3> QED BY <1>9, <2>1, <3>1, <3>2, <3>3
  <2>3. ASSUME NEW p \in Drivers(c, m), NEW q \in Drivers(c, m) PROVE p = q
    <3>1. p = <<k, p[2]>> /\ p[2] = "O"
      BY <2>2
    <3>2. q = <<k, q[2]>> /\ q[2] = "O"
      BY <2>2
    <3> QED BY <3>1, <3>2
  <2>4. CASE m = k
    <3>1. Tied(c, m) = {}
      BY <1>7, <2>4 DEF Tied
    <3> QED BY <2>3, <3>1 DEF ManyDrivers, Several
  <2>5. CASE m # k
    <3>1. Drivers(c, m) = {} /\ \A p \in Tied(c, m) : p = <<>>
      BY <2>2, <2>5 DEF Tied
    <3> QED BY <3>1 DEF ManyDrivers, Several
  <2> QED BY <2>4, <2>5
<1> HIDE DEF src
<1>12. Rewired(e, c, src)
  BY <1>2, <1>3, <1>4, <1>6, <1>8, <1>10, <1>11 DEF Rewired
<1> QED BY <1>12, RewiredTidy

LEMMA CellAddedReady ==
  ASSUME NEW e, NEW S, NEW T, S # {}, S \cap T = {}, Ready(e, S \cup T),
         NEW c, NEW k, NEW z, CellAdded(e, c, S, k, z)
  PROVE  Ready(c, T)
<1>1. Shape(e) /\ GatesOf(e, "SB_IO_OD") = {}
  BY DEF Ready, Tidy, Plain
<1>2. /\ Shape(c) /\ c.dir = e.dir
      /\ k # Top /\ k \notin DOMAIN e.gate /\ DOMAIN c.gate = DOMAIN e.gate \cup {k} /\ c.gate[k].model = "ICESTORM_LC"
      /\ (\A g \in DOMAIN e.gate : c.gate[g] = e.gate[g])
      /\ k \in c.nets \ e.nets /\ k \notin DOMAIN c.const /\ z \in DOMAIN c.const /\ c.const[z] = 0
  BY DEF CellAdded
<1>3. Realizable(e, S) /\ Realizable(e, T) /\ Tidy(e)
  BY DEF Ready, Realizable
<1>4. Tidy(c)
  BY <1>3, CellAddedTidy
<1>5. Pads(c) = Pads(e)
  BY <1>2 DEF Pads
<1>6. ASSUME NEW p, Conn(e, p) # None PROVE p[1] # k
  BY <1>1, <1>2, <1>6, ShapeConn DEF PortOf
<1>7. DOMAIN e.const \subseteq DOMAIN c.const /\ (\A m \in DOMAIN e.const : c.const[m] = e.const[m])
      /\ (\A m \in DOMAIN c.const : m \in DOMAIN e.const \/ m \notin e.nets)
      /\ \A p : p \notin S /\ p[1] # k => Conn(c, p) = Conn(e, p)
  BY DEF CellAdded
<1>8. None \notin DOMAIN e.const
  BY <1>1, ShapeConn DEF Shape
<1>9. ASSUME NEW p \in T PROVE Inner(c, p) /\ ~IsOutput(c, p) /\ Conn(c, p) \in DOMAIN c.const
  <2>1. Inner(e, p) /\ ~IsOutput(e, p) /\ Conn(e, p) \in DOMAIN e.const
    BY <1>3 DEF Realizable
  <2>2. Conn(c, p) = Conn(e, p)
    BY <1>6, <1>7, <1>8, <2>1
  <2> QED BY <1>2, <1>5, <1>7, <2>1, <2>2, SameKinds DEF Inner
<1>10. ASSUME NEW n \in c.nets \ DOMAIN c.const PROVE Fed(c, n)
  <2>1. CASE n = k
    <3>1. PICK p \in S : TRUE
      OBVIOUS
    <3>2. Conn(c, p) = n /\ ~IsOutput(c, p)
      BY <1>2, <1>3, <2>1, SameKinds DEF CellAdded, Realizable
    <3>3. PICK q : q[1] = k /\ q[2] = "O" /\ Conn(c, q) = k
      BY DEF CellAdded
    <3>4. ~IsInput(c, q)
      BY <1>2, <3>3 DEF IsInput, IsOutput, OutputPorts
    <3> QED BY <2>1, <3>2, <3>3, <3>4 DEF Fed
  <2>2. CASE n # k
    <3>1. n \in e.nets \ DOMAIN e.const /\ n # None
      BY <1>2, <1>10, <2>2, ShapeConn DEF CellAdded
    <3>2. Fed(e, n)
      BY <3>1 DEF Ready, NetsFed
    <3>3. ASSUME NEW p, Conn(e, p) = n PROVE Conn(c, p) = n
      <4>1. p \notin S
        BY <1>3, <3>1, <3>3 DEF Realizable
      <4> QED BY <1>6, <1>7, <3>1, <3>3, <4>1
    <3> QED BY <1>2, <3>2, <3>3, SameKinds DEF Fed
  <2> QED BY <2>1, <2>2
<1>11. ASSUME NEW p, p \notin T, p[1] # Top, Conn(c, p) \in DOMAIN c.const
       PROVE  p[2] = "CIN" \/ Undriven(c, p) = c.const[Conn(c, p)]
  <2>1. p \notin S
    BY <1>2, <1>11 DEF CellAdded
  <2>2. CASE p[1] = k
    <3>1. Conn(c, p) # None
      BY <1>2, <1>11, ShapeConn DEF Shape
    <3>2. p[2] \in LutIn /\ Conn(c, p) = z
      BY <1>2, <1>11, <2>2, <3>1 DEF CellAdded
    <3>3. Undriven(c, p) = 0
      BY <1>2, <2>2, <3>2 DEF Undriven, LutIn, OpenAtOne
    <3> QED BY <1>2, <3>2, <3>3
  <2>3. CASE p[1] # k
    <3>1. Conn(c, p) = Conn(e, p) /\ Conn(c, p) # None
      BY <1>2, <1>7, <1>11, <2>1, <2>3, ShapeConn DEF Shape
    <3>2. Conn(e, p) \in e.nets /\ p[1] \in DOMAIN e.gate
      BY <1>1, <1>11, <3>1, ShapeConn DEF PortOf
    <3>3. Conn(e, p) \in DOMAIN e.const
      BY <1>7, <1>11, <3>1, <3>2
    <3>4. p[2] = "CIN" \/ Undriven(e, p) = e.const[Conn(e, p)]
      BY <1>11, <2>1, <3>3 DEF Ready, ReadsConsts
    <3>5. Undriven(c, p) = Undriven(e, p)
      BY <1>2, <3>2 DEF Undriven
    <3> QED BY <1>7, <3>1, <3>3, <3>4, <3>5
  <2> QED BY <2>2, <2>3
<1> QED BY <1>4, <1>9, <1>10, <1>11 DEF Ready, NetsFed, ReadsConsts, Realizable

LEMMA RealizeReady ==
  ASSUME NEW e, NEW S, NEW T, S \cap T = {}, Ready(e, S \cup T), NEW v, NEW c, c = Realize(e, v, S)
  PROVE  Ready(c, T)
<1>1. CASE S = {}
  <2>1. c = e /\ S \cup T = T
    BY <1>1 DEF Realize
  <2> QED BY <2>1
<1>2. CASE S # {}
  <2>1. Shape(e) /\ Realizable(e, S)
    BY DEF Ready, Tidy, Plain, Realizable
  <2>2. PICK k, z : CellAdded(e, c, S, k, z)
    BY <1>2, <2>1, RealizeFields
  <2> QED BY <1>2, <2>2, CellAddedReady
<1> QED BY <1>1, <1>2

(* The ports at constant nets are inputs, of gates, and no pad's pin. *)
LEMMA ConstInputs ==
  ASSUME NEW e, Tidy(e), NEW p, Conn(e, p) \in DOMAIN e.const
  PROVE  p[1] # Top /\ IsInput(e, p) /\ Inner(e, p) /\ ~IsOutput(e, p)
<1> DEFINE m == Conn(e, p)
<1>1. Shape(e) /\ Plain(e) /\ GatesOf(e, "SB_IO_OD") = {}
  BY DEF Tidy, Plain
<1>2. m # None /\ m \in e.nets
  BY <1>1, ShapeConn DEF Shape
<1>3. PortOf(e, p) /\ p \in Connections(e, m)
  BY <1>1, <1>2, ConnFacts, ShapeConn
<1>4. ASSUME p[1] = Top PROVE FALSE
  <2> DEFINE x == p[2]
  <2>1. x \in TopPorts(e) /\ p = <<Top, x>>
    BY <1>1, <1>3, <1>4, KindFacts
  <2>2. PICK g \in Pads(e) : Connections(e, m) = {<<Top, x>>, PinOf(g)}
    BY <1>2, <2>1 DEF Tidy, WithPad
  <2>3. Conn(e, PinOf(g)) = m
    BY <1>1, <1>2, <2>2, ConnFacts
  <2> QED BY <1>1, <1>2, <2>3 DEF Plain, PadAlone
<1>5. ASSUME p[1] \in Pads(e), p = PinOf(p[1]) PROVE FALSE
  BY <1>1, <1>2, <1>5 DEF Plain, PadAlone
<1>6. ~IsBidir(e, p)
  BY <1>1, <1>3, <1>4, <1>5, KindFacts
<1>7. ~IsOutput(e, p)
  <2> SUFFICES ASSUME IsOutput(e, p) PROVE FALSE
    OBVIOUS
  <2>1. p \in Drivers(e, m) /\ <<>> \in Tied(e, m)
    BY <1>3 DEF Drivers, Tied
  <2>2. p # <<>>
    <3>1. \A y, z : <<y, z>> # <<>>
      OBVIOUS
    <3> QED BY <1>3, <3>1 DEF PortOf
  <2>3. ManyDrivers(e, m)
    BY <2>1, <2>2 DEF ManyDrivers, Several
  <2> QED BY <1>1, <1>2, <2>3 DEF Plain
<1> QED BY <1>4, <1>5, <1>6, <1>7 DEF IsInput, Inner

AtConsts(e) ==
  \A p \in DOMAIN e.conn :
    e.conn[p] \in DOMAIN e.const \ BoundaryNets(e) =>
      /\ p[1] # Top /\ IsInput(e, p)
      /\ p[2] = "CIN" \/ Undriven(e, p) = e.const[e.conn[p]]

LEMMA UnreadableFacts ==
  ASSUME Tidy(d), Live(d)
  PROVE  Ready(d, Unreadable(0) \cup Unreadable(1)) /\ Unreadable(0) \cap Unreadable(1) = {}
<1> DEFINE U == Unreadable(0) \cup Unreadable(1)
<1>1. Shape(d)
  BY DEF Tidy, Plain
<1>2. \A v : \A p \in Unreadable(v) : p \in DOMAIN d.conn /\ d.conn[p] \in DOMAIN d.const /\ d.const[d.conn[p]] = v
  BY DEF Unreadable
<1>3. \A v : \A p \in Unreadable(v) : Conn(d, p) \in DOMAIN d.const /\ d.const[Conn(d, p)] = v
  BY <1>1, <1>2, ConnFacts
<1>4. Realizable(d, U)
  BY <1>3, ConstInputs DEF Realizable
<1>5. NetsFed(d)
  <2> SUFFICES ASSUME NEW n \in d.nets, n \notin DOMAIN d.const PROVE Fed(d, n)
    BY DEF NetsFed
  <2>1. (\E p \in Connections(d, n) : ~IsOutput(d, p)) /\ (\E p \in Connections(d, n) : ~IsInput(d, p))
    BY DEF Live
  <2>2. n # None
    BY <1>1, ShapeConn
  <2> QED BY <1>1, <2>1, <2>2, ConnFacts DEF Fed
<1>6. ReadsConsts(d, U)
  <2> SUFFICES ASSUME NEW p, p \notin U, p[1] # Top, Conn(d, p) \in DOMAIN d.const, p[2] # "CIN"
               PROVE  Undriven(d, p) = d.const[Conn(d, p)]
    BY DEF ReadsConsts
  <2> DEFINE v == d.const[Conn(d, p)]
  <2>1. v \in {0, 1} /\ Conn(d, p) # None
    BY <1>1, ShapeConn DEF Shape
  <2>2. p \in DOMAIN d.conn /\ d.conn[p] = Conn(d, p) /\ PortOf(d, p)
    BY <1>1, <2>1, ConnFacts
  <2>3. p \notin Unreadable(v)
    BY <2>1
  <2>4. ~(p[2] = "PACKAGE_PIN" /\ d.gate[p[1]].model = "SB_IO")
    <3>1. Inner(d, p)
      BY ConstInputs
    <3>2. p[1] \in DOMAIN d.gate /\ p = <<p[1], p[2]>>
      BY <2>2 DEF PortOf
    <3> QED BY <3>1, <3>2 DEF Inner, Pads, PinOf
  <2> QED BY <2>2, <2>3, <2>4 DEF Unreadable
<1>7. Unreadable(0) \cap Unreadable(1) = {}
  BY <1>3
<1> QED BY <1>4, <1>5, <1>6, <1>7 DEF Ready

(* The constants that are left unused go. *)
LEMMA UnusedGo ==
  ASSUME NEW e, Tidy(e), NEW N, N \subseteq e.nets, \A n \in N : Connections(e, n) = {},
         NEW c, c = RemoveNets(e, N)
  PROVE  /\ Tidy(c) /\ c.dir = e.dir /\ c.gate = e.gate /\ c.nets = e.nets \ N
         /\ DOMAIN c.const = DOMAIN e.const \ N /\ (\A n \in DOMAIN c.const : c.const[n] = e.const[n])
         /\ \A p : Conn(c, p) = Conn(e, p)
<1> DEFINE src == [p \in DOMAIN e.conn |-> p]
<1>1. Shape(e) /\ Plain(e) /\ GatesOf(e, "$_TBUF_") = {} /\ GatesOf(e, "SB_IO_OD") = {}
  BY DEF Tidy, Plain
<1>2. None \notin N
  BY <1>1, ShapeConn
<1>3. /\ Shape(c) /\ c.dir = e.dir /\ c.gate = e.gate /\ c.nets = e.nets \ N
      /\ DOMAIN c.const = DOMAIN e.const \ N /\ (\A n \in DOMAIN c.const : c.const[n] = e.const[n])
      /\ (\A p : Conn(c, p) = IF Conn(e, p) \in N THEN None ELSE Conn(e, p))
  BY <1>1, <1>2, RemoveNetsFields, RemoveNetsShape, ShapeConn
<1>4. ASSUME NEW p PROVE Conn(c, p) = Conn(e, p)
  <2>1. Conn(e, p) # None => p \in Connections(e, Conn(e, p))
    BY <1>1, ConnFacts
  <2> QED BY <1>2, <1>3, <2>1
<1>5. Pads(c) = Pads(e) /\ GatesOf(c, "SB_IO_OD") = {} /\ GatesOf(c, "$_TBUF_") = {}
  BY <1>1, <1>3 DEF Pads, GatesOf
<1>6. ASSUME NEW p, Inner(e, p), IsOutput(c, p), Conn(c, p) \in e.nets
      PROVE  src[p] = p /\ p[1] # Top /\ IsOutput(e, p) /\ Conn(e, p) = Conn(c, p)
  <2>1. p \in DOMAIN e.conn
    BY <1>1, <1>4, <1>6, ConnFacts, ShapeConn
  <2> QED BY <1>3, <1>4, <1>6, <2>1, SameKinds DEF Inner
<1> HIDE DEF src
<1>7. \A n \in DOMAIN c.const : n \in DOMAIN e.const
  BY <1>3
<1>8. c.nets \ e.nets = {}
  BY <1>3
<1>9. Rewired(e, c, src)
  BY <1>3, <1>4, <1>5, <1>6, <1>7, <1>8 DEF Rewired
<1> QED BY <1>3, <1>4, <1>9, RewiredTidy

LEMMA RealizeStep ==
  ASSUME Tidy(d), Live(d), RealizeConstants
  PROVE  Tidy(d') /\ Live(d') /\ AtConsts(d')
<1> DEFINE a == Realize(d, 0, Unreadable(0))
           b == Realize(a, 1, Unreadable(1))
           N == {n \in DOMAIN b.const : Connections(b, n) = {}}
           c == RemoveNets(b, N)
<1>1. d' = c
  BY DEF RealizeConstants, Realized
<1>2. Ready(a, Unreadable(1))
  BY UnreadableFacts, RealizeReady
<1> HIDE DEF a
<1>3. Ready(b, {})
  <2>1. Unreadable(1) \cap {} = {} /\ Unreadable(1) \cup {} = Unreadable(1)
    OBVIOUS
  <2> DEFINE T == {}
  <2>2. Unreadable(1) \cap T = {} /\ Ready(a, Unreadable(1) \cup T)
    BY <1>2, <2>1
  <2> HIDE DEF T
  <2>3. Ready(b, T)
    BY <2>2, RealizeReady
  <2> QED BY <2>3 DEF T
<1> HIDE DEF b
<1>4. Tidy(b) /\ NetsFed(b) /\ ReadsConsts(b, {})
  BY <1>3 DEF Ready
<1>5. Shape(b) /\ DOMAIN b.const \subseteq b.nets /\ N \subseteq b.nets /\ (\A n \in N : Connections(b, n) = {})
  BY <1>4 DEF Tidy, Plain, Shape
<1>6. \A n \in DOMAIN b.const \ N : Connections(b, n) # {}
  OBVIOUS
<1> HIDE DEF N
<1>7. /\ Tidy(c) /\ c.dir = b.dir /\ c.gate = b.gate /\ c.nets = b.nets \ N
      /\ DOMAIN c.const = DOMAIN b.const \ N /\ (\A n \in DOMAIN c.const : c.const[n] = b.const[n])
      /\ \A p : Conn(c, p) = Conn(b, p)
  BY <1>4, <1>5, UnusedGo
<1> HIDE DEF c
<1>8. Shape(c)
  BY <1>7 DEF Tidy, Plain
<1>9. ASSUME NEW n \in c.nets
      PROVE  /\ \E p \in Connections(c, n) : ~IsOutput(c, p)
             /\ n \in DOMAIN c.const \/ \E p \in Connections(c, n) : ~IsInput(c, p)
  <2>1. n # None
    BY <1>8, ShapeConn
  <2>2. CASE n \in DOMAIN c.const
    <3>1. PICK p \in Connections(b, n) : TRUE
      BY <1>6, <1>7, <2>2
    <3>2. Conn(c, p) = n
      BY <1>5, <1>7, <2>1, ConnFacts
    <3>3. p \in Connections(c, n) /\ ~IsOutput(c, p)
      BY <1>7, <1>8, <2>1, <2>2, <3>2, ConnFacts, ConstInputs
    <3> QED BY <2>2, <3>3
  <2>3. CASE n \notin DOMAIN c.const
    <3>1. n \in b.nets \ DOMAIN b.const
      BY <1>7, <2>3
    <3>2. Fed(b, n)
      BY <1>4, <3>1 DEF NetsFed
    <3>3. PICK p : Conn(b, p) = n /\ ~IsOutput(b, p)
      BY <3>2 DEF Fed
    <3>4. PICK q : Conn(b, q) = n /\ ~IsInput(b, q)
      BY <3>2 DEF Fed
    <3>5. p \in Connections(c, n) /\ ~IsOutput(c, p)
      BY <1>7, <1>8, <2>1, <3>3, ConnFacts, SameKinds
    <3>6. q \in Connections(c, n) /\ ~IsInput(c, q)
      BY <1>7, <1>8, <2>1, <3>4, ConnFacts, SameKinds
    <3> QED BY <3>5, <3>6
  <2> QED BY <2>2, <2>3
<1>10. Live(c)
  BY <1>9 DEF Live
<1>11. ASSUME NEW p \in DOMAIN c.conn, c.conn[p] \in DOMAIN c.const
       PROVE  p[1] # Top /\ IsInput(c, p) /\ (p[2] = "CIN" \/ Undriven(c, p) = c.const[c.conn[p]])
  <2>1. c.conn[p] = Conn(c, p)
    BY <1>8, ConnFacts
  <2>2. p[1] # Top /\ IsInput(c, p)
    BY <1>7, <1>11, <2>1, ConstInputs
  <2>3. Conn(b, p) = c.conn[p] /\ Conn(b, p) \in DOMAIN b.const
    BY <1>7, <1>11, <2>1
  <2>4. p[2] = "CIN" \/ Undriven(b, p) = b.const[Conn(b, p)]
    BY <1>4, <2>2, <2>3 DEF ReadsConsts
  <2>5. Undriven(c, p) = Undriven(b, p)
    BY <1>7 DEF Undriven
  <2> QED BY <1>7, <1>11, <2>2, <2>3, <2>4, <2>5
<1>12. AtConsts(c)
  BY <1>11 DEF AtConsts
<1> QED BY <1>1, <1>7, <1>10, <1>12

-----------------------------------------------------------------------------
(* The invariant, stage by stage.                                          *)
StageInv ==
  /\ pc = "open_drain" => Shape(d)
  /\ pc = "inouts" => Shape(d) /\ GatesOf(d, "SB_IO_OD") = {}
  /\ pc = "drivers" => Shape(d) /\ GatesOf(d, "SB_IO_OD") = {} /\ InoutsDriven(d)
  /\ pc = "tbufs" => Checked(d)
  /\ pc = "io" => Between(d, todo)
  /\ pc \in {"luts", "constants", "done"} => Tidy(d) /\ Live(d)
  /\ pc = "dffs" => Tidy(d) /\ HasConsts(d)
  /\ pc = "done" => AtConsts(d)

(* The condition of AssertsHold, on files.                                 *)
PadsTested == pc = "tbufs" => PadsPlain

LEMMA LaterRead ==
  ASSUME ReadInv, file' = file, pc' \notin {"read", "unify"}
  PROVE  ReadInv'
BY DEF ReadInv

LEMMA NextRead == ReadInv /\ UnifyInv /\ [Next]_vars => ReadInv'
<1> SUFFICES ASSUME ReadInv, UnifyInv, [Next]_vars PROVE ReadInv'
  OBVIOUS
<1>1. CASE \E line \in file : ReadPort(line) \/ ReadConstant(line) \/ ReadNames(line) \/ ReadGate(line)
  BY <1>1, ReadInvStep
<1>2. CASE EndOfFile
  BY <1>2 DEF EndOfFile, ReadInv
<1>3. CASE Unify
  BY <1>3, UnifyReadInv
<1>4. CASE RemoveReplaced \/ ReplaceOpenDrain \/ RedirectInouts \/ CheckDrivers \/ CheckTbufs
  BY <1>4, LaterRead
     DEF RemoveReplaced, ReplaceOpenDrain, RedirectInouts, CheckDrivers, CheckTbufs, Go, Fatal
<1>5. CASE (\E x \in todo : InstantiateIo(x)) \/ IoDone \/ OptimizeLuts \/ PackDff \/ PackLut \/ EndPack \/ RealizeConstants
  <2>1. file' = file /\ pc' \in {"io", "inout_undriven", "luts", "dffs", "constants", "done"}
    <3>1. CASE \E x \in todo : InstantiateIo(x)
      <4>1. PICK x \in todo : InstantiateIo(x)
        BY <3>1
      <4>2. Go("io") \/ Go("inout_undriven")
        BY <4>1 DEF InstantiateIo
      <4> QED BY <4>2 DEF Go
    <3> QED BY <1>5, <3>1 DEF IoDone, OptimizeLuts, PackDff, PackLut, EndPack, RealizeConstants, Go
  <2> QED BY <2>1, LaterRead
<1>6. CASE Stopped \/ UNCHANGED vars
  <2>1. UNCHANGED vars
    BY <1>6 DEF Stopped
  <2> QED BY <2>1 DEF vars, ReadInv
<1> QED BY <1>1, <1>2, <1>3, <1>4, <1>5, <1>6 DEF Next

LEMMA NextStage ==
  ASSUME ReadInv, UnifyInv, StageInv, PadsTested, [Next]_vars
  PROVE  StageInv'
<1>1. CASE \E line \in file : ReadPort(line) \/ ReadConstant(line) \/ ReadNames(line) \/ ReadGate(line)
  <2>1. pc' = "read"
    BY <1>1 DEF ReadPort, ReadConstant, ReadNames, ReadGate, Reading
  <2> QED BY <2>1 DEF StageInv
<1>2. CASE EndOfFile
  BY <1>2 DEF EndOfFile, StageInv
<1>3. CASE Unify
  <2>1. pc' \in {"unify", "cycle", "conflict"}
    BY <1>3 DEF Unify, Go, Fatal
  <2> QED BY <2>1 DEF StageInv
<1>4. CASE RemoveReplaced
  <2>1. pc' = "open_drain" /\ Shape(d')
    BY <1>4, RemoveReplacedShape DEF RemoveReplaced, Go
  <2> QED BY <2>1 DEF StageInv
<1>5. CASE ReplaceOpenDrain
  <2>1. pc = "open_drain" /\ pc' \in {"open_drain", "inouts"}
    BY <1>5 DEF ReplaceOpenDrain, Go
  <2>2. Shape(d') /\ (pc' = "inouts" => GatesOf(d', "SB_IO_OD") = {})
    BY <1>5, <2>1, OpenDrainStep DEF StageInv
  <2> QED BY <2>1, <2>2 DEF StageInv
<1>6. CASE RedirectInouts
  <2>1. pc = "inouts" /\ pc' \in {"drivers", "tristate"}
    BY <1>6 DEF RedirectInouts, Go, Fatal
  <2>2. pc' = "drivers" => Shape(d') /\ GatesOf(d', "SB_IO_OD") = {} /\ InoutsDriven(d')
    BY <1>6, <2>1, InoutsStep DEF StageInv
  <2> QED BY <2>1, <2>2 DEF StageInv
<1>7. CASE CheckDrivers
  <2>1. pc = "drivers" /\ pc' \in {"tbufs", "pad", "drivers_many", "boundary"}
    BY <1>7 DEF CheckDrivers, Go, Fatal
  <2>2. pc' = "tbufs" => Checked(d')
    BY <1>7, <2>1, DriversStep DEF StageInv
  <2> QED BY <2>1, <2>2 DEF StageInv
<1>8. CASE CheckTbufs
  <2>1. pc = "tbufs" /\ pc' \in {"io", "tbuf"}
    BY <1>8 DEF CheckTbufs, Go, Fatal
  <2>2. Plain(d)
    BY <2>1, PlainThen DEF StageInv, PadsTested
  <2>3. pc' = "io" => Between(d', todo')
    BY <1>8, <2>2, TbufsStep
  <2> QED BY <2>1, <2>3 DEF StageInv
<1>9. CASE \E x \in todo : InstantiateIo(x)
  <2>1. PICK x \in todo : InstantiateIo(x)
    BY <1>9
  <2>2. pc = "io" /\ pc' \in {"io", "inout_undriven"}
    BY <2>1 DEF InstantiateIo, Go
  <2>3. pc' = "io" => Between(d', todo')
    BY <2>1, <2>2, IoStep DEF StageInv
  <2> QED BY <2>2, <2>3 DEF StageInv
<1>10. CASE IoDone
  <2>1. pc = "io" /\ pc' = "luts"
    BY <1>10 DEF IoDone, Go
  <2>2. Tidy(d') /\ Live(d')
    BY <1>10, <2>1, IoDoneStep DEF StageInv
  <2> QED BY <2>1, <2>2 DEF StageInv
<1>11. CASE OptimizeLuts
  <2>1. pc = "luts" /\ pc' = "dffs"
    BY <1>11 DEF OptimizeLuts, Go
  <2>2. Tidy(d') /\ HasConsts(d')
    BY <1>11, <2>1, OptimizeStep DEF StageInv
  <2> QED BY <2>1, <2>2 DEF StageInv
<1>12. CASE PackDff \/ PackLut
  <2>1. pc = "dffs" /\ pc' = "dffs"
    BY <1>12 DEF PackDff, PackLut, Go
  <2>2. Tidy(d') /\ HasConsts(d')
    BY <1>12, <2>1, PackDffStep, PackLutStep DEF StageInv
  <2> QED BY <2>1, <2>2 DEF StageInv
<1>13. CASE EndPack
  <2>1. pc = "dffs" /\ pc' = "constants"
    BY <1>13 DEF EndPack, Go
  <2>2. Tidy(d') /\ Live(d')
    BY <1>13, <2>1, EndPackStep DEF StageInv
  <2> QED BY <2>1, <2>2 DEF StageInv
<1>14. CASE RealizeConstants
  <2>1. pc = "constants" /\ pc' = "done"
    BY <1>14 DEF RealizeConstants, Go
  <2>2. Tidy(d') /\ Live(d') /\ AtConsts(d')
    BY <1>14, <2>1, RealizeStep DEF StageInv
  <2> QED BY <2>1, <2>2 DEF StageInv
<1>15. CASE Stopped \/ UNCHANGED vars
  <2>1. UNCHANGED <<pc, d, todo>>
    BY <1>15 DEF Stopped, vars
  <2> QED BY <2>1 DEF StageInv
<1> QED BY <1>1, <1>2, <1>3, <1>4, <1>5, <1>6, <1>7, <1>8, <1>9, <1>10, <1>11, <1>12, <1>13, <1>14, <1>15
        DEF Next

(* The assertions of Model::check() hold after every stage and, at the     *)
(* end, every port at a constant net is an input that reads this value     *)
(* when it is left open, whatever the file, provided that pads are as      *)
(* PadsPlain says when instantiate_io() begins.                            *)
THEOREM AssertsHold == Spec /\ []PadsTested => []Asserts
<1>1. ASSUME StageInv, PadsTested PROVE Asserts
  <2>1. ASSUME pc \in {"tbufs", "luts", "constants", "done"} PROVE Check(d)
    <3>1. Plain(d) /\ Live(d)
      BY <1>1, <2>1, PlainThen DEF StageInv, PadsTested, Tidy
    <3> QED BY <3>1, CheckHolds
  <2>2. pc = "done" => AtConsts(d)
    BY <1>1 DEF StageInv
  <2> QED BY <2>1, <2>2 DEF Asserts, AtConsts
<1>2. Init => ReadInv /\ UnifyInv /\ StageInv
  BY InitRead, InitUnify DEF Init, StageInv
<1>3. ReadInv /\ UnifyInv /\ StageInv /\ PadsTested /\ [Next]_vars => ReadInv' /\ UnifyInv' /\ StageInv'
  BY NextRead, NextUnify, NextStage
<1>4. StageInv /\ PadsTested => Asserts
  BY <1>1
<1> QED BY <1>2, <1>3, <1>4, PTL DEF Spec
=============================================================================
