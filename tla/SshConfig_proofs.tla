-------------------------- MODULE SshConfig_proofs --------------------------
(***************************************************************************)
(* Three theorems, for every set of files, targets and options:            *)
(*                                                                         *)
(*   - ~/.ssh/config is read first-match-wins, whatever the way to match   *)
(*     patterns: the flag that the parser keeps is whether the next line   *)
(*     is for the host (Active), and what it found among the lines it has  *)
(*     read is what first applies;                                         *)
(*   - the lines that are for the host are those the documentation says:   *)
(*     wildcard_match ends on every pattern and value, with the answer     *)
(*     whether the characters of the pattern can stand for the value       *)
(*     (WildcardStands);                                                   *)
(*   - a background master resolves what the run that spawned it did: what *)
(*     a run resolves has no empty part (Settled), so each option that is  *)
(*     passed on wins (Passed), and the program reads back the number, the *)
(*     time and the host that it wrote (DecimalIs, PersistBack,            *)
(*     HostIsTarget).                                                      *)
(*                                                                         *)
(* The library states induction for operators, which the provers cannot    *)
(* use; here it is stated for sets of numbers (SetInduction), and what a   *)
(* recursive function or a fold computes is proved from that.              *)
(***************************************************************************)
EXTENDS SshConfig, SequenceTheorems, WellFoundedInduction, TLAPS

\* The library states induction for operators; as a set it is first-order.
LEMMA SetInduction ==
    ASSUME NEW S, S \subseteq Nat, 0 \in S, \A n \in S : n + 1 \in S
    PROVE  S = Nat
<1> SUFFICES ASSUME S # Nat PROVE FALSE
    OBVIOUS
<1> DEFINE T == Nat \ S
           less == OpToRel(<, Nat)
<1>1. T \subseteq Nat /\ T # {}
    OBVIOUS
<1>2. IsWellFoundedOn(less, Nat) /\ \A i, j \in Nat : j < i => <<j, i>> \in less
    BY NatLessThanWellFounded DEF OpToRel
<1> HIDE DEF less
<1>3. PICK n \in T : \A m \in T : ~(<<m, n>> \in less)
    BY <1>1, <1>2, WFMin
<1>4. n \in Nat /\ n # 0
    BY <1>3
<1>5. n - 1 \in Nat /\ n - 1 < n /\ (n - 1) + 1 = n
    BY <1>4
<1>6. n - 1 \in S
    BY <1>2, <1>3, <1>4, <1>5
<1> QED
    BY <1>3, <1>5, <1>6

\* The least of a set of numbers, and the greatest if there is a bound.
LEMMA LeastOf ==
    ASSUME NEW S, S \subseteq Nat, S # {}
    PROVE  Min(S) \in S /\ \A n \in S : Min(S) <= n
<1> DEFINE Below == {n \in Nat : \A k \in 0..n : k \notin S}
<1>1. \E m \in S : \A n \in S : m <= n
    <2> SUFFICES ASSUME \A m \in S : \E n \in S : ~(m <= n) PROVE FALSE
        OBVIOUS
    <2>0. \A m \in S : \E n \in S : n < m
        OBVIOUS
    <2>1. Below \subseteq Nat /\ 0 \in Below
        BY <2>0
    <2>2. ASSUME NEW n \in Below PROVE n + 1 \in Below
        <3>1. \A k \in 0..(n + 1) : k \in 0..n \/ k = n + 1
            OBVIOUS
        <3>2. n + 1 \notin S
            <4>1. \A k \in Nat : k < n + 1 => k \in 0..n
                OBVIOUS
            <4> QED
                BY <2>0, <4>1
        <3> QED
            BY <3>1, <3>2
    <2> HIDE DEF Below
    <2>3. Below = Nat
        BY <2>1, <2>2, SetInduction
    <2>4. PICK s \in S : TRUE
        OBVIOUS
    <2>5. s \in Below /\ s \in 0..s
        BY <2>3
    <2> QED
        BY <2>4, <2>5 DEF Below
<1> QED
    BY <1>1 DEF Min

LEMMA GreatestOf ==
    ASSUME NEW n \in Nat, NEW S, S \subseteq 1..n, S # {}
    PROVE  Max(S) \in S /\ \A k \in S : k <= Max(S)
<1> DEFINE T == {n - k : k \in S}
<1>0. \A k \in S : k \in Nat /\ n - k \in Nat
    OBVIOUS
<1>1. T \subseteq Nat /\ T # {}
    BY <1>0
<1>2. Min(T) \in T /\ \A t \in T : Min(T) <= t
    BY <1>1, LeastOf
<1>3. PICK m \in S : Min(T) = n - m
    BY <1>2
<1>4. \A k \in S : n - m <= n - k
    BY <1>2, <1>3
<1>5. \A k \in S : k <= m
    BY <1>0, <1>4
<1>6. m \in S /\ \A k \in S : m >= k
    BY <1>0, <1>5
<1> QED
    BY <1>0, <1>6 DEF Max

LEMMA GreatestIs ==
    ASSUME NEW n \in Nat, NEW S, S \subseteq 1..n, NEW m \in S, \A k \in S : k <= m
    PROVE  Max(S) = m
<1>1. Max(S) \in S /\ \A k \in S : k <= Max(S)
    BY GreatestOf
<1> DEFINE x == Max(S)
<1>2. x \in S /\ m <= x
    BY <1>1
<1> HIDE DEF x
<1>3. x <= m
    BY <1>2
<1>4. x \in Nat /\ m \in Nat
    BY <1>2
<1>5. x = m
    BY <1>2, <1>3, <1>4
<1> QED
    BY <1>5 DEF x

LEMMA PrefixOf ==
    ASSUME NEW n \in Nat
    PROVE  1..0 = {} /\ Max(1..(n + 1)) = n + 1 /\ (1..(n + 1)) \ {n + 1} = 1..n /\ 1..(n + 1) # {}
<1>1. n + 1 \in 1..(n + 1) /\ \A k \in 1..(n + 1) : k <= n + 1
    OBVIOUS
<1>2. Max(1..(n + 1)) = n + 1
    <2>1. n + 1 \in Nat /\ 1..(n + 1) \subseteq 1..(n + 1)
        OBVIOUS
    <2> QED
        BY <1>1, <2>1, GreatestIs
<1> QED
    BY <1>1, <1>2

-----------------------------------------------------------------------------
(***************************************************************************)
(* How patterns are matched.                                               *)
(***************************************************************************)
LEMMA TailOf ==
    ASSUME NEW s \in Text, s # None
    PROVE  /\ Tail(s) \in Text /\ Len(s) \in Nat \ {0} /\ Len(Tail(s)) = Len(s) - 1
           /\ \A i \in 1..(Len(s) - 1) : Tail(s)[i] = s[i + 1]
BY DEF Text, None

LEMMA LenOf ==
    ASSUME NEW s \in Text
    PROVE  Len(s) \in Nat /\ (Len(s) = 0 <=> s = None)
BY DEF Text, None

\* Where each character of p stands in v.
IsCut(cut, p, v) ==
    /\ cut[0] = 0 /\ cut[Len(p)] = Len(v)
    /\ \A i \in 1..Len(p) :
        IF p[i] = "*" THEN cut[i - 1] <= cut[i]
        ELSE /\ cut[i] = cut[i - 1] + 1
             /\ p[i] = "?" \/ Lower(p[i]) = Lower(v[cut[i]])

LEMMA StandsCut ==
    ASSUME NEW p, NEW v
    PROVE  Stands(p, v) <=> \E cut \in [0..Len(p) -> 0..Len(v)] : IsCut(cut, p, v)
BY DEF Stands, IsCut

LEMMA CutGrows ==
    ASSUME NEW p \in Text, NEW v \in Text, p # None,
           NEW cut \in [0..Len(p) -> 0..Len(v)], IsCut(cut, p, v), cut[1] >= 1
    PROVE  \A i \in 1..Len(p) : cut[i] >= 1
<1> DEFINE S == {n \in Nat : n + 1 \in 1..Len(p) => cut[n + 1] >= 1}
<1>0. Len(p) \in Nat /\ Len(v) \in Nat
    BY LenOf
<1>1. S \subseteq Nat /\ 0 \in S
    OBVIOUS
<1>2. ASSUME NEW n \in S PROVE n + 1 \in S
    <2> SUFFICES ASSUME (n + 1) + 1 \in 1..Len(p) PROVE cut[(n + 1) + 1] >= 1
        OBVIOUS
    <2>1. n + 1 \in 1..Len(p) /\ cut[n + 1] >= 1 /\ ((n + 1) + 1) - 1 = n + 1
        BY <1>0
    <2>2. cut[n + 1] \in Nat /\ cut[(n + 1) + 1] \in Nat
        BY <1>0, <2>1
    <2> QED
        BY <2>1, <2>2 DEF IsCut
<1> HIDE DEF S
<1>3. S = Nat
    BY <1>1, <1>2, SetInduction
<1>4. ASSUME NEW i \in 1..Len(p) PROVE cut[i] >= 1
    <2>1. i - 1 \in Nat /\ (i - 1) + 1 = i
        BY <1>0
    <2> QED
        BY <1>3, <2>1 DEF S
<1> QED
    BY <1>4

LEMMA StandsForNothing ==
    ASSUME NEW v \in Text
    PROVE  Stands(None, v) <=> v = None
<1>1. Len(None) = 0 /\ Len(v) \in Nat /\ (Len(v) = 0 <=> v = None)
    BY LenOf DEF None
<1>2. ASSUME Stands(None, v) PROVE v = None
    BY <1>1, <1>2 DEF Stands
<1>3. ASSUME v = None PROVE Stands(None, v)
    <2>1. [i \in 0..0 |-> 0] \in [0..Len(None) -> 0..Len(v)]
        BY <1>1
    <2>2. IsCut([i \in 0..0 |-> 0], None, v)
        BY <1>1, <1>3 DEF IsCut
    <2> QED
        BY <2>1, <2>2, StandsCut
<1> QED
    BY <1>2, <1>3

\* The first character stands for nothing, for the first of v, or for that and
\* more.
LEMMA StandsLater ==
    ASSUME NEW p \in Text, NEW v \in Text, p # None, Stands(p, v)
    PROVE  \/ p[1] = "*" /\ Stands(Tail(p), v)
           \/ v # None /\ p[1] = "*" /\ Stands(p, Tail(v))
           \/ /\ v # None /\ p[1] # "*" /\ (p[1] = "?" \/ Lower(p[1]) = Lower(v[1]))
              /\ Stands(Tail(p), Tail(v))
<1> DEFINE m == Len(p)
           n == Len(v)
<1>0. /\ m \in Nat \ {0} /\ n \in Nat /\ (n = 0 <=> v = None)
      /\ Tail(p) \in Text /\ Len(Tail(p)) = m - 1 /\ \A i \in 1..(m - 1) : Tail(p)[i] = p[i + 1]
    BY TailOf, LenOf
<1>1. PICK cut \in [0..m -> 0..n] : IsCut(cut, p, v)
    BY StandsCut
<1>2. CASE cut[1] = 0
    <2> DEFINE c == [i \in 0..(m - 1) |-> cut[i + 1]]
    <2>1. p[1] = "*"
        BY <1>0, <1>1, <1>2 DEF IsCut
    <2>2. c \in [0..(m - 1) -> 0..n]
        BY <1>0, <1>1
    <2>3. c[0] = 0 /\ c[m - 1] = n
        BY <1>0, <1>1, <1>2 DEF IsCut
    <2>4. ASSUME NEW i \in 1..(m - 1)
          PROVE  /\ c[i] = cut[i + 1] /\ c[i - 1] = cut[(i + 1) - 1] /\ i + 1 \in 1..m
                 /\ Tail(p)[i] = p[i + 1]
        BY <1>0
    <2>5. IsCut(c, Tail(p), v)
        BY <1>0, <1>1, <2>3, <2>4 DEF IsCut
    <2> QED
        BY <1>0, <2>1, <2>2, <2>5, StandsCut
<1>3. CASE cut[1] # 0
    <2>0. 1 \in 0..m /\ cut[1] \in 0..n /\ cut[1] >= 1 /\ n >= 1 /\ v # None
        BY <1>0, <1>1, <1>3
    <2>1. \A i \in 1..m : cut[i] \in 1..n
        BY <1>0, <1>1, <2>0, CutGrows
    <2>2. /\ Tail(v) \in Text /\ Len(Tail(v)) = n - 1
          /\ \A i \in 1..(n - 1) : Tail(v)[i] = v[i + 1]
        BY <2>0, TailOf
    <2>3. CASE p[1] = "*"
        <3> DEFINE c == [i \in 0..m |-> IF i = 0 THEN 0 ELSE cut[i] - 1]
        <3>1. c \in [0..m -> 0..(n - 1)]
            BY <1>0, <2>0, <2>1
        <3>2. c[0] = 0 /\ c[m] = n - 1
            BY <1>0, <1>1 DEF IsCut
        <3>3. ASSUME NEW i \in 1..m
              PROVE  IF p[i] = "*" THEN c[i - 1] <= c[i]
                     ELSE /\ c[i] = c[i - 1] + 1
                          /\ p[i] = "?" \/ Lower(p[i]) = Lower(Tail(v)[c[i]])
            <4>1. CASE i = 1
                BY <1>0, <2>1, <2>3, <4>1
            <4>2. CASE i # 1
                <5>1. /\ i - 1 \in 1..m /\ c[i] = cut[i] - 1 /\ c[i - 1] = cut[i - 1] - 1
                      /\ cut[i] \in 1..n /\ cut[i - 1] \in 1..n
                    BY <1>0, <2>1, <4>2
                <5>2. CASE p[i] = "*"
                    BY <1>1, <5>1, <5>2 DEF IsCut
                <5>3. CASE p[i] # "*"
                    <6>1. cut[i] = cut[i - 1] + 1 /\ (p[i] = "?" \/ Lower(p[i]) = Lower(v[cut[i]]))
                        BY <1>1, <5>3 DEF IsCut
                    <6>2. c[i] \in 1..(n - 1) /\ c[i] + 1 = cut[i]
                        BY <1>0, <5>1, <6>1
                    <6> QED
                        BY <2>2, <5>1, <5>3, <6>1, <6>2
                <5> QED
                    BY <5>2, <5>3
            <4> QED
                BY <4>1, <4>2
        <3>4. IsCut(c, p, Tail(v))
            BY <2>2, <3>2, <3>3 DEF IsCut
        <3> QED
            BY <2>0, <2>2, <2>3, <3>1, <3>4, StandsCut
    <2>4. CASE p[1] # "*"
        <3> DEFINE c == [i \in 0..(m - 1) |-> cut[i + 1] - 1]
        <3>0. cut[1] = 1 /\ (p[1] = "?" \/ Lower(p[1]) = Lower(v[1]))
            BY <1>0, <1>1, <2>4 DEF IsCut
        <3>1. c \in [0..(m - 1) -> 0..(n - 1)]
            BY <1>0, <2>1
        <3>2. c[0] = 0 /\ c[m - 1] = n - 1
            BY <1>0, <1>1, <3>0 DEF IsCut
        <3>3. ASSUME NEW i \in 1..(m - 1)
              PROVE  IF Tail(p)[i] = "*" THEN c[i - 1] <= c[i]
                     ELSE /\ c[i] = c[i - 1] + 1
                          /\ Tail(p)[i] = "?" \/ Lower(Tail(p)[i]) = Lower(Tail(v)[c[i]])
            <4>1. /\ i + 1 \in 1..m /\ i \in 1..m /\ (i + 1) - 1 = i /\ (i - 1) + 1 = i
                  /\ c[i] = cut[i + 1] - 1 /\ c[i - 1] = cut[i] - 1
                  /\ cut[i] \in 1..n /\ cut[i + 1] \in 1..n /\ Tail(p)[i] = p[i + 1]
                BY <1>0, <2>1
            <4>2. CASE p[i + 1] = "*"
                BY <1>1, <4>1, <4>2 DEF IsCut
            <4>3. CASE p[i + 1] # "*"
                <5>1. /\ cut[i + 1] = cut[i] + 1
                      /\ p[i + 1] = "?" \/ Lower(p[i + 1]) = Lower(v[cut[i + 1]])
                    BY <1>1, <4>1, <4>3 DEF IsCut
                <5>2. c[i] \in 1..(n - 1) /\ c[i] + 1 = cut[i + 1] /\ c[i] = c[i - 1] + 1
                    BY <1>0, <4>1, <5>1
                <5> QED
                    BY <2>2, <4>1, <4>3, <5>1, <5>2
            <4> QED
                BY <4>2, <4>3
        <3>4. IsCut(c, Tail(p), Tail(v))
            BY <1>0, <2>2, <3>2, <3>3 DEF IsCut
        <3> QED
            BY <1>0, <2>0, <2>2, <2>4, <3>0, <3>1, <3>4, StandsCut
    <2> QED
        BY <2>3, <2>4
<1> QED
    BY <1>2, <1>3

LEMMA StandsFromRest ==
    ASSUME NEW p \in Text, NEW v \in Text, p # None, p[1] = "*", Stands(Tail(p), v)
    PROVE  Stands(p, v)
<1> DEFINE m == Len(p)
           n == Len(v)
<1>0. /\ m \in Nat \ {0} /\ n \in Nat
      /\ Tail(p) \in Text /\ Len(Tail(p)) = m - 1 /\ \A i \in 1..(m - 1) : Tail(p)[i] = p[i + 1]
    BY TailOf, LenOf
<1>1. PICK cut \in [0..(m - 1) -> 0..n] : IsCut(cut, Tail(p), v)
    BY <1>0, StandsCut
<1> DEFINE c == [i \in 0..m |-> IF i = 0 THEN 0 ELSE cut[i - 1]]
<1>2. c \in [0..m -> 0..n] /\ c[0] = 0 /\ c[m] = n
    BY <1>0, <1>1 DEF IsCut
<1>3. ASSUME NEW i \in 1..m
      PROVE  IF p[i] = "*" THEN c[i - 1] <= c[i]
             ELSE /\ c[i] = c[i - 1] + 1
                  /\ p[i] = "?" \/ Lower(p[i]) = Lower(v[c[i]])
    <2>1. CASE i = 1
        BY <1>0, <1>1, <1>2, <2>1 DEF IsCut
    <2>2. CASE i # 1
        <3>1. /\ i - 1 \in 1..(m - 1) /\ c[i] = cut[i - 1] /\ c[i - 1] = cut[(i - 1) - 1]
              /\ Tail(p)[i - 1] = p[i]
            BY <1>0, <2>2
        <3> QED
            BY <1>0, <1>1, <3>1 DEF IsCut
    <2> QED
        BY <2>1, <2>2
<1>4. IsCut(c, p, v)
    BY <1>2, <1>3 DEF IsCut
<1> QED
    BY <1>2, <1>4, StandsCut

LEMMA StandsOneMore ==
    ASSUME NEW p \in Text, NEW v \in Text, p # None, v # None, p[1] = "*", Stands(p, Tail(v))
    PROVE  Stands(p, v)
<1> DEFINE m == Len(p)
           n == Len(v)
<1>0. /\ m \in Nat \ {0} /\ n \in Nat \ {0}
      /\ Tail(v) \in Text /\ Len(Tail(v)) = n - 1 /\ \A i \in 1..(n - 1) : Tail(v)[i] = v[i + 1]
    BY TailOf
<1>1. PICK cut \in [0..m -> 0..(n - 1)] : IsCut(cut, p, Tail(v))
    BY <1>0, StandsCut
<1> DEFINE c == [i \in 0..m |-> IF i = 0 THEN 0 ELSE cut[i] + 1]
<1>2. \A i \in 0..m : cut[i] \in 0..(n - 1)
    BY <1>1
<1>3. c \in [0..m -> 0..n] /\ c[0] = 0 /\ c[m] = n
    BY <1>0, <1>1, <1>2 DEF IsCut
<1>4. ASSUME NEW i \in 1..m
      PROVE  IF p[i] = "*" THEN c[i - 1] <= c[i]
             ELSE /\ c[i] = c[i - 1] + 1
                  /\ p[i] = "?" \/ Lower(p[i]) = Lower(v[c[i]])
    <2>1. CASE i = 1
        BY <1>0, <1>2, <2>1
    <2>2. CASE i # 1
        <3>1. /\ i \in 0..m /\ i - 1 \in 0..m /\ c[i] = cut[i] + 1 /\ c[i - 1] = cut[i - 1] + 1
              /\ cut[i] \in 0..(n - 1) /\ cut[i - 1] \in 0..(n - 1)
            BY <1>0, <1>2, <2>2
        <3>2. CASE p[i] = "*"
            BY <1>1, <3>1, <3>2 DEF IsCut
        <3>3. CASE p[i] # "*"
            <4>1. cut[i] = cut[i - 1] + 1 /\ (p[i] = "?" \/ Lower(p[i]) = Lower(Tail(v)[cut[i]]))
                BY <1>1, <3>3 DEF IsCut
            <4>2. cut[i] \in 1..(n - 1)
                BY <1>0, <3>1, <4>1
            <4> QED
                BY <1>0, <3>1, <3>3, <4>1, <4>2
        <3> QED
            BY <3>2, <3>3
    <2> QED
        BY <2>1, <2>2
<1>5. IsCut(c, p, v)
    BY <1>3, <1>4 DEF IsCut
<1> QED
    BY <1>3, <1>5, StandsCut

LEMMA StandsFromBoth ==
    ASSUME NEW p \in Text, NEW v \in Text, p # None, v # None, p[1] # "*",
           p[1] = "?" \/ Lower(p[1]) = Lower(v[1]), Stands(Tail(p), Tail(v))
    PROVE  Stands(p, v)
<1> DEFINE m == Len(p)
           n == Len(v)
<1>0. /\ m \in Nat \ {0} /\ n \in Nat \ {0}
      /\ Tail(p) \in Text /\ Len(Tail(p)) = m - 1 /\ \A i \in 1..(m - 1) : Tail(p)[i] = p[i + 1]
      /\ Tail(v) \in Text /\ Len(Tail(v)) = n - 1 /\ \A i \in 1..(n - 1) : Tail(v)[i] = v[i + 1]
    BY TailOf
<1>1. PICK cut \in [0..(m - 1) -> 0..(n - 1)] : IsCut(cut, Tail(p), Tail(v))
    BY <1>0, StandsCut
<1> DEFINE c == [i \in 0..m |-> IF i = 0 THEN 0 ELSE cut[i - 1] + 1]
<1>2. \A i \in 0..(m - 1) : cut[i] \in 0..(n - 1)
    BY <1>1
<1>3. c \in [0..m -> 0..n] /\ c[0] = 0 /\ c[m] = n
    BY <1>0, <1>1, <1>2 DEF IsCut
<1>4. ASSUME NEW i \in 1..m
      PROVE  IF p[i] = "*" THEN c[i - 1] <= c[i]
             ELSE /\ c[i] = c[i - 1] + 1
                  /\ p[i] = "?" \/ Lower(p[i]) = Lower(v[c[i]])
    <2>1. CASE i = 1
        <3>1. c[1] = 1 /\ c[0] = 0
            BY <1>0, <1>1, <1>3 DEF IsCut
        <3> QED
            BY <2>1, <3>1
    <2>2. CASE i # 1
        <3>1. /\ i - 1 \in 1..(m - 1) /\ (i - 1) - 1 \in 0..(m - 1)
              /\ c[i] = cut[i - 1] + 1 /\ c[i - 1] = cut[(i - 1) - 1] + 1
              /\ cut[i - 1] \in 0..(n - 1) /\ cut[(i - 1) - 1] \in 0..(n - 1)
              /\ Tail(p)[i - 1] = p[i]
            BY <1>0, <1>2, <2>2
        <3>2. CASE p[i] = "*"
            BY <1>0, <1>1, <3>1, <3>2 DEF IsCut
        <3>3. CASE p[i] # "*"
            <4>1. /\ cut[i - 1] = cut[(i - 1) - 1] + 1
                  /\ p[i] = "?" \/ Lower(p[i]) = Lower(Tail(v)[cut[i - 1]])
                BY <1>0, <1>1, <3>1, <3>3 DEF IsCut
            <4>2. cut[i - 1] \in 1..(n - 1)
                BY <1>0, <3>1, <4>1
            <4> QED
                BY <1>0, <3>1, <3>3, <4>1, <4>2
        <3> QED
            BY <3>2, <3>3
    <2> QED
        BY <2>1, <2>2
<1>5. IsCut(c, p, v)
    BY <1>3, <1>4 DEF IsCut
<1> QED
    BY <1>3, <1>5, StandsCut

\* What one step of wildcard_match makes of the answers m to smaller questions.
MatchStep(m, p, v) ==
    CASE p = None -> v = None
      [] p # None /\ p[1] = "*" -> m[<<Tail(p), v>>] \/ (v # None /\ m[<<p, Tail(v)>>])
      [] OTHER -> /\ v # None
                  /\ p[1] = "?" \/ Lower(p[1]) = Lower(v[1])
                  /\ m[<<Tail(p), Tail(v)>>]

\* The documented meaning of patterns solves the equation of the matcher; so the
\* matcher, which is defined by it, does.
LEMMA StandsSteps ==
    ASSUME NEW p \in Text, NEW v \in Text
    PROVE  Stands(p, v) = MatchStep([pv \in Text \X Text |-> Stands(pv[1], pv[2])], p, v)
<1> DEFINE S == [pv \in Text \X Text |-> Stands(pv[1], pv[2])]
<1>0. \A q \in Text, w \in Text : S[<<q, w>>] = Stands(q, w)
    OBVIOUS
<1>1. Stands(p, v) \in BOOLEAN /\ \A q \in Text, w \in Text : Stands(q, w) \in BOOLEAN
    BY DEF Stands
<1> HIDE DEF S
<1> SUFFICES Stands(p, v) = MatchStep(S, p, v)
    BY DEF S
<1>2. CASE p = None
    <2>1. MatchStep(S, p, v) = (v = None)
        BY <1>2 DEF MatchStep
    <2> QED
        BY <1>1, <1>2, <2>1, StandsForNothing
<1>3. CASE p # None /\ p[1] = "*"
    <2>1. Tail(p) \in Text /\ (v # None => Tail(v) \in Text)
        BY <1>3, TailOf
    <2>2. MatchStep(S, p, v) = (Stands(Tail(p), v) \/ (v # None /\ Stands(p, Tail(v))))
        BY <1>0, <1>3, <2>1 DEF MatchStep
    <2> QED
        BY <1>1, <1>3, <2>2, StandsLater, StandsFromRest, StandsOneMore
<1>4. CASE p # None /\ p[1] # "*"
    <2>1. Tail(p) \in Text /\ (v # None => Tail(v) \in Text)
        BY <1>4, TailOf
    <2> DEFINE Both == /\ v # None /\ (p[1] = "?" \/ Lower(p[1]) = Lower(v[1]))
                       /\ Stands(Tail(p), Tail(v))
    <2>2. MatchStep(S, p, v) = Both
        BY <1>0, <1>4, <2>1 DEF MatchStep
    <2>3. Stands(p, v) <=> Both
        BY <1>4, StandsLater, StandsFromBoth
    <2>4. Both \in BOOLEAN
        OBVIOUS
    <2> HIDE DEF Both
    <2> QED
        BY <1>1, <2>2, <2>3, <2>4
<1> QED
    BY <1>2, <1>3, <1>4

LEMMA WildcardSteps ==
    Wildcard = [pv \in Text \X Text |-> MatchStep(Wildcard, pv[1], pv[2])]
<1> DEFINE S == [pv \in Text \X Text |-> Stands(pv[1], pv[2])]
           Solves(m) == m = [pv \in Text \X Text |-> MatchStep(m, pv[1], pv[2])]
<1>1. Solves(S)
    <2>1. ASSUME NEW pv \in Text \X Text PROVE Stands(pv[1], pv[2]) = MatchStep(S, pv[1], pv[2])
        BY StandsSteps
    <2> QED
        BY <2>1
<1>2. Wildcard = CHOOSE m : Solves(m)
    BY DEF Wildcard, MatchStep
<1> HIDE DEF Solves
<1>3. Solves(Wildcard)
    BY <1>1, <1>2
<1> QED
    BY <1>3 DEF Solves

\* wildcard_match ends, and says of every pattern and every value whether the
\* characters of the one stand for those of the other: by induction on how many
\* characters there are.
LEMMA WildcardStands ==
    ASSUME NEW p \in Text, NEW v \in Text
    PROVE  Wildcard[<<p, v>>] = Stands(p, v)
<1> DEFINE W == Wildcard
           S == [pv \in Text \X Text |-> Stands(pv[1], pv[2])]
           Agree == {n \in Nat : \A q, w \in Text :
                        Len(q) + Len(w) <= n => W[<<q, w>>] = S[<<q, w>>]}
<1>1. \A q, w \in Text : W[<<q, w>>] = MatchStep(W, q, w)
    BY WildcardSteps
<1>2. \A q, w \in Text : S[<<q, w>>] = MatchStep(S, q, w)
    BY StandsSteps
<1> HIDE DEF W, S
<1>3. ASSUME NEW q \in Text, NEW w \in Text,
             q # None => W[<<Tail(q), w>>] = S[<<Tail(q), w>>],
             q # None /\ w # None => /\ W[<<q, Tail(w)>>] = S[<<q, Tail(w)>>]
                                     /\ W[<<Tail(q), Tail(w)>>] = S[<<Tail(q), Tail(w)>>]
      PROVE  W[<<q, w>>] = S[<<q, w>>]
    <2>1. MatchStep(W, q, w) = MatchStep(S, q, w)
        BY <1>3 DEF MatchStep
    <2> QED
        BY <1>1, <1>2, <2>1
<1>4. 0 \in Agree
    BY <1>3, LenOf
<1>5. ASSUME NEW n \in Agree PROVE n + 1 \in Agree
    <2> SUFFICES ASSUME NEW q \in Text, NEW w \in Text, Len(q) + Len(w) <= n + 1
                 PROVE  W[<<q, w>>] = S[<<q, w>>]
        OBVIOUS
    <2>0. \A a, b \in Text : Len(a) + Len(b) <= n => W[<<a, b>>] = S[<<a, b>>]
        OBVIOUS
    <2>n. n \in Nat
        OBVIOUS
    <2> HIDE DEF Agree
    <2>1. /\ q # None => Tail(q) \in Text /\ Len(Tail(q)) = Len(q) - 1
          /\ w # None => Tail(w) \in Text /\ Len(Tail(w)) = Len(w) - 1
          /\ Len(q) \in Nat /\ Len(w) \in Nat
        BY TailOf, LenOf
    <2> DEFINE a == Len(q)
               b == Len(w)
    <2>5. a \in Nat /\ b \in Nat /\ a + b <= n + 1
        BY <2>1
    <2> HIDE DEF a, b
    <2>6. (a - 1) + b <= n /\ a + (b - 1) <= n /\ (a - 1) + (b - 1) <= n
        BY <2>n, <2>5
    <2>2. q # None => W[<<Tail(q), w>>] = S[<<Tail(q), w>>]
        BY <2>0, <2>1, <2>6 DEF a, b
    <2>3. w # None => W[<<q, Tail(w)>>] = S[<<q, Tail(w)>>]
        BY <2>0, <2>1, <2>6 DEF a, b
    <2>4. q # None /\ w # None => W[<<Tail(q), Tail(w)>>] = S[<<Tail(q), Tail(w)>>]
        BY <2>0, <2>1, <2>6 DEF a, b
    <2> QED
        BY <1>3, <2>2, <2>3, <2>4
<1> HIDE DEF Agree
<1>6. Agree = Nat
    <2>1. Agree \subseteq Nat
        BY DEF Agree
    <2> QED
        BY <1>4, <1>5, <2>1, SetInduction
<1>7. W[<<p, v>>] = S[<<p, v>>]
    <2>1. Len(p) + Len(v) \in Nat
        BY LenOf
    <2> QED
        BY <1>6, <2>1 DEF Agree
<1> QED
    BY <1>7 DEF W, S

-----------------------------------------------------------------------------
(***************************************************************************)
(* What folds compute: the join of arguments, and a number from its digits. *)
(***************************************************************************)
\* FoldLeft of a function g is well-defined: what it is on the subsets of a
\* prefix is extended by one index.
Folds(F, D, base, g, seq) ==
    \A s \in SUBSET D :
        F[s] = IF s = {} THEN base ELSE g[<<F[s \ {Max(s)}], seq[Max(s)]>>]

LEMMA FoldExists ==
    ASSUME NEW S, NEW E, NEW base \in S, NEW g \in [S \X E -> S], NEW seq \in Seq(E)
    PROVE  \E F \in [SUBSET DOMAIN seq -> S] : Folds(F, DOMAIN seq, base, g, seq)
<1> DEFINE len == Len(seq)
           Fine == {n \in Nat : n <= len =>
                        \E F \in [SUBSET (1..n) -> S] : Folds(F, 1..n, base, g, seq)}
<1>0. len \in Nat /\ DOMAIN seq = 1..len /\ \A i \in 1..len : seq[i] \in E
    OBVIOUS
<1> HIDE DEF len
<1>1. 0 \in Fine
    <2>1. [s \in SUBSET (1..0) |-> base] \in [SUBSET (1..0) -> S]
        OBVIOUS
    <2>2. \A s \in SUBSET (1..0) : s = {}
        OBVIOUS
    <2>3. Folds([s \in SUBSET (1..0) |-> base], 1..0, base, g, seq)
        BY <2>2 DEF Folds
    <2> QED
        BY <2>1, <2>3
<1>2. ASSUME NEW n \in Fine PROVE n + 1 \in Fine
    <2>0. n + 1 \in Nat
        OBVIOUS
    <2> SUFFICES ASSUME n + 1 <= len
                 PROVE  \E F \in [SUBSET (1..(n + 1)) -> S] : Folds(F, 1..(n + 1), base, g, seq)
        BY <2>0
    <2>1. n \in Nat /\ n <= len /\ n + 1 \in 1..len
        BY <1>0
    <2>2. PICK F \in [SUBSET (1..n) -> S] : Folds(F, 1..n, base, g, seq)
        BY <2>1
    <2> HIDE DEF Fine
    <2> DEFINE H == [s \in SUBSET (1..(n + 1)) |->
                        IF n + 1 \in s THEN g[<<F[s \ {n + 1}], seq[n + 1]>>] ELSE F[s]]
    <2>3. \A s \in SUBSET (1..(n + 1)) :
            /\ s \ {n + 1} \in SUBSET (1..n)
            /\ n + 1 \notin s => s \in SUBSET (1..n)
        BY <2>1
    <2>4. H \in [SUBSET (1..(n + 1)) -> S]
        <3>1. ASSUME NEW s \in SUBSET (1..(n + 1)) PROVE H[s] \in S
            BY <1>0, <2>1, <2>3
        <3> QED
            BY <3>1
    <2>5. ASSUME NEW s \in SUBSET (1..(n + 1))
          PROVE  H[s] = IF s = {} THEN base ELSE g[<<H[s \ {Max(s)}], seq[Max(s)]>>]
        <3>1. CASE n + 1 \in s
            <4>1. Max(s) = n + 1
                <5>1. s \subseteq 1..(n + 1) /\ \A k \in s : k <= n + 1
                    OBVIOUS
                <5> QED
                    BY <2>0, <3>1, <5>1, GreatestIs
            <4>2. H[s \ {n + 1}] = F[s \ {n + 1}]
                BY <2>1, <2>3
            <4> QED
                BY <3>1, <4>1, <4>2
        <3>2. CASE n + 1 \notin s
            <4>1. s \in SUBSET (1..n) /\ H[s] = F[s]
                BY <2>3, <3>2
            <4>2. H[s \ {Max(s)}] = F[s \ {Max(s)}]
                BY <3>2
            <4> QED
                BY <2>2, <4>1, <4>2 DEF Folds
        <3> QED
            BY <3>1, <3>2
    <2>6. Folds(H, 1..(n + 1), base, g, seq)
        BY <2>5 DEF Folds
    <2> QED
        BY <2>4, <2>6
<1>3. \E F \in [SUBSET (1..len) -> S] : Folds(F, 1..len, base, g, seq)
    <2>1. Fine \subseteq Nat
        OBVIOUS
    <2> HIDE DEF Fine
    <2>2. Fine = Nat
        BY <1>1, <1>2, <2>1, SetInduction
    <2>3. len \in Fine /\ len <= len
        BY <1>0, <2>2
    <2> QED
        BY <2>3 DEF Fine
<1> QED
    BY <1>0, <1>3

LEMMA OneOf ==
    ASSUME NEW C, NEW c \in C
    PROVE  <<c>> \in Seq(C) /\ Len(<<c>>) = 1 /\ <<c>>[1] = c
OBVIOUS

LEMMA ConcatOf ==
    ASSUME NEW C, NEW a \in Seq(C), NEW b \in Seq(C)
    PROVE  /\ a \o b \in Seq(C) /\ Len(a) \in Nat /\ Len(b) \in Nat
           /\ Len(a \o b) = Len(a) + Len(b)
OBVIOUS

LEMMA TextsOf ==
    /\ None \in Text /\ " " \in Chars /\ DOMAIN Digit \subseteq Chars
    /\ \A a, b \in Text :
        a \o <<" ">> \o b \in Text /\ a \o b \in Text /\ (a # None => a \o <<" ">> \o b # None)
<1>1. " " \in Chars /\ DOMAIN Digit \subseteq Chars
    BY ConfigAssumption
<1>2. ASSUME NEW a \in Text, NEW b \in Text
      PROVE  a \o <<" ">> \o b \in Text /\ a \o b \in Text /\ Len(a \o <<" ">> \o b) # 0
    <2> DEFINE space == <<" ">>
    <2>1. space \in Seq(Chars) /\ Len(space) = 1
        BY <1>1, OneOf
    <2> HIDE DEF space
    <2>2. /\ a \o space \in Seq(Chars) /\ Len(a \o space) = Len(a) + 1
          /\ a \o b \in Seq(Chars) /\ Len(a) \in Nat /\ Len(b) \in Nat
        BY <1>2, <2>1, ConcatOf DEF Text
    <2>3. (a \o space) \o b \in Seq(Chars) /\ Len((a \o space) \o b) = (Len(a) + 1) + Len(b)
        BY <1>2, <2>2, ConcatOf DEF Text
    <2>4. Len((a \o space) \o b) # 0
        BY <2>2, <2>3
    <2> QED
        BY <2>2, <2>3, <2>4 DEF Text, space
<1>3. None \in Text /\ Len(None) = 0
    BY DEF Text, None
<1> QED
    BY <1>1, <1>2, <1>3

LEMMA JoinedSteps ==
    ASSUME NEW args \in Seq(Text)
    PROVE  \E P : /\ P[0] = None /\ P[Len(args)] = Joined(args)
                  /\ \A n \in Nat : n < Len(args) =>
                        P[n + 1] = IF P[n] = None THEN args[n + 1] ELSE P[n] \o <<" ">> \o args[n + 1]
<1> DEFINE len == Len(args)
           Solves(f) == f = [s \in SUBSET DOMAIN args |->
                IF s = {} THEN None
                ELSE IF f[s \ {Max(s)}] = None THEN args[Max(s)]
                     ELSE f[s \ {Max(s)}] \o <<" ">> \o args[Max(s)]]
           g == [st \in Text \X Text |-> IF st[1] = None THEN st[2] ELSE st[1] \o <<" ">> \o st[2]]
           f == CHOOSE h : Solves(h)
<1>0. len \in Nat /\ DOMAIN args = 1..len
    OBVIOUS
<1>1. None \in Text /\ g \in [Text \X Text -> Text]
    <2>1. ASSUME NEW a \in Text, NEW b \in Text
          PROVE  (IF a = None THEN b ELSE a \o <<" ">> \o b) \in Text
        BY TextsOf
    <2> QED
        BY <2>1, TextsOf
<1>2. \A a, b \in Text : g[<<a, b>>] = IF a = None THEN b ELSE a \o <<" ">> \o b
    OBVIOUS
<1> HIDE DEF g
<1>3. \E h : Solves(h)
    <2>1. PICK F \in [SUBSET DOMAIN args -> Text] : Folds(F, DOMAIN args, None, g, args)
        BY <1>1, FoldExists
    <2>2. ASSUME NEW s \in SUBSET DOMAIN args, s # {}
          PROVE  F[s] = IF F[s \ {Max(s)}] = None THEN args[Max(s)]
                        ELSE F[s \ {Max(s)}] \o <<" ">> \o args[Max(s)]
        <3>1. Max(s) \in s
            BY <1>0, <2>2, GreatestOf
        <3>2. F[s \ {Max(s)}] \in Text /\ args[Max(s)] \in Text
            BY <1>0, <3>1
        <3> QED
            BY <1>2, <2>1, <2>2, <3>2 DEF Folds
    <2>3. Solves(F)
        BY <2>1, <2>2 DEF Folds
    <2> QED
        BY <2>3
<1>4. Joined(args) = f[1..len]
    BY <1>0 DEF Joined, FoldLeft, MapThenFoldSet
<1>5. Solves(f)
    BY <1>3
<1>8. \A s \in SUBSET DOMAIN args :
        f[s] = IF s = {} THEN None
               ELSE IF f[s \ {Max(s)}] = None THEN args[Max(s)]
                    ELSE f[s \ {Max(s)}] \o <<" ">> \o args[Max(s)]
    <2> HIDE DEF f
    <2> QED
        BY <1>5
<1> HIDE DEF f, len
<1> DEFINE P == [n \in 0..len |-> f[1..n]]
<1>9. \A n \in 0..len : P[n] = f[1..n]
    OBVIOUS
<1> HIDE DEF P
<1>6. P[0] = None /\ P[len] = Joined(args)
    <2>1. 0 \in 0..len /\ len \in 0..len /\ 1..0 = {} /\ {} \in SUBSET DOMAIN args
        BY <1>0, PrefixOf
    <2>2. f[{}] = None
        BY <1>8, <2>1
    <2> QED
        BY <1>4, <1>9, <2>1, <2>2
<1>7. ASSUME NEW n \in Nat, n < len
      PROVE  P[n + 1] = IF P[n] = None THEN args[n + 1] ELSE P[n] \o <<" ">> \o args[n + 1]
    <2>1. 1..(n + 1) \in SUBSET DOMAIN args /\ n \in 0..len /\ n + 1 \in 0..len
        BY <1>0, <1>7
    <2>2. f[1..(n + 1)] = IF f[1..n] = None THEN args[n + 1] ELSE f[1..n] \o <<" ">> \o args[n + 1]
        <3>1. /\ Max(1..(n + 1)) = n + 1 /\ (1..(n + 1)) \ {n + 1} = 1..n /\ 1..(n + 1) # {}
            BY PrefixOf
        <3> DEFINE s == 1..(n + 1)
        <3>2. s \in SUBSET DOMAIN args /\ s # {} /\ Max(s) = n + 1 /\ s \ {Max(s)} = 1..n
            BY <2>1, <3>1
        <3> HIDE DEF s
        <3>3. f[s] = IF f[s \ {Max(s)}] = None THEN args[Max(s)]
                     ELSE f[s \ {Max(s)}] \o <<" ">> \o args[Max(s)]
            BY <1>8, <3>2
        <3>4. f[s] = IF f[1..n] = None THEN args[n + 1] ELSE f[1..n] \o <<" ">> \o args[n + 1]
            BY <3>2, <3>3
        <3> QED
            BY <3>4 DEF s
    <2> QED
        BY <1>9, <2>1, <2>2
<1> QED
    BY <1>6, <1>7 DEF len

\* Joined is a text, and is not empty if there is something to join.
LEMMA JoinedText ==
    ASSUME NEW args \in Seq(Text)
    PROVE  /\ Joined(args) \in Text
           /\ args # None /\ None \notin Range(args) => Joined(args) # None
<1>1. PICK P : /\ P[0] = None /\ P[Len(args)] = Joined(args)
               /\ \A n \in Nat : n < Len(args) =>
                    P[n + 1] = IF P[n] = None THEN args[n + 1] ELSE P[n] \o <<" ">> \o args[n + 1]
    BY JoinedSteps
<1> DEFINE len == Len(args)
<1>0. /\ len \in Nat /\ (args # None => len # 0)
      /\ \A n \in Nat : n < len => args[n + 1] \in Text /\ args[n + 1] \in Range(args)
    <2>1. ASSUME NEW n \in Nat, n < len PROVE args[n + 1] \in Text /\ args[n + 1] \in Range(args)
        <3>1. n + 1 \in DOMAIN args
            BY <2>1
        <3> QED
            BY <3>1 DEF Range
    <2> QED
        BY <2>1 DEF None
<1>9. \A n \in Nat : n < len =>
            P[n + 1] = IF P[n] = None THEN args[n + 1] ELSE P[n] \o <<" ">> \o args[n + 1]
    BY <1>1
<1> HIDE DEF len
<1> DEFINE Fine == {n \in Nat : n <= len =>
                        P[n] \in Text /\ (n > 0 /\ None \notin Range(args) => P[n] # None)}
<1>2. Fine \subseteq Nat /\ 0 \in Fine
    <2>1. P[0] \in Text
        BY <1>1, TextsOf
    <2> QED
        BY <2>1
<1>3. ASSUME NEW n \in Fine PROVE n + 1 \in Fine
    <2>1. n \in Nat /\ n + 1 \in Nat
        OBVIOUS
    <2> SUFFICES ASSUME n + 1 <= len
                 PROVE  P[n + 1] \in Text /\ (None \notin Range(args) => P[n + 1] # None)
        BY <2>1
    <2>2. n < len /\ P[n] \in Text
        BY <1>0, <2>1
    <2>3. P[n + 1] = IF P[n] = None THEN args[n + 1] ELSE P[n] \o <<" ">> \o args[n + 1]
        BY <1>9, <2>1, <2>2
    <2>4. args[n + 1] \in Text /\ args[n + 1] \in Range(args)
        BY <1>0, <2>1, <2>2
    <2> HIDE DEF Fine
    <2>5. CASE P[n] = None
        BY <2>3, <2>4, <2>5
    <2>6. CASE P[n] # None
        <3>1. P[n + 1] = P[n] \o <<" ">> \o args[n + 1]
            BY <2>3, <2>6
        <3> QED
            BY <2>2, <2>4, <2>6, <3>1, TextsOf
    <2> QED
        BY <2>5, <2>6
<1> HIDE DEF Fine
<1>4. len \in Fine
    BY <1>0, <1>2, <1>3, SetInduction
<1>5. P[len] \in Text /\ (len > 0 /\ None \notin Range(args) => P[len] # None)
    BY <1>0, <1>4 DEF Fine
<1>6. P[len] = Joined(args)
    BY <1>1 DEF len
<1> QED
    BY <1>0, <1>5, <1>6

LEMMA Digits ==
    /\ \A c \in DOMAIN Digit : Digit[c] \in 0..9
    /\ \A d \in 0..9 : \E c \in DOMAIN Digit : Digit[c] = d
<1>1. DOMAIN Digit = {"0", "1", "2", "3", "4", "5", "6", "7", "8", "9"}
    BY DEF Digit
<1>2. /\ Digit["0"] = 0 /\ Digit["1"] = 1 /\ Digit["2"] = 2 /\ Digit["3"] = 3 /\ Digit["4"] = 4
      /\ Digit["5"] = 5 /\ Digit["6"] = 6 /\ Digit["7"] = 7 /\ Digit["8"] = 8 /\ Digit["9"] = 9
    BY DEF Digit
<1>3. \A d \in 0..9 : d = 0 \/ d = 1 \/ d = 2 \/ d = 3 \/ d = 4 \/ d = 5 \/ d = 6 \/ d = 7 \/ d = 8 \/ d = 9
    OBVIOUS
<1> QED
    BY <1>1, <1>2, <1>3

LEMMA NumberSteps ==
    ASSUME NEW s \in Seq(DOMAIN Digit)
    PROVE  \E P : /\ P[0] = 0 /\ P[Len(s)] = Number(s)
                  /\ \A n \in Nat : n < Len(s) => P[n + 1] = 10 * P[n] + Digit[s[n + 1]]
<1> DEFINE len == Len(s)
           Solves(f) == f = [t \in SUBSET DOMAIN s |->
                IF t = {} THEN 0 ELSE 10 * f[t \ {Max(t)}] + Digit[s[Max(t)]]]
           g == [nc \in Nat \X DOMAIN Digit |-> 10 * nc[1] + Digit[nc[2]]]
           f == CHOOSE h : Solves(h)
<1>0. len \in Nat /\ DOMAIN s = 1..len
    OBVIOUS
<1>1. g \in [Nat \X DOMAIN Digit -> Nat]
    <2>1. ASSUME NEW n \in Nat, NEW c \in DOMAIN Digit PROVE 10 * n + Digit[c] \in Nat
        BY Digits
    <2> QED
        BY <2>1
<1>2. \A n \in Nat, c \in DOMAIN Digit : g[<<n, c>>] = 10 * n + Digit[c]
    OBVIOUS
<1> HIDE DEF g
<1>3. \E h : Solves(h)
    <2>1. PICK F \in [SUBSET DOMAIN s -> Nat] : Folds(F, DOMAIN s, 0, g, s)
        BY <1>1, FoldExists
    <2>2. ASSUME NEW t \in SUBSET DOMAIN s, t # {}
          PROVE  F[t] = 10 * F[t \ {Max(t)}] + Digit[s[Max(t)]]
        <3>1. Max(t) \in t
            BY <1>0, <2>2, GreatestOf
        <3>2. F[t \ {Max(t)}] \in Nat /\ s[Max(t)] \in DOMAIN Digit
            BY <1>0, <3>1
        <3> QED
            BY <1>2, <2>1, <2>2, <3>2 DEF Folds
    <2>3. Solves(F)
        BY <2>1, <2>2 DEF Folds
    <2> QED
        BY <2>3
<1>4. Number(s) = f[1..len]
    BY <1>0 DEF Number, FoldLeft, MapThenFoldSet
<1>5. Solves(f)
    BY <1>3
<1>8. \A t \in SUBSET DOMAIN s :
        f[t] = IF t = {} THEN 0 ELSE 10 * f[t \ {Max(t)}] + Digit[s[Max(t)]]
    <2> HIDE DEF f
    <2> QED
        BY <1>5
<1> HIDE DEF f, len
<1> DEFINE P == [n \in 0..len |-> f[1..n]]
<1>9. \A n \in 0..len : P[n] = f[1..n]
    OBVIOUS
<1> HIDE DEF P
<1>6. P[0] = 0 /\ P[len] = Number(s)
    <2>1. 0 \in 0..len /\ len \in 0..len /\ 1..0 = {} /\ {} \in SUBSET DOMAIN s
        BY <1>0, PrefixOf
    <2>2. f[{}] = 0
        BY <1>8, <2>1
    <2> QED
        BY <1>4, <1>9, <2>1, <2>2
<1>7. ASSUME NEW n \in Nat, n < len PROVE P[n + 1] = 10 * P[n] + Digit[s[n + 1]]
    <2>1. 1..(n + 1) \in SUBSET DOMAIN s /\ n \in 0..len /\ n + 1 \in 0..len
        BY <1>0, <1>7
    <2> DEFINE t == 1..(n + 1)
    <2>2. t \in SUBSET DOMAIN s /\ t # {} /\ Max(t) = n + 1 /\ t \ {Max(t)} = 1..n
        BY <2>1, PrefixOf
    <2> HIDE DEF t
    <2>3. f[t] = 10 * f[t \ {Max(t)}] + Digit[s[Max(t)]]
        BY <1>8, <2>2
    <2>4. f[t] = 10 * f[1..n] + Digit[s[n + 1]]
        BY <2>2, <2>3
    <2> QED
        BY <1>9, <2>1, <2>4 DEF t
<1> QED
    BY <1>6, <1>7 DEF len

\* What one more digit makes of a number; and a number it is.
LEMMA NumberAppend ==
    ASSUME NEW s \in Seq(DOMAIN Digit)
    PROVE  /\ Number(s) \in Nat
           /\ \A c \in DOMAIN Digit : Number(s \o <<c>>) = 10 * Number(s) + Digit[c]
<1>1. PICK P : /\ P[0] = 0 /\ P[Len(s)] = Number(s)
               /\ \A n \in Nat : n < Len(s) => P[n + 1] = 10 * P[n] + Digit[s[n + 1]]
    BY NumberSteps
<1> DEFINE len == Len(s)
<1>0. len \in Nat /\ \A n \in Nat : n < len => s[n + 1] \in DOMAIN Digit
    OBVIOUS
<1>p. P[0] = 0 /\ P[len] = Number(s) /\ \A n \in Nat : n < len => P[n + 1] = 10 * P[n] + Digit[s[n + 1]]
    BY <1>1
<1>2. Number(s) \in Nat
    <2> HIDE DEF len
    <2> DEFINE Fine == {n \in Nat : n <= len => P[n] \in Nat}
    <2>1. Fine \subseteq Nat /\ 0 \in Fine
        BY <1>p
    <2>2. ASSUME NEW n \in Fine PROVE n + 1 \in Fine
        <3>1. n \in Nat
            OBVIOUS
        <3>2. ASSUME n + 1 <= len PROVE P[n + 1] \in Nat
            <4>1. n < len /\ P[n] \in Nat
                BY <1>0, <3>1, <3>2
            <4>2. Digit[s[n + 1]] \in 0..9
                BY <1>0, <3>1, <4>1, Digits
            <4>3. P[n + 1] = 10 * P[n] + Digit[s[n + 1]]
                BY <1>p, <3>1, <4>1
            <4> DEFINE d == Digit[s[n + 1]]
                       m == P[n]
            <4>4. d \in 0..9 /\ m \in Nat /\ P[n + 1] = 10 * m + d
                BY <4>1, <4>2, <4>3
            <4> HIDE DEF d, m
            <4> QED
                BY <4>4
        <3> QED
            BY <3>1, <3>2
    <2> HIDE DEF Fine
    <2>3. len \in Fine
        BY <1>0, <2>1, <2>2, SetInduction
    <2> QED
        BY <1>0, <1>p, <2>3 DEF Fine
<1>3. ASSUME NEW c \in DOMAIN Digit PROVE Number(s \o <<c>>) = 10 * Number(s) + Digit[c]
    <2> DEFINE t == s \o <<c>>
    <2>1. /\ t \in Seq(DOMAIN Digit) /\ Len(t) = len + 1 /\ t[len + 1] = c
          /\ \A i \in 1..len : t[i] = s[i]
        OBVIOUS
    <2> HIDE DEF t
    <2>2. PICK Q : /\ Q[0] = 0 /\ Q[Len(t)] = Number(t)
                   /\ \A n \in Nat : n < Len(t) => Q[n + 1] = 10 * Q[n] + Digit[t[n + 1]]
        BY <2>1, NumberSteps
    <2>q. /\ Q[0] = 0 /\ Q[len + 1] = Number(t)
          /\ \A n \in Nat : n < len + 1 => Q[n + 1] = 10 * Q[n] + Digit[t[n + 1]]
        BY <2>1, <2>2
    <2> HIDE DEF len
    <2> DEFINE Same == {n \in Nat : n <= len => Q[n] = P[n]}
    <2>3. Same \subseteq Nat /\ 0 \in Same
        BY <1>p, <2>q
    <2>4. ASSUME NEW n \in Same PROVE n + 1 \in Same
        <3>1. n \in Nat
            OBVIOUS
        <3>2. ASSUME n + 1 <= len PROVE Q[n + 1] = P[n + 1]
            <4>1. n < len /\ n < len + 1 /\ n + 1 \in 1..len /\ Q[n] = P[n]
                BY <1>0, <3>1, <3>2
            <4>2. t[n + 1] = s[n + 1]
                BY <2>1, <4>1
            <4> QED
                BY <1>p, <2>q, <3>1, <4>1, <4>2
        <3> QED
            BY <3>1, <3>2
    <2> HIDE DEF Same
    <2>5. len \in Same
        BY <1>0, <2>3, <2>4, SetInduction
    <2>6. Q[len] = Number(s)
        BY <1>0, <1>p, <2>5 DEF Same
    <2>7. Q[len + 1] = 10 * Q[len] + Digit[t[len + 1]]
        BY <1>0, <2>q
    <2> QED
        BY <2>1, <2>6, <2>7, <2>q DEF t
<1> QED
    BY <1>2, <1>3

LEMMA NumberOne ==
    ASSUME NEW c \in DOMAIN Digit
    PROVE  Number(<<c>>) = Digit[c] /\ <<c>> \in Seq(DOMAIN Digit)
<1>0. <<c>> \in Seq(DOMAIN Digit) /\ Len(<<c>>) = 1 /\ <<c>>[1] = c
    BY OneOf
<1>1. PICK P : /\ P[0] = 0 /\ P[Len(<<c>>)] = Number(<<c>>)
               /\ \A n \in Nat : n < Len(<<c>>) => P[n + 1] = 10 * P[n] + Digit[<<c>>[n + 1]]
    BY <1>0, NumberSteps
<1>2. P[0 + 1] = 10 * P[0] + Digit[<<c>>[0 + 1]]
    BY <1>0, <1>1
<1>3. P[1] = 0 + Digit[c]
    BY <1>0, <1>1, <1>2
<1>4. Digit[c] \in 0..9
    BY Digits
<1> QED
    BY <1>0, <1>1, <1>3, <1>4

\* The digit that n ends with, and what one step of the conversion makes of the
\* conversions d of smaller numbers.
LastDigit(n) == <<CHOOSE c \in DOMAIN Digit : Digit[c] = n % 10>>
DecimalStep(d, n) == IF n < 10 THEN LastDigit(n) ELSE d[n \div 10] \o LastDigit(n)

LEMMA LastDigitOf ==
    ASSUME NEW n \in Nat
    PROVE  \E c \in DOMAIN Digit : LastDigit(n) = <<c>> /\ Digit[c] = n % 10
<1>1. n % 10 \in 0..9
    OBVIOUS
<1>2. \E c \in DOMAIN Digit : Digit[c] = n % 10
    BY <1>1, Digits
<1> QED
    BY <1>2 DEF LastDigit

\* A conversion of the numbers up to n.
Converts(f, n) == \A k \in 0..n : f[k] = DecimalStep(f, k)

LEMMA Smaller ==
    ASSUME NEW n \in Nat, n >= 10
    PROVE  n \div 10 \in 0..(n - 1) /\ n \div 10 \in Nat /\ n = 10 * (n \div 10) + (n % 10)
OBVIOUS

LEMMA ConvertsUpTo ==
    ASSUME NEW n \in Nat
    PROVE  \E f : Converts(f, n)
<1> DEFINE Fine == {m \in Nat : \E f : Converts(f, m)}
<1>1. 0 \in Fine
    <2>1. Converts([k \in {0} |-> LastDigit(0)], 0)
        BY DEF Converts, DecimalStep
    <2> QED
        BY <2>1
<1>2. ASSUME NEW m \in Fine PROVE m + 1 \in Fine
    <2>1. m \in Nat /\ m + 1 \in Nat
        OBVIOUS
    <2>2. PICK f : Converts(f, m)
        OBVIOUS
    <2> DEFINE g == [k \in 0..(m + 1) |-> IF k = m + 1 THEN DecimalStep(f, k) ELSE f[k]]
    <2>3. \A k \in 0..m : g[k] = f[k]
        BY <2>1
    <2>4. g[m + 1] = DecimalStep(f, m + 1)
        BY <2>1
    <2> HIDE DEF g
    <2>5. ASSUME NEW k \in 0..(m + 1) PROVE DecimalStep(g, k) = DecimalStep(f, k)
        <3>1. CASE k < 10
            BY <3>1 DEF DecimalStep
        <3>2. CASE k >= 10
            <4>1. k \in Nat /\ k - 1 \in 0..m
                BY <2>1, <3>2
            <4>2. k \div 10 \in 0..m
                BY <2>1, <3>2, <4>1, Smaller
            <4> QED
                BY <2>3, <4>2 DEF DecimalStep
        <3> QED
            BY <2>1, <3>1, <3>2
    <2>6. ASSUME NEW k \in 0..(m + 1) PROVE g[k] = DecimalStep(g, k)
        <3>1. k \in 0..m \/ k = m + 1
            BY <2>1
        <3> QED
            BY <2>2, <2>3, <2>4, <2>5, <3>1 DEF Converts
    <2>7. Converts(g, m + 1)
        BY <2>6 DEF Converts
    <2> QED
        BY <2>1, <2>7
<1>3. Fine \subseteq Nat
    OBVIOUS
<1> HIDE DEF Fine
<1>4. n \in Fine
    BY <1>1, <1>2, <1>3, SetInduction
<1> QED
    BY <1>4 DEF Fine

\* Two conversions agree where both are ones.
LEMMA ConvertsOnce ==
    ASSUME NEW n \in Nat, NEW m \in Nat, NEW f, NEW g, Converts(f, n), Converts(g, m)
    PROVE  \A k \in 0..n : k \in 0..m => f[k] = g[k]
<1> DEFINE Same == {k \in Nat : \A j \in 0..k : j <= n /\ j <= m => f[j] = g[j]}
<1>0. ASSUME NEW j \in Nat, j <= n, j <= m, j >= 10 => f[j \div 10] = g[j \div 10]
      PROVE  f[j] = g[j]
    <2>1. f[j] = DecimalStep(f, j) /\ g[j] = DecimalStep(g, j)
        BY <1>0 DEF Converts
    <2> QED
        BY <1>0, <2>1 DEF DecimalStep
<1>1. 0 \in Same
    <2>1. \A j \in 0..0 : j = 0
        OBVIOUS
    <2> QED
        BY <1>0, <2>1
<1>2. ASSUME NEW k \in Same PROVE k + 1 \in Same
    <2>1. k \in Nat /\ k + 1 \in Nat
        OBVIOUS
    <2>2. \A j \in 0..k : j <= n /\ j <= m => f[j] = g[j]
        OBVIOUS
    <2>3. ASSUME NEW j \in 0..(k + 1), j <= n, j <= m PROVE f[j] = g[j]
        <3>1. CASE j \in 0..k
            BY <2>2, <2>3, <3>1
        <3>2. CASE j = k + 1
            <4>1. ASSUME j >= 10 PROVE f[j \div 10] = g[j \div 10]
                <5>1. j \in Nat /\ j - 1 = k
                    BY <2>1, <3>2
                <5>2. j \div 10 \in 0..k
                    BY <4>1, <5>1, Smaller
                <5>3. j \div 10 <= n /\ j \div 10 <= m
                    BY <2>1, <2>3, <3>2, <5>2
                <5> QED
                    BY <2>2, <5>2, <5>3
            <4> QED
                BY <1>0, <2>1, <2>3, <3>2, <4>1
        <3> QED
            BY <2>1, <3>1, <3>2
    <2> QED
        BY <2>1, <2>3
<1>3. Same \subseteq Nat
    OBVIOUS
<1> HIDE DEF Same
<1>4. Same = Nat
    BY <1>1, <1>2, <1>3, SetInduction
<1>5. ASSUME NEW k \in 0..n, k \in 0..m PROVE f[k] = g[k]
    <2>1. k \in Same /\ k \in 0..k /\ k <= n /\ k <= m
        BY <1>4, <1>5
    <2> QED
        BY <2>1 DEF Same
<1> QED
    BY <1>5

LEMMA DecimalSteps ==
    ASSUME NEW n \in Nat
    PROVE  Decimal[n] = DecimalStep(Decimal, n)
<1> DEFINE Solves(f) == f = [k \in Nat |-> DecimalStep(f, k)]
           part(k) == CHOOSE f : Converts(f, k)
           whole == [k \in Nat |-> part(k)[k]]
<1>1. \A k \in Nat : Converts(part(k), k)
    BY ConvertsUpTo
<1>w. \A k \in Nat : whole[k] = part(k)[k]
    OBVIOUS
<1>d. DOMAIN whole = Nat /\ whole = [k \in Nat |-> whole[k]]
    OBVIOUS
<1> HIDE DEF whole, part
<1>2. ASSUME NEW k \in Nat PROVE whole[k] = DecimalStep(whole, k)
    <2>1. part(k)[k] = DecimalStep(part(k), k)
        <3>1. k \in 0..k
            OBVIOUS
        <3> QED
            BY <1>1, <3>1 DEF Converts
    <2>2. CASE k < 10
        BY <1>w, <2>1, <2>2 DEF DecimalStep
    <2>3. CASE k >= 10
        <3> DEFINE h == k \div 10
        <3>1. h \in Nat /\ h \in 0..k /\ h \in 0..h
            BY <2>3, Smaller
        <3>2. Converts(part(k), k) /\ Converts(part(h), h)
            BY <1>1, <3>1
        <3> HIDE DEF h
        <3>3. part(k)[h] = part(h)[h]
            BY <3>1, <3>2, ConvertsOnce
        <3> QED
            BY <1>w, <2>1, <2>3, <3>1, <3>3 DEF DecimalStep, h
    <2> QED
        BY <2>2, <2>3
<1>3. Solves(whole)
    <2>1. [k \in Nat |-> whole[k]] = [k \in Nat |-> DecimalStep(whole, k)]
        BY <1>2
    <2> QED
        BY <1>d, <2>1
<1>4. Decimal = CHOOSE f : Solves(f)
    BY DEF Decimal, DecimalStep, LastDigit
<1> HIDE DEF Solves
<1>5. Solves(Decimal)
    BY <1>3, <1>4
<1> QED
    BY <1>5 DEF Solves

\* The digits of a number are read back as that number.
LEMMA DecimalIs ==
    ASSUME NEW n \in Nat
    PROVE  Decimal[n] \in Seq(DOMAIN Digit) /\ Decimal[n] # None /\ Number(Decimal[n]) = n
<1> DEFINE Good(k) == Decimal[k] \in Seq(DOMAIN Digit) /\ Decimal[k] # None /\ Number(Decimal[k]) = k
           Fine == {k \in Nat : \A j \in 0..k : Good(j)}
<1>0. ASSUME NEW k \in Nat, k >= 10 => Good(k \div 10) PROVE Good(k)
    <2>1. PICK c \in DOMAIN Digit : LastDigit(k) = <<c>> /\ Digit[c] = k % 10
        BY LastDigitOf
    <2>2. CASE k < 10
        <3>1. Decimal[k] = <<c>> /\ k % 10 = k
            BY <2>1, <2>2, DecimalSteps DEF DecimalStep
        <3> QED
            BY <2>1, <3>1, NumberOne, OneOf DEF None
    <2>3. CASE k >= 10
        <3>0. ~(k < 10)
            BY <2>3
        <3> DEFINE h == Decimal[k \div 10]
        <3>1. Decimal[k] = h \o <<c>>
            <4>1. Decimal[k] = DecimalStep(Decimal, k)
                BY DecimalSteps
            <4> QED
                BY <2>1, <3>0, <4>1 DEF DecimalStep
        <3>2. h \in Seq(DOMAIN Digit) /\ Number(h) = k \div 10
            BY <1>0, <2>3
        <3> HIDE DEF h
        <3>3. Number(h \o <<c>>) = 10 * (k \div 10) + (k % 10)
            BY <2>1, <3>2, NumberAppend
        <3>4. <<c>> \in Seq(DOMAIN Digit) /\ Len(<<c>>) = 1
            BY OneOf
        <3>5. h \o <<c>> \in Seq(DOMAIN Digit) /\ Len(h \o <<c>>) = Len(h) + 1 /\ Len(h) \in Nat
            BY <3>2, <3>4, ConcatOf
        <3>6. h \o <<c>> # None
            BY <3>5 DEF None
        <3>7. 10 * (k \div 10) + (k % 10) = k
            BY <2>3, Smaller
        <3> QED
            BY <3>1, <3>3, <3>5, <3>6, <3>7
    <2> QED
        BY <2>2, <2>3
<1> HIDE DEF Good
<1>1. 0 \in Fine
    <2>1. \A j \in 0..0 : j = 0
        OBVIOUS
    <2> QED
        BY <1>0, <2>1
<1>2. ASSUME NEW k \in Fine PROVE k + 1 \in Fine
    <2>1. k \in Nat /\ k + 1 \in Nat /\ \A j \in 0..k : Good(j)
        OBVIOUS
    <2>2. ASSUME k + 1 >= 10 PROVE Good((k + 1) \div 10)
        <3>1. (k + 1) \div 10 \in 0..((k + 1) - 1)
            BY <2>1, <2>2, Smaller
        <3>2. (k + 1) - 1 = k
            BY <2>1
        <3> QED
            BY <2>1, <3>1, <3>2
    <2>3. Good(k + 1)
        BY <1>0, <2>1, <2>2
    <2>4. \A j \in 0..(k + 1) : j \in 0..k \/ j = k + 1
        BY <2>1
    <2> QED
        BY <2>1, <2>3, <2>4
<1>3. Fine \subseteq Nat
    OBVIOUS
<1> HIDE DEF Fine
<1>4. Fine = Nat
    BY <1>1, <1>2, <1>3, SetInduction
<1>5. n \in Fine /\ n \in 0..n
    BY <1>4
<1> QED
    BY <1>5 DEF Fine, Good

-----------------------------------------------------------------------------
(***************************************************************************)
(* Targets.                                                                *)
(***************************************************************************)
\* A part of a text, wherever it is said to begin and to end.
LEMMA PartOf ==
    ASSUME NEW s \in Text, NEW m \in Nat \ {0}, NEW n \in Int, n <= Len(s)
    PROVE  SubSeq(s, m, n) \in Text
<1>1. Len(s) \in Nat /\ \A i \in 1..Len(s) : s[i] \in Chars
    BY DEF Text
<1>2. \A i \in m..n : s[i] \in Chars
    BY <1>1
<1> QED
    BY <1>2, SubSeqProperties DEF Text

\* Where Target::parse finds the separators of s.
At(s) == SelectInSeq(s, LAMBDA c : c = "@")
Close(s) == SelectInSeq(s, LAMBDA c : c = "]")
Colon(s) == SelectLastInSeq(s, LAMBDA c : c = ":")

LEMMA Separators ==
    ASSUME NEW s \in Text
    PROVE  /\ At(s) \in 0..Len(s) /\ Close(s) \in 0..Len(s) /\ Colon(s) \in 0..Len(s)
           /\ Len(s) \in Nat
           /\ At(s) # 0 => s[At(s)] = "@"
           /\ Close(s) # 0 => s[Close(s)] = "]"
           /\ Colon(s) # 0 => s[Colon(s)] = ":"
<1> DEFINE I(ch) == {i \in 1..Len(s) : s[i] = ch}
<1>1. Len(s) \in Nat
    BY DEF Text
<1>2. ASSUME NEW ch PROVE IF I(ch) # {} THEN Min(I(ch)) \in I(ch) /\ Max(I(ch)) \in I(ch) ELSE TRUE
    <2> DEFINE J == I(ch)
    <2>1. J \subseteq Nat /\ J \subseteq 1..Len(s)
        BY <1>1
    <2> HIDE DEF J
    <2>2. J # {} => Min(J) \in J /\ Max(J) \in J
        BY <1>1, <2>1, LeastOf, GreatestOf
    <2> QED
        BY <2>2 DEF J
<1>3. /\ At(s) = IF I("@") # {} THEN Min(I("@")) ELSE 0
      /\ Close(s) = IF I("]") # {} THEN Min(I("]")) ELSE 0
      /\ Colon(s) = IF I(":") # {} THEN Max(I(":")) ELSE 0
    BY DEF At, Close, Colon, SelectInSeq, SelectLastInSeq
<1>4. \A ch : \A i \in I(ch) : i \in 1..Len(s) /\ s[i] = ch
    OBVIOUS
<1> HIDE DEF I
<1>5. \A i \in 1..Len(s) : i \in 0..Len(s)
    BY <1>1
<1>6. 0 \in 0..Len(s)
    BY <1>1
<1>7. At(s) \in 0..Len(s) /\ (At(s) # 0 => s[At(s)] = "@")
    BY <1>2, <1>3, <1>4, <1>5, <1>6
<1>8. Close(s) \in 0..Len(s) /\ (Close(s) # 0 => s[Close(s)] = "]")
    BY <1>2, <1>3, <1>4, <1>5, <1>6
<1>9. Colon(s) \in 0..Len(s) /\ (Colon(s) # 0 => s[Colon(s)] = ":")
    BY <1>2, <1>3, <1>4, <1>5, <1>6
<1> QED
    BY <1>1, <1>7, <1>8, <1>9

\* What Target::parse takes for the host is not empty, and what it takes for the
\* port is one.
LEMMA ParsedTarget ==
    ASSUME NEW s \in Text, ParseTarget(s).ok
    PROVE  LET t == ParseTarget(s) IN
               /\ t.host \in Text /\ t.host # None
               /\ t.port \in Text /\ (t.port = None \/ IsPort(t.port))
<1> DEFINE at == At(s)
           rest == SubSeq(s, at + 1, Len(s))
           bracket == rest # None /\ rest[1] = "["
           close == Close(rest)
           colon == Colon(rest)
           end == IF bracket THEN close ELSE IF colon > 1 THEN colon ELSE Len(rest) + 1
           host == SubSeq(rest, IF bracket THEN 2 ELSE 1, end - 1)
           after == SubSeq(rest, IF bracket THEN end + 1 ELSE end, Len(rest))
           ok == /\ s # None /\ at # 1 /\ host # None
                 /\ bracket => close # 0
                 /\ after # None => after[1] = ":" /\ IsPort(Tail(after))
<1>1. ParseTarget(s) = [user |-> SubSeq(s, 1, at - 1), host |-> host,
         port |-> IF after = None THEN None ELSE Tail(after), ok |-> ok]
    BY DEF ParseTarget, At, Close, Colon
<1>2. ok /\ ParseTarget(s).host = host /\ ParseTarget(s).port = IF after = None THEN None ELSE Tail(after)
    <2> HIDE DEF at, host, after, ok
    <2> QED
        BY <1>1
<1>3. rest \in Text
    <2>1. at + 1 \in Nat \ {0} /\ Len(s) \in Int /\ Len(s) <= Len(s)
        BY Separators
    <2> HIDE DEF at
    <2> QED
        BY <2>1, PartOf
<1>4. close \in 0..Len(rest) /\ colon \in 0..Len(rest) /\ Len(rest) \in Nat
    BY <1>3, Separators
<1> HIDE DEF at, rest, close, colon
<1>5. end \in Nat /\ end - 1 <= Len(rest) /\ (~bracket => end # 0) /\ end - 1 \in Int
    BY <1>4
<1> HIDE DEF end
<1>6. host \in Text
    BY <1>3, <1>5, PartOf
<1>7. after \in Text
    <2>1. CASE bracket
        <3>1. end + 1 \in Nat \ {0}
            BY <1>5
        <3> QED
            BY <1>3, <1>4, <2>1, <3>1, PartOf
    <2>2. CASE ~bracket
        BY <1>3, <1>4, <1>5, <2>2, PartOf
    <2> QED
        BY <2>1, <2>2
<1> HIDE DEF after, host
<1>8. after # None => Tail(after) \in Text
    BY <1>7, HeadTailProperties DEF Text, None
<1> QED
    BY <1>2, <1>6, <1>8, TextsOf

\* Of a host name, Target::parse takes the whole for the host.
LEMMA HostIsTarget ==
    ASSUME NEW h \in Text, h # None, IsHostName(h)
    PROVE  ParseTarget(h).ok /\ ParseTarget(h).host = h
<1>0. Len(h) \in Nat /\ Len(h) # 0 /\ \A i \in 1..Len(h) : h[i] # "@" /\ h[i] # ":"
    BY DEF Text, None, IsHostName
<1>1. At(h) = 0 /\ Colon(h) = 0
    BY <1>0, Separators
<1>2. SubSeq(h, 1, Len(h)) = h
    BY SubSeqFull DEF Text
<1>3. SubSeq(h, Len(h) + 1, Len(h)) = None
    <2>1. Len(h) + 1 \in Int /\ Len(h) \in Int /\ Len(h) < Len(h) + 1
        BY <1>0
    <2> QED
        BY <2>1, SubSeqEmpty DEF None
<1>4. h[1] # "["
    BY DEF IsHostName
<1>5. (Len(h) + 1) - 1 = Len(h) /\ 0 + 1 = 1
    BY <1>0
<1> DEFINE rest == SubSeq(h, At(h) + 1, Len(h))
           bracket == rest # None /\ rest[1] = "["
           close == Close(rest)
           colon == Colon(rest)
           end == IF bracket THEN close ELSE IF colon > 1 THEN colon ELSE Len(rest) + 1
           host == SubSeq(rest, IF bracket THEN 2 ELSE 1, end - 1)
           after == SubSeq(rest, IF bracket THEN end + 1 ELSE end, Len(rest))
           ok == /\ h # None /\ At(h) # 1 /\ host # None
                 /\ bracket => close # 0
                 /\ after # None => after[1] = ":" /\ IsPort(Tail(after))
<1>6. ParseTarget(h) = [user |-> SubSeq(h, 1, At(h) - 1), host |-> host,
         port |-> IF after = None THEN None ELSE Tail(after), ok |-> ok]
    BY DEF ParseTarget, At, Close, Colon
<1>7. rest = h
    BY <1>1, <1>2, <1>5
<1> HIDE DEF rest
<1>8. ~bracket /\ colon = 0
    BY <1>1, <1>4, <1>7
<1> HIDE DEF bracket, colon
<1>9. end = Len(h) + 1
    BY <1>7, <1>8
<1> HIDE DEF end
<1>10. host = h /\ after = None
    BY <1>2, <1>3, <1>5, <1>7, <1>8, <1>9
<1> HIDE DEF host, after
<1> QED
    BY <1>1, <1>6, <1>8, <1>10

-----------------------------------------------------------------------------
(***************************************************************************)
(* First match wins.                                                       *)
(***************************************************************************)
Typed ==
    /\ file \in Seq(Line) /\ next \in 1..(Len(file) + 1)
    /\ found = [k \in Scalars |-> found[k]]

Fresh == status = "target" => next = 1 /\ active = TRUE /\ found = Nothing

Active == status = "lines" => (active <=> IsFor(next, dest.host))

IInv == Typed /\ Fresh /\ Active /\ FirstMatchWins

\* The last line read decides, if it is a Host line; else it changes nothing.
LEMMA NextIsFor ==
    ASSUME Typed, NEW h, next <= Len(file)
    PROVE  IsFor(next + 1, h) <=> IF IsHost(next) THEN PatternsMatch(file[next].args, h)
                                  ELSE IsFor(next, h)
<1>1. next \in Nat /\ next - 1 \in Nat /\ (next + 1) - 1 = next /\ next \in 1..next
    BY DEF Typed
<1>2. CASE IsHost(next)
    <2>1. \A j \in 1..next : (\A k \in (j + 1)..next : ~IsHost(k)) => j = next
        BY <1>1, <1>2
    <2>2. \A k \in (next + 1)..next : ~IsHost(k)
        BY <1>1
    <2> QED
        BY <1>1, <1>2, <2>1, <2>2 DEF IsFor
<1>3. CASE ~IsHost(next)
    <2>1. \A j \in 1..next : IsHost(j) => j \in 1..(next - 1)
        BY <1>1, <1>3
    <2>2. \A j \in 1..(next - 1) :
            (\A k \in (j + 1)..next : ~IsHost(k)) <=> (\A k \in (j + 1)..(next - 1) : ~IsHost(k))
        BY <1>1, <1>3
    <2> QED
        BY <1>1, <1>3, <2>1, <2>2 DEF IsFor
<1> QED
    BY <1>2, <1>3

\* A line that supplies nothing leaves what was found right.
LEMMA NothingSupplied ==
    ASSUME IInv, status = "lines", status' = "lines", next <= Len(file), next' = next + 1,
           UNCHANGED <<file, dest, found>>,
           \A k \in Scalars : ~Supplies(next, k, dest.host)
    PROVE  FirstMatchWins'
<1>1. next \in Nat /\ next' - 1 = next /\ \A i \in 1..next : i \in 1..(next - 1) \/ i = next
    BY DEF IInv, Typed
<1>2. \A i, k, h : Supplies(i, k, h)' <=> Supplies(i, k, h')
    BY DEF Supplies, IsFor, IsHost
<1> QED
    BY <1>1, <1>2 DEF IInv, FirstMatchWins

LEMMA FilesAre ==
    ASSUME NEW f \in Files
    PROVE  /\ f \in Seq(Line)
           /\ \A i \in DOMAIN f : f[i].keyword \notin Forwards => None \notin Range(f[i].args)
BY ConfigAssumption, Zenon

LEMMA InitInv == Init => IInv
<1> SUFFICES ASSUME Init PROVE IInv
    OBVIOUS
<1>0. file \in Seq(Line)
    BY FilesAre DEF Init
<1>1. file \in Seq(Line) /\ Len(file) \in Nat
    BY <1>0
<1> QED
    BY <1>1 DEF Init, IInv, Typed, Fresh, Active, FirstMatchWins, Nothing

LEMMA StepRead ==
    ASSUME IInv, ReadHost \/ Skip \/ ReadForward
    PROVE  IInv'
<1>1. /\ status = "lines" /\ status' = "lines" /\ next <= Len(file) /\ next' = next + 1
      /\ UNCHANGED <<file, dest, found>>
    BY DEF ReadHost, Skip, ReadForward, Reading, Applies, given
<1>2. \A k \in Scalars : ~Supplies(next, k, dest.host)
    BY <1>1 DEF IInv, Active, ReadHost, Skip, ReadForward, Reading, Applies, line, Supplies, Scalars,
                Forwards
<1>3. FirstMatchWins'
    BY <1>1, <1>2, NothingSupplied
<1>4. Typed' /\ Fresh'
    BY <1>1 DEF IInv, Typed, Fresh
<1>5. IsFor(next, dest.host)' <=> IsFor(next + 1, dest.host)
    BY <1>1 DEF IsFor, IsHost
<1>6. active' <=> IF IsHost(next) THEN PatternsMatch(file[next].args, dest.host) ELSE active
    BY DEF ReadHost, Skip, ReadForward, Reading, Applies, line, IsHost
<1>7. Active'
    BY <1>1, <1>5, <1>6, NextIsFor DEF IInv, Active
<1> QED
    BY <1>3, <1>4, <1>7 DEF IInv

LEMMA StepScalar ==
    ASSUME IInv, ReadScalar
    PROVE  IInv'
<1> DEFINE key == file[next].keyword
           args == file[next].args
<1>1. /\ status = "lines" /\ status' = "lines" /\ next <= Len(file) /\ next' = next + 1
      /\ UNCHANGED <<file, dest, active>>
      /\ key \in Scalars /\ key # "host" /\ active /\ args # None
      /\ found' = [found EXCEPT ![key] = Or(@, args)]
    BY DEF ReadScalar, Reading, Applies, line, given
<1>2. /\ next \in 1..Len(file) /\ next - 1 \in Nat /\ next' - 1 = next
      /\ \A i \in 1..next : i \in 1..(next - 1) \/ i = next
      /\ next \in 1..next /\ 1..(next - 1) \subseteq 1..next
    BY <1>1 DEF IInv, Typed
<1>3. Typed' /\ Fresh'
    BY <1>1, <1>2 DEF IInv, Typed, Fresh
<1>4. \A i, k, h : Supplies(i, k, h)' <=> Supplies(i, k, h')
    BY <1>1 DEF Supplies, IsFor, IsHost
<1>5. Active'
    <2>1. IsFor(next, dest.host)' <=> IsFor(next + 1, dest.host)
        BY <1>1 DEF IsFor, IsHost
    <2> QED
        BY <1>1, <2>1, NextIsFor DEF IInv, Active, IsHost
<1>6. \A k \in Scalars : Supplies(next, k, dest.host) <=> k = key
    BY <1>1 DEF IInv, Active, Supplies
<1>7. ASSUME NEW k \in Scalars
      PROVE  \/ found'[k] = None /\ \A i \in 1..next : ~Supplies(i, k, dest.host)
             \/ \E i \in 1..next :
                 /\ Supplies(i, k, dest.host) /\ found'[k] = file[i].args
                 /\ \A j \in 1..(i - 1) : ~Supplies(j, k, dest.host)
    <2>1. \/ found[k] = None /\ \A i \in 1..(next - 1) : ~Supplies(i, k, dest.host)
          \/ \E i \in 1..(next - 1) :
              /\ Supplies(i, k, dest.host) /\ found[k] = file[i].args
              /\ \A j \in 1..(i - 1) : ~Supplies(j, k, dest.host)
        BY <1>1 DEF IInv, FirstMatchWins
    <2>2. found'[k] = IF k = key THEN Or(found[k], args) ELSE found[k]
        BY <1>1 DEF IInv, Typed
    <2>3. CASE k = key /\ found[k] = None
        <3>1. \A i \in 1..(next - 1) : ~Supplies(i, k, dest.host)
            BY <2>1, <2>3 DEF Supplies
        <3> QED
            BY <1>2, <1>6, <2>2, <2>3, <3>1 DEF Or
    <2>4. CASE k = key /\ found[k] # None
        BY <1>2, <2>1, <2>2, <2>4 DEF Or
    <2>5. CASE k # key
        BY <1>2, <1>6, <2>1, <2>2, <2>5
    <2> QED
        BY <2>3, <2>4, <2>5
<1>8. FirstMatchWins'
    BY <1>1, <1>2, <1>4, <1>7 DEF FirstMatchWins
<1> QED
    BY <1>3, <1>5, <1>8 DEF IInv

\* Every other step reads nothing, or begins with nothing read.
LEMMA StepOther ==
    ASSUME IInv, GivenTarget \/ ReadFails \/ Resolve \/ ResolveFails \/ Spawn \/ UNCHANGED vars
    PROVE  IInv'
<1>1. Len(file) \in Nat
    BY DEF IInv, Typed
<1>2. CASE GivenTarget
    BY <1>1, <1>2
        DEF GivenTarget, given, reading, IInv, Typed, Fresh, Active, FirstMatchWins, IsFor, Nothing
<1>3. CASE Spawn
    BY <1>1, <1>3 DEF Spawn, IInv, Typed, Fresh, Active, FirstMatchWins, Nothing
<1>4. CASE ReadFails \/ Resolve \/ ResolveFails \/ UNCHANGED vars
    <2>1. /\ UNCHANGED <<file, next, active, found, dest>>
          /\ \/ status' \in {"resolved", "failed"} /\ status = "lines"
             \/ status' = status
        BY <1>4
            DEF ReadFails, Resolve, ResolveFails, vars, given, reading, Applies, Reading, AtEnd
    <2>2. \A i, k, h : Supplies(i, k, h)' <=> Supplies(i, k, h')
        BY <2>1 DEF Supplies, IsFor, IsHost
    <2>3. IsFor(next, dest.host)' <=> IsFor(next, dest.host)
        BY <2>1 DEF IsFor, IsHost
    <2>4. Typed' /\ Fresh' /\ Active'
        BY <2>1, <2>3 DEF IInv, Typed, Fresh, Active
    <2>5. FirstMatchWins'
        BY <2>1, <2>2 DEF IInv, FirstMatchWins
    <2> QED
        BY <2>4, <2>5 DEF IInv
<1> QED
    BY <1>2, <1>3, <1>4

\* Of every ~/.ssh/config, whatever order its Host lines and its values have,
\* each keyword gets the value of the first line that is for the host, in the
\* run of the user and in the background master that it spawns.
THEOREM FirstMatchIsFound == Spec => []FirstMatchWins
<1>1. IInv /\ [Next]_vars => IInv'
    BY StepRead, StepScalar, StepOther DEF Next, Parse
<1>2. IInv => FirstMatchWins
    BY DEF IInv
<1> QED
    BY InitInv, <1>1, <1>2, PTL DEF Spec

-----------------------------------------------------------------------------
(***************************************************************************)
(* What matches, and what is passed on.                                    *)
(***************************************************************************)
\* The parser applies the lines after a Host line exactly if the documentation
\* says that the line names the host.
LEMMA PatternsAreDocumented ==
    ASSUME NEW args \in Seq(Text), None \notin Range(args), NEW h \in Text
    PROVE  PatternsMatch(args, h) <=> {Negated(p) : p \in {q \in Range(args) : Names(q, h)}} = {FALSE}
<1>1. ASSUME NEW i \in DOMAIN args
      PROVE  /\ args[i] \in Range(args)
             /\ ~Negated(args[i]) => Wildcard[<<args[i], h>>] = Names(args[i], h)
             /\ Negated(args[i]) => Wildcard[<<Tail(args[i]), h>>] = Names(args[i], h)
    <2>1. args[i] \in Range(args) /\ args[i] \in Text /\ args[i] # None
        BY DEF Range
    <2>2. Tail(args[i]) \in Text
        BY <2>1, TailOf
    <2> QED
        BY <2>1, <2>2, WildcardStands DEF Names
<1>2. \A q \in Range(args) : \E i \in DOMAIN args : q = args[i]
    BY DEF Range
<1>3. \A p : Negated(p) \in BOOLEAN
    BY DEF Negated
<1> DEFINE S == {q \in Range(args) : Names(q, h)}
<1>4. PatternsMatch(args, h) <=> (\E q \in S : ~Negated(q)) /\ ~ \E q \in S : Negated(q)
    <2>1. (\E q \in S : ~Negated(q)) <=> \E i \in DOMAIN args : ~Negated(args[i]) /\ Names(args[i], h)
        BY <1>1, <1>2
    <2>2. (\E q \in S : Negated(q)) <=> \E i \in DOMAIN args : Negated(args[i]) /\ Names(args[i], h)
        BY <1>1, <1>2
    <2> QED
        BY <1>1, <2>1, <2>2 DEF PatternsMatch, Negated
<1> HIDE DEF S
<1>5. {Negated(p) : p \in S} = {FALSE} <=> (\E q \in S : ~Negated(q)) /\ ~ \E q \in S : Negated(q)
    <2>1. ASSUME \E q \in S : ~Negated(q), ~ \E q \in S : Negated(q)
          PROVE  {Negated(p) : p \in S} = {FALSE}
        <3>1. \A p \in S : Negated(p) = FALSE
            BY <1>3, <2>1
        <3> QED
            BY <2>1, <3>1
    <2>2. ASSUME {Negated(p) : p \in S} = {FALSE}
          PROVE  (\E q \in S : ~Negated(q)) /\ ~ \E q \in S : Negated(q)
        <3>1. \A p \in S : Negated(p) = FALSE
            <4>1. \A p \in S : Negated(p) \in {FALSE}
                BY <2>2
            <4> QED
                BY <4>1
        <3>2. \E p \in S : TRUE
            BY <2>2
        <3> QED
            BY <3>1, <3>2
    <2> QED
        BY <2>1, <2>2
<1> QED
    BY <1>4, <1>5 DEF S

-----------------------------------------------------------------------------
\* What was read, and what was given, is text; a value for Port is a port.
Known ==
    /\ file \in Files /\ target \in Text /\ active \in BOOLEAN
    /\ status \in {"lines", "resolved"} => dest = ParseTarget(target) /\ dest.ok
    /\ \A k \in Scalars : found[k] \in Seq(Text) /\ None \notin Range(found[k])
    /\ found["port"] # None => IsPort(Joined(found["port"]))
    /\ options.port \in Text /\ (options.port = None \/ IsNumber(options.port))
    /\ options.persist \in Text \cup Yes

Persists == {Disabled, [kind |-> "forever", secs |-> 0]}
                \cup {[kind |-> "timeout", secs |-> n] : n \in Nat}

\* A configuration that can be passed on: nothing in it is empty.
Settled(c) ==
    /\ c.host \in Text \ {None} /\ c.user # None /\ c.port \in Nat
    /\ c.identity # None /\ c.path # None /\ c.persist \in Persists

Resolved == status = "resolved" => Settled(config)

\* The options of a background master are those of the run that spawned it.
Passed ==
    asked # None =>
        /\ Settled(asked) /\ asked.persist # Disabled /\ target = asked.host
        /\ options.user = asked.user /\ options.port = Decimal[asked.port]
        /\ options.identity = asked.identity /\ options.path = asked.path
        /\ options.persist = PersistArg(asked.persist) /\ options.forwards = None

PInv == IInv /\ Known /\ Resolved /\ Passed /\ MasterDialsSameDestination

LEMMA FileLines ==
    ASSUME NEW f \in Files, NEW i \in DOMAIN f, f[i].keyword \notin Forwards
    PROVE  f[i].args \in Seq(Text) /\ None \notin Range(f[i].args)
<1>1. f \in Seq(Line) /\ None \notin Range(f[i].args)
    BY FilesAre
<1>2. f[i] \in Line
    BY <1>1
<1> QED
    BY <1>1, <1>2 DEF Line

LEMMA NumberOfText ==
    ASSUME NEW s \in Text, IsNumber(s)
    PROVE  Number(s) \in Nat
<1>1. s \in Seq(DOMAIN Digit)
    BY DEF IsNumber, Text
<1> QED
    BY <1>1, NumberAppend

LEMMA DecimalText ==
    ASSUME NEW n \in Nat
    PROVE  /\ Decimal[n] \in Text /\ Decimal[n] # None /\ IsNumber(Decimal[n])
           /\ Number(Decimal[n]) = n
<1> DEFINE s == Decimal[n]
<1>1. s \in Seq(DOMAIN Digit) /\ s # None /\ Number(s) = n
    BY DecimalIs
<1> HIDE DEF s
<1>2. \A i \in DOMAIN s : s[i] \in DOMAIN Digit
    BY <1>1
<1>3. s \in Text
    <2>1. s \in Seq(DOMAIN Digit) /\ DOMAIN Digit \subseteq Chars
        BY <1>1, TextsOf
    <2> DEFINE D == DOMAIN Digit
    <2> HIDE DEF D
    <2>2. s \in Seq(D) /\ D \subseteq Chars => s \in Seq(Chars)
        OBVIOUS
    <2> QED
        BY <2>1, <2>2 DEF D, Text
<1> QED
    BY <1>1, <1>2, <1>3 DEF IsNumber, s

LEMMA JoinedNone == Joined(None) = None
<1>1. None \in Seq(Text) /\ Len(None) = 0
    BY DEF None
<1> QED
    BY <1>1, JoinedSteps

\* What ControlPersist may be, and that the argument for it says the same.
LEMMA PersistIs ==
    ASSUME NEW s \in Text \cup Yes, IsPersist(s)
    PROVE  Persist(s) \in Persists
<1>1. CASE s \in Yes
    BY <1>1 DEF Persist, Persists
<1>2. CASE s \notin Yes /\ s \in No \cup {None}
    BY <1>2 DEF Persist, Persists
<1>3. CASE s \notin Yes /\ s \notin No \cup {None}
    <2>1. IsNumber(Amount(s)) /\ s # None /\ s \in Text
        BY <1>3 DEF IsPersist
    <2>2. Len(s) \in Nat \ {0} /\ Front(s) = SubSeq(s, 1, Len(s) - 1)
        BY <2>1 DEF Text, None, Front
    <2>3. Front(s) \in Text
        <3>1. Len(s) - 1 \in Int /\ Len(s) - 1 <= Len(s)
            BY <2>2
        <3> QED
            BY <2>1, <2>2, <3>1, PartOf
    <2>4. Amount(s) \in Text
        BY <2>1, <2>3 DEF Amount
    <2>5. Number(Amount(s)) \in Nat
        BY <2>1, <2>4, NumberOfText
    <2>6. Unit(s) \in {"s", "m", "h"}
        BY DEF Unit, Units
    <2>7. Units[Unit(s)] = 1 \/ Units[Unit(s)] = 60 \/ Units[Unit(s)] = 3600
        BY <2>6 DEF Units
    <2> DEFINE n == Number(Amount(s))
               u == Units[Unit(s)]
    <2>8. n * u \in Nat
        <3>1. n \in Nat /\ (u = 1 \/ u = 60 \/ u = 3600)
            BY <2>5, <2>7
        <3> HIDE DEF n, u
        <3> QED
            BY <3>1
    <2>9. Persist(s) = [kind |-> "timeout", secs |-> n * u]
        BY <1>3 DEF Persist
    <2> HIDE DEF n, u
    <2> QED
        BY <2>8, <2>9 DEF Persists
<1> QED
    BY <1>1, <1>2, <1>3

LEMMA PersistBack ==
    ASSUME NEW p \in Persists, p # Disabled
    PROVE  LET s == PersistArg(p) IN
               s \in Text \cup Yes /\ s # None /\ IsPersist(s) /\ Persist(s) = p
<1>1. CASE p.kind # "timeout"
    <2>1. p = [kind |-> "forever", secs |-> 0] /\ PersistArg(p) = <<"y", "e", "s">>
        BY <1>1 DEF Persists, PersistArg
    <2>2. <<"y", "e", "s">> \in Yes /\ <<"y", "e", "s">> # <<>>
        BY DEF Yes
    <2> DEFINE s == <<"y", "e", "s">>
    <2> HIDE DEF s
    <2>3. s \in Yes /\ s # None
        BY <2>2 DEF None, s
    <2>5. s \notin No
        <3>1. s[1] = "y"
            BY DEF s
        <3> QED
            BY <3>1 DEF No
    <2>4. PersistArg(p) = s /\ IsPersist(s) /\ Persist(s) = p
        <3>1. PersistArg(p) = s
            BY <2>1 DEF s
        <3>2. IsPersist(s) /\ Persist(s) = [kind |-> "forever", secs |-> 0]
            BY <2>3, <2>5 DEF IsPersist, Persist
        <3> QED
            BY <2>1, <3>1, <3>2
    <2> QED
        BY <2>3, <2>4
<1>2. CASE p.kind = "timeout"
    <2>1. PICK n \in Nat : p = [kind |-> "timeout", secs |-> n]
        BY <1>2 DEF Persists, Disabled
    <2> DEFINE s == Decimal[n]
    <2>2. PersistArg(p) = s
        BY <2>1 DEF PersistArg
    <2>3. s \in Text /\ s # None /\ IsNumber(s) /\ Number(s) = n
        BY DecimalText
    <2> HIDE DEF s
    <2>4. Len(s) \in Nat \ {0} /\ 1 \in DOMAIN s /\ Len(s) \in DOMAIN s
        BY <2>3 DEF Text, None
    <2>5. s[1] \in DOMAIN Digit /\ s[Len(s)] \in DOMAIN Digit
        BY <2>3, <2>4 DEF IsNumber
    <2>6. s[1] \notin {"y", "t", "n", "f"} /\ s[Len(s)] \notin DOMAIN Units
        BY <2>5 DEF Digit, Units
    <2>7. s \notin Yes /\ s \notin No
        BY <2>6 DEF Yes, No
    <2>8. Unit(s) = "s" /\ Amount(s) = s
        BY <2>6 DEF Unit, Amount
    <2>9. Number(s) * Units["s"] = n
        BY <2>3 DEF Units
    <2>10. IsPersist(s) /\ Persist(s) = p
        BY <2>1, <2>3, <2>7, <2>8, <2>9 DEF IsPersist, Persist
    <2> QED
        BY <2>2, <2>3, <2>10
<1> QED
    BY <1>1, <1>2
-----------------------------------------------------------------------------
LEMMA ParsedAre ==
    ASSUME Known, status \in {"lines", "resolved"}
    PROVE  /\ dest.host \in Text /\ dest.host # None
           /\ dest.port \in Text /\ (dest.port = None \/ IsPort(dest.port))
BY ParsedTarget DEF Known

LEMMA ValueIs ==
    ASSUME Known, NEW k \in Scalars
    PROVE  /\ Value(k) \in Text /\ (found[k] # None => Value(k) # None)
           /\ (found[k] = None => Value(k) = None)
BY JoinedText, JoinedNone DEF Known, Value

\* What resolve_with_home makes of each part.
LEMMA ResolvedConfig ==
    ASSUME Resolve
    PROVE  /\ config'.host = Or(Value("hostname"), dest.host)
           /\ config'.user = Or(options.user, Or(dest.user,
                                  Or(Value("user"), Or(UserEnv, <<"r", "o", "o", "t">>))))
           /\ config'.port = Number(Or(options.port, Or(dest.port,
                                  Or(Value("port"), <<"2", "2", "2", "2">>))))
           /\ config'.persist = Persist(PersistValue)
           /\ \E conf : config'.identity = Or(options.identity,
                IF found["identityfile"] = None THEN <<<<"id">>>>
                ELSE Expand(Value("identityfile"), conf))
           /\ \E conf : config'.path = Or(options.path,
                IF found["controlpath"] = None THEN <<conf.user, conf.host, Decimal[conf.port]>>
                ELSE Expand(Value("controlpath"), conf))
<1> DEFINE conf == [host |-> Or(Value("hostname"), dest.host), original |-> dest.host,
                     user |-> Or(options.user, Or(dest.user,
                                  Or(Value("user"), Or(UserEnv, <<"r", "o", "o", "t">>)))),
                     port |-> Number(Or(options.port, Or(dest.port,
                                  Or(Value("port"), <<"2", "2", "2", "2">>))))]
           identity == Or(options.identity,
                IF found["identityfile"] = None THEN <<<<"id">>>>
                ELSE Expand(Value("identityfile"), conf))
           path == Or(options.path,
                IF found["controlpath"] = None THEN <<conf.user, conf.host, Decimal[conf.port]>>
                ELSE Expand(Value("controlpath"), conf))
           all == forwards \o [i \in DOMAIN options.forwards |-> ForwardSpec(options.forwards[i])]
           explicit == options.path # None \/ found["controlpath"] # None
           auto == Value("controlmaster") \in Yes \cup {<<"a", "u", "t", "o">>}
<1>1. config' = [host |-> conf.host, original |-> conf.original, user |-> conf.user, port |-> conf.port,
             identity |-> identity, path |-> path, explicit |-> explicit, auto |-> auto,
             forwards |-> all, persist |-> Persist(PersistValue), master |-> options.master]
    BY DEF Resolve
<1>2. /\ conf.host = Or(Value("hostname"), dest.host)
      /\ conf.user = Or(options.user, Or(dest.user,
                                  Or(Value("user"), Or(UserEnv, <<"r", "o", "o", "t">>))))
      /\ conf.port = Number(Or(options.port, Or(dest.port,
                                  Or(Value("port"), <<"2", "2", "2", "2">>))))
    OBVIOUS
<1>3. /\ \E c : identity = Or(options.identity,
                IF found["identityfile"] = None THEN <<<<"id">>>>
                ELSE Expand(Value("identityfile"), c))
      /\ \E c : path = Or(options.path,
                IF found["controlpath"] = None THEN <<c.user, c.host, Decimal[c.port]>>
                ELSE Expand(Value("controlpath"), c))
    <2> HIDE DEF conf
    <2> QED
        OBVIOUS
<1> HIDE DEF conf, identity, path, all, explicit, auto
<1>4. /\ config'.host = conf.host /\ config'.user = conf.user /\ config'.port = conf.port
      /\ config'.persist = Persist(PersistValue)
      /\ config'.identity = identity /\ config'.path = path
    BY <1>1
<1> QED
    BY <1>2, <1>3, <1>4

LEMMA ExpandedIs ==
    ASSUME NEW s \in Text, s # None, NEW conf
    PROVE  Expand(s, conf) # None
<1>1. 1 \in DOMAIN s
    BY DEF Text, None
<1>2. DOMAIN Expand(s, conf) = DOMAIN s
    BY DEF Expand
<1>3. 1 \notin DOMAIN None
    BY DEF None
<1> QED
    BY <1>1, <1>2, <1>3

LEMMA DefaultsAre ==
    /\ <<"r", "o", "o", "t">> # None /\ <<<<"id">>>> # None
    /\ \A a, b, c : <<a, b, c>> # None
    /\ <<"2", "2", "2", "2">> \in Seq(DOMAIN Digit) /\ IsNumber(<<"2", "2", "2", "2">>)
<1>1. /\ Len(<<"r", "o", "o", "t">>) = 4 /\ Len(<<<<"id">>>>) = 1
      /\ \A a, b, c : Len(<<a, b, c>>) = 3
      /\ Len(<<"2", "2", "2", "2">>) = 4 /\ Len(None) = 0
    BY DEF None
<1>2. "2" \in DOMAIN Digit
    BY DEF Digit
<1> DEFINE D == DOMAIN Digit
<1>3. ASSUME NEW c \in D PROVE <<c, c, c, c>> \in Seq(D) /\ \A i \in DOMAIN <<c, c, c, c>> : <<c, c, c, c>>[i] \in D
    <2> HIDE DEF D
    <2> QED
        BY <1>3
<1> QED
    BY <1>1, <1>2, <1>3 DEF IsNumber

\* What a run resolves can be passed on.
LEMMA ResolveSettles ==
    ASSUME Known, Resolve
    PROVE  Settled(config')
<1>0. status = "lines" /\ {"hostname", "user", "port", "identityfile", "controlpath", "controlpersist"}
        \subseteq Scalars
    BY DEF Resolve, AtEnd, Scalars
<1>1. config'.host \in Text \ {None}
    BY <1>0, ParsedAre, ValueIs, ResolvedConfig DEF Or
<1>2. config'.user # None
    BY ResolvedConfig, DefaultsAre DEF Or
<1>3. config'.port \in Nat
    <2>1. ASSUME NEW a \in Text, a # None => IsNumber(a) PROVE a # None => Number(a) \in Nat
        BY <2>1, NumberOfText
    <2>2. options.port \in Text /\ (options.port # None => IsNumber(options.port))
        BY DEF Known
    <2>3. dest.port \in Text /\ (dest.port # None => IsNumber(dest.port))
        BY <1>0, ParsedAre DEF IsPort
    <2>4. Value("port") \in Text /\ (Value("port") # None => IsNumber(Value("port")))
        <3>1. found["port"] # None => IsPort(Value("port"))
            BY DEF Known, Value
        <3> QED
            BY <1>0, <3>1, ValueIs DEF IsPort
    <2>5. Number(<<"2", "2", "2", "2">>) \in Nat
        BY DefaultsAre, NumberAppend
    <2>6. /\ options.port # None => Number(options.port) \in Nat
          /\ dest.port # None => Number(dest.port) \in Nat
          /\ Value("port") # None => Number(Value("port")) \in Nat
        BY <2>1, <2>2, <2>3, <2>4
    <2> QED
        BY <2>5, <2>6, ResolvedConfig DEF Or
<1>4. config'.identity # None
    <2>1. \A conf : (IF found["identityfile"] = None THEN <<<<"id">>>>
                     ELSE Expand(Value("identityfile"), conf)) # None
        BY <1>0, ValueIs, ExpandedIs, DefaultsAre
    <2> QED
        BY <2>1, ResolvedConfig DEF Or
<1>5. config'.path # None
    <2>1. \A conf : (IF found["controlpath"] = None THEN <<conf.user, conf.host, Decimal[conf.port]>>
                     ELSE Expand(Value("controlpath"), conf)) # None
        BY <1>0, ValueIs, ExpandedIs, DefaultsAre
    <2> QED
        BY <2>1, ResolvedConfig DEF Or
<1>6. config'.persist \in Persists
    <2>1. IsPersist(PersistValue) /\ config'.persist = Persist(PersistValue)
        BY ResolvedConfig DEF Resolve, Resolvable
    <2>2. PersistValue \in Text \cup Yes
        BY <1>0, ValueIs DEF PersistValue, Or, Known
    <2> QED
        BY <2>1, <2>2, PersistIs
<1> QED
    BY <1>1, <1>2, <1>3, <1>4, <1>5, <1>6 DEF Settled
\* A background master resolves what it was told.
LEMMA ResolveSame ==
    ASSUME PInv, Resolve, asked # None, IsHostName(asked.host),
           ~ \E i \in DOMAIN file : Supplies(i, "hostname", asked.host)
    PROVE  \A f \in {"host", "user", "port", "identity", "path", "persist"} : config'[f] = asked[f]
<1>0. status = "lines" /\ "hostname" \in Scalars /\ Settled(asked) /\ Known
    BY DEF Resolve, AtEnd, Scalars, PInv, Passed
<1>1. dest.host = asked.host
    BY <1>0, HostIsTarget DEF PInv, Known, Passed, Settled
<1>2. found["hostname"] = None
    <2>1. 1..(next - 1) \subseteq DOMAIN file
        BY DEF PInv, IInv, Typed
    <2> QED
        BY <1>0, <1>1, <2>1 DEF PInv, IInv, FirstMatchWins
<1>3. config'.host = asked.host
    BY <1>0, <1>1, <1>2, ValueIs, ResolvedConfig DEF Or
<1>4. config'.user = asked.user
    BY <1>0, ResolvedConfig DEF Or, PInv, Passed, Settled
<1>5. config'.port = asked.port
    <2>1. options.port = Decimal[asked.port] /\ asked.port \in Nat
        BY DEF PInv, Passed, Settled
    <2>2. options.port # None /\ Number(options.port) = asked.port
        BY <2>1, DecimalText
    <2> QED
        BY <2>2, ResolvedConfig DEF Or
<1>6. config'.identity = asked.identity
    BY <1>0, ResolvedConfig DEF Or, PInv, Passed, Settled
<1>7. config'.path = asked.path
    BY <1>0, ResolvedConfig DEF Or, PInv, Passed, Settled
<1>8. config'.persist = asked.persist
    <2>1. options.persist = PersistArg(asked.persist) /\ asked.persist \in Persists \ {Disabled}
        BY DEF PInv, Passed, Settled
    <2>2. options.persist # None /\ Persist(options.persist) = asked.persist
        BY <2>1, PersistBack
    <2>3. PersistValue = options.persist
        BY <2>2 DEF PersistValue, Or
    <2> QED
        BY <2>2, <2>3, ResolvedConfig
<1> QED
    BY <1>3, <1>4, <1>5, <1>6, <1>7, <1>8

LEMMA NothingIs == \A k \in Scalars : Nothing[k] \in Seq(Text) /\ None \notin Range(Nothing[k])
<1>1. None \in Seq(Text) /\ Range(None) = {}
    BY DEF None, Range
<1> QED
    BY <1>1 DEF Nothing

LEMMA InitKnown == Init => Known /\ Resolved /\ Passed /\ MasterDialsSameDestination
<1> SUFFICES ASSUME Init PROVE Known /\ Resolved /\ Passed /\ MasterDialsSameDestination
    OBVIOUS
<1>1. Targets \subseteq Text
    BY ConfigAssumption, Zenon
<1>2. options.port \in Text /\ options.persist \in Text /\ (options.port = None \/ IsPort(options.port))
    <2>1. \A o \in Options : {o.port, o.persist} \subseteq Text /\ (o.port = None \/ IsPort(o.port))
        BY ConfigAssumption, Zenon
    <2> QED
        BY <2>1 DEF Init
<1>3. found["port"] = None
    BY DEF Init, Nothing, Scalars
<1>4. Known
    BY <1>1, <1>2, <1>3, NothingIs DEF Init, Known, IsPort
<1> QED
    BY <1>4 DEF Init, Resolved, Passed, MasterDialsSameDestination

\* The lines leave alone what was given, and what was passed on.
LEMMA KeepsPassed ==
    ASSUME PInv, UNCHANGED given
    PROVE  Passed'
BY DEF PInv, Passed, given, Settled

\* While the file is read there is nothing to say of the result.
LEMMA NotResolved ==
    ASSUME status' \notin {"resolved", "failed"}
    PROVE  Resolved' /\ MasterDialsSameDestination'
BY DEF Resolved, MasterDialsSameDestination

LEMMA StepTarget ==
    ASSUME PInv, GivenTarget
    PROVE  Known' /\ Resolved' /\ Passed' /\ MasterDialsSameDestination'
<1>1. /\ UNCHANGED <<file, target, options, asked, found, active>>
      /\ dest' = ParseTarget(target) /\ status' = IF dest'.ok THEN "lines" ELSE "failed"
    BY DEF GivenTarget, given, reading
<1>2. Known'
    BY <1>1 DEF PInv, Known
<1>3. Passed'
    BY KeepsPassed DEF GivenTarget
<1>4. Resolved'
    BY <1>1 DEF Resolved
<1>5. ASSUME asked # None, IsHostName(asked.host) PROVE status' # "failed"
    <2>1. target = asked.host /\ asked.host \in Text /\ asked.host # None
        BY <1>5 DEF PInv, Passed, Settled
    <2> QED
        BY <1>1, <1>5, <2>1, HostIsTarget
<1>6. MasterDialsSameDestination'
    BY <1>1, <1>5 DEF MasterDialsSameDestination
<1> QED
    BY <1>2, <1>3, <1>4, <1>6

LEMMA StepLine ==
    ASSUME PInv, ReadHost \/ Skip \/ ReadForward
    PROVE  Known' /\ Resolved' /\ Passed' /\ MasterDialsSameDestination'
<1>1. UNCHANGED <<given, status, dest, found>> /\ status = "lines"
    BY DEF ReadHost, Skip, ReadForward, Applies, Reading
<1>2. active' \in BOOLEAN
    BY DEF ReadHost, Skip, ReadForward, PatternsMatch, PInv, Known
<1>3. Known'
    BY <1>1, <1>2 DEF PInv, Known, given
<1> QED
    BY <1>1, <1>3, KeepsPassed, NotResolved

LEMMA StepValue ==
    ASSUME PInv, ReadScalar
    PROVE  Known' /\ Resolved' /\ Passed' /\ MasterDialsSameDestination'
<1> DEFINE key == file[next].keyword
           args == file[next].args
<1>1. /\ UNCHANGED <<given, status, dest, active>> /\ status = "lines" /\ next <= Len(file)
      /\ key \in Scalars /\ (found[key] = None /\ key = "port" => IsPort(Joined(args)))
      /\ found' = [found EXCEPT ![key] = Or(@, args)]
    BY DEF ReadScalar, Reading, Applies, line
<1>2. args \in Seq(Text) /\ None \notin Range(args)
    <2>1. next \in DOMAIN file /\ file \in Files
        BY <1>1 DEF PInv, IInv, Typed, Known
    <2>2. key \notin Forwards
        BY <1>1 DEF Scalars, Forwards
    <2> QED
        BY <2>1, <2>2, FileLines
<1> HIDE DEF key, args
<1>3. \A k \in Scalars : found'[k] = IF k = key /\ found[k] = None THEN args ELSE found[k]
    BY <1>1 DEF PInv, IInv, Typed, Or
<1>4. "port" \in Scalars
    BY DEF Scalars
<1>5. /\ \A k \in Scalars : found'[k] \in Seq(Text) /\ None \notin Range(found'[k])
      /\ found'["port"] # None => IsPort(Joined(found'["port"]))
    BY <1>1, <1>2, <1>3, <1>4 DEF PInv, Known
<1>6. Known'
    BY <1>1, <1>5 DEF PInv, Known, given
<1> QED
    BY <1>1, <1>6, KeepsPassed, NotResolved

LEMMA StepFails ==
    ASSUME PInv, ReadFails \/ ResolveFails
    PROVE  Known' /\ Resolved' /\ Passed' /\ MasterDialsSameDestination'
<1>1. UNCHANGED <<given, reading, dest, config>> /\ status = "lines" /\ status' = "failed"
    BY DEF ReadFails, ResolveFails, Applies, Reading, AtEnd
<1>2. Known'
    BY <1>1 DEF PInv, Known, given, reading
<1>3. Resolved'
    BY <1>1 DEF Resolved
<1>4. ASSUME asked # None, IsHostName(asked.host)
      PROVE  \E i \in DOMAIN file :
                 Supplies(i, file[i].keyword, asked.host) /\ IsInvalid(file[i])
    <2>1. CASE ReadFails
        <3>1. next \in DOMAIN file /\ file[next].args # None /\ active
            BY <2>1 DEF ReadFails, Applies, Reading, line, PInv, IInv, Typed
        <3>2. IsInvalid(file[next])
            BY <2>1 DEF ReadFails, line, IsInvalid
        <3>3. asked.host \in Text /\ asked.host # None /\ target = asked.host
            BY <1>4 DEF PInv, Passed, Settled
        <3>4. dest.host = asked.host
            BY <1>1, <1>4, <3>3, HostIsTarget DEF PInv, Known
        <3>5. IsFor(next, asked.host)
            BY <1>1, <3>1, <3>4 DEF PInv, IInv, Active
        <3> QED
            BY <3>1, <3>2, <3>5 DEF Supplies
    <2>2. CASE ResolveFails
        <3>1. options.persist = PersistArg(asked.persist) /\ asked.persist \in Persists \ {Disabled}
            BY <1>4 DEF PInv, Passed, Settled
        <3>2. PersistValue = options.persist /\ IsPersist(options.persist)
            BY <3>1, PersistBack DEF PersistValue, Or
        <3>3. options.forwards = None
            BY <1>4 DEF PInv, Passed
        <3>4. DOMAIN options.forwards = {}
            BY <3>3 DEF None
        <3>5. Resolvable
            BY <3>2, <3>4 DEF Resolvable
        <3> QED
            BY <2>2, <3>5 DEF ResolveFails
    <2> QED
        BY <2>1, <2>2
<1>5. MasterDialsSameDestination'
    BY <1>1, <1>4 DEF MasterDialsSameDestination, given, Supplies, IsFor, IsHost
<1> QED
    BY <1>1, <1>2, <1>3, <1>5, KeepsPassed

LEMMA StepResolve ==
    ASSUME PInv, Resolve
    PROVE  Known' /\ Resolved' /\ Passed' /\ MasterDialsSameDestination'
<1>1. UNCHANGED <<given, reading, dest>> /\ status = "lines" /\ status' = "resolved"
    BY DEF Resolve, AtEnd
<1>2. Known'
    BY <1>1 DEF PInv, Known, given, reading
<1>3. Settled(config')
    BY ResolveSettles DEF PInv
<1>4. Resolved'
    BY <1>3 DEF Resolved, Settled
<1>5. asked' = asked /\ file' = file
    BY <1>1 DEF given
<1>6. (\E i \in DOMAIN file : Supplies(i, "hostname", asked.host))'
        <=> \E i \in DOMAIN file : Supplies(i, "hostname", asked.host)
    BY <1>5 DEF Supplies, IsFor, IsHost
<1>7. MasterDialsSameDestination'
    BY <1>1, <1>5, <1>6, ResolveSame DEF MasterDialsSameDestination
<1> QED
    BY <1>1, <1>2, <1>4, <1>7, KeepsPassed

LEMMA StepSpawn ==
    ASSUME PInv, Spawn
    PROVE  Known' /\ Resolved' /\ Passed' /\ MasterDialsSameDestination'
<1>1. /\ Settled(config) /\ config.persist # Disabled /\ file' = file /\ status' = "target"
      /\ target' = config.host /\ asked' = config /\ found' = Nothing /\ active' = TRUE
    BY DEF Spawn, PInv, Resolved
<1>2. /\ options'.user = config.user /\ options'.port = Decimal[config.port]
      /\ options'.identity = config.identity /\ options'.path = config.path
      /\ options'.persist = PersistArg(config.persist) /\ options'.forwards = None
    BY DEF Spawn, SpawnOptions
<1>3. Passed'
    BY <1>1, <1>2 DEF Passed, Settled
<1>4. options'.port \in Text /\ IsNumber(options'.port)
    BY <1>1, <1>2, DecimalText DEF Settled
<1>5. options'.persist \in Text \cup Yes
    BY <1>1, <1>2, PersistBack DEF Settled
<1>6. Nothing["port"] = None
    BY DEF Nothing, Scalars
<1>7. Known'
    BY <1>1, <1>4, <1>5, <1>6, NothingIs DEF PInv, Known, Settled
<1> QED
    BY <1>1, <1>3, <1>7, NotResolved

LEMMA StepNone ==
    ASSUME PInv, UNCHANGED vars
    PROVE  Known' /\ Resolved' /\ Passed' /\ MasterDialsSameDestination'
<1>1. UNCHANGED <<file, target, options, asked, next, active, found, status, dest, config>>
    BY DEF vars, given, reading
<1>2. Known'
    BY <1>1 DEF PInv, Known
<1>3. Resolved'
    BY <1>1 DEF PInv, Resolved, Settled
<1>4. Passed'
    BY KeepsPassed DEF vars
<1>5. MasterDialsSameDestination'
    BY <1>1 DEF PInv, MasterDialsSameDestination, Supplies, IsFor, IsHost
<1> QED
    BY <1>2, <1>3, <1>4, <1>5

LEMMA Passes == Spec => []PInv
<1>1. Init => PInv
    BY InitInv, InitKnown DEF PInv
<1>2. PInv /\ [Next]_vars => PInv'
    <2> SUFFICES ASSUME PInv, [Next]_vars PROVE PInv'
        OBVIOUS
    <2>1. IInv'
        BY StepRead, StepScalar, StepOther DEF PInv, Next, Parse
    <2>2. Known' /\ Resolved' /\ Passed' /\ MasterDialsSameDestination'
        BY StepTarget, StepLine, StepValue, StepFails, StepResolve, StepSpawn, StepNone DEF Next, Parse
    <2> QED
        BY <2>1, <2>2 DEF PInv
<1> QED
    BY <1>1, <1>2, PTL DEF Spec

\* Of every ~/.ssh/config and every way to write its patterns, the lines that
\* apply are those that the documentation says.
THEOREM PatternsMatchAsDocumented == Spec => []MatchesAsDocumented
<1>1. ASSUME IInv, Known PROVE MatchesAsDocumented
    <2> SUFFICES ASSUME status = "lines"
                 PROVE  active <=> \A j \in 1..(next - 1) :
                            (IsHost(j) /\ \A i \in (j + 1)..(next - 1) : ~IsHost(i)) =>
                                {Negated(p) : p \in {q \in Range(file[j].args) : Names(q, dest.host)}} = {FALSE}
        BY <1>1 DEF MatchesAsDocumented, Known
    <2>1. dest.host \in Text
        BY <1>1, ParsedAre
    <2>2. ASSUME NEW j \in 1..(next - 1), IsHost(j)
          PROVE  PatternsMatch(file[j].args, dest.host)
                    <=> {Negated(p) : p \in {q \in Range(file[j].args) : Names(q, dest.host)}} = {FALSE}
        <3>1. j \in DOMAIN file /\ file \in Files
            BY <1>1 DEF IInv, Typed, Known
        <3>2. file[j].keyword \notin Forwards
            BY <2>2 DEF IsHost, Forwards
        <3>3. file[j].args \in Seq(Text) /\ None \notin Range(file[j].args)
            BY <3>1, <3>2, FileLines
        <3> QED
            BY <2>1, <3>3, PatternsAreDocumented
    <2>3. active <=> IsFor(next, dest.host)
        BY <1>1 DEF IInv, Active
    <2> QED
        BY <2>2, <2>3 DEF IsFor
<1>2. PInv => MatchesAsDocumented
    BY <1>1 DEF PInv
<1> QED
    BY <1>2, Passes, PTL

\* Whatever was resolved, a background master that is given it resolves the same.
THEOREM MasterResolvesTheSame == Spec => []MasterDialsSameDestination
<1>1. PInv => MasterDialsSameDestination
    BY DEF PInv
<1> QED
    BY <1>1, Passes, PTL
=============================================================================
