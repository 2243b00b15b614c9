---------------------------- MODULE Providers_proof ----------------------------
(***************************************************************************)
(* The built-in providers: what applies, commands, edits, drifts, failures *)
(* and kills do to the hamsfiles, the state file and the host, for any     *)
(* provider that Kinds describes, any things, values, tags, sections the   *)
(* user edits by hand and any number of changes and troubles.              *)
(*                                                                         *)
(* The loops over a list are recursive functions, and what they compute is *)
(* proved of them by a least counterexample.                               *)
(***************************************************************************)
EXTENDS Providers, WellFoundedInduction, TLAPS

-----------------------------------------------------------------------------
(* Numbers, and the loops over a list.                                     *)

(* A set of numbers that is not empty has a least element.                 *)
LEMMA Least ==
  ASSUME NEW S \in SUBSET Nat, S # {}
  PROVE  \E n \in S : \A m \in S : n <= m
<1>1. PICK n \in S : \A m \in S : ~ (<<m, n>> \in OpToRel(<, Nat))
  BY WFMin, NatLessThanWellFounded
<1>2. \A m \in S : ~ (m < n)
  BY <1>1 DEF OpToRel
<1> QED
  BY <1>2

(* The IDs of a list of entries.                                           *)
IdsIn(list) == {e.id : e \in ToSet(list)}

(* Appending adds one element.                                             *)
LEMMA AppendSet ==
  ASSUME NEW E, NEW list \in Seq(E), NEW e \in E
  PROVE  ToSet(Append(list, e)) = ToSet(list) \cup {e}
<1> DEFINE longer == Append(list, e)
<1>1. /\ Len(list) \in Nat
      /\ DOMAIN list = 1..Len(list)
      /\ DOMAIN longer = 1..(Len(list) + 1)
      /\ \A i \in 1..Len(list) : longer[i] = list[i]
      /\ longer[Len(list) + 1] = e
  OBVIOUS
<1> HIDE DEF longer
<1>2. ToSet(longer) \subseteq ToSet(list) \cup {e}
  <2>1. SUFFICES ASSUME NEW x \in ToSet(longer) PROVE x \in ToSet(list) \cup {e}
    OBVIOUS
  <2>2. PICK i \in 1..(Len(list) + 1) : x = longer[i]
    BY <1>1 DEF ToSet
  <2>3. i = Len(list) + 1 \/ i \in 1..Len(list)
    BY <1>1
  <2> QED
    BY <1>1, <2>2, <2>3 DEF ToSet
<1>3. ToSet(list) \subseteq ToSet(longer)
  <2>1. SUFFICES ASSUME NEW x \in ToSet(list) PROVE x \in ToSet(longer)
    OBVIOUS
  <2>2. PICK i \in 1..Len(list) : x = list[i]
    BY <1>1 DEF ToSet
  <2>3. i \in 1..(Len(list) + 1)
    BY <1>1
  <2> QED
    BY <1>1, <2>2, <2>3 DEF ToSet
<1>4. e \in ToSet(longer)
  <2>1. Len(list) + 1 \in 1..(Len(list) + 1)
    BY <1>1
  <2> QED
    BY <1>1, <2>1 DEF ToSet
<1> QED
  BY <1>2, <1>3, <1>4 DEF longer

LEMMA ConcatSet ==
  ASSUME NEW E, NEW ms \in Seq(E), NEW ls \in Seq(E)
  PROVE  ToSet(ms \o ls) = ToSet(ms) \cup ToSet(ls)
<1> DEFINE both == ms \o ls
<1>1. /\ Len(ms) \in Nat /\ Len(ls) \in Nat
      /\ DOMAIN ms = 1..Len(ms) /\ DOMAIN ls = 1..Len(ls)
      /\ DOMAIN both = 1..(Len(ms) + Len(ls))
      /\ \A i \in 1..Len(ms) : both[i] = ms[i]
      /\ \A i \in 1..Len(ls) : both[Len(ms) + i] = ls[i]
  <2>1. \A i \in 1..Len(ls) : Len(ms) + i \in 1..(Len(ms) + Len(ls)) /\ ~(Len(ms) + i <= Len(ms))
    OBVIOUS
  <2>2. \A i \in 1..Len(ls) : both[Len(ms) + i] = ls[i]
    BY <2>1
  <2> QED
    BY <2>2
<1> HIDE DEF both
<1>2. ASSUME NEW x \in ToSet(both)
      PROVE  x \in ToSet(ms) \cup ToSet(ls)
  <2>1. PICK i \in 1..(Len(ms) + Len(ls)) : x = both[i]
    BY <1>1, <1>2 DEF ToSet
  <2>2. CASE i <= Len(ms)
    <3>1. i \in 1..Len(ms)
      BY <1>1, <2>1, <2>2
    <3> QED
      BY <1>1, <2>1, <3>1 DEF ToSet
  <2>3. CASE i > Len(ms)
    <3>1. i - Len(ms) \in 1..Len(ls) /\ Len(ms) + (i - Len(ms)) = i
      BY <1>1, <2>1, <2>3
    <3>2. both[i] = ls[i - Len(ms)]
      BY <1>1, <3>1
    <3> QED
      BY <1>1, <2>1, <3>1, <3>2 DEF ToSet
  <2> QED
    BY <1>1, <2>1, <2>2, <2>3
<1>3. ASSUME NEW x \in ToSet(ms)
      PROVE  x \in ToSet(both)
  <2>1. PICK i \in 1..Len(ms) : x = ms[i]
    BY <1>1, <1>3 DEF ToSet
  <2>2. i \in 1..(Len(ms) + Len(ls))
    BY <1>1
  <2> QED
    BY <1>1, <2>1, <2>2 DEF ToSet
<1>4. ASSUME NEW x \in ToSet(ls)
      PROVE  x \in ToSet(both)
  <2>1. PICK i \in 1..Len(ls) : x = ls[i]
    BY <1>1, <1>4 DEF ToSet
  <2>2. Len(ms) + i \in 1..(Len(ms) + Len(ls))
    BY <1>1
  <2> QED
    BY <1>1, <2>1, <2>2 DEF ToSet
<1> QED
  BY <1>2, <1>3, <1>4 DEF both

(* A list that has an entry of an ID has a first one.                      *)
LEMMA FirstInExists ==
  ASSUME NEW E, NEW list \in Seq(E), NEW id,
         \E i \in DOMAIN list : list[i].id = id
  PROVE  /\ FirstIn(list, id) \in DOMAIN list
         /\ list[FirstIn(list, id)].id = id
<1> DEFINE S == {i \in DOMAIN list : list[i].id = id}
<1>1. PICK i \in S : \A j \in S : i <= j
  <2> HIDE DEF S
  <2>1. S \in SUBSET Nat /\ S # {}
    BY DEF S
  <2> QED
    BY <2>1, Least
<1>2. ASSUME NEW j \in 1..(i - 1)
      PROVE  list[j].id # id
  <2>1. i \in 1..Len(list) /\ i \in Nat /\ j < i /\ j \in Nat /\ j >= 1
    BY <1>1, <1>2
  <2>2. j \in DOMAIN list
    BY <2>1
  <2> QED
    BY <1>1, <2>1, <2>2
<1>3. i \in DOMAIN list /\ list[i].id = id
  BY <1>1
<1> QED
  BY <1>3, <1>2 DEF FirstIn

(* So has the document that lists it.                                      *)
LEMMA FindAppExists ==
  ASSUME NEW E, NEW d \in [Tags -> Seq(E) \cup {NoList}], NEW id \in ListApps(d)
  PROVE  LET at == FindApp(d, id)
         IN /\ at.tag \in DOMAIN TagOrder /\ TagOrder[at.tag] \in Tags
            /\ d[TagOrder[at.tag]] \in Seq(E) /\ d[TagOrder[at.tag]] # NoList
            /\ at.index \in DOMAIN d[TagOrder[at.tag]]
            /\ d[TagOrder[at.tag]][at.index].id = id
<1> DEFINE S == {i \in DOMAIN TagOrder : TagOrder[i] \in TagsOf(d, id)}
<1>1. PICK i \in S : \A j \in S : i <= j
  <2>1. S \in SUBSET Nat
    BY OrderAssumption
  <2>2. PICK t \in Tags : id \in IdsOf(d[t])
    BY DEF ListApps
  <2>3. \E i \in DOMAIN TagOrder : TagOrder[i] = t
    BY DEF Tags, ToSet
  <2>4. S # {}
    BY <2>2, <2>3 DEF TagsOf
  <2> HIDE DEF S
  <2> QED
    BY <2>1, <2>4, Least
<1>2. ASSUME NEW j \in 1..(i - 1)
      PROVE  TagOrder[j] \notin TagsOf(d, id)
  <2>1. i \in 1..Len(TagOrder) /\ i \in Nat /\ j < i /\ j \in Nat /\ j >= 1
    BY <1>1, OrderAssumption
  <2>2. j \in DOMAIN TagOrder
    BY <2>1, OrderAssumption
  <2> QED
    BY <1>1, <2>1, <2>2
<1>3. i \in DOMAIN TagOrder /\ TagOrder[i] \in TagsOf(d, id)
  BY <1>1
<1>4. FirstTag(d, id) \in DOMAIN TagOrder /\ TagOrder[FirstTag(d, id)] \in TagsOf(d, id)
  BY <1>2, <1>3 DEF FirstTag
<1> DEFINE n == FirstTag(d, id)
           list == d[TagOrder[n]]
<1>5. TagOrder[n] \in Tags /\ id \in IdsOf(list)
  BY <1>4 DEF TagsOf
<1>6. list # NoList
  BY <1>5 DEF IdsOf, List, ToSet
<1>7. list \in Seq(E)
  BY <1>5, <1>6
<1>8. \E p \in DOMAIN list : list[p].id = id
  BY <1>5, <1>6 DEF IdsOf, List, ToSet
<1>9. FirstIn(list, id) \in DOMAIN list /\ list[FirstIn(list, id)].id = id
  <2> HIDE DEF list
  <2> QED
    BY <1>7, <1>8, FirstInExists
<1>10. FindApp(d, id).tag = n /\ FindApp(d, id).index = FirstIn(list, id)
  BY DEF FindApp
<1> QED
  BY <1>4, <1>5, <1>6, <1>7, <1>9, <1>10

(* The equation of the loop of RemoveApp.                                  *)
KeptTo(f, list, ids, k) ==
  [n \in 0..k |-> IF n = 0 THEN <<>>
                  ELSE IF list[n].id \in ids THEN f[n - 1] ELSE Append(f[n - 1], list[n])]

(* A function that is given by its value at zero, and by a step from each  *)
(* number to the next, exists.                                             *)
LEMMA KeptExists ==
  ASSUME NEW list, NEW ids, NEW k \in Nat
  PROVE  \E f : f = KeptTo(f, list, ids, k)
<1> DEFINE Step(f, n) == IF n = 0 THEN <<>>
                         ELSE IF list[n].id \in ids THEN f[n - 1] ELSE Append(f[n - 1], list[n])
           Loop(f, m) == f = [n \in 0..m |-> Step(f, n)]
           Bad == {m \in Nat : ~ \E f : Loop(f, m)}
<1>1. SUFFICES ASSUME Bad # {} PROVE FALSE
  <2>1. k \notin Bad => \E f : Loop(f, k)
    OBVIOUS
  <2>2. \A f : KeptTo(f, list, ids, k) = [n \in 0..k |-> Step(f, n)]
    BY DEF KeptTo
  <2> HIDE DEF Bad, Step
  <2> QED
    BY <2>1, <2>2
<1>2. PICK m \in Bad : \A j \in Bad : m <= j
  <2> HIDE DEF Bad
  <2>1. Bad \in SUBSET Nat
    BY DEF Bad
  <2> QED
    BY <1>1, <2>1, Least
<1>3. m \in Nat /\ ~ \E f : Loop(f, m)
  BY <1>2
<1>4. CASE m = 0
  <2> DEFINE g == [n \in 0..m |-> <<>>]
  <2>1. Loop(g, m)
    BY <1>4
  <2> QED
    BY <2>1, <1>3
<1>5. CASE m # 0
  <2>1. m - 1 \in Nat /\ m - 1 \notin Bad
    <3> HIDE DEF Bad
    <3> QED
      BY <1>2, <1>3, <1>5
  <2>2. PICK f : Loop(f, m - 1)
    BY <2>1
  <2> DEFINE g == [n \in 0..m |-> IF n = m THEN Step(f, m) ELSE f[n]]
  <2>3. ASSUME NEW n \in 0..m
        PROVE  g[n] = Step(g, n)
    <3>1. CASE n = 0
      <4>1. n \in 0..(m - 1) /\ n # m
        BY <3>1, <2>1, <1>5
      <4>2. f[n] = Step(f, n)
        BY <4>1, <2>2
      <4> QED
        BY <4>1, <4>2, <3>1
    <3>2. CASE n # 0 
      <4>1. n - 1 \in 0..(m - 1) /\ n - 1 \in 0..m /\ n - 1 # m
        BY <3>2, <2>1
      <4>2. g[n - 1] = f[n - 1]
        BY <4>1
      <4>3. Step(g, n) = Step(f, n)
        BY <4>2, <3>2
      <4>4. g[n] = Step(f, n)
        <5>1. CASE n = m
          BY <5>1
        <5>2. CASE n # m
          <6>1. n \in 0..(m - 1)
            BY <5>2, <2>1
          <6>2. f[n] = Step(f, n)
            BY <6>1, <2>2
          <6> QED
            BY <6>2, <5>2
        <5> QED
          BY <5>1, <5>2
      <4> QED
        BY <4>3, <4>4
    <3> QED
      BY <3>1, <3>2
  <2>4. Loop(g, m)
    <3>1. g = [n \in 0..m |-> g[n]]
      OBVIOUS
    <3> HIDE DEF g
    <3> HIDE DEF Step
    <3> QED
      BY <2>3, <3>1
  <2> QED
    BY <2>4, <1>3
<1> QED
  BY <1>4, <1>5

(* RemoveApp leaves the other entries of a list, and no others.            *)
LEMMA WithoutKeeps ==
  ASSUME NEW E, NEW list \in Seq(E), NEW ids
  PROVE  /\ Without(list, ids) \in Seq(E)
         /\ IdsIn(Without(list, ids)) = IdsIn(list) \ ids
<1> DEFINE F(f) == KeptTo(f, list, ids, Len(list))
           kept == CHOOSE f : f = F(f)
           IdsAt(n) == {list[i].id : i \in 1..n} \ ids
           Good(n) == kept[n] \in Seq(E) /\ {e.id : e \in ToSet(kept[n])} = IdsAt(n)
           Bad == {n \in 0..Len(list) : ~Good(n)}
<1>1. Len(list) \in Nat /\ DOMAIN list = 1..Len(list)
  OBVIOUS
<1>2. kept = F(kept)
  <2>1. \E f : f = F(f)
    BY <1>1, KeptExists
  <2> HIDE DEF F
  <2> QED
    BY <2>1
<1>3. Without(list, ids) = kept[Len(list)]
  BY DEF Without, KeptTo
<1>4. Bad = {}
  <2>1. SUFFICES ASSUME Bad # {} PROVE FALSE
    BY <2>1
  <2>2. PICK n \in Bad : \A j \in Bad : n <= j
    <3> HIDE DEF Bad
    <3>1. Bad \in SUBSET Nat
      BY <1>1 DEF Bad
    <3> QED
      BY <2>1, <3>1, Least
  <2>3. n \in 0..Len(list) /\ n \in Nat /\ ~Good(n)
    <3> HIDE DEF Good
    <3> QED
      BY <2>2, <1>1
  <2>4. n # 0
    <3>1. kept[0] = <<>>
      <4>1. F(kept)[0] = <<>>
        <5> HIDE DEF kept
        <5> QED
          BY <1>1 DEF KeptTo
      <4> HIDE DEF kept, F
      <4> QED
        BY <1>2, <4>1
    <3> HIDE DEF kept
    <3>2. IdsAt(0) = {}
      OBVIOUS
    <3>3. Good(0)
      <4>1. ToSet(<<>>) = {}
        BY DEF ToSet
      <4>2. <<>> \in Seq(E)
        OBVIOUS
      <4>3. {e.id : e \in ToSet(<<>>)} = {}
        BY <4>1
      <4> HIDE DEF IdsAt
      <4> QED
        BY <3>1, <3>2, <4>2, <4>3
    <3> QED
      BY <3>3, <2>3
  <2>5. n - 1 \in 0..Len(list) /\ n - 1 \notin Bad /\ n \in 1..Len(list)
    <3> HIDE DEF Bad
    <3> QED
      BY <2>2, <2>3, <2>4, <1>1
  <2>6. Good(n - 1)
    BY <2>5
  <2>7. kept[n] = IF list[n].id \in ids THEN kept[n - 1] ELSE Append(kept[n - 1], list[n])
    <3> HIDE DEF kept
    <3> QED
      BY <1>2, <2>3, <2>4 DEF KeptTo
  <2>8. list[n] \in E
    BY <2>5, <1>1
  <2> HIDE DEF kept
  <2>9. IdsAt(n) = IdsAt(n - 1) \cup ({list[n].id} \ ids)
    <3>1. 1..n = 1..(n - 1) \cup {n}
      BY <2>5, <1>1
    <3> QED
      BY <3>1
  <2>10. CASE list[n].id \in ids
    <3>1. kept[n] = kept[n - 1] /\ IdsAt(n) = IdsAt(n - 1)
      BY <2>10, <2>7, <2>9
    <3> HIDE DEF IdsAt
    <3> QED
      BY <3>1, <2>6, <2>3
  <2>11. CASE list[n].id \notin ids
    <3> DEFINE s == kept[n - 1]
    <3>1. s \in Seq(E) /\ kept[n] = Append(s, list[n])
      BY <2>6, <2>7, <2>11
    <3> HIDE DEF s
    <3>2. Append(s, list[n]) \in Seq(E)
      BY <3>1, <2>8
    <3>3. ToSet(Append(s, list[n])) = ToSet(s) \cup {list[n]}
      BY <3>1, <2>8, AppendSet
    <3>4. {e.id : e \in ToSet(s)} = IdsAt(n - 1)
      BY <2>6 DEF s
    <3>5. {e.id : e \in ToSet(Append(s, list[n]))} = IdsAt(n)
      BY <3>3, <3>4, <2>9, <2>11
    <3> QED
      BY <3>1, <3>2, <3>5, <2>3
  <2> QED
    BY <2>10, <2>11
<1>5. Good(Len(list))
  <2> HIDE DEF Good
  <2> QED
    BY <1>4, <1>1
<1>6. {e.id : e \in ToSet(list)} = {list[i].id : i \in 1..Len(list)}
  BY <1>1 DEF ToSet
<1> HIDE DEF kept
<1> QED
  BY <1>3, <1>5, <1>6 DEF IdsIn

(* An entry that overrides adds its ID, if it is not there.                *)
LEMMA OverrideAdds ==
  ASSUME NEW E, NEW list \in Seq(E), NEW e \in E
  PROVE  /\ Override(list, e) \in Seq(E)
         /\ IdsIn(Override(list, e)) = IdsIn(list) \cup {e.id}
<1>1. CASE \E i \in DOMAIN list : list[i].id = e.id
  <2> DEFINE k == FirstIn(list, e.id)
             new == [list EXCEPT ![k] = e]
  <2>1. k \in DOMAIN list /\ list[k].id = e.id
    BY <1>1, FirstInExists
  <2> HIDE DEF k
  <2>2. Override(list, e) = new
    BY <1>1 DEF Override, k
  <2>3. new \in Seq(E) /\ DOMAIN new = DOMAIN list
    BY <2>1
  <2>4. \A i \in DOMAIN list : new[i].id = list[i].id
    BY <2>1
  <2>5. IdsIn(new) = IdsIn(list) /\ e.id \in IdsIn(list)
    BY <2>1, <2>3, <2>4 DEF IdsIn, ToSet
  <2> QED
    BY <2>2, <2>3, <2>5
<1>2. CASE ~ \E i \in DOMAIN list : list[i].id = e.id
  <2>1. Override(list, e) = Append(list, e)
    BY <1>2 DEF Override
  <2>2. ToSet(Append(list, e)) = ToSet(list) \cup {e}
    BY AppendSet
  <2>3. Append(list, e) \in Seq(E)
    OBVIOUS
  <2> QED
    BY <2>1, <2>2, <2>3 DEF IdsIn
<1> QED
  BY <1>1, <1>2

(* The equation of the loop of mergeOverrideSequence.                      *)
MergedTo(f, ms, ls, k) ==
  [n \in 0..k |-> IF n = 0 THEN ms ELSE Override(f[n - 1], ls[n])]

LEMMA MergedExists ==
  ASSUME NEW ms, NEW ls, NEW k \in Nat
  PROVE  \E f : f = MergedTo(f, ms, ls, k)
<1> DEFINE Step(f, n) == IF n = 0 THEN ms ELSE Override(f[n - 1], ls[n])
           Loop(f, m) == f = [n \in 0..m |-> Step(f, n)]
           Bad == {m \in Nat : ~ \E f : Loop(f, m)}
<1>1. SUFFICES ASSUME Bad # {} PROVE FALSE
  <2>1. k \notin Bad => \E f : Loop(f, k)
    OBVIOUS
  <2>2. \A f : MergedTo(f, ms, ls, k) = [n \in 0..k |-> Step(f, n)]
    BY DEF MergedTo
  <2> HIDE DEF Bad, Step
  <2> QED
    BY <2>1, <2>2
<1>2. PICK m \in Bad : \A j \in Bad : m <= j
  <2> HIDE DEF Bad
  <2>1. Bad \in SUBSET Nat
    BY DEF Bad
  <2> QED
    BY <1>1, <2>1, Least
<1>3. m \in Nat /\ ~ \E f : Loop(f, m)
  BY <1>2
<1>4. CASE m = 0
  <2> DEFINE g == [n \in 0..m |-> ms]
  <2>1. Loop(g, m)
    BY <1>4
  <2> QED
    BY <2>1, <1>3
<1>5. CASE m # 0
  <2>1. m - 1 \in Nat /\ m - 1 \notin Bad
    <3> HIDE DEF Bad
    <3> QED
      BY <1>2, <1>3, <1>5
  <2>2. PICK f : Loop(f, m - 1)
    BY <2>1
  <2> DEFINE g == [n \in 0..m |-> IF n = m THEN Step(f, m) ELSE f[n]]
  <2>3. ASSUME NEW n \in 0..m
        PROVE  g[n] = Step(g, n)
    <3>1. CASE n = 0
      <4>1. n \in 0..(m - 1) /\ n # m
        BY <3>1, <2>1, <1>5
      <4>2. f[n] = Step(f, n)
        BY <4>1, <2>2
      <4> QED
        BY <4>1, <4>2, <3>1
    <3>2. CASE n # 0 
      <4>1. n - 1 \in 0..(m - 1) /\ n - 1 \in 0..m /\ n - 1 # m
        BY <3>2, <2>1
      <4>2. g[n - 1] = f[n - 1]
        BY <4>1
      <4>3. Step(g, n) = Step(f, n)
        BY <4>2, <3>2
      <4>4. g[n] = Step(f, n)
        <5>1. CASE n = m
          BY <5>1
        <5>2. CASE n # m
          <6>1. n \in 0..(m - 1)
            BY <5>2, <2>1
          <6>2. f[n] = Step(f, n)
            BY <6>1, <2>2
          <6> QED
            BY <6>2, <5>2
        <5> QED
          BY <5>1, <5>2
      <4> QED
        BY <4>3, <4>4
    <3> QED
      BY <3>1, <3>2
  <2>4. Loop(g, m)
    <3>1. g = [n \in 0..m |-> g[n]]
      OBVIOUS
    <3> HIDE DEF g
    <3> HIDE DEF Step
    <3> QED
      BY <2>3, <3>1
  <2> QED
    BY <2>4, <1>3
<1> QED
  BY <1>4, <1>5

(* A merged list has the IDs of both.                                      *)
LEMMA MergeUnites ==
  ASSUME NEW E, NEW ms \in Seq(E), NEW ls \in Seq(E)
  PROVE  /\ MergeSequence(ms, ls) \in Seq(E)
         /\ IdsIn(MergeSequence(ms, ls)) = IdsIn(ms) \cup IdsIn(ls)
<1> DEFINE F(f) == MergedTo(f, ms, ls, Len(ls))
           merged == CHOOSE f : f = F(f)
           IdsAt(n) == IdsIn(ms) \cup {ls[i].id : i \in 1..n}
           Good(n) == merged[n] \in Seq(E) /\ IdsIn(merged[n]) = IdsAt(n)
           Bad == {n \in 0..Len(ls) : ~Good(n)}
<1>1. Len(ls) \in Nat /\ DOMAIN ls = 1..Len(ls)
  OBVIOUS
<1>2. merged = F(merged)
  <2>1. \E f : f = F(f)
    BY <1>1, MergedExists
  <2> HIDE DEF F
  <2> QED
    BY <2>1
<1>3. MergeSequence(ms, ls) = merged[Len(ls)]
  BY DEF MergeSequence, MergedTo
<1>4. Bad = {}
  <2>1. SUFFICES ASSUME Bad # {} PROVE FALSE
    BY <2>1
  <2>2. PICK n \in Bad : \A j \in Bad : n <= j
    <3> HIDE DEF Bad
    <3>1. Bad \in SUBSET Nat
      BY <1>1 DEF Bad
    <3> QED
      BY <2>1, <3>1, Least
  <2>3. n \in 0..Len(ls) /\ n \in Nat /\ ~Good(n)
    <3> HIDE DEF Good
    <3> QED
      BY <2>2, <1>1
  <2>4. n # 0
    <3>1. merged[0] = ms
      <4>1. F(merged)[0] = ms
        <5> HIDE DEF merged
        <5> QED
          BY <1>1 DEF MergedTo
      <4> HIDE DEF merged, F
      <4> QED
        BY <1>2, <4>1
    <3> HIDE DEF merged
    <3>2. IdsAt(0) = IdsIn(ms)
      OBVIOUS
    <3>3. Good(0)
      <4> HIDE DEF IdsAt
      <4> QED
        BY <3>1, <3>2
    <3> QED
      BY <3>3, <2>3
  <2>5. n - 1 \in 0..Len(ls) /\ n - 1 \notin Bad /\ n \in 1..Len(ls)
    <3> HIDE DEF Bad
    <3> QED
      BY <2>2, <2>3, <2>4, <1>1
  <2>6. Good(n - 1)
    BY <2>5
  <2>7. merged[n] = Override(merged[n - 1], ls[n])
    <3> HIDE DEF merged
    <3> QED
      BY <1>2, <2>3, <2>4 DEF MergedTo
  <2>8. ls[n] \in E
    BY <2>5, <1>1
  <2> HIDE DEF merged
  <2>9. IdsAt(n) = IdsAt(n - 1) \cup {ls[n].id}
    <3>1. 1..n = 1..(n - 1) \cup {n}
      BY <2>5, <1>1
    <3> QED
      BY <3>1
  <2> HIDE DEF IdsAt
  <2> DEFINE prior == merged[n - 1]
  <2>10. prior \in Seq(E) /\ IdsIn(prior) = IdsAt(n - 1) /\ merged[n] = Override(prior, ls[n])
    BY <2>6, <2>7
  <2> DEFINE e == ls[n]
  <2> HIDE DEF prior, e
  <2>11. Override(prior, e) \in Seq(E) /\ IdsIn(Override(prior, e)) = IdsIn(prior) \cup {e.id}
    <3>1. prior \in Seq(E) /\ e \in E
      BY <2>8, <2>10 DEF e
    <3> QED
      BY <3>1, OverrideAdds
  <2>12. Good(n)
    BY <2>9, <2>10, <2>11 DEF e
  <2> QED
    BY <2>3, <2>12
<1>5. Good(Len(ls))
  <2> HIDE DEF Good
  <2> QED
    BY <1>4, <1>1
<1>6. IdsIn(ls) = {ls[i].id : i \in 1..Len(ls)}
  BY <1>1 DEF ToSet, IdsIn
<1> HIDE DEF merged
<1> QED
  BY <1>3, <1>5, <1>6

-----------------------------------------------------------------------------
(* Documents.                                                              *)

Entries == [id : Ids, pin : Values \cup {Bare}]

(* What users may write for a provider are entries.                        *)
LEMMA WritableEntries ==
  ASSUME tool \in Kinds
  PROVE  /\ Writable(tool) \subseteq Entries
         /\ NoList \notin Seq(Writable(tool))
         /\ tool.form \in {"name", "fields"} => \A e \in Writable(tool) : Pin(e.id) = Bare
<1>1. Writable(tool) \subseteq Entries
  <2>1. \A t \in Things : <<t, Bare>> \in Ids
    BY DEF Ids
  <2>2. \A id \in Ids : id[1] \in Things /\ id[2] \in Values \cup {Bare}
    BY DEF Ids
  <2>3. \A id \in Things \X Values : id \in Ids
    BY DEF Ids
  <2>4. tool.form \in {"name", "pinned", "value", "fields"}
    BY DEF Kinds
  <2>5. \A id \in Ids, pin \in Values \cup {Bare} : Entry(id, pin) \in Entries
    BY DEF Entry, Entries
  <2>6. Bare \in Values \cup {Bare}
    OBVIOUS
  <2>7. CASE tool.form = "name"
    BY <2>1, <2>5, <2>6, <2>7 DEF Writable
  <2>8. CASE tool.form = "pinned"
    BY <2>5, <2>6, <2>8 DEF Writable
  <2>9. CASE tool.form = "value"
    BY <2>3, <2>5, <2>6, <2>9 DEF Writable
  <2>10. CASE tool.form = "fields"
    <3>1. Writable(tool) = {Entry(<<id[1], Bare>>, id[2]) : id \in Ids}
      BY <2>10 DEF Writable
    <3> QED
      BY <2>1, <2>2, <2>5, <3>1
  <2> QED
    BY <2>4, <2>7, <2>8, <2>9, <2>10
<1>2. NoList \notin Seq(Writable(tool))
  <2>1. Seq(Writable(tool)) \subseteq Seq(Entries)
    BY <1>1
  <2> QED
    BY <2>1, ListAssumption DEF Entries
<1>3. ASSUME tool.form \in {"name", "fields"}, NEW e \in Writable(tool)
      PROVE  Pin(e.id) = Bare
  <2>1. CASE tool.form = "name"
    BY <1>3, <2>1 DEF Writable, Entry, Pin
  <2>2. CASE tool.form = "fields"
    <3>1. Writable(tool) = {Entry(<<id[1], Bare>>, id[2]) : id \in Ids}
      BY <2>2 DEF Writable
    <3> QED
      BY <1>3, <3>1 DEF Entry, Pin
  <2> QED
    BY <1>3, <2>1, <2>2
<1> QED
  BY <1>1, <1>2, <1>3

(* The IDs of a section are those of its entries, if it is a list.         *)
LEMMA IdsOfSection ==
  ASSUME NEW section
  PROVE  IdsOf(section) = IF section = NoList THEN {} ELSE IdsIn(section)
<1>1. IdsIn(<<>>) = {}
  BY DEF IdsIn, ToSet
<1> QED
  BY <1>1 DEF IdsOf, List, IdsIn

(* What a document lists is made of entries a user may write.              *)
LEMMA ListedIds ==
  ASSUME tool \in Kinds, NEW d \in Documents, NEW id \in ListApps(d)
  PROVE  /\ id \in Ids
         /\ tool.form \in {"name", "fields"} => Pin(id) = Bare
<1>1. PICK t \in Tags : id \in IdsOf(d[t])
  BY DEF ListApps
<1>2. d[t] # NoList /\ id \in IdsIn(d[t])
  BY <1>1, IdsOfSection
<1>3. d[t] \in Seq(Writable(tool))
  BY <1>1, <1>2 DEF Documents
<1>4. PICK i \in DOMAIN d[t] : id = d[t][i].id
  BY <1>2 DEF IdsIn, ToSet
<1>5. d[t][i] \in Writable(tool)
  BY <1>3, <1>4
<1> QED
  BY <1>4, <1>5, WritableEntries DEF Entries

(* The pin an entry has is a version, a value, or none.                    *)
LEMMA FieldsTyping ==
  ASSUME tool \in Kinds, NEW d \in Documents, NEW id \in ListApps(d)
  PROVE  /\ AppFields(d, id) \in Values \cup {Bare}
         /\ Want(d, id) \in Values \cup {Bare}
<1> DEFINE at == FindApp(d, id)
           list == d[TagOrder[at.tag]]
<1>1. list \in Seq(Writable(tool)) /\ at.index \in DOMAIN list
  BY FindAppExists DEF Documents
<1>2. list[at.index] \in Writable(tool)
  BY <1>1
<1>3. list[at.index].pin \in Values \cup {Bare}
  BY <1>2, WritableEntries DEF Entries
<1>4. AppFields(d, id) \in Values \cup {Bare}
  BY <1>3 DEF AppFields
<1>5. id \in Ids
  BY ListedIds
<1> QED
  BY <1>4, <1>5 DEF Want, Pin, Ids

(* What main lists, and what local lists under a tag that main has a list  *)
(* for.                                                                    *)
IdsOfBoth(m, l, t) == IF m[t] = NoList THEN {} ELSE IdsOf(m[t]) \cup IdsOf(l[t])

(* Both merges list that.                                                  *)
LEMMA MergedDocuments ==
  ASSUME tool \in Kinds, NEW m \in Documents, NEW l \in Documents,
         NEW r \in {MergeAppend(m, l), MergeOverride(m, l)}
  PROVE  /\ r \in Documents
         /\ \A t \in Tags : IdsOf(r[t]) = IdsOfBoth(m, l, t)
<1> DEFINE W == Writable(tool)
<1>1. NoList \notin Seq(W)
  BY WritableEntries
<1>2. ASSUME NEW t \in Tags
      PROVE  /\ r[t] \in Seq(W) \cup {NoList}
             /\ IdsOf(r[t]) = IF m[t] = NoList THEN {} ELSE IdsOf(m[t]) \cup IdsOf(l[t])
  <2>1. m[t] \in Seq(W) \cup {NoList} /\ l[t] \in Seq(W) \cup {NoList}
    BY DEF Documents
  <2>2. CASE m[t] = NoList \/ l[t] = NoList
    <3>1. r[t] = m[t]
      BY <2>2 DEF MergeAppend, MergeOverride, Merged
    <3> QED
      BY <2>1, <2>2, <3>1, IdsOfSection
  <2>3. CASE m[t] # NoList /\ l[t] # NoList
    <3> DEFINE ms == m[t]
               ls == l[t]
    <3>1. ms \in Seq(W) /\ ls \in Seq(W)
      BY <2>1, <2>3
    <3>2. r[t] \in {Appended(ms, ls), MergeSequence(ms, ls)}
      BY <2>3 DEF MergeAppend, MergeOverride, Merged
    <3> HIDE DEF ms, ls, W
    <3>3. Appended(ms, ls) \in Seq(W) /\ IdsIn(Appended(ms, ls)) = IdsIn(ms) \cup IdsIn(ls)
      <4>1. ToSet(ms \o ls) = ToSet(ms) \cup ToSet(ls)
        BY <3>1, ConcatSet
      <4>2. ms \o ls \in Seq(W)
        BY <3>1
      <4> QED
        BY <4>1, <4>2 DEF Appended, IdsIn
    <3>4. MergeSequence(ms, ls) \in Seq(W) /\ IdsIn(MergeSequence(ms, ls)) = IdsIn(ms) \cup IdsIn(ls)
      BY <3>1, MergeUnites
    <3>5. r[t] \in Seq(W) /\ IdsIn(r[t]) = IdsIn(ms) \cup IdsIn(ls)
      BY <3>2, <3>3, <3>4
    <3>6. r[t] # NoList
      BY <3>5, <1>1
    <3>7. IdsOf(r[t]) = IdsIn(r[t]) /\ IdsOf(m[t]) = IdsIn(m[t]) /\ IdsOf(l[t]) = IdsIn(l[t])
      BY <3>6, <2>3, IdsOfSection
    <3> QED
      BY <3>5, <3>7, <2>3 DEF ms, ls
  <2> QED
    BY <2>2, <2>3
<1>3. r = [t \in Tags |-> r[t]]
  BY DEF MergeAppend, MergeOverride, Merged
<1>4. r \in Documents
  <2> HIDE DEF W
  <2>1. r \in [Tags -> Seq(W) \cup {NoList}]
    BY <1>2, <1>3
  <2> QED
    BY <2>1 DEF Documents, W
<1> QED
  BY <1>2, <1>4 DEF IdsOfBoth

(* An edit of a document keeps its sections that are no list, and lists    *)
(* what the other lists, except some IDs.                                  *)
Edits(d, r, ids) ==
  /\ r \in Documents
  /\ \A t \in Tags : r[t] = NoList <=> d[t] = NoList
  /\ ListApps(d) \ ids \subseteq ListApps(r)

LEMMA RemovalEdits ==
  ASSUME tool \in Kinds, NEW d \in Documents, NEW ids
  PROVE  Edits(d, RemoveApps(d, ids), ids)
<1> DEFINE W == Writable(tool)
           r == RemoveApps(d, ids)
<1>1. ASSUME NEW t \in Tags
      PROVE  /\ r[t] \in Seq(W) \cup {NoList}
             /\ r[t] = NoList <=> d[t] = NoList
             /\ IdsOf(d[t]) \ ids \subseteq IdsOf(r[t])
  <2>1. d[t] \in Seq(W) \cup {NoList}
    BY DEF Documents
  <2>2. CASE d[t] = NoList
    <3>1. r[t] = NoList
      BY <2>2 DEF RemoveApps
    <3> QED
      BY <3>1, <2>2
  <2>3. CASE d[t] # NoList
    <3> DEFINE list == d[t]
    <3>1. list \in Seq(W) /\ r[t] = Without(list, ids)
      BY <2>1, <2>3 DEF RemoveApps
    <3> HIDE DEF list, W
    <3>2. Without(list, ids) \in Seq(W) /\ IdsIn(Without(list, ids)) = IdsIn(list) \ ids
      BY <3>1, WithoutKeeps
    <3>3. Without(list, ids) # NoList
      BY <3>2, WritableEntries DEF W
    <3>4. IdsOf(list) = IdsIn(list) /\ IdsOf(Without(list, ids)) = IdsIn(Without(list, ids))
      BY <3>3, <2>3, IdsOfSection DEF list
    <3> HIDE DEF r
    <3>5. r[t] \in Seq(W) /\ r[t] # NoList /\ IdsOf(r[t]) = IdsOf(list) \ ids
      BY <3>1, <3>2, <3>3, <3>4
    <3> QED
      BY <3>5, <2>3 DEF list
  <2> QED
    BY <2>2, <2>3
<1>2. r \in Documents
  <2>1. r = [t \in Tags |-> r[t]]
    BY DEF RemoveApps
  <2> HIDE DEF r, W
  <2>2. r \in [Tags -> Seq(W) \cup {NoList}]
    BY <1>1, <2>1
  <2> QED
    BY <2>2 DEF Documents, W
<1> HIDE DEF r
<1>3. ListApps(d) \ ids \subseteq ListApps(r)
  BY <1>1 DEF ListApps
<1>4. \A t \in Tags : r[t] = NoList <=> d[t] = NoList
  BY <1>1
<1>5. Edits(d, r, ids)
  BY <1>2, <1>3, <1>4 DEF Edits
<1> QED
  BY <1>5 DEF r

(* A field of an entry changes no ID.                                      *)
LEMMA FieldEdits ==
  ASSUME tool \in Kinds, NEW d \in Documents, NEW id \in ListApps(d), NEW pin,
         \A e \in Writable(tool) : [e EXCEPT !.pin = pin] \in Writable(tool)
  PROVE  Edits(d, SetField(d, id, pin), {})
<1> DEFINE W == Writable(tool)
           at == FindApp(d, id)
           tag == TagOrder[at.tag]
           list == d[tag]
           k == at.index
           new == [list EXCEPT ![k].pin = pin]
           r == SetField(d, id, pin)
<1>1. tag \in Tags /\ list \in Seq(W) /\ list # NoList /\ k \in DOMAIN list
  BY FindAppExists DEF Documents
<1>2. r = [d EXCEPT ![tag] = new]
  BY DEF SetField
<1>3. list[k] \in W /\ list[k] \in Entries
  BY <1>1, WritableEntries
<1>4. new = [list EXCEPT ![k] = [list[k] EXCEPT !.pin = pin]]
  BY <1>1
<1>5. [list[k] EXCEPT !.pin = pin] \in W /\ [list[k] EXCEPT !.pin = pin].id = list[k].id
  BY <1>3 DEF Entries
<1> HIDE DEF tag, k, W
<1>6. new \in Seq(W) /\ DOMAIN new = DOMAIN list /\ \A i \in DOMAIN list : new[i].id = list[i].id
  BY <1>1, <1>4, <1>5
<1> HIDE DEF new, list, r
<1>7. IdsIn(new) = IdsIn(list)
  BY <1>6 DEF IdsIn, ToSet
<1>8. new # NoList
  BY <1>6, WritableEntries DEF W
<1>9. d \in [Tags -> Seq(W) \cup {NoList}]
  BY DEF Documents, W
<1>10. /\ r \in [Tags -> Seq(W) \cup {NoList}]
       /\ \A t \in Tags : r[t] = IF t = tag THEN new ELSE d[t]
  BY <1>1, <1>2, <1>6, <1>9
<1>11. \A t \in Tags : IdsOf(r[t]) = IdsOf(d[t]) /\ (r[t] = NoList <=> d[t] = NoList)
  BY <1>1, <1>7, <1>8, <1>10, IdsOfSection DEF list
<1>12. ListApps(d) \ {} \subseteq ListApps(r)
  BY <1>11 DEF ListApps
<1>13. r \in Documents
  BY <1>10 DEF Documents, W
<1>14. Edits(d, r, {})
  BY <1>11, <1>12, <1>13 DEF Edits
<1> QED
  BY <1>14 DEF r

(* A new entry goes to the end of its section.                             *)
LEMMA AdditionEdits ==
  ASSUME tool \in Kinds, NEW d \in Documents, NEW tag \in Tags, NEW id, NEW pin,
         Entry(id, pin) \in Writable(tool), d[tag] # NoList
  PROVE  LET r == [d EXCEPT ![tag] = Append(@, Entry(id, pin))]
         IN Edits(d, r, {}) /\ id \in ListApps(r)
<1> DEFINE W == Writable(tool)
           list == d[tag]
           e == Entry(id, pin)
           new == Append(list, e)
           r == [d EXCEPT ![tag] = new]
<1>1. list \in Seq(W) /\ e \in W
  BY DEF Documents
<1>2. d \in [Tags -> Seq(W) \cup {NoList}]
  BY DEF Documents
<1>3. e.id = id
  BY DEF Entry
<1> HIDE DEF list, e, W
<1>4. new \in Seq(W) /\ ToSet(new) = ToSet(list) \cup {e}
  BY <1>1, AppendSet
<1>5. IdsIn(new) = IdsIn(list) \cup {id}
  BY <1>3, <1>4 DEF IdsIn
<1> HIDE DEF new
<1>6. new # NoList
  BY <1>4, WritableEntries DEF W
<1>7. /\ r \in [Tags -> Seq(W) \cup {NoList}]
      /\ \A t \in Tags : r[t] = IF t = tag THEN new ELSE d[t]
  BY <1>2, <1>4
<1> HIDE DEF r
<1>8. \A t \in Tags : IdsOf(d[t]) \subseteq IdsOf(r[t]) /\ (r[t] = NoList <=> d[t] = NoList)
  BY <1>5, <1>6, <1>7, IdsOfSection DEF list
<1>9. id \in IdsOf(r[tag])
  BY <1>5, <1>6, <1>7, IdsOfSection
<1>10. Edits(d, r, {}) /\ id \in ListApps(r)
  BY <1>7, <1>8, <1>9 DEF Edits, ListApps, Documents, W
<1> QED
  BY <1>10 DEF r, new, list, e

(* What a command may say is made of entries a user may write.             *)
LEMMA CommandTyping ==
  ASSUME tool \in Kinds, NEW c \in Adds \cup Drops
  PROVE  /\ c.verb \in {"add", "drop"} /\ c.id \in Ids /\ c.pin \in Values \cup {Bare}
         /\ c.local \in BOOLEAN
         /\ c.verb = "add" => Entry(c.id, c.pin) \in Writable(tool)
         /\ tool.form \in {"name", "fields"} => Pin(c.id) = Bare
         /\ c # NoCommand
<1>1. \A e \in Writable(tool) : e.id \in Ids /\ e.pin \in Values \cup {Bare} /\ e = Entry(e.id, e.pin)
  BY WritableEntries DEF Entries, Entry
<1>2. CASE c \in Adds
  <2>1. PICK e \in Writable(tool), b \in BOOLEAN :
          c = [verb |-> "add", id |-> e.id, pin |-> e.pin, local |-> b]
    BY <1>2 DEF Adds
  <2>2. c.verb = "add" /\ c.id = e.id /\ c.pin = e.pin /\ c.local = b
    BY <2>1
  <2> QED
    BY <1>1, <2>2, WritableEntries DEF NoCommand
<1>3. CASE c \in Drops
  <2>1. \/ \E t \in Things, b \in BOOLEAN : c = [verb |-> "drop", id |-> <<t, Bare>>, pin |-> Bare, local |-> b]
        \/ \E e \in Writable(tool), b \in BOOLEAN : c = [verb |-> "drop", id |-> e.id, pin |-> Bare, local |-> b]
    <3>1. tool.drop \in {"id", "thing", "entry", "none"}
      BY DEF Kinds
    <3>2. CASE tool.drop = "none"
      BY <1>3, <3>2 DEF Drops
    <3>3. CASE tool.drop = "thing"
      BY <1>3, <3>3 DEF Drops
    <3>4. CASE tool.drop \in {"id", "entry"}
      BY <1>3, <3>4 DEF Drops
    <3> QED
      BY <3>1, <3>2, <3>3, <3>4
  <2>2. CASE \E t \in Things, b \in BOOLEAN : c = [verb |-> "drop", id |-> <<t, Bare>>, pin |-> Bare, local |-> b]
    <3>1. PICK t \in Things, b \in BOOLEAN : c = [verb |-> "drop", id |-> <<t, Bare>>, pin |-> Bare, local |-> b]
      BY <2>2
    <3>2. c.verb = "drop" /\ c.id = <<t, Bare>> /\ c.pin = Bare /\ c.local = b
      BY <3>1
    <3> QED
      BY <3>2 DEF Ids, Pin, NoCommand
  <2>3. CASE \E e \in Writable(tool), b \in BOOLEAN : c = [verb |-> "drop", id |-> e.id, pin |-> Bare, local |-> b]
    <3>1. PICK e \in Writable(tool), b \in BOOLEAN : c = [verb |-> "drop", id |-> e.id, pin |-> Bare, local |-> b]
      BY <2>3
    <3>2. c.verb = "drop" /\ c.id = e.id /\ c.pin = Bare /\ c.local = b
      BY <3>1
    <3> QED
      BY <1>1, <3>2, WritableEntries DEF NoCommand
  <2> QED
    BY <2>1, <2>2, <2>3
<1> QED
  BY <1>2, <1>3

(* What a command does to its file.                                        *)
LEMMA CommandEdits ==
  ASSUME tool \in Kinds, main \in Documents, local \in Documents, NEW c \in Adds \cup Drops
  PROVE  /\ Edits(File(c), Edited(c), {id \in Ids : Thing(id) = Thing(c.id)})
         /\ c.verb = "add" /\ File(c)[CliTag] # NoList => c.id \in ListApps(Edited(c))
<1> DEFINE d == File(c)
           rest == RemoveApps(d, Displaced(c))
           kept == IF c.verb = "add" THEN AddAppWithFields(rest, CliTag, c.id, c.pin) ELSE rest
           r == IF c.verb = "add" /\ tool.form = "fields" /\ c.pin = Bare THEN RemoveAppField(kept, c.id) ELSE kept
<1>1. Edited(c) = r
  BY DEF Edited
<1>2. d \in Documents
  BY DEF File
<1>3. Edits(d, rest, Displaced(c))
  BY <1>2, RemovalEdits
<1>4. Displaced(c) \subseteq {id \in Ids : Thing(id) = Thing(c.id)}
  <2>1. \A id \in Declared(File(c)) : id \in Ids
    BY <1>2, ListedIds DEF Declared
  <2>2. c.id \in Ids
    BY CommandTyping
  <2> QED
    BY <2>1, <2>2 DEF Displaced
<1> HIDE DEF d, rest
<1>5. rest \in Documents
  BY <1>3 DEF Edits
<1>6. \A pin \in Values \cup {Bare} : tool.form = "fields" =>
        \A e \in Writable(tool) : [e EXCEPT !.pin = pin] \in Writable(tool)
  <2>1. SUFFICES ASSUME NEW pin \in Values \cup {Bare}, tool.form = "fields", NEW e \in Writable(tool)
                 PROVE  [e EXCEPT !.pin = pin] \in Writable(tool)
    BY <2>1
  <2>2. Writable(tool) = {Entry(<<id[1], Bare>>, id[2]) : id \in Ids}
    BY <2>1 DEF Writable
  <2>3. PICK id \in Ids : e = Entry(<<id[1], Bare>>, id[2])
    BY <2>2
  <2>4. <<id[1], pin>> \in Ids
    BY DEF Ids
  <2>5. [e EXCEPT !.pin = pin] = Entry(<<id[1], Bare>>, pin)
    BY <2>3 DEF Entry
  <2>6. Entry(<<id[1], Bare>>, pin) \in {Entry(<<i[1], Bare>>, i[2]) : i \in Ids}
    BY <2>4
  <2> QED
    BY <2>2, <2>5, <2>6
<1>7. c.verb = "add" => /\ Edits(rest, kept, {})
                        /\ rest[CliTag] # NoList => c.id \in ListApps(kept)
  <2> SUFFICES ASSUME c.verb = "add"
               PROVE  Edits(rest, kept, {}) /\ (rest[CliTag] # NoList => c.id \in ListApps(kept))
    OBVIOUS
  <2>1. kept = AddAppWithFields(rest, CliTag, c.id, c.pin)
    OBVIOUS
  <2> HIDE DEF kept
  <2>2. c.pin \in Values \cup {Bare} /\ Entry(c.id, c.pin) \in Writable(tool) /\ c.verb = "add"
    BY CommandTyping
  <2>3. Edits(rest, rest, {})
    BY <1>5 DEF Edits
  <2>4. CASE c.id \in ListApps(rest) /\ c.pin = Bare
    BY <2>1, <2>3, <2>4 DEF AddAppWithFields
  <2>5. CASE c.id \in ListApps(rest) /\ c.pin # Bare
    <3>1. kept = SetField(rest, c.id, c.pin)
      BY <2>1, <2>5 DEF AddAppWithFields
    <3>2. tool.form = "fields"
      <4>1. tool.form \in {"name", "pinned", "value", "fields"}
        BY DEF Kinds
      <4>2. \A id \in Ids : \A pin : Entry(id, pin).pin = pin
        BY DEF Entry
      <4>3. ASSUME tool.form # "fields", NEW e \in Writable(tool)
            PROVE  e.pin = Bare
        BY <4>1, <4>3 DEF Writable, Entry
      <4>4. Entry(c.id, c.pin).pin = c.pin
        BY DEF Entry
      <4> QED
        BY <2>2, <2>5, <4>3, <4>4
    <3>3. Edits(rest, SetField(rest, c.id, c.pin), {})
      BY <1>5, <1>6, <2>2, <2>5, <3>2, FieldEdits
    <3> QED
      BY <2>5, <3>1, <3>3 DEF Edits
  <2>6. CASE c.id \notin ListApps(rest) /\ rest[CliTag] = NoList
    BY <2>1, <2>3, <2>6 DEF AddAppWithFields
  <2>7. CASE c.id \notin ListApps(rest) /\ rest[CliTag] # NoList
    <3>1. kept = [rest EXCEPT ![CliTag] = Append(@, Entry(c.id, c.pin))]
      BY <2>1, <2>7 DEF AddAppWithFields
    <3> QED
      BY <1>5, <2>2, <2>7, <3>1, AdditionEdits, TagAssumption
  <2> QED
    BY <2>4, <2>5, <2>6, <2>7
<1>8. Edits(rest, kept, {}) /\ (c.verb = "add" /\ rest[CliTag] # NoList => c.id \in ListApps(kept))
  <2>1. CASE c.verb = "add"
    BY <1>7, <2>1
  <2>2. CASE c.verb # "add"
    BY <1>5, <2>2 DEF Edits
  <2> QED
    BY <2>1, <2>2
<1> HIDE DEF kept
<1>9. Edits(kept, r, {})
  <2>1. kept \in Documents
    BY <1>8 DEF Edits
  <2>2. Edits(kept, kept, {})
    BY <2>1 DEF Edits
  <2>3. CASE c.verb = "add" /\ tool.form = "fields" /\ c.pin = Bare /\ c.id \in ListApps(kept)
    <3>1. r = SetField(kept, c.id, Bare)
      BY <2>3 DEF RemoveAppField
    <3> QED
      BY <2>1, <2>3, <3>1, <1>6, FieldEdits
  <2>4. CASE ~(c.verb = "add" /\ tool.form = "fields" /\ c.pin = Bare /\ c.id \in ListApps(kept))
    BY <2>2, <2>4 DEF RemoveAppField
  <2> QED
    BY <2>3, <2>4
<1> HIDE DEF r
<1>10. Edits(d, r, {id \in Ids : Thing(id) = Thing(c.id)})
  BY <1>3, <1>4, <1>8, <1>9 DEF Edits
<1>11. c.verb = "add" /\ d[CliTag] # NoList => c.id \in ListApps(r)
  BY <1>3, <1>8, <1>9, TagAssumption DEF Edits
<1> QED
  BY <1>1, <1>10, <1>11 DEF d

-----------------------------------------------------------------------------
(* The host.                                                               *)

Hosts == [Things -> Values \cup {Bare, "absent"}]

LEMMA InstallsThing ==
  ASSUME host \in Hosts, NEW id \in Ids, NEW want \in Values \cup {Bare}
  PROVE  /\ Installed(id, want) \in Hosts
         /\ Installed(id, want)[Thing(id)] # "absent"
         /\ \A t \in Things \ {Thing(id)} : Installed(id, want)[t] = host[t]
         /\ ~tool.reuse => want \in {Bare, Installed(id, want)[Thing(id)]}
<1>1. Thing(id) \in Things /\ want # "absent"
  BY BareAssumption DEF Ids, Thing
<1>2. CASE Present(Thing(id)) /\ (tool.reuse \/ want = Bare)
  BY <1>1, <1>2 DEF Installed, Hosts, Present
<1>3. CASE ~(Present(Thing(id)) /\ (tool.reuse \/ want = Bare))
  <2>1. Installed(id, want) = [host EXCEPT ![Thing(id)] = want]
    BY <1>3 DEF Installed
  <2> QED
    BY <1>1, <2>1 DEF Hosts
<1> QED
  BY <1>2, <1>3

LEMMA RemovesThing ==
  ASSUME host \in Hosts, tool \in Kinds, NEW id \in Ids, NEW out \in Removals(id)
  PROVE  /\ out[1] \in Hosts /\ out[2] \in BOOLEAN
         /\ \A t \in Things \ {Thing(id)} : out[1][t] = host[t]
         /\ tool.remove = "nothing" => out[1] = host
<1>1. Thing(id) \in Things
  BY DEF Ids, Thing
<1>2. tool.remove \in {"thing", "match", "nothing"}
  BY DEF Kinds
<1>3. Gone(Thing(id)) \in Hosts /\ \A t \in Things \ {Thing(id)} : Gone(Thing(id))[t] = host[t]
  BY <1>1 DEF Gone, Hosts
<1>4. /\ out \in {<<host, TRUE>>, <<host, FALSE>>, <<Gone(Thing(id)), TRUE>>}
      /\ tool.remove = "nothing" => out = <<host, TRUE>>
  BY <1>2 DEF Removals
<1>5. \A b \in BOOLEAN, h \in Hosts : <<h, b>>[1] = h /\ <<h, b>>[2] = b
  OBVIOUS
<1>6. ASSUME NEW b \in BOOLEAN, out = <<host, b>>
      PROVE  out[1] = host /\ out[2] \in BOOLEAN
  BY <1>6
<1>7. CASE out = <<Gone(Thing(id)), TRUE>> /\ tool.remove # "nothing"
  <2>1. out[1] = Gone(Thing(id)) /\ out[2] = TRUE
    BY <1>7
  <2> QED
    BY <1>3, <1>7, <2>1
<1>8. \/ out = <<host, TRUE>> \/ out = <<host, FALSE>>
      \/ out = <<Gone(Thing(id)), TRUE>> /\ tool.remove # "nothing"
      \/ tool.remove = "nothing" /\ out = <<host, TRUE>>
  BY <1>4
<1>9. CASE \E b \in BOOLEAN : out = <<host, b>>
  BY <1>6, <1>9
<1> QED
  BY <1>7, <1>8, <1>9

LEMMA CommandsTouchTheirThing ==
  ASSUME host \in Hosts, tool \in Kinds, NEW c \in Adds \cup Drops, NEW out \in ToolOutcomes(c)
  PROVE  /\ out[1] \in Hosts /\ out[2] \in BOOLEAN
         /\ c.verb = "add" => out[1][Thing(c.id)] # "absent"
<1>1. c.id \in Ids /\ c.pin \in Values \cup {Bare} /\ c.verb \in {"add", "drop"}
  BY CommandTyping
<1>2. CASE c.verb = "add"
  <2> DEFINE want == IF tool.form = "fields" THEN c.pin ELSE Pin(c.id)
  <2>1. want \in Values \cup {Bare}
    BY <1>1 DEF Ids, Pin
  <2>2. out = <<Installed(c.id, want), TRUE>>
    BY <1>2 DEF ToolOutcomes
  <2> HIDE DEF want
  <2> QED
    BY <1>1, <2>1, <2>2, InstallsThing
<1>3. CASE c.verb # "add"
  <2>1. CASE tool.drop = "entry"
    <3>1. out = <<host, TRUE>>
      BY <1>3, <2>1 DEF ToolOutcomes
    <3> QED
      BY <1>3, <3>1
  <2>2. CASE tool.drop # "entry"
    <3>1. out \in Removals(c.id)
      BY <1>3, <2>2 DEF ToolOutcomes
    <3> QED
      BY <1>1, <1>3, <3>1, RemovesThing
  <2> QED
    BY <2>1, <2>2
<1> QED
  BY <1>2, <1>3

-----------------------------------------------------------------------------
(* Types.                                                                  *)

DocsOK == main \in Documents /\ local \in Documents /\ doc \in Documents
DiskOK == disk \in [hash : Documents \cup {NoHash}, st : [Ids -> Statuses], checks : SUBSET Ids]
WorkOK == /\ todo \subseteq Ids /\ doomed \subseteq Ids /\ stored \subseteq Ids
          /\ mem \in [Ids -> Statuses] /\ ok \in BOOLEAN
CommandOK == /\ phase \in {"idle", "act", "write", "save"}
             /\ cmd \in Adds \cup Drops \cup {NoCommand}
             /\ phase \in {"write", "save"} <=> cmd # NoCommand
HistoryOK == /\ quiet \in BOOLEAN /\ calm \in 0..2
             /\ done \subseteq Things /\ unsettled \subseteq Things /\ asked \subseteq Things

TypeInv == tool \in Used /\ DocsOK /\ host \in Hosts /\ DiskOK /\ WorkOK /\ CommandOK /\ HistoryOK

(* What the apply plans: it installs what the document declares and        *)
(* removes nothing of it; what is declared and not left to install is      *)
(* recorded ok, and what is tracked and not declared is left to remove,    *)
(* unless something failed; what has been installed is there.              *)
PlanInv ==
  phase = "act" =>
    /\ todo \subseteq Declared(doc)
    /\ doomed \cap Declared(doc) = {} /\ doomed \subseteq Tracked(mem)
    /\ tool.spared => \A id \in doomed : Thing(id) \notin DeclaredThings(doc)
    /\ ok => \A id \in Declared(doc) \ todo : mem[id] = "ok"
    /\ ok /\ disk.hash # NoHash => Tracked(mem) \subseteq Declared(doc) \cup doomed
    /\ ok => \A t \in done : Present(t)

SameKind == tool' = tool

LEMMA KindsStay ==
  ASSUME SameKind
  PROVE  /\ Writable(tool)' = Writable(tool) /\ Documents' = Documents
         /\ Adds' = Adds /\ Drops' = Drops
<1>1. tool' = tool
  BY DEF SameKind
<1>2. Writable(tool)' = Writable(tool)
  BY <1>1 DEF Writable
<1> QED
  BY <1>1, <1>2 DEF Documents, Adds, Drops

(* The document of the next apply.                                         *)
LEMMA DocumentTyping ==
  ASSUME TypeInv
  PROVE  /\ tool \in Kinds
         /\ Document \in Documents
         /\ \A t \in Tags : IdsOf(Document[t]) = IdsOfBoth(main, local, t)
<1>1. tool \in Kinds
  BY UsedAssumption DEF TypeInv
<1>2. main \in Documents /\ local \in Documents
  BY DEF TypeInv, DocsOK
<1>3. Document \in {MergeAppend(main, local), MergeOverride(main, local)}
  BY DEF Document
<1>4. Document \in Documents
  BY <1>1, <1>2, <1>3, MergedDocuments
<1>5. \A t \in Tags : IdsOf(Document[t]) = IdsOfBoth(main, local, t)
  BY <1>1, <1>2, <1>3, MergedDocuments
<1> QED
  BY <1>1, <1>4, <1>5

(* A probe tracks what was tracked.                                        *)
LEMMA ProbeTracks ==
  ASSUME TypeInv
  PROVE  /\ Probed \in [Ids -> Statuses]
         /\ Tracked(Probed) = Tracked(disk.st)
         /\ \A id \in Ids : Probed[id] = "ok" => id \in Tracked(disk.st) /\ Listed(id)
<1>1. disk.st \in [Ids -> Statuses]
  BY DEF TypeInv, DiskOK
<1>2. ASSUME NEW id \in Ids
      PROVE  /\ Probed[id] \in Statuses
             /\ Probed[id] \in {"ok", "failed"} <=> disk.st[id] \in {"ok", "failed"}
             /\ Probed[id] = "ok" => disk.st[id] \in {"ok", "failed"} /\ Listed(id)
  BY <1>1 DEF Probed, Tracked, Statuses
<1>3. Probed \in [Ids -> Statuses]
  BY <1>2 DEF Probed
<1> QED
  BY <1>2, <1>3 DEF Tracked

-----------------------------------------------------------------------------
(* What every action leaves alone, and a start of an apply spelt out.      *)

LEMMA KindStays ==
  ASSUME Next
  PROVE  SameKind
<1>1. Act => SameKind
  BY DEF Act, DoInstall, DoRemove, EndApply, WriteHamsfile, SaveState, SameKind
<1>2. StartApply \/ RefuseApply \/ Kill \/ (\E id \in Ids : ActFails(id)) => SameKind
  BY DEF StartApply, RefuseApply, Kill, ActFails, SameKind
<1>3. \A c \in Adds \cup Drops : StartCommand(c) \/ CommandFails(c) => SameKind
  BY DEF StartCommand, CommandFails, SameKind
<1>4. \A f \in ByHand, s \in Sections : EditFile(f[1], f[2], s) => SameKind
  BY DEF EditFile, SameKind
<1>5. \A t \in Things, v \in Values \cup {Bare, "absent"} : Drift(t, v) => SameKind
  BY DEF Drift, SameKind
<1> QED
  BY <1>1, <1>2, <1>3, <1>4, <1>5 DEF Next

Spares == Spared(Document, Removes(Document, Probed))

LEMMA ApplyStarts ==
  ASSUME StartApply
  PROVE  /\ phase = "idle" /\ phase' = "act" /\ ok' = TRUE /\ quiet' = TRUE /\ done' = {}
         /\ doc' = Document
         /\ todo' = Installs(Document, Probed)
         /\ doomed' = Removes(Document, Probed) \ Spares
         /\ mem' = [id \in Ids |-> IF id \in Spares THEN "removed" ELSE Probed[id]]
         /\ disk' = [disk EXCEPT !.st = Probed]
         /\ stored' = disk.checks
         /\ UNCHANGED <<tool, main, local, host, cmd, calm, unsettled, asked>>
<1>1. ASSUME NEW d \in {Document}, NEW st \in {Probed}
      PROVE  d = Document /\ st = Probed
  OBVIOUS
<1> QED
  BY <1>1 DEF StartApply, Spares, files

-----------------------------------------------------------------------------
(* Types: one lemma for each action.                                       *)

LEMMA StartApplyTypes ==
  ASSUME TypeInv, StartApply, SameKind
  PROVE  TypeInv'
<1>1. /\ Documents' = Documents /\ Adds' = Adds /\ Drops' = Drops
      /\ Document \in Documents /\ Probed \in [Ids -> Statuses] /\ tool \in Kinds
  BY KindsStay, DocumentTyping, ProbeTracks
<1>2. DocsOK'
  BY <1>1, ApplyStarts DEF TypeInv, DocsOK
<1>3. DiskOK'
  BY <1>1, ApplyStarts DEF TypeInv, DiskOK
<1>4. WorkOK'
  <2>1. todo' \subseteq Ids
    BY <1>1, ApplyStarts, ListedIds DEF Installs, Declared
  <2>2. doomed' \subseteq Ids
    BY ApplyStarts DEF Removes, Tracked
  <2>3. stored' \subseteq Ids
    BY ApplyStarts DEF TypeInv, DiskOK
  <2>4. mem' \in [Ids -> Statuses]
    BY <1>1, ApplyStarts DEF Statuses
  <2>5. ok' \in BOOLEAN
    BY ApplyStarts
  <2> QED
    BY <2>1, <2>2, <2>3, <2>4, <2>5 DEF WorkOK
<1>5. CommandOK'
  BY <1>1, ApplyStarts DEF TypeInv, CommandOK, NoCommand
<1>6. HistoryOK'
  BY ApplyStarts DEF TypeInv, HistoryOK
<1>7. tool' \in Used /\ host' \in Hosts
  BY ApplyStarts DEF TypeInv
<1> QED
  BY <1>2, <1>3, <1>4, <1>5, <1>6, <1>7 DEF TypeInv

LEMMA RefuseApplyTypes ==
  ASSUME TypeInv, RefuseApply, SameKind
  PROVE  TypeInv'
<1>1. Documents' = Documents /\ Adds' = Adds /\ Drops' = Drops /\ Probed \in [Ids -> Statuses]
  BY KindsStay, ProbeTracks
<1>2. DocsOK' /\ WorkOK'
  BY <1>1 DEF RefuseApply, session, files, TypeInv, DocsOK, WorkOK
<1>3. DiskOK'
  BY <1>1 DEF RefuseApply, TypeInv, DiskOK
<1>4. CommandOK'
  BY <1>1 DEF RefuseApply, TypeInv, CommandOK, NoCommand
<1>5. HistoryOK'
  BY DEF RefuseApply, TypeInv, HistoryOK
<1>6. tool' \in Used /\ host' \in Hosts
  BY DEF RefuseApply, TypeInv
<1> QED
  BY <1>2, <1>3, <1>4, <1>5, <1>6 DEF TypeInv

(* What an apply wants of a thing is a version, or any.                    *)
LEMMA TodoWants ==
  ASSUME TypeInv, PlanInv, phase = "act", NEW id \in todo
  PROVE  id \in Ids /\ id \in Declared(doc) /\ Want(doc, id) \in Values \cup {Bare} /\ Thing(id) \in Things
<1>1. tool \in Kinds /\ doc \in Documents /\ id \in Declared(doc) /\ id \in Ids
  BY UsedAssumption DEF TypeInv, DocsOK, WorkOK, PlanInv
<1> QED
  BY <1>1, FieldsTyping DEF Declared, Ids, Thing

LEMMA DoInstallTypes ==
  ASSUME TypeInv, PlanInv, NEW id \in Ids, DoInstall(id), SameKind
  PROVE  TypeInv'
<1>1. Documents' = Documents /\ Adds' = Adds /\ Drops' = Drops
  BY KindsStay
<1>2. id \in todo /\ phase = "act" /\ host \in Hosts
  BY DEF DoInstall, IsNext, TypeInv
<1>3. Want(doc, id) \in Values \cup {Bare} /\ Thing(id) \in Things
  BY <1>2, TodoWants
<1>4. host' \in Hosts
  BY <1>2, <1>3, InstallsThing DEF DoInstall
<1>5. DocsOK' /\ DiskOK'
  BY <1>1 DEF DoInstall, files, TypeInv, DocsOK, DiskOK
<1>6. CommandOK'
  BY <1>1 DEF DoInstall, TypeInv, CommandOK, NoCommand
<1>7. WorkOK'
  BY DEF DoInstall, TypeInv, WorkOK, Statuses
<1>8. HistoryOK'
  BY <1>3 DEF DoInstall, TypeInv, HistoryOK
<1>9. tool' \in Used
  BY DEF DoInstall, TypeInv
<1> QED
  BY <1>4, <1>5, <1>6, <1>7, <1>8, <1>9 DEF TypeInv

LEMMA DoRemoveTypes ==
  ASSUME TypeInv, NEW id \in Ids, DoRemove(id), SameKind
  PROVE  TypeInv'
<1>1. Documents' = Documents /\ Adds' = Adds /\ Drops' = Drops /\ tool \in Kinds /\ host \in Hosts
  BY KindsStay, UsedAssumption DEF TypeInv
<1>2. PICK out \in Removals(id) :
        /\ host' = out[1] /\ ok' = (ok /\ out[2])
        /\ mem' = [mem EXCEPT ![id] = IF out[2] THEN "removed" ELSE "failed"]
        /\ unsettled' = unsettled \cup Touched(out[1])
        /\ done' = done \ Touched(out[1])
  BY DEF DoRemove
<1>3. out[1] \in Hosts /\ out[2] \in BOOLEAN
  BY <1>1, RemovesThing
<1>4. host' \in Hosts
  BY <1>2, <1>3
<1>5. DocsOK' /\ DiskOK'
  BY <1>1 DEF DoRemove, files, TypeInv, DocsOK, DiskOK
<1>6. CommandOK'
  BY <1>1 DEF DoRemove, TypeInv, CommandOK, NoCommand
<1>7. WorkOK'
  <2>1. mem' \in [Ids -> Statuses]
    BY <1>2 DEF TypeInv, WorkOK, Statuses
  <2>2. ok' \in BOOLEAN
    BY <1>2
  <2>3. todo' \subseteq Ids /\ doomed' \subseteq Ids /\ stored' \subseteq Ids
    BY DEF DoRemove, TypeInv, WorkOK
  <2> QED
    BY <2>1, <2>2, <2>3 DEF WorkOK
<1>8. HistoryOK'
  BY <1>2 DEF DoRemove, TypeInv, HistoryOK, Touched
<1>9. tool' \in Used
  BY DEF DoRemove, TypeInv
<1> QED
  BY <1>4, <1>5, <1>6, <1>7, <1>8, <1>9 DEF TypeInv

LEMMA ActFailsTypes ==
  ASSUME TypeInv, PlanInv, NEW id \in Ids, ActFails(id), SameKind
  PROVE  TypeInv' /\ \A t \in Things \ {Thing(id)} : host'[t] = host[t]
<1>1. Documents' = Documents /\ Adds' = Adds /\ Drops' = Drops /\ tool \in Kinds /\ host \in Hosts
  BY KindsStay, UsedAssumption DEF TypeInv
<1>2. host' \in Hosts /\ \A t \in Things \ {Thing(id)} : host'[t] = host[t]
  <2>1. CASE host' = host
    BY <1>1, <2>1
  <2>2. CASE IsNext(id) /\ host' = Installed(id, Want(doc, id))
    <3>1. Want(doc, id) \in Values \cup {Bare}
      BY <2>2, TodoWants DEF IsNext, ActFails
    <3> QED
      BY <1>1, <2>2, <3>1, InstallsThing
  <2>3. CASE \E out \in Removals(id) : host' = out[1]
    BY <1>1, <2>3, RemovesThing
  <2> QED
    BY <2>1, <2>2, <2>3 DEF ActFails
<1>3. DocsOK' /\ DiskOK'
  BY <1>1 DEF ActFails, files, TypeInv, DocsOK, DiskOK
<1>4. CommandOK'
  BY <1>1 DEF ActFails, TypeInv, CommandOK, NoCommand
<1>5. WorkOK'
  BY DEF ActFails, TypeInv, WorkOK, Statuses
<1>6. HistoryOK'
  BY DEF ActFails, TypeInv, HistoryOK, Ids, Thing
<1>7. tool' \in Used
  BY DEF ActFails, TypeInv
<1> QED
  BY <1>2, <1>3, <1>4, <1>5, <1>6, <1>7 DEF TypeInv

LEMMA EndApplyTypes ==
  ASSUME TypeInv, EndApply, SameKind
  PROVE  TypeInv'
<1>1. Documents' = Documents /\ Adds' = Adds /\ Drops' = Drops
  BY KindsStay
<1>2. DocsOK' /\ WorkOK'
  BY <1>1 DEF EndApply, session, files, TypeInv, DocsOK, WorkOK
<1>3. DiskOK'
  BY <1>1 DEF EndApply, TypeInv, DiskOK, DocsOK, WorkOK
<1>4. CommandOK'
  BY <1>1 DEF EndApply, TypeInv, CommandOK, NoCommand
<1>5. HistoryOK'
  BY DEF EndApply, TypeInv, HistoryOK
<1>6. tool' \in Used /\ host' \in Hosts
  BY DEF EndApply, TypeInv
<1> QED
  BY <1>2, <1>3, <1>4, <1>5, <1>6 DEF TypeInv

LEMMA DisturbedHistory ==
  ASSUME Disturbed, done' \subseteq Things, unsettled' \subseteq Things, asked' \subseteq Things
  PROVE  HistoryOK'
<1>1. quiet' \in BOOLEAN
  BY DEF Disturbed
<1>2. calm' \in 0..2
  BY DEF Disturbed
<1> QED
  BY <1>1, <1>2 DEF HistoryOK

LEMMA StartCommandTypes ==
  ASSUME TypeInv, NEW c \in Adds \cup Drops, StartCommand(c), SameKind
  PROVE  TypeInv'
<1>1. Documents' = Documents /\ Adds' = Adds /\ Drops' = Drops /\ tool \in Kinds /\ host \in Hosts
  BY KindsStay, UsedAssumption DEF TypeInv
<1>2. PICK out \in ToolOutcomes(c) :
        /\ host' = out[1]
        /\ phase' = IF out[2] THEN "write" ELSE "idle"
        /\ cmd' = IF out[2] THEN c ELSE NoCommand
        /\ unsettled' = unsettled \cup Touched(out[1])
  BY DEF StartCommand
<1>3. host' \in Hosts /\ out[2] \in BOOLEAN
  BY <1>1, <1>2, CommandsTouchTheirThing
<1>4. DocsOK' /\ DiskOK'
  BY <1>1 DEF StartCommand, session, files, TypeInv, DocsOK, DiskOK
<1>5. WorkOK'
  BY DEF StartCommand, session, TypeInv, WorkOK
<1>6. CommandOK'
  <2>1. c # NoCommand
    BY <1>1, CommandTyping
  <2>2. NoCommand' = NoCommand
    BY DEF NoCommand
  <2>3. CASE out[2]
    BY <1>1, <1>2, <2>1, <2>2, <2>3 DEF CommandOK
  <2>4. CASE ~out[2]
    BY <1>1, <1>2, <2>2, <2>4 DEF CommandOK
  <2> QED
    BY <2>3, <2>4
<1>7. HistoryOK'
  BY <1>2, DisturbedHistory DEF StartCommand, TypeInv, HistoryOK, Touched
<1>8. tool' \in Used
  BY DEF StartCommand, TypeInv
<1> QED
  BY <1>3, <1>4, <1>5, <1>6, <1>7, <1>8 DEF TypeInv

LEMMA CommandFailsTypes ==
  ASSUME TypeInv, NEW c \in Adds \cup Drops, CommandFails(c), SameKind
  PROVE  TypeInv'
<1>1. Documents' = Documents /\ Adds' = Adds /\ Drops' = Drops /\ tool \in Kinds /\ host \in Hosts
  BY KindsStay, UsedAssumption DEF TypeInv
<1>2. host' \in Hosts
  <2>1. PICK out \in ToolOutcomes(c) : host' = out[1]
    BY DEF CommandFails
  <2> QED
    BY <1>1, <2>1, CommandsTouchTheirThing
<1>3. DocsOK' /\ DiskOK'
  BY <1>1 DEF CommandFails, session, files, TypeInv, DocsOK, DiskOK
<1>4. WorkOK'
  BY DEF CommandFails, session, TypeInv, WorkOK
<1>5. CommandOK'
  BY <1>1 DEF CommandFails, TypeInv, CommandOK, NoCommand
<1>6. HistoryOK'
  <2>1. unsettled' \subseteq Things
    BY DEF CommandFails, TypeInv, HistoryOK, Touched
  <2> QED
    BY <2>1, DisturbedHistory DEF CommandFails, TypeInv, HistoryOK
<1>7. tool' \in Used
  BY DEF CommandFails, TypeInv
<1> QED
  BY <1>2, <1>3, <1>4, <1>5, <1>6, <1>7 DEF TypeInv

(* A command that is under way has been given.                             *)
LEMMA CommandGiven ==
  ASSUME TypeInv, phase \in {"write", "save"}
  PROVE  cmd \in Adds \cup Drops /\ cmd.id \in Ids /\ Thing(cmd.id) \in Things
<1>1. cmd \in Adds \cup Drops /\ tool \in Kinds
  BY UsedAssumption DEF TypeInv, CommandOK
<1> QED
  BY <1>1, CommandTyping DEF Ids, Thing

LEMMA WriteHamsfileTypes ==
  ASSUME TypeInv, WriteHamsfile, SameKind
  PROVE  TypeInv'
<1>1. Documents' = Documents /\ Adds' = Adds /\ Drops' = Drops /\ tool \in Kinds
  BY KindsStay, UsedAssumption DEF TypeInv
<1>2. cmd \in Adds \cup Drops /\ Thing(cmd.id) \in Things
  BY CommandGiven DEF WriteHamsfile
<1>3. DocsOK'
  <2>1. Edited(cmd) \in Documents
    BY <1>1, <1>2, CommandEdits DEF TypeInv, DocsOK, Edits
  <2>2. CASE cmd.local
    BY <1>1, <2>1, <2>2 DEF WriteHamsfile, TypeInv, DocsOK
  <2>3. CASE ~cmd.local
    BY <1>1, <2>1, <2>3 DEF WriteHamsfile, TypeInv, DocsOK
  <2> QED
    BY <2>2, <2>3
<1>4. DiskOK'
  BY <1>1 DEF WriteHamsfile, TypeInv, DiskOK
<1>5. WorkOK'
  <2>1. mem' \in [Ids -> Statuses]
    BY DEF WriteHamsfile, Recorded, TypeInv, DiskOK, Statuses
  <2> QED
    BY <2>1 DEF WriteHamsfile, TypeInv, WorkOK
<1>6. CommandOK'
  BY <1>1 DEF WriteHamsfile, TypeInv, CommandOK, NoCommand
<1>7. HistoryOK'
  BY <1>2 DEF WriteHamsfile, TypeInv, HistoryOK
<1>8. tool' \in Used /\ host' \in Hosts
  BY DEF WriteHamsfile, TypeInv
<1> QED
  BY <1>3, <1>4, <1>5, <1>6, <1>7, <1>8 DEF TypeInv

LEMMA SaveStateTypes ==
  ASSUME TypeInv, SaveState, SameKind
  PROVE  TypeInv'
<1>1. Documents' = Documents /\ Adds' = Adds /\ Drops' = Drops
  BY KindsStay
<1>2. DocsOK' /\ WorkOK'
  BY <1>1 DEF SaveState, session, files, TypeInv, DocsOK, WorkOK
<1>3. DiskOK'
  BY <1>1 DEF SaveState, TypeInv, DiskOK, WorkOK
<1>4. CommandOK'
  BY <1>1 DEF SaveState, TypeInv, CommandOK, NoCommand
<1>5. HistoryOK'
  BY DEF SaveState, history, TypeInv, HistoryOK
<1>6. tool' \in Used /\ host' \in Hosts
  BY DEF SaveState, TypeInv
<1> QED
  BY <1>2, <1>3, <1>4, <1>5, <1>6 DEF TypeInv

LEMMA EditFileTypes ==
  ASSUME TypeInv, NEW f \in {"main", "local"}, NEW t \in Tags, NEW section \in Sections,
         EditFile(f, t, section), SameKind
  PROVE  TypeInv'
<1>1. Documents' = Documents /\ Adds' = Adds /\ Drops' = Drops
  BY KindsStay
<1>2. DocsOK'
  <2>1. section \in Seq(Writable(tool)) \cup {NoList}
    <3>1. CASE section = NoList
      BY <3>1
    <3>2. CASE \E e \in Writable(tool) : section = <<e>>
      BY <3>2
    <3> QED
      BY <3>1, <3>2 DEF Sections
  <2>2. [main EXCEPT ![t] = section] \in Documents /\ [local EXCEPT ![t] = section] \in Documents
    BY <2>1 DEF TypeInv, DocsOK, Documents
  <2> QED
    BY <1>1, <2>2 DEF EditFile, session, TypeInv, DocsOK
<1>3. DiskOK'
  BY <1>1 DEF EditFile, TypeInv, DiskOK
<1>4. WorkOK'
  BY DEF EditFile, session, TypeInv, WorkOK
<1>5. CommandOK'
  BY <1>1 DEF EditFile, TypeInv, CommandOK, NoCommand
<1>6. HistoryOK'
  BY DisturbedHistory DEF EditFile, TypeInv, HistoryOK
<1>7. tool' \in Used /\ host' \in Hosts
  BY DEF EditFile, TypeInv
<1> QED
  BY <1>2, <1>3, <1>4, <1>5, <1>6, <1>7 DEF TypeInv

LEMMA DriftTypes ==
  ASSUME TypeInv, NEW t \in Things, NEW v \in Values \cup {Bare, "absent"}, Drift(t, v), SameKind
  PROVE  TypeInv'
<1>1. Documents' = Documents /\ Adds' = Adds /\ Drops' = Drops
  BY KindsStay
<1>2. DocsOK' /\ DiskOK'
  BY <1>1 DEF Drift, session, files, TypeInv, DocsOK, DiskOK
<1>3. WorkOK'
  BY DEF Drift, session, TypeInv, WorkOK
<1>4. CommandOK'
  BY <1>1 DEF Drift, TypeInv, CommandOK, NoCommand
<1>5. HistoryOK'
  BY DisturbedHistory DEF Drift, TypeInv, HistoryOK
<1>6. tool' \in Used /\ host' \in Hosts
  BY DEF Drift, TypeInv, Hosts
<1> QED
  BY <1>2, <1>3, <1>4, <1>5, <1>6 DEF TypeInv

LEMMA KillTypes ==
  ASSUME TypeInv, Kill, SameKind
  PROVE  TypeInv'
<1>1. Documents' = Documents /\ Adds' = Adds /\ Drops' = Drops
  BY KindsStay
<1>2. DocsOK' /\ DiskOK'
  BY <1>1 DEF Kill, session, files, TypeInv, DocsOK, DiskOK
<1>3. WorkOK'
  BY DEF Kill, session, TypeInv, WorkOK
<1>4. CommandOK'
  BY <1>1 DEF Kill, TypeInv, CommandOK, NoCommand
<1>5. HistoryOK'
  BY DisturbedHistory DEF Kill, TypeInv, HistoryOK
<1>6. tool' \in Used /\ host' \in Hosts
  BY DEF Kill, TypeInv
<1> QED
  BY <1>2, <1>3, <1>4, <1>5, <1>6 DEF TypeInv

LEMMA TypeStep ==
  ASSUME TypeInv, PlanInv, Next
  PROVE  TypeInv'
<1> SameKind
  BY KindStays
<1>1. ASSUME NEW id \in Ids, DoInstall(id) \/ DoRemove(id) \/ ActFails(id)
      PROVE  TypeInv'
  BY <1>1, DoInstallTypes, DoRemoveTypes, ActFailsTypes
<1>2. ASSUME NEW c \in Adds \cup Drops, StartCommand(c) \/ CommandFails(c)
      PROVE  TypeInv'
  BY <1>2, StartCommandTypes, CommandFailsTypes
<1>3. ASSUME NEW f \in ByHand, NEW s \in Sections, EditFile(f[1], f[2], s)
      PROVE  TypeInv'
  <2>1. f[1] \in {"main", "local"} /\ f[2] \in Tags
    BY ByHandAssumption
  <2> QED
    BY <1>3, <2>1, EditFileTypes
<1>4. ASSUME NEW t \in Things, NEW v \in Values \cup {Bare, "absent"}, Drift(t, v)
      PROVE  TypeInv'
  BY <1>4, DriftTypes
<1> QED
  BY <1>1, <1>2, <1>3, <1>4, StartApplyTypes, RefuseApplyTypes, EndApplyTypes,
     WriteHamsfileTypes, SaveStateTypes, KillTypes DEF Next, Act

LEMMA TypeStutter ==
  ASSUME TypeInv, UNCHANGED vars
  PROVE  TypeInv'
<1>1. SameKind
  BY DEF vars, SameKind
<1>2. Documents' = Documents /\ Adds' = Adds /\ Drops' = Drops
  BY <1>1, KindsStay
<1>3. DocsOK' /\ DiskOK' /\ WorkOK'
  BY <1>2 DEF vars, files, session, TypeInv, DocsOK, DiskOK, WorkOK
<1>4. CommandOK'
  BY <1>2 DEF vars, TypeInv, CommandOK, NoCommand
<1>5. HistoryOK'
  BY DEF vars, history, TypeInv, HistoryOK
<1>6. tool' \in Used /\ host' \in Hosts
  BY DEF vars, TypeInv
<1> QED
  BY <1>3, <1>4, <1>5, <1>6 DEF TypeInv

-----------------------------------------------------------------------------
(* The plan.                                                               *)

LEMMA StartApplyPlans ==
  ASSUME TypeInv, StartApply
  PROVE  PlanInv'
<1> DEFINE D == Declared(Document)
           R == Removes(Document, Probed)
<1>1. /\ Probed \in [Ids -> Statuses]
      /\ \A id \in D : id \in Ids
  BY DocumentTyping, ProbeTracks, ListedIds DEF Declared
<1>2. R \subseteq Tracked(Probed) \ D /\ (disk.hash # NoHash => R = Tracked(Probed) \ D)
  BY DEF Removes
<1>3. /\ Spares \subseteq R
      /\ tool.spared => Spares = {id \in R : Thing(id) \in DeclaredThings(Document)}
  BY DEF Spares, Spared
<1>4. /\ doc' = Document /\ todo' = Installs(Document, Probed) /\ doomed' = R \ Spares
      /\ mem' = [id \in Ids |-> IF id \in Spares THEN "removed" ELSE Probed[id]]
      /\ disk'.hash = disk.hash /\ done' = {} /\ tool' = tool
  BY ApplyStarts DEF TypeInv, DiskOK
<1> HIDE DEF R
<1>5. todo' \subseteq Declared(doc')
  BY <1>4 DEF Installs
<1>6. doomed' \cap Declared(doc') = {}
  BY <1>2, <1>4
<1>10. doomed' \subseteq Tracked(mem')
  BY <1>2, <1>4 DEF Tracked
<1>7. tool'.spared => \A id \in doomed' : Thing(id) \notin DeclaredThings(doc')
  BY <1>3, <1>4
<1>8. \A id \in Declared(doc') \ todo' : mem'[id] = "ok"
  <2>1. SUFFICES ASSUME NEW id \in D \ Installs(Document, Probed)
                 PROVE  mem'[id] = "ok"
    BY <1>4
  <2>2. Probed[id] = "ok" /\ id \in Ids
    BY <1>1, <2>1 DEF Installs
  <2>3. id \notin Spares
    BY <1>2, <1>3
  <2> QED
    BY <1>4, <2>2, <2>3
<1>9. disk'.hash # NoHash => Tracked(mem') \subseteq Declared(doc') \cup doomed'
  <2>1. SUFFICES ASSUME disk.hash # NoHash, NEW id \in Ids, mem'[id] \in {"ok", "failed"}
                 PROVE  id \in D \cup (R \ Spares)
    BY <1>4 DEF Tracked
  <2>2. id \notin Spares
    BY <1>4, <2>1
  <2>3. id \in Tracked(Probed)
    BY <1>4, <2>1, <2>2 DEF Tracked
  <2> QED
    BY <1>2, <2>1, <2>2, <2>3
<1> QED
  BY <1>4, <1>5, <1>6, <1>7, <1>8, <1>9, <1>10 DEF PlanInv

LEMMA DoInstallPlans ==
  ASSUME TypeInv, PlanInv, NEW id \in Ids, DoInstall(id)
  PROVE  PlanInv'
<1>1. /\ phase = "act" /\ id \in todo /\ doc' = doc /\ tool' = tool /\ disk' = disk
      /\ doomed' = doomed /\ todo' = todo \ {id} /\ ok' = ok
      /\ mem' = [mem EXCEPT ![id] = "ok"] /\ done' = done \cup {Thing(id)}
  BY DEF DoInstall, IsNext
<1>2. id \in Declared(doc) /\ Thing(id) \in Things /\ mem \in [Ids -> Statuses] /\ done \subseteq Things
  BY <1>1, TodoWants DEF TypeInv, WorkOK, HistoryOK
<1>7. \A i \in Declared(doc) : i \in Ids
  BY UsedAssumption, ListedIds DEF TypeInv, DocsOK, Declared
<1>3. /\ host'[Thing(id)] # "absent"
      /\ \A t \in Things \ {Thing(id)} : host'[t] = host[t]
  <2>1. Want(doc, id) \in Values \cup {Bare} /\ host \in Hosts
    BY <1>1, TodoWants DEF TypeInv
  <2> QED
    BY <2>1, InstallsThing DEF DoInstall
<1>4. ok => \A i \in Declared(doc) \ todo' : mem'[i] = "ok"
  BY <1>1, <1>2, <1>7 DEF PlanInv
<1>5. ok /\ disk.hash # NoHash => Tracked(mem') \subseteq Declared(doc) \cup doomed
  BY <1>1, <1>2 DEF PlanInv, Tracked
<1>6. ok => \A t \in done' : host'[t] # "absent"
  BY <1>1, <1>2, <1>3 DEF PlanInv, Present
<1>8. doomed \subseteq Tracked(mem')
  BY <1>1, <1>2 DEF PlanInv, Tracked
<1> QED
  BY <1>1, <1>4, <1>5, <1>6, <1>8 DEF PlanInv, Present

LEMMA DoRemovePlans ==
  ASSUME TypeInv, PlanInv, NEW id \in Ids, DoRemove(id)
  PROVE  PlanInv'
<1>1. /\ phase = "act" /\ id \in doomed /\ doc' = doc /\ tool' = tool /\ disk' = disk
      /\ doomed' = doomed \ {id} /\ todo' = todo
  BY DEF DoRemove
<1>2. PICK out \in Removals(id) :
        /\ host' = out[1] /\ ok' = (ok /\ out[2])
        /\ mem' = [mem EXCEPT ![id] = IF out[2] THEN "removed" ELSE "failed"]
        /\ done' = done \ Touched(out[1])
  BY DEF DoRemove
<1>3. id \notin Declared(doc) /\ mem \in [Ids -> Statuses] /\ done \subseteq Things
  BY <1>1 DEF PlanInv, TypeInv, WorkOK, HistoryOK
<1>8. \A i \in Declared(doc) : i \in Ids
  BY UsedAssumption, ListedIds DEF TypeInv, DocsOK, Declared
<1>4. ok' => ok /\ mem' = [mem EXCEPT ![id] = "removed"]
  BY <1>2
<1>5. ok' => \A i \in Declared(doc) \ todo : mem'[i] = "ok"
  BY <1>1, <1>3, <1>4, <1>8 DEF PlanInv
<1>6. ok' /\ disk.hash # NoHash => Tracked(mem') \subseteq Declared(doc) \cup (doomed \ {id})
  BY <1>1, <1>3, <1>4 DEF PlanInv, Tracked
<1>7. ok' => \A t \in done' : host'[t] # "absent"
  BY <1>1, <1>2, <1>3, <1>4 DEF PlanInv, Present, Touched
<1>9. doomed \ {id} \subseteq Tracked(mem')
  BY <1>1, <1>2, <1>3 DEF PlanInv, Tracked
<1> QED
  BY <1>1, <1>5, <1>6, <1>7, <1>9 DEF PlanInv, Present

LEMMA DriftPlans ==
  ASSUME TypeInv, PlanInv, NEW t \in Things, NEW v \in Values \cup {Bare, "absent"}, Drift(t, v)
  PROVE  PlanInv'
<1>1. /\ UNCHANGED <<tool, disk, phase, todo, doomed, doc, mem, ok>>
      /\ done' = done \ {t} /\ host' = [host EXCEPT ![t] = v]
  BY DEF Drift, session
<1>2. \A u \in done' : host'[u] = host[u]
  BY <1>1 DEF TypeInv, HistoryOK, Hosts
<1>3. phase = "act" /\ ok => \A u \in done' : host'[u] # "absent"
  BY <1>1, <1>2 DEF PlanInv, Present
<1> QED
  BY <1>1, <1>3 DEF PlanInv, Present

LEMMA PlanStep ==
  ASSUME TypeInv, PlanInv, [Next]_vars
  PROVE  PlanInv'
<1>1. CASE UNCHANGED vars
  BY <1>1 DEF vars, session, history, PlanInv, Present
<1>2. ASSUME NEW id \in Ids, ActFails(id)
      PROVE  PlanInv'
  <2>1. /\ UNCHANGED <<tool, doc, disk>> /\ phase = "act" /\ ok' = FALSE
        /\ todo' = todo \ {id} /\ doomed' = doomed \ {id} /\ mem' = [mem EXCEPT ![id] = "failed"]
    BY <1>2 DEF ActFails
  <2>2. phase = "act" => doomed \ {id} \subseteq Tracked(mem')
    BY <2>1 DEF PlanInv, Tracked, TypeInv, WorkOK
  <2> QED
    BY <2>1, <2>2 DEF PlanInv
<1>3. ASSUME NEW id \in Ids, DoInstall(id) \/ DoRemove(id)
      PROVE  PlanInv'
  BY <1>3, DoInstallPlans, DoRemovePlans
<1>4. CASE EndApply \/ WriteHamsfile \/ SaveState \/ Kill \/ RefuseApply
  BY <1>4 DEF EndApply, WriteHamsfile, SaveState, Kill, RefuseApply, PlanInv
<1>5. ASSUME NEW c \in Adds \cup Drops, StartCommand(c) \/ CommandFails(c)
      PROVE  PlanInv'
  BY <1>5 DEF StartCommand, CommandFails, PlanInv
<1>6. ASSUME NEW f \in ByHand, NEW s \in Sections, EditFile(f[1], f[2], s)
      PROVE  PlanInv'
  BY <1>6 DEF EditFile, session, PlanInv, Present
<1>7. ASSUME NEW t \in Things, NEW v \in Values \cup {Bare, "absent"}, Drift(t, v)
      PROVE  PlanInv'
  BY <1>7, DriftPlans
<1> QED
  BY <1>1, <1>2, <1>3, <1>4, <1>5, <1>6, <1>7, StartApplyPlans DEF Next, Act

-----------------------------------------------------------------------------
(* A provider whose IDs have no pin only ever tracks, and removes, IDs     *)
(* without one: two IDs of the same thing are the same.                    *)
BareInv ==
  tool.form \in {"name", "fields"} =>
    \A id \in Tracked(disk.st) \cup Tracked(mem) \cup doomed : Pin(id) = Bare

LEMMA BareSession ==
  ASSUME TypeInv, PlanInv, BareInv,
         StartApply \/ RefuseApply \/ \E id \in Ids : DoInstall(id) \/ DoRemove(id) \/ ActFails(id)
  PROVE  BareInv'
<1> SUFFICES ASSUME tool.form \in {"name", "fields"}, tool' = tool
             PROVE  \A id \in Tracked(disk'.st) \cup Tracked(mem') \cup doomed' : Pin(id) = Bare
  <2>1. tool' = tool
    BY DEF StartApply, RefuseApply, DoInstall, DoRemove, ActFails
  <2> QED
    BY <2>1 DEF BareInv
<1>1. /\ Tracked(Probed) = Tracked(disk.st)
      /\ \A id \in Tracked(disk.st) \cup Tracked(mem) \cup doomed : Pin(id) = Bare
      /\ mem \in [Ids -> Statuses] /\ doomed \subseteq Ids
  BY ProbeTracks DEF BareInv, TypeInv, WorkOK
<1>2. CASE StartApply
  <2>1. disk'.st = Probed /\ doomed' \subseteq Tracked(Probed)
    BY <1>2, ApplyStarts DEF Removes, TypeInv, DiskOK
  <2>2. Tracked(mem') \subseteq Tracked(Probed)
    BY <1>2, ApplyStarts DEF Tracked
  <2> QED
    BY <1>1, <2>1, <2>2
<1>3. CASE RefuseApply
  <2>1. disk'.st = Probed /\ mem' = mem /\ doomed' = doomed
    BY <1>3 DEF RefuseApply, session, TypeInv, DiskOK
  <2> QED
    BY <1>1, <2>1
<1>4. ASSUME NEW id \in Ids, DoInstall(id) \/ DoRemove(id) \/ ActFails(id)
      PROVE  \A i \in Tracked(disk'.st) \cup Tracked(mem') \cup doomed' : Pin(i) = Bare
  <2>1. phase = "act" /\ disk' = disk /\ doomed' \subseteq doomed /\ (id \in todo \/ id \in doomed)
    BY <1>4 DEF DoInstall, DoRemove, ActFails, IsNext
  <2>2. Pin(id) = Bare
    <3>1. CASE id \in todo
      <4>1. id \in ListApps(doc) /\ doc \in Documents /\ tool \in Kinds
        BY <2>1, <3>1, UsedAssumption DEF PlanInv, Declared, TypeInv, DocsOK
      <4> QED
        BY <4>1, ListedIds
    <3>2. CASE id \in doomed
      BY <1>1, <3>2
    <3> QED
      BY <2>1, <3>1, <3>2
  <2>3. \E s : mem' = [mem EXCEPT ![id] = s]
    BY <1>4 DEF DoInstall, DoRemove, ActFails
  <2>4. Tracked(mem') \subseteq Tracked(mem) \cup {id}
    BY <1>1, <2>3 DEF Tracked
  <2> QED
    BY <1>1, <2>1, <2>2, <2>4
<1> QED
  BY <1>2, <1>3, <1>4

LEMMA BareStep ==
  ASSUME TypeInv, PlanInv, BareInv, [Next]_vars
  PROVE  BareInv'
<1>1. CASE UNCHANGED vars
  BY <1>1 DEF vars, session, BareInv
<1>2. CASE EndApply \/ SaveState
  <2>1. disk'.st = mem /\ mem' = mem /\ doomed' = doomed /\ tool' = tool
    BY <1>2 DEF EndApply, SaveState, session, TypeInv, DiskOK
  <2> QED
    BY <2>1 DEF BareInv
<1>3. CASE WriteHamsfile
  <2>1. /\ disk' = disk /\ doomed' = doomed /\ tool' = tool
        /\ mem' = Recorded(cmd) /\ cmd \in Adds \cup Drops /\ tool \in Kinds
    BY <1>3, CommandGiven, UsedAssumption DEF WriteHamsfile, TypeInv
  <2>2. Tracked(mem') \subseteq Tracked(disk.st) \cup {cmd.id}
    BY <2>1 DEF Recorded, Tracked
  <2> QED
    BY <2>1, <2>2, CommandTyping DEF BareInv
<1>4. CASE Kill
  BY <1>4 DEF Kill, session, BareInv
<1>5. ASSUME NEW c \in Adds \cup Drops, StartCommand(c) \/ CommandFails(c)
      PROVE  BareInv'
  BY <1>5 DEF StartCommand, CommandFails, session, BareInv
<1>6. ASSUME NEW f \in ByHand, NEW s \in Sections, EditFile(f[1], f[2], s)
      PROVE  BareInv'
  BY <1>6 DEF EditFile, session, BareInv
<1>7. ASSUME NEW t \in Things, NEW v \in Values \cup {Bare, "absent"}, Drift(t, v)
      PROVE  BareInv'
  BY <1>7 DEF Drift, session, BareInv
<1> QED
  BY <1>1, <1>2, <1>3, <1>4, <1>5, <1>6, <1>7, BareSession DEF Next, Act

-----------------------------------------------------------------------------
(* No removal takes a declared thing off the host.                         *)

TroublesOK == troubles \in Nat

LEMMA TroublesStep ==
  ASSUME TroublesOK, [Next]_vars
  PROVE  TroublesOK'
BY DEF TroublesOK, Next, Act, vars, StartApply, RefuseApply, DoInstall, DoRemove, ActFails, EndApply,
       StartCommand, CommandFails, WriteHamsfile, SaveState, EditFile, Drift, Kill, Trouble

LEMMA RemovalSpares ==
  ASSUME TypeInv, PlanInv, BareInv, ~Unsparing, NEW id \in Ids, DoRemove(id),
         NEW t \in DeclaredThings(doc), Present(t)
  PROVE  host'[t] # "absent"
<1>1. /\ phase = "act" /\ id \in doomed /\ id \notin Declared(doc)
      /\ host \in Hosts /\ tool \in Kinds /\ doc \in Documents
  BY UsedAssumption DEF DoRemove, PlanInv, TypeInv, DocsOK
<1>2. PICK out \in Removals(id) : host' = out[1]
  BY DEF DoRemove
<1>3. /\ \A u \in Things \ {Thing(id)} : host'[u] = host[u]
      /\ tool.remove = "nothing" => host' = host
  BY <1>1, <1>2, RemovesThing
<1>4. PICK j \in Declared(doc) : t = Thing(j)
  BY DEF DeclaredThings
<1>5. j \in Ids /\ t \in Things /\ (tool.form \in {"name", "fields"} => Pin(j) = Bare)
  BY <1>1, <1>4, ListedIds DEF Declared, Ids, Thing
<1>6. CASE tool.remove = "nothing"
  BY <1>3, <1>6 DEF Present
<1>7. CASE tool.spared
  <2>1. Thing(id) # t
    BY <1>1, <1>7 DEF PlanInv
  <2> QED
    BY <1>3, <1>5, <2>1 DEF Present
<1>8. CASE tool.form \in {"name", "fields"}
  <2>1. Pin(id) = Bare
    BY <1>1, <1>8 DEF BareInv
  <2>2. Thing(id) # t
    BY <1>1, <1>4, <1>5, <1>8, <2>1 DEF Ids, Thing, Pin
  <2> QED
    BY <1>3, <1>5, <2>2 DEF Present
<1>9. tool.remove = "nothing" \/ tool.spared \/ tool.form \in {"name", "fields"}
  BY <1>1 DEF Unsparing, Kinds
<1> QED
  BY <1>6, <1>7, <1>8, <1>9

LEMMA NothingDeclaredGoes ==
  ASSUME TypeInv, PlanInv, BareInv, TroublesOK, [Next]_vars, phase = "act", ~Unsparing,
         NEW t \in DeclaredThings(doc), Present(t), UNCHANGED troubles
  PROVE  host'[t] # "absent"
<1>1. ~Trouble
  BY DEF TroublesOK, Trouble
<1>2. CASE UNCHANGED host
  BY <1>2 DEF Present
<1>3. ASSUME NEW id \in Ids, DoInstall(id)
      PROVE  host'[t] # "absent"
  <2>1. Want(doc, id) \in Values \cup {Bare} /\ host \in Hosts /\ t \in Things
    <3>1. id \in todo
      BY <1>3 DEF DoInstall, IsNext
    <3>2. \A j \in Declared(doc) : j \in Ids
      BY UsedAssumption, ListedIds DEF TypeInv, DocsOK, Declared
    <3> QED
      BY <3>1, <3>2, TodoWants DEF TypeInv, DeclaredThings, Ids, Thing
  <2> QED
    BY <1>3, <2>1, InstallsThing DEF DoInstall, Present
<1>4. StartApply \/ RefuseApply \/ EndApply \/ WriteHamsfile \/ SaveState \/ Kill => UNCHANGED host
  BY DEF StartApply, RefuseApply, EndApply, WriteHamsfile, SaveState, Kill
<1>5. \A id \in Ids : ~ActFails(id)
  BY <1>1 DEF ActFails
<1>6. \A c \in Adds \cup Drops : ~StartCommand(c) /\ ~CommandFails(c)
  BY DEF StartCommand, CommandFails
<1>7. \A f \in ByHand, s \in Sections : EditFile(f[1], f[2], s) => UNCHANGED host
  BY DEF EditFile
<1>8. \A u \in Things, v \in Values \cup {Bare, "absent"} : ~Drift(u, v)
  BY <1>1 DEF Drift
<1>9. UNCHANGED vars => UNCHANGED host
  BY DEF vars
<1> QED
  BY <1>2, <1>3, <1>4, <1>5, <1>6, <1>7, <1>8, <1>9, RemovalSpares DEF Next, Act

-----------------------------------------------------------------------------
(* Two empty files, and nothing known.                                     *)

LEMMA Starts ==
  ASSUME Init
  PROVE  TypeInv /\ PlanInv /\ BareInv /\ TroublesOK
<1>1. EmptyDoc \in Documents
  BY DEF EmptyDoc, Documents
<1>2. DocsOK /\ DiskOK
  BY <1>1 DEF Init, DocsOK, DiskOK, Untracked, Statuses
<1>3. WorkOK
  BY DEF Init, WorkOK, Untracked, Statuses
<1>4. CommandOK
  BY DEF Init, CommandOK
<1>5. HistoryOK
  <2>1. quiet \in BOOLEAN
    BY DEF Init
  <2>2. calm \in 0..2
    BY DEF Init
  <2> QED
    BY <2>1, <2>2 DEF Init, HistoryOK
<1>6. tool \in Used /\ host \in Hosts
  BY DEF Init, Hosts
<1>7. TypeInv
  BY <1>2, <1>3, <1>4, <1>5, <1>6 DEF TypeInv
<1>8. PlanInv
  BY DEF Init, PlanInv
<1>9. BareInv
  <2>1. disk.st = Untracked /\ mem = Untracked /\ doomed = {}
    BY DEF Init
  <2> QED
    BY <2>1 DEF BareInv, Tracked, Untracked
<1>10. TroublesOK
  BY DEF Init, TroublesOK
<1> QED
  BY <1>7, <1>8, <1>9, <1>10

LEMMA PlansHold == Spec => [](TypeInv /\ PlanInv /\ BareInv /\ TroublesOK)
<1>1. Init => TypeInv /\ PlanInv /\ BareInv /\ TroublesOK
  BY Starts
<1>2. TypeInv /\ PlanInv /\ BareInv /\ TroublesOK /\ [Next]_vars
        => (TypeInv /\ PlanInv /\ BareInv /\ TroublesOK)'
  BY TypeStep, TypeStutter, PlanStep, BareStep, TroublesStep
<1> QED
  BY <1>1, <1>2, PTL DEF Spec

(* Every variable keeps its type: documents have only entries the provider *)
(* takes, and an apply installs only what its document declares and        *)
(* removes nothing of it.                                                  *)
THEOREM Typing == Spec => []TypeOK
<1>1. TypeInv /\ PlanInv => TypeOK
  <2> SUFFICES ASSUME TypeInv, PlanInv PROVE TypeOK
    OBVIOUS
  <2>1. disk.st \in [Ids -> Statuses]
    BY DEF TypeInv, DiskOK
  <2>2. \A d \in {main, local, doc} : d \in Documents
    BY DEF TypeInv, DocsOK
  <2>3. mem \in [Ids -> Statuses] /\ host \in [Things -> Values \cup {Bare, "absent"}] /\ tool \in Used
    BY DEF TypeInv, WorkOK, Hosts
  <2>4. phase \in {"idle", "act", "write", "save"} /\ (phase \in {"write", "save"} <=> cmd # NoCommand)
    BY DEF TypeInv, CommandOK
  <2>5. phase = "act" => todo \subseteq Declared(doc) /\ doomed \cap Declared(doc) = {}
    BY DEF PlanInv
  <2> QED
    BY <2>1, <2>2, <2>3, <2>4, <2>5 DEF TypeOK
<1> QED
  BY <1>1, PlansHold, PTL

(* Whatever was edited or recorded before, no apply uninstalls a thing its *)
(* document declares, except with the tools that uninstall a thing by any  *)
(* of its IDs and plan so.                                                 *)
THEOREM NeverUninstallsDeclared == Spec => DeclaredIsNotUninstalled
<1> DEFINE Keeps == phase = "act" /\ ~Unsparing =>
             \A t \in DeclaredThings(doc) : Present(t) /\ UNCHANGED troubles => host'[t] # "absent"
<1>1. TypeInv /\ PlanInv /\ BareInv /\ TroublesOK /\ [Next]_vars => [Keeps]_vars
  BY NothingDeclaredGoes
<1> QED
  BY <1>1, PlansHold, PTL DEF Spec, DeclaredIsNotUninstalled

-----------------------------------------------------------------------------
(* What was asked for is declared.                                         *)

(* Where main has lists only, a merge lists what either file lists.        *)
LEMMA BothListed ==
  ASSUME tool \in Kinds, NEW m \in Documents, NEW l \in Documents,
         NEW r \in {MergeAppend(m, l), MergeOverride(m, l)},
         \A t \in Tags : m[t] # NoList
  PROVE  ListApps(r) = ListApps(m) \cup ListApps(l)
<1>1. \A t \in Tags : IdsOf(r[t]) = IdsOfBoth(m, l, t)
  BY MergedDocuments
<1>2. \A t \in Tags : IdsOfBoth(m, l, t) = IdsOf(m[t]) \cup IdsOf(l[t])
  BY DEF IdsOfBoth
<1>3. \A t \in Tags : IdsOf(r[t]) = IdsOf(m[t]) \cup IdsOf(l[t])
  BY <1>1, <1>2
<1> QED
  BY <1>3 DEF ListApps

AskInv == AskedIsDeclared /\ (phase = "write" => Thing(cmd.id) \notin asked)

LEMMA WriteKeepsAsked ==
  ASSUME TypeInv, AskInv, WriteHamsfile
  PROVE  AskedIsDeclared'
<1>1. /\ tool \in Kinds /\ tool' = tool /\ cmd \in Adds \cup Drops
      /\ main \in Documents /\ local \in Documents
      /\ asked' = IF cmd.verb = "add" THEN asked \cup {Thing(cmd.id)} ELSE asked
      /\ asked \subseteq Things /\ Thing(cmd.id) \notin asked
  BY CommandGiven, UsedAssumption DEF WriteHamsfile, TypeInv, DocsOK, HistoryOK, AskInv
<1> DEFINE own == {id \in Ids : Thing(id) = Thing(cmd.id)}
<1>2. /\ Edits(File(cmd), Edited(cmd), own)
      /\ cmd.verb = "add" /\ File(cmd)[CliTag] # NoList => cmd.id \in ListApps(Edited(cmd))
  BY <1>1, CommandEdits
<1>3. IF cmd.local THEN local' = Edited(cmd) /\ main' = main ELSE main' = Edited(cmd) /\ local' = local
  BY DEF WriteHamsfile
<1> HIDE DEF own
<1>4. /\ main' \in Documents /\ local' \in Documents
      /\ \A t \in Tags : main'[t] = NoList <=> main[t] = NoList
      /\ \A t \in Tags : local'[t] = NoList <=> local[t] = NoList
      /\ ListApps(main) \ own \subseteq ListApps(main')
      /\ ListApps(local) \ own \subseteq ListApps(local')
  <2>1. CASE cmd.local
    BY <1>1, <1>2, <1>3, <2>1 DEF Edits, File
  <2>2. CASE ~cmd.local
    BY <1>1, <1>2, <1>3, <2>2 DEF Edits, File
  <2> QED
    BY <2>1, <2>2
<1>5. SUFFICES ASSUME Recordable' PROVE asked' \subseteq DeclaredThings(Document)'
  BY DEF AskedIsDeclared
<1>6. local'[CliTag] # NoList /\ \A t \in Tags : main'[t] # NoList
  BY <1>5 DEF Recordable
<1>7. Recordable /\ \A t \in Tags : main[t] # NoList
  BY <1>4, <1>6, TagAssumption DEF Recordable
<1>8. ListApps(Document) = ListApps(main) \cup ListApps(local)
  <2>1. Document \in {MergeAppend(main, local), MergeOverride(main, local)}
    BY DEF Document
  <2> QED
    BY <1>1, <1>7, <2>1, BothListed
<1>9. ListApps(Document') = ListApps(main') \cup ListApps(local')
  <2>1. Document' \in {MergeAppend(main', local'), MergeOverride(main', local')}
    BY DEF Document
  <2> QED
    BY <1>1, <1>4, <1>6, <2>1, BothListed
<1>10. asked \subseteq DeclaredThings(Document)
  BY <1>7 DEF AskInv, AskedIsDeclared
<1>11. ASSUME NEW u \in asked
       PROVE  u \in DeclaredThings(Document)'
  <2>1. PICK j \in ListApps(Document) : u = Thing(j)
    BY <1>10, <1>11 DEF DeclaredThings, Declared
  <2>2. j \notin own
    BY <1>1, <1>11, <2>1 DEF own
  <2>3. j \in ListApps(Document')
    BY <1>4, <1>8, <1>9, <2>1, <2>2
  <2> QED
    BY <2>1, <2>3 DEF DeclaredThings, Declared
<1>12. cmd.verb = "add" => Thing(cmd.id) \in DeclaredThings(Document)'
  <2>1. SUFFICES ASSUME cmd.verb = "add" PROVE cmd.id \in ListApps(Document')
    BY DEF DeclaredThings, Declared
  <2>2. File(cmd)[CliTag] # NoList
    BY <1>4, <1>6, TagAssumption DEF File
  <2>3. cmd.id \in ListApps(main') \cup ListApps(local')
    BY <1>2, <1>3, <2>1, <2>2
  <2> QED
    BY <1>9, <2>3
<1> QED
  BY <1>1, <1>11, <1>12

LEMMA FilesStay ==
  ASSUME AskInv, UNCHANGED <<tool, main, local>>, asked' \subseteq asked
  PROVE  AskedIsDeclared'
<1>1. Document' = Document /\ (Recordable' => Recordable)
  BY DEF Document, Recordable
<1>2. DeclaredThings(Document)' = DeclaredThings(Document)
  BY <1>1 DEF DeclaredThings, Declared
<1> QED
  BY <1>1, <1>2 DEF AskInv, AskedIsDeclared

LEMMA AskStep ==
  ASSUME TypeInv, AskInv, [Next]_vars
  PROVE  AskInv'
<1>1. CASE WriteHamsfile
  <2>1. phase' # "write"
    BY <1>1 DEF WriteHamsfile
  <2> QED
    BY <1>1, <2>1, WriteKeepsAsked DEF AskInv
<1>2. ASSUME NEW f \in ByHand, NEW s \in Sections, EditFile(f[1], f[2], s)
      PROVE  AskInv'
  <2>1. asked' = {}
    BY <1>2 DEF EditFile
  <2> QED
    BY <2>1 DEF AskInv, AskedIsDeclared
<1>3. ASSUME UNCHANGED <<tool, main, local>>, asked' \subseteq asked,
             phase' = "write" => Thing(cmd'.id) \notin asked'
      PROVE  AskInv'
  BY <1>3, FilesStay DEF AskInv, Thing
<1>4. CASE UNCHANGED vars
  BY <1>3, <1>4 DEF vars, files, history, AskInv
<1>5. CASE StartApply \/ RefuseApply \/ EndApply \/ SaveState \/ Kill
  BY <1>3, <1>5 DEF StartApply, RefuseApply, EndApply, SaveState, Kill, files, history, AskInv
<1>6. ASSUME NEW id \in Ids, DoInstall(id) \/ DoRemove(id) \/ ActFails(id)
      PROVE  AskInv'
  BY <1>3, <1>6 DEF DoInstall, DoRemove, ActFails, files, AskInv
<1>7. ASSUME NEW c \in Adds \cup Drops, StartCommand(c) \/ CommandFails(c)
      PROVE  AskInv'
  <2>1. /\ UNCHANGED <<tool, main, local>> /\ asked' = asked \ {Thing(c.id)}
        /\ phase' = "write" => cmd' = c
    BY <1>7 DEF StartCommand, CommandFails, files
  <2> QED
    BY <1>3, <2>1
<1>8. ASSUME NEW t \in Things, NEW v \in Values \cup {Bare, "absent"}, Drift(t, v)
      PROVE  AskInv'
  BY <1>3, <1>8 DEF Drift, files, AskInv
<1> QED
  BY <1>1, <1>2, <1>4, <1>5, <1>6, <1>7, <1>8 DEF Next, Act

(* What a command recorded last of a thing is what the next apply will     *)
(* declare, whichever file and tag it went to, in whatever order commands  *)
(* displaced and added entries of either file.                             *)
THEOREM AskedStaysDeclared == Spec => []AskedIsDeclared
<1>1. Init => AskInv
  BY DEF Init, AskInv, AskedIsDeclared
<1>2. TypeInv /\ AskInv /\ [Next]_vars => AskInv'
  BY AskStep
<1>3. AskInv => AskedIsDeclared
  BY DEF AskInv
<1> QED
  BY <1>1, <1>2, <1>3, PlansHold, PTL DEF Spec

-----------------------------------------------------------------------------
(* Whatever changes on the host is unsettled until an apply ends well.     *)

Noted == \A t \in Things : t \in unsettled \/ host'[t] # host[t] => t \in unsettled'

LEMMA ChangesNoted ==
  ASSUME TypeInv, PlanInv, [Next]_vars
  PROVE  Noted \/ EndApply
<1>1. CASE UNCHANGED <<host, unsettled>>
  BY <1>1 DEF Noted
<1>2. UNCHANGED vars \/ StartApply \/ RefuseApply \/ WriteHamsfile \/ SaveState \/ Kill
        => UNCHANGED <<host, unsettled>>
  BY DEF vars, history, StartApply, RefuseApply, WriteHamsfile, SaveState, Kill
<1>3. ASSUME NEW id \in Ids, DoInstall(id)
      PROVE  Noted
  <2>1. id \in todo /\ phase = "act" /\ unsettled' = unsettled \cup {Thing(id)}
    BY <1>3 DEF DoInstall, IsNext
  <2>2. \A t \in Things \ {Thing(id)} : host'[t] = host[t]
    BY <1>3, <2>1, TodoWants, InstallsThing DEF DoInstall, TypeInv
  <2> QED
    BY <2>1, <2>2 DEF Noted
<1>4. ASSUME NEW id \in Ids, DoRemove(id)
      PROVE  Noted
  BY <1>4 DEF DoRemove, Noted, Touched
<1>5. ASSUME NEW id \in Ids, ActFails(id)
      PROVE  Noted
  <2>1. \A t \in Things \ {Thing(id)} : host'[t] = host[t]
    <3>1. SameKind
      BY <1>5 DEF ActFails, SameKind
    <3> QED
      BY <1>5, <3>1, ActFailsTypes
  <2> QED
    BY <1>5, <2>1 DEF ActFails, Noted
<1>6. ASSUME NEW c \in Adds \cup Drops, StartCommand(c) \/ CommandFails(c)
      PROVE  Noted
  BY <1>6 DEF StartCommand, CommandFails, Noted, Touched
<1>7. \A f \in ByHand, s \in Sections : EditFile(f[1], f[2], s) => UNCHANGED <<host, unsettled>>
  BY DEF EditFile
<1>8. ASSUME NEW t \in Things, NEW v \in Values \cup {Bare, "absent"}, Drift(t, v)
      PROVE  Noted
  BY <1>8 DEF Drift, Noted, TypeInv, Hosts
<1> QED
  BY <1>1, <1>2, <1>3, <1>4, <1>5, <1>6, <1>7, <1>8 DEF Next, Act

-----------------------------------------------------------------------------
(* What is tracked is there, or has changed.                               *)

Accounted(t) == Present(t) \/ t \in unsettled

PresentInv ==
  /\ \A id \in Tracked(disk.st) : Accounted(Thing(id))
  /\ phase \in {"act", "save"} => \A id \in Tracked(mem) : Accounted(Thing(id))
  /\ phase = "write" /\ cmd.verb = "add" => Accounted(Thing(cmd.id))

(* Things stay accounted for.                                              *)
AccountKept == \A t \in Things : Accounted(t) => host'[t] # "absent" \/ t \in unsettled'

LEMMA AccountsKept ==
  ASSUME TypeInv, PlanInv, [Next]_vars
  PROVE  AccountKept
<1>1. CASE Noted
  BY <1>1 DEF Noted, AccountKept, Accounted, Present
<1>2. CASE EndApply
  <2>1. phase = "act" /\ host' = host /\ unsettled' = IF ok THEN unsettled \ done ELSE unsettled
    BY <1>2 DEF EndApply
  <2>2. ok => \A t \in done : Present(t)
    BY <2>1 DEF PlanInv
  <2> QED
    BY <2>1, <2>2 DEF AccountKept, Accounted, Present
<1> QED
  BY <1>1, <1>2, ChangesNoted

LEMMA PresentStep ==
  ASSUME TypeInv, PlanInv, PresentInv, [Next]_vars
  PROVE  PresentInv'
<1> DEFINE Kept(ids) == \A id \in ids : host'[Thing(id)] # "absent" \/ Thing(id) \in unsettled'
<1>1. ASSUME NEW ids \in SUBSET Ids, \A id \in ids : Accounted(Thing(id))
      PROVE  Kept(ids)
  <2>1. \A id \in Ids : Thing(id) \in Things
    BY DEF Ids, Thing
  <2> QED
    BY <1>1, <2>1, AccountsKept DEF AccountKept
<1>2. /\ Tracked(disk.st) \in SUBSET Ids /\ Tracked(mem) \in SUBSET Ids
      /\ mem \in [Ids -> Statuses]
  BY DEF Tracked, TypeInv, WorkOK
<1>3. Kept(Tracked(disk.st)) /\ (phase \in {"act", "save"} => Kept(Tracked(mem)))
  BY <1>1, <1>2 DEF PresentInv
<1>4. phase = "write" /\ cmd.verb = "add" => Kept({cmd.id})
  <2>1. phase = "write" => {cmd.id} \in SUBSET Ids
    BY CommandGiven
  <2> QED
    BY <1>1, <2>1 DEF PresentInv
<1>5. ASSUME Kept(Tracked(disk'.st)),
             phase' \in {"act", "save"} => Kept(Tracked(mem')),
             phase' = "write" /\ cmd'.verb = "add" => Kept({cmd'.id})
      PROVE  PresentInv'
  BY <1>5 DEF PresentInv, Accounted, Present
<1> HIDE DEF Kept
<1>6. ASSUME NEW A, NEW B, A \subseteq B, Kept(B)
      PROVE  Kept(A)
  BY <1>6 DEF Kept
<1>7. CASE StartApply
  <2>1. disk'.st = Probed /\ Tracked(Probed) = Tracked(disk.st) /\ phase' = "act"
    BY <1>7, ApplyStarts, ProbeTracks DEF TypeInv, DiskOK
  <2>2. Tracked(mem') \subseteq Tracked(Probed)
    BY <1>7, ApplyStarts DEF Tracked
  <2> QED
    BY <1>3, <1>5, <1>6, <2>1, <2>2
<1>8. CASE RefuseApply
  <2>1. disk'.st = Probed /\ Tracked(Probed) = Tracked(disk.st) /\ phase' = "idle"
    BY <1>8, ProbeTracks DEF RefuseApply, TypeInv, DiskOK
  <2> QED
    BY <1>3, <1>5, <2>1
<1>9. ASSUME NEW id \in Ids, DoInstall(id) \/ DoRemove(id) \/ ActFails(id)
      PROVE  PresentInv'
  <2>1. phase = "act" /\ phase' = "act" /\ disk' = disk
    BY <1>9 DEF DoInstall, DoRemove, ActFails
  <2>2. \E s : mem' = [mem EXCEPT ![id] = s]
    BY <1>9 DEF DoInstall, DoRemove, ActFails
  <2>3. Tracked(mem') \subseteq Tracked(mem) \cup {id}
    BY <1>2, <2>2 DEF Tracked
  <2>4. Kept({id})
    <3>1. CASE DoInstall(id) \/ ActFails(id)
      BY <3>1 DEF DoInstall, ActFails, Kept
    <3>2. CASE DoRemove(id)
      <4>1. {id} \subseteq Tracked(mem)
        BY <2>1, <3>2 DEF DoRemove, PlanInv
      <4> QED
        BY <1>3, <1>6, <2>1, <4>1
    <3> QED
      BY <1>9, <3>1, <3>2
  <2>5. Kept(Tracked(mem) \cup {id})
    BY <1>3, <2>1, <2>4 DEF Kept
  <2> QED
    BY <1>3, <1>5, <1>6, <2>1, <2>3, <2>5
<1>10. CASE EndApply \/ SaveState
  <2>1. disk'.st = mem /\ phase' = "idle" /\ phase \in {"act", "save"}
    BY <1>10 DEF EndApply, SaveState, TypeInv, DiskOK
  <2> QED
    BY <1>3, <1>5, <2>1
<1>11. CASE WriteHamsfile
  <2>1. phase = "write" /\ phase' = "save" /\ disk' = disk /\ mem' = Recorded(cmd)
    BY <1>11 DEF WriteHamsfile
  <2>2. Tracked(mem') \subseteq Tracked(disk.st) \cup IF cmd.verb = "add" THEN {cmd.id} ELSE {}
    BY <2>1 DEF Recorded, Tracked
  <2>3. Kept(Tracked(disk.st) \cup IF cmd.verb = "add" THEN {cmd.id} ELSE {})
    BY <1>3, <1>4, <2>1 DEF Kept
  <2> QED
    BY <1>3, <1>5, <1>6, <2>1, <2>2, <2>3
<1>12. ASSUME NEW c \in Adds \cup Drops, StartCommand(c)
       PROVE  PresentInv'
  <2>1. PICK out \in ToolOutcomes(c) :
          /\ host' = out[1]
          /\ phase' = IF out[2] THEN "write" ELSE "idle"
          /\ cmd' = IF out[2] THEN c ELSE NoCommand
    BY <1>12 DEF StartCommand
  <2>2. disk' = disk
    BY <1>12 DEF StartCommand
  <2>3. c.verb = "add" => host'[Thing(c.id)] # "absent"
    BY <2>1, CommandsTouchTheirThing, UsedAssumption DEF TypeInv
  <2>4. phase' = "write" => cmd' = c
    BY <2>1
  <2>5. phase' = "write" /\ cmd'.verb = "add" => Kept({cmd'.id})
    BY <2>3, <2>4 DEF Kept
  <2>6. phase' \in {"write", "idle"}
    BY <2>1
  <2> QED
    BY <1>3, <1>5, <2>2, <2>5, <2>6
<1>13. ASSUME NEW c \in Adds \cup Drops, CommandFails(c)
       PROVE  PresentInv'
  <2>1. disk' = disk /\ phase' = "idle"
    BY <1>13 DEF CommandFails
  <2> QED
    BY <1>3, <1>5, <2>1
<1>14. CASE Kill
  <2>1. disk' = disk /\ phase' = "idle"
    BY <1>14 DEF Kill
  <2> QED
    BY <1>3, <1>5, <2>1
<1>15. CASE UNCHANGED <<disk, mem, phase, cmd>>
  BY <1>3, <1>4, <1>5, <1>15
<1>16. ASSUME NEW f \in ByHand, NEW s \in Sections, EditFile(f[1], f[2], s)
       PROVE  UNCHANGED <<disk, mem, phase, cmd>>
  BY <1>16 DEF EditFile, session
<1>17. ASSUME NEW t \in Things, NEW v \in Values \cup {Bare, "absent"}, Drift(t, v)
       PROVE  UNCHANGED <<disk, mem, phase, cmd>>
  BY <1>17 DEF Drift, session
<1>18. UNCHANGED vars => UNCHANGED <<disk, mem, phase, cmd>>
  BY DEF vars, session
<1> QED
  BY <1>7, <1>8, <1>9, <1>10, <1>11, <1>12, <1>13, <1>14, <1>15, <1>16, <1>17, <1>18 DEF Next, Act

-----------------------------------------------------------------------------
(* Versions: what a document declares alone of its thing is as declared,   *)
(* for some IDs, unless their things are excepted.                         *)

WantBy(p, d, id) == IF p.form = "fields" THEN AppFields(d, id) ELSE Pin(id)

Versions(p, d, ids, h, except) ==
  \A id \in ids : Sole(d, id) /\ ~p.reuse /\ Thing(id) \notin except
                    => WantBy(p, d, id) \in {Bare, h[Thing(id)]}

LEMMA VersionsMean ==
  ASSUME NEW d
  PROVE  VersionsHold(d) <=> Versions(tool, d, Declared(d), host, unsettled)
BY DEF VersionsHold, Versions, WantBy, Want

LEMMA WantMeans ==
  ASSUME NEW d, NEW id
  PROVE  Want(d, id) = WantBy(tool, d, id)
BY DEF WantBy, Want

(* The document last applied holds; before any apply everything is         *)
(* unsettled; and an apply brings about what it has no more to install,    *)
(* unless others meddle.                                                   *)
VersionInv ==
  /\ disk.hash # NoHash => Versions(tool, disk.hash, Declared(disk.hash), host, unsettled)
  /\ disk.hash = NoHash => \A t \in Things : Present(t) => t \in unsettled
  /\ phase = "act" /\ ok => Versions(tool, doc, Declared(doc) \ todo, host, unsettled \ done)

(* Fewer IDs, fewer changes and more exceptions.                           *)
LEMMA VersionsKept ==
  ASSUME NEW p, NEW d \in Documents, tool \in Kinds, NEW ids \in SUBSET Declared(d), NEW fewer \in SUBSET ids,
         NEW h, NEW g, NEW except, NEW more,
         \A t \in Things : t \in except \/ g[t] # h[t] => t \in more,
         Versions(p, d, ids, h, except)
  PROVE  Versions(p, d, fewer, g, more)
<1>1. \A id \in ids : Thing(id) \in Things
  BY ListedIds DEF Declared, Ids, Thing
<1> QED
  BY <1>1 DEF Versions

(* No document is the empty hash.                                          *)
LEMMA DocumentsAreNoHash ==
  ASSUME tool \in Kinds
  PROVE  NoHash \notin Documents
<1>1. Writable(tool) \subseteq Entries
  BY WritableEntries
<1>2. Seq(Writable(tool)) \subseteq Seq(Entries)
  BY <1>1
<1>3. Documents \subseteq [Tags -> Seq(Entries) \cup {NoList}]
  BY <1>2 DEF Documents
<1> QED
  BY <1>3, NoHashAssumption DEF Entries

LEMMA StartApplyVersions ==
  ASSUME TypeInv, PresentInv, VersionInv, StartApply
  PROVE  Versions(tool, Document, Declared(Document) \ Installs(Document, Probed), host, unsettled)
<1> SUFFICES ASSUME NEW id \in Declared(Document), id \notin Installs(Document, Probed),
                    Sole(Document, id), ~tool.reuse, Thing(id) \notin unsettled
             PROVE  WantBy(tool, Document, id) \in {Bare, host[Thing(id)]}
  BY DEF Versions
<1>1. Probed[id] = "ok" /\ disk.hash \in {NoHash, Document} /\ id \in Ids /\ Thing(id) \in Things
  BY DocumentTyping, ListedIds DEF Installs, Declared, Ids, Thing
<1>2. CASE disk.hash = NoHash
  <2>1. id \in Tracked(disk.st)
    BY <1>1, ProbeTracks
  <2>2. Present(Thing(id))
    BY <2>1 DEF PresentInv, Accounted
  <2> QED
    BY <1>1, <1>2, <2>2 DEF VersionInv
<1>3. CASE disk.hash = Document /\ disk.hash # NoHash
  BY <1>3 DEF VersionInv, Versions
<1> QED
  BY <1>1, <1>2, <1>3

LEMMA DoInstallVersions ==
  ASSUME TypeInv, PlanInv, VersionInv, NEW id \in Ids, DoInstall(id), ok
  PROVE  Versions(tool, doc, Declared(doc) \ (todo \ {id}), host', (unsettled \cup {Thing(id)}) \ (done \cup {Thing(id)}))
<1>1. id \in todo /\ phase = "act" /\ id \in Declared(doc) /\ host \in Hosts
      /\ host' = Installed(id, Want(doc, id)) /\ Want(doc, id) \in Values \cup {Bare}
  BY TodoWants DEF DoInstall, IsNext, TypeInv
<1>2. /\ \A t \in Things \ {Thing(id)} : host'[t] = host[t]
      /\ ~tool.reuse => Want(doc, id) \in {Bare, host'[Thing(id)]}
  BY <1>1, InstallsThing
<1> SUFFICES ASSUME NEW i \in Declared(doc), i \notin todo \ {id}, Sole(doc, i), ~tool.reuse,
                    Thing(i) \notin (unsettled \cup {Thing(id)}) \ (done \cup {Thing(id)})
             PROVE  WantBy(tool, doc, i) \in {Bare, host'[Thing(i)]}
  BY DEF Versions
<1>3. CASE i = id
  BY <1>2, <1>3, WantMeans
<1>4. CASE i # id
  <2>1. Thing(i) # Thing(id) /\ i \notin todo
    BY <1>1, <1>4 DEF Sole
  <2>2. Thing(i) \notin unsettled \ done
    BY <2>1
  <2>3. Thing(i) \in Things
    BY UsedAssumption, ListedIds DEF Declared, Ids, Thing, TypeInv, DocsOK
  <2>4. WantBy(tool, doc, i) \in {Bare, host[Thing(i)]}
    BY <1>1, <2>1, <2>2 DEF VersionInv, Versions
  <2> QED
    BY <1>2, <2>1, <2>3, <2>4
<1> QED
  BY <1>3, <1>4

(* What an apply brought about holds while others meddle, as what they     *)
(* change is excepted.                                                     *)
LEMMA SessionVersions ==
  ASSUME TypeInv, PlanInv, PresentInv, VersionInv, [Next]_vars, phase' = "act", ok'
  PROVE  Versions(tool', doc', Declared(doc') \ todo', host', unsettled' \ done')
<1> DEFINE Wanted == Versions(tool', doc', Declared(doc') \ todo', host', unsettled' \ done')
<1>1. ASSUME UNCHANGED <<tool, doc, todo>>, phase = "act", ok,
             \A t \in Things : t \in unsettled \ done \/ host'[t] # host[t] => t \in unsettled' \ done'
      PROVE  Wanted
  <2>1. tool \in Kinds /\ doc \in Documents
    BY UsedAssumption DEF TypeInv, DocsOK
  <2>2. Versions(tool, doc, Declared(doc) \ todo, host, unsettled \ done)
    BY <1>1 DEF VersionInv
  <2>3. Versions(tool, doc, Declared(doc) \ todo, host', unsettled' \ done')
    BY <1>1, <2>1, <2>2, VersionsKept
  <2> QED
    BY <1>1, <2>3
<1> HIDE DEF Wanted
<1>2. CASE StartApply
  <2>1. /\ tool' = tool /\ doc' = Document /\ todo' = Installs(Document, Probed)
        /\ host' = host /\ unsettled' \ done' = unsettled
    BY <1>2, ApplyStarts
  <2> QED
    BY <1>2, <2>1, StartApplyVersions DEF Wanted
<1>3. ASSUME NEW id \in Ids, DoInstall(id)
      PROVE  Wanted
  <2>1. /\ UNCHANGED <<tool, doc, ok>> /\ todo' = todo \ {id}
        /\ unsettled' = unsettled \cup {Thing(id)} /\ done' = done \cup {Thing(id)}
    BY <1>3 DEF DoInstall
  <2> QED
    BY <1>3, <2>1, DoInstallVersions DEF Wanted
<1>4. ASSUME NEW id \in Ids, DoRemove(id)
      PROVE  Wanted
  <2>1. UNCHANGED <<tool, doc, todo>> /\ phase = "act"
    BY <1>4 DEF DoRemove
  <2>2. PICK out \in Removals(id) :
          /\ host' = out[1] /\ ok' = (ok /\ out[2])
          /\ unsettled' = unsettled \cup Touched(out[1])
          /\ done' = done \ Touched(out[1])
    BY <1>4 DEF DoRemove
  <2>3. ok
    BY <2>2
  <2>4. \A t \in Things : t \in unsettled \ done \/ host'[t] # host[t] => t \in unsettled' \ done'
    BY <2>2 DEF Touched
  <2> QED
    BY <1>1, <2>1, <2>3, <2>4
<1>5. \A id \in Ids : ~ActFails(id)
  BY DEF ActFails
<1>6. ~RefuseApply /\ ~EndApply /\ ~WriteHamsfile /\ ~SaveState /\ ~Kill
  BY DEF RefuseApply, EndApply, WriteHamsfile, SaveState, Kill
<1>7. \A c \in Adds \cup Drops : ~StartCommand(c) /\ ~CommandFails(c)
  BY DEF StartCommand, CommandFails
<1>8. ASSUME NEW f \in ByHand, NEW s \in Sections, EditFile(f[1], f[2], s)
      PROVE  Wanted
  BY <1>1, <1>8 DEF EditFile, session
<1>9. ASSUME NEW t \in Things, NEW v \in Values \cup {Bare, "absent"}, Drift(t, v)
      PROVE  Wanted
  <2>1. /\ UNCHANGED <<tool, doc, todo, phase, ok>>
        /\ host' = [host EXCEPT ![t] = v]
        /\ unsettled' = unsettled \cup {t} /\ done' = done \ {t}
    BY <1>9 DEF Drift, session
  <2>2. \A u \in Things : u \in unsettled \ done \/ host'[u] # host[u] => u \in unsettled' \ done'
    BY <2>1 DEF TypeInv, Hosts
  <2> QED
    BY <1>1, <2>1, <2>2
<1>10. CASE UNCHANGED vars
  <2>1. UNCHANGED <<tool, doc, todo, host, unsettled, done>>
    BY <1>10 DEF vars, session, history
  <2>2. ok
    BY <1>10 DEF vars, session
  <2>3. phase = "act"
    BY <1>10 DEF vars
  <2>4. \A t \in Things : t \in unsettled \ done \/ host'[t] # host[t] => t \in unsettled' \ done'
    BY <2>1
  <2> QED
    BY <1>1, <2>1, <2>2, <2>3, <2>4 DEF Wanted
<1> QED
  BY <1>2, <1>3, <1>4, <1>5, <1>6, <1>7, <1>8, <1>9, <1>10 DEF Next, Act, Wanted

LEMMA VersionStep ==
  ASSUME TypeInv, PlanInv, PresentInv, VersionInv, [Next]_vars
  PROVE  VersionInv'
<1>1. tool \in Kinds /\ disk.hash \in Documents \cup {NoHash} /\ doc \in Documents
  BY UsedAssumption DEF TypeInv, DiskOK, DocsOK
<1>2. phase' = "act" /\ ok' => Versions(tool', doc', Declared(doc') \ todo', host', unsettled' \ done')
  BY SessionVersions
<1>3. tool' = tool
  BY KindStays DEF SameKind, vars
<1>4. CASE EndApply /\ ok
  <2>1. /\ phase = "act" /\ todo = {} /\ disk'.hash = doc /\ host' = host
        /\ unsettled' = unsettled \ done
    BY <1>4 DEF EndApply
  <2>2. Versions(tool, doc, Declared(doc) \ todo, host, unsettled \ done)
    BY <1>4, <2>1 DEF VersionInv
  <2>3. Versions(tool', disk'.hash, Declared(disk'.hash), host', unsettled')
    <3>1. Declared(doc) \ todo = Declared(doc)
      BY <2>1
    <3> QED
      BY <1>3, <2>1, <2>2, <3>1
  <2>4. disk'.hash # NoHash
    BY <1>1, <2>1, DocumentsAreNoHash
  <2> QED
    BY <1>2, <2>3, <2>4 DEF VersionInv
<1>5. CASE ~(EndApply /\ ok)
  <2>1. disk'.hash = disk.hash
    BY <1>5 DEF Next, Act, vars, StartApply, RefuseApply, DoInstall, DoRemove, ActFails, EndApply,
       StartCommand, CommandFails, WriteHamsfile, SaveState, EditFile, Drift, Kill, TypeInv, DiskOK
  <2>2. Noted
    <3>1. EndApply => Noted
      BY <1>5 DEF EndApply, Noted
    <3> QED
      BY <3>1, ChangesNoted
  <2>3. disk.hash # NoHash => Versions(tool, disk.hash, Declared(disk.hash), host', unsettled')
    <3> SUFFICES ASSUME disk.hash # NoHash
                 PROVE  Versions(tool, disk.hash, Declared(disk.hash), host', unsettled')
      OBVIOUS
    <3>1. Versions(tool, disk.hash, Declared(disk.hash), host, unsettled)
      BY DEF VersionInv
    <3>2. \A t \in Things : t \in unsettled \/ host'[t] # host[t] => t \in unsettled'
      BY <2>2 DEF Noted
    <3> QED
      BY <1>1, <3>1, <3>2, VersionsKept
  <2>4. disk.hash = NoHash => \A t \in Things : host'[t] # "absent" => t \in unsettled'
    BY <2>2 DEF Noted, VersionInv, Present
  <2> QED
    BY <1>2, <1>3, <2>1, <2>3, <2>4 DEF VersionInv, Present
<1> QED
  BY <1>4, <1>5

-----------------------------------------------------------------------------
(* Undisturbed applies.                                                    *)

(* What the apply has not to install is there, or has changed unnoticed.   *)
Seen(id) ==
  \/ Present(Thing(id))
  \/ /\ Thing(id) \in unsettled
     /\ tool.probe \in {"nothing", "record"} \/ (tool.probe = "check" /\ id \notin stored)

(* After a success nothing is left to remove, and after two everything     *)
(* declared is there.                                                      *)
CalmInv ==
  /\ phase = "act" /\ quiet => doc = Document
  /\ calm >= 1 => /\ quiet /\ phase \in {"idle", "act"}
                  /\ disk.hash = Document
                  /\ Tracked(disk.st) = Declared(Document)
                  /\ phase = "act" => doomed = {} /\ (ok => \A id \in Declared(doc) \ todo : Seen(id))
  /\ calm = 2 /\ phase = "idle" => InPlace

LEMMA DisturbedCalm ==
  ASSUME Disturbed
  PROVE  CalmInv'
BY DEF Disturbed, CalmInv

LEMMA StartApplyCalm ==
  ASSUME TypeInv, PresentInv, CalmInv, StartApply
  PROVE  CalmInv'
<1>1. /\ UNCHANGED <<tool, main, local, host, unsettled, calm>> /\ phase' = "act"
      /\ doc' = Document /\ quiet' = TRUE /\ disk' = [disk EXCEPT !.st = Probed]
      /\ todo' = Installs(Document, Probed) /\ stored' = disk.checks
      /\ doomed' \subseteq Removes(Document, Probed)
  BY ApplyStarts
<1>2. disk'.st = Probed /\ disk'.hash = disk.hash /\ Tracked(Probed) = Tracked(disk.st)
  BY <1>1, ProbeTracks DEF TypeInv, DiskOK
<1>3. Document' = Document
  BY <1>1 DEF Document
<1>4. calm >= 1 => doomed' = {}
  BY <1>1, <1>2 DEF CalmInv, Removes
<1>5. \A id \in Declared(Document) \ Installs(Document, Probed) : Seen(id)'
  <2> SUFFICES ASSUME NEW id \in Declared(Document), id \notin Installs(Document, Probed)
               PROVE  Seen(id)'
    OBVIOUS
  <2>1. Probed[id] = "ok" /\ id \in Ids
    BY DocumentTyping, ListedIds DEF Installs, Declared
  <2>2. Listed(id) /\ Accounted(Thing(id))
    BY <2>1, ProbeTracks DEF PresentInv
  <2>3. tool.probe \in {"thing", "bare", "check", "record", "nothing"}
    BY DocumentTyping DEF Kinds
  <2>4. \/ Present(Thing(id))
        \/ /\ Thing(id) \in unsettled
           /\ tool.probe \in {"nothing", "record"} \/ (tool.probe = "check" /\ id \notin disk.checks)
    BY <2>2, <2>3 DEF Listed, Accounted
  <2> QED
    BY <1>1, <2>4 DEF Seen, Present
<1>6. /\ quiet' /\ phase' \in {"idle", "act"}
      /\ calm >= 1 => disk'.hash = Document /\ Tracked(disk'.st) = Declared(Document)
  BY <1>1, <1>2 DEF CalmInv
<1> QED
  BY <1>1, <1>3, <1>4, <1>5, <1>6 DEF CalmInv

LEMMA DoInstallCalm ==
  ASSUME TypeInv, PlanInv, CalmInv, NEW id \in Ids, DoInstall(id)
  PROVE  CalmInv'
<1>1. /\ UNCHANGED <<tool, main, local, disk, doomed, doc, ok, quiet, calm>>
      /\ phase = "act" /\ phase' = "act" /\ id \in todo /\ todo' = todo \ {id}
      /\ unsettled' = unsettled \cup {Thing(id)}
      /\ stored' = IF tool.probe = "check" THEN stored \cup {id} ELSE stored
      /\ host' = Installed(id, Want(doc, id)) /\ host \in Hosts
  BY DEF DoInstall, IsNext, files, TypeInv
<1>2. /\ host'[Thing(id)] # "absent"
      /\ \A t \in Things \ {Thing(id)} : host'[t] = host[t]
  BY <1>1, TodoWants, InstallsThing
<1>3. Document' = Document
  BY <1>1 DEF Document
<1>4. ASSUME NEW i \in Declared(doc), i # id, Seen(i)
      PROVE  Seen(i)'
  <2>1. Thing(i) \in Things
    BY UsedAssumption, ListedIds DEF Declared, Ids, Thing, TypeInv, DocsOK
  <2>2. CASE Present(Thing(i))
    BY <1>2, <2>1, <2>2 DEF Seen, Present
  <2>3. CASE ~Present(Thing(i))
    <3>1. Thing(i) \in unsettled'
      BY <1>1, <1>4, <2>3 DEF Seen
    <3>2. \/ tool.probe \in {"nothing", "record"}
          \/ tool.probe = "check" /\ i \notin stored'
      BY <1>1, <1>4, <2>3 DEF Seen
    <3> QED
      BY <1>1, <3>1, <3>2 DEF Seen
  <2> QED
    BY <2>2, <2>3
<1>5. calm >= 1 /\ ok => \A i \in Declared(doc) \ todo' : Seen(i)'
  <2> SUFFICES ASSUME calm >= 1, ok, NEW i \in Declared(doc), i \notin todo \ {id}
               PROVE  Seen(i)'
    BY <1>1
  <2>1. CASE i = id
    BY <1>2, <2>1 DEF Seen, Present
  <2>2. CASE i # id
    BY <1>1, <1>4, <2>2 DEF CalmInv
  <2> QED
    BY <2>1, <2>2
<1>6. quiet => doc = Document
  BY <1>1 DEF CalmInv
<1>7. calm >= 1 => quiet /\ disk.hash = Document /\ Tracked(disk.st) = Declared(Document) /\ doomed = {}
  BY <1>1 DEF CalmInv
<1> QED
  BY <1>1, <1>3, <1>5, <1>6, <1>7 DEF CalmInv

LEMMA DoRemoveCalm ==
  ASSUME CalmInv, NEW id \in Ids, DoRemove(id)
  PROVE  CalmInv'
<1>1. /\ UNCHANGED <<tool, main, local, doc, quiet, calm>> /\ phase = "act" /\ phase' = "act"
      /\ id \in doomed
  BY DEF DoRemove, files
<1>2. ~(calm >= 1)
  BY <1>1 DEF CalmInv
<1>3. ~(calm = 2)
  BY <1>1, <1>2 DEF CalmInv
<1>4. Document' = Document
  BY <1>1 DEF Document
<1> QED
  BY <1>1, <1>2, <1>3, <1>4 DEF CalmInv

LEMMA ActFailsCalm ==
  ASSUME CalmInv, NEW id \in Ids, ActFails(id)
  PROVE  CalmInv'
<1>1. /\ UNCHANGED <<tool, main, local, disk, doc, quiet, calm>> /\ phase = "act" /\ phase' = "act"
      /\ doomed' = doomed \ {id} /\ ok' = FALSE
  BY DEF ActFails, files
<1>2. Document' = Document
  BY <1>1 DEF Document
<1> QED
  BY <1>1, <1>2 DEF CalmInv

(* A second success in a row finds everything in place.                    *)
LEMMA EndApplyCalm ==
  ASSUME TypeInv, PlanInv, CalmInv, EndApply
  PROVE  CalmInv'
<1>1. /\ UNCHANGED <<tool, main, local, host, doc, quiet>> /\ phase = "act" /\ phase' = "idle"
      /\ todo = {} /\ doomed = {}
      /\ disk' = [hash |-> IF ok THEN doc ELSE disk.hash, st |-> mem, checks |-> stored]
      /\ calm' = IF ok /\ quiet /\ disk.hash # NoHash THEN IF calm = 2 THEN 2 ELSE calm + 1 ELSE 0
      /\ unsettled' = IF ok THEN unsettled \ done ELSE unsettled
  BY DEF EndApply, files, session
<1>2. Document' = Document
  BY <1>1 DEF Document
<1>3. CASE ~(ok /\ quiet /\ disk.hash # NoHash)
  <2>1. calm' = 0
    BY <1>1, <1>3
  <2> QED
    BY <1>1, <2>1 DEF CalmInv
<1>4. CASE ok /\ quiet /\ disk.hash # NoHash
  <2>1. doc = Document /\ disk'.hash = Document /\ disk'.st = mem /\ disk'.checks = stored
        /\ unsettled' = unsettled \ done
    BY <1>1, <1>4 DEF CalmInv
  <2>2. Tracked(mem) = Declared(doc)
    <3>1. Tracked(mem) \subseteq Declared(doc)
      BY <1>1, <1>4 DEF PlanInv
    <3>2. \A id \in Declared(doc) : id \in Ids /\ mem[id] = "ok"
      BY <1>1, <1>4, UsedAssumption, ListedIds DEF PlanInv, Declared, TypeInv, DocsOK
    <3> QED
      BY <3>1, <3>2 DEF Tracked
  <2>3. calm' = 2 => calm >= 1
    BY <1>1, <1>4 DEF TypeInv, HistoryOK
  <2>4. calm >= 1 => InPlace'
    <3> SUFFICES ASSUME calm >= 1, NEW t \in DeclaredThings(Document)
                 PROVE  host'[t] # "absent" \/ t \in Unnoticed'
      BY <1>2 DEF InPlace, Present, DeclaredThings
    <3>1. PICK id \in Declared(doc) : t = Thing(id)
      BY <2>1 DEF DeclaredThings
    <3>2. Seen(id) /\ id \in Ids
      BY <1>1, <1>4, UsedAssumption, ListedIds DEF CalmInv, Declared, TypeInv, DocsOK
    <3>3. CASE Present(t)
      BY <1>1, <3>3 DEF Present
    <3>4. CASE ~Present(t)
      <4>1. t \notin done
        BY <1>1, <1>4, <3>4 DEF PlanInv
      <4>2. t \in unsettled'
        BY <2>1, <3>1, <3>2, <3>4, <4>1 DEF Seen
      <4>3. \/ tool.probe \in {"nothing", "record"}
            \/ tool.probe = "check" /\ id \notin disk'.checks
        BY <2>1, <3>1, <3>2, <3>4 DEF Seen
      <4> QED
        BY <1>1, <3>1, <3>2, <4>2, <4>3 DEF Unnoticed
    <3> QED
      BY <3>3, <3>4
  <2>5. Tracked(disk'.st) = Declared(Document')
    BY <1>2, <2>1, <2>2
  <2> QED
    BY <1>1, <1>2, <1>4, <2>1, <2>3, <2>4, <2>5 DEF CalmInv
<1> QED
  BY <1>3, <1>4

LEMMA CalmStep ==
  ASSUME TypeInv, PlanInv, PresentInv, CalmInv, [Next]_vars
  PROVE  CalmInv'
<1>1. CASE UNCHANGED vars
  <2>1. Document' = Document /\ (InPlace => InPlace') /\ \A id \in Ids : Seen(id) => Seen(id)'
    BY <1>1 DEF vars, files, session, history, Document, InPlace, Unnoticed, Present, DeclaredThings, Seen
  <2>2. \A id \in Declared(doc) : id \in Ids
    BY UsedAssumption, ListedIds DEF Declared, TypeInv, DocsOK
  <2> QED
    BY <1>1, <2>1, <2>2 DEF vars, files, session, history, CalmInv
<1>2. CASE RefuseApply
  BY <1>2 DEF RefuseApply, CalmInv
<1>3. ASSUME NEW id \in Ids, DoInstall(id) \/ DoRemove(id) \/ ActFails(id)
      PROVE  CalmInv'
  BY <1>3, DoInstallCalm, DoRemoveCalm, ActFailsCalm
<1>4. CASE WriteHamsfile \/ SaveState
  <2>1. phase \in {"write", "save"} /\ phase' \in {"save", "idle"} /\ calm' = calm
    BY <1>4 DEF WriteHamsfile, SaveState, history
  <2>2. ~(calm >= 1)
    BY <2>1 DEF CalmInv
  <2>3. calm' # 2 /\ ~(calm' >= 1)
    BY <2>1, <2>2
  <2> QED
    BY <2>1, <2>3 DEF CalmInv
<1>5. Kill => Disturbed
  BY DEF Kill
<1>6. \A c \in Adds \cup Drops : StartCommand(c) \/ CommandFails(c) => Disturbed
  BY DEF StartCommand, CommandFails
<1>7. \A f \in ByHand, s \in Sections : EditFile(f[1], f[2], s) => Disturbed
  BY DEF EditFile
<1>8. \A t \in Things, v \in Values \cup {Bare, "absent"} : Drift(t, v) => Disturbed
  BY DEF Drift
<1> QED
  BY <1>1, <1>2, <1>3, <1>4, <1>5, <1>6, <1>7, <1>8, StartApplyCalm, EndApplyCalm, DisturbedCalm DEF Next, Act

(* A user who applies twice, with nobody in between, and succeeds both     *)
(* times finds on the host what the document declares, and in the state    *)
(* file nothing else; whatever failed, died, drifted or was edited before. *)
THEOREM AppliesSettle == Spec => []SecondApplySettles
<1>1. Init => PresentInv /\ VersionInv /\ CalmInv
  <2> SUFFICES ASSUME Init PROVE PresentInv /\ VersionInv /\ CalmInv
    OBVIOUS
  <2>1. /\ disk = [hash |-> NoHash, st |-> Untracked, checks |-> {}] /\ phase = "idle"
        /\ host = [t \in Things |-> "absent"] /\ calm = 0
    BY DEF Init
  <2>2. Tracked(disk.st) = {} /\ disk.hash = NoHash
    BY <2>1 DEF Tracked, Untracked
  <2>3. PresentInv
    BY <2>1, <2>2 DEF PresentInv
  <2>4. VersionInv
    BY <2>1, <2>2 DEF VersionInv, Present
  <2>5. CalmInv
    BY <2>1 DEF CalmInv
  <2> QED
    BY <2>3, <2>4, <2>5
<1>2. TypeInv /\ PlanInv /\ PresentInv /\ VersionInv /\ CalmInv /\ [Next]_vars
        => (PresentInv /\ VersionInv /\ CalmInv)'
  BY PresentStep, VersionStep, CalmStep
<1>3. TypeInv /\ VersionInv /\ CalmInv => SecondApplySettles
  <2> SUFFICES ASSUME TypeInv, VersionInv, CalmInv, calm = 2, phase = "idle"
               PROVE  Tracked(disk.st) = Declared(Document) /\ InPlace /\ VersionsHold(Document)
    BY DEF SecondApplySettles
  <2>1. disk.hash = Document /\ Tracked(disk.st) = Declared(Document) /\ InPlace
    BY DEF CalmInv
  <2>2. Document # NoHash
    BY DocumentTyping, DocumentsAreNoHash
  <2>3. Versions(tool, Document, Declared(Document), host, unsettled)
    BY <2>1, <2>2 DEF VersionInv
  <2> QED
    BY <2>1, <2>3, VersionsMean
<1> QED
  BY <1>1, <1>2, <1>3, PlansHold, PTL DEF Spec
=============================================================================
