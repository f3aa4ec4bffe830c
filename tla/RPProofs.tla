------------------------------ MODULE RPProofs ------------------------------
(***************************************************************************)
(* Theorems about RP: whatever the graph of GUIDs, cyclic or not, an       *)
(* expansion that returns has reached the descendants of the GUID          *)
(* published, once for each link that leads to them, and no step reaches   *)
(* another GUID.                                                           *)
(***************************************************************************)
EXTENDS RP, FiniteSetTheorems, TLAPS

(* The descendants are the least closed set: g is one,                     *)
LEMMA DescendantsSelf ==
  ASSUME NEW m, NEW g
  PROVE  g \in Descendants(m, g)
BY DEF Descendants

(* the children of one are,                                                *)
LEMMA DescendantsClosed ==
  ASSUME NEW m, NEW g, NEW h \in Descendants(m, g), NEW c \in ChildrenIn(m, h)
  PROVE  c \in Descendants(m, g)
<1> DEFINE guids == {g} \cup DOMAIN m \cup UNION {m[k] : k \in DOMAIN m}
           Closed(S) == \A k \in S : ChildrenIn(m, k) \subseteq S
<1>1. c \in guids
  BY DEF ChildrenIn
<1>2. ASSUME NEW S \in SUBSET guids, g \in S, Closed(S)
      PROVE  c \in S
  <2>1. h \in S
    BY <1>2 DEF Descendants
  <2> QED
    BY <1>2, <2>1
<1> QED
  BY <1>1, <1>2 DEF Descendants

(* and every closed set with g holds them.                                 *)
LEMMA DescendantsLeast ==
  ASSUME NEW m, NEW g, NEW T,
         g \in T, \A h \in T : ChildrenIn(m, h) \subseteq T
  PROVE  Descendants(m, g) \subseteq T
<1> DEFINE guids == {g} \cup DOMAIN m \cup UNION {m[k] : k \in DOMAIN m}
           S == T \cap guids
<1>1. S \in SUBSET guids /\ g \in S
  OBVIOUS
<1>2. \A k \in S : ChildrenIn(m, k) \subseteq S
  BY DEF ChildrenIn
<1> QED
  BY <1>1, <1>2 DEF Descendants

-----------------------------------------------------------------------------
(* The inductive invariant.                                                *)

Waiting == {todos[i] : i \in DOMAIN todos}
Below == Descendants(mappingTable, dstGuid)

(* What was expanded, and what waits, are descendants.                     *)
OnlyBelow == \A p \in finished \cup Waiting : GuidAt(p) \in Below

(* The GUIDs with a copy are those of the pointers expanded.               *)
Counted == \A g \in Guids : Copies(g) > 0 <=> \E p \in finished : GuidAt(p) = g

(* What was published, and the children of what was expanded, are expanded *)
(* or wait.                                                                *)
NoneForgotten ==
  /\ busy \/ finished # {} => Header \in finished \cup Waiting
  /\ \A p \in finished : Serves(GuidAt(p)) => ChildPointers(GuidAt(p)) \subseteq finished \cup Waiting

IdleEmpty == ~busy => todos = <<>>

IndInv == TypeOK /\ OnlyBelow /\ Counted /\ NoneForgotten /\ IdleEmpty

(* The targets of pointers are GUIDs.                                      *)
LEMMA GuidAtType == ASSUME TypeOK, NEW p \in Pointers PROVE GuidAt(p) \in Guids
BY DEF TypeOK, Pointers, GuidAt, Header

(* A served GUID has GUIDs as children.                                    *)
LEMMA ChildrenType == ASSUME TypeOK, NEW g \in Guids PROVE Children(g) \subseteq Guids
BY MappingsAssumption DEF TypeOK, Children, ChildrenIn

(* Taking the first pointer, nothing else is lost from the list.           *)
LEMMA PopWaiting ==
  ASSUME TypeOK, todos # <<>>
  PROVE  /\ Head(todos) \in Pointers /\ Tail(todos) \in Seq(Pointers)
         /\ Head(todos) \in Waiting
         /\ Waiting = {Head(todos)} \cup {Tail(todos)[i] : i \in DOMAIN Tail(todos)}
<1>1. todos \in Seq(Pointers) /\ Len(todos) > 0
  BY DEF TypeOK
<1>2. Head(todos) \in Pointers /\ Tail(todos) \in Seq(Pointers) /\ Head(todos) \in Waiting
  BY <1>1 DEF Waiting
<1>3. \A i \in DOMAIN todos : i = 1 \/ (i - 1 \in DOMAIN Tail(todos) /\ todos[i] = Tail(todos)[i - 1])
  BY <1>1
<1>4. \A i \in DOMAIN Tail(todos) : i + 1 \in DOMAIN todos /\ todos[i + 1] = Tail(todos)[i]
  BY <1>1
<1> DEFINE rest == {Tail(todos)[i] : i \in DOMAIN Tail(todos)}
<1>5. Waiting \subseteq {Head(todos)} \cup rest
  <2> SUFFICES ASSUME NEW i \in DOMAIN todos PROVE todos[i] \in {Head(todos)} \cup rest
    BY DEF Waiting
  <2>1. CASE i = 1
    BY <1>1, <2>1
  <2>2. CASE i - 1 \in DOMAIN Tail(todos) /\ todos[i] = Tail(todos)[i - 1]
    BY <2>2
  <2> QED
    BY <1>3, <2>1, <2>2
<1>6. rest \subseteq Waiting
  <2> SUFFICES ASSUME NEW i \in DOMAIN Tail(todos) PROVE Tail(todos)[i] \in Waiting
    OBVIOUS
  <2>1. i + 1 \in DOMAIN todos /\ todos[i + 1] = Tail(todos)[i]
    BY <1>4
  <2> QED
    BY <2>1 DEF Waiting
<1> QED
  BY <1>2, <1>5, <1>6

(* A walk of the child pointers brings exactly these to the list.          *)
LEMMA AppendWalk ==
  ASSUME TypeOK, NEW g \in Guids, NEW w \in Walks(ChildPointers(g)), NEW s \in Seq(Pointers)
  PROVE  /\ ChildPointers(g) \subseteq Pointers
         /\ s \o w \in Seq(Pointers)
         /\ {(s \o w)[i] : i \in DOMAIN (s \o w)} = {s[i] : i \in DOMAIN s} \cup ChildPointers(g)
<1>1. IsFiniteSet(Children(g))
  BY MappingsAssumption, FS_EmptySet DEF TypeOK, Children, ChildrenIn
<1>2. IsFiniteSet({g})
  BY FS_Singleton
<1>3. IsFiniteSet(ChildPointers(g))
  BY <1>1, <1>2, FS_Product DEF ChildPointers
<1>4. Cardinality(ChildPointers(g)) \in Nat
  BY <1>3, FS_CardinalityType
<1>5. ChildPointers(g) \subseteq Pointers
  BY ChildrenType DEF ChildPointers, Pointers
<1> DEFINE n == Cardinality(ChildPointers(g))
<1>6. w \in [1..n -> ChildPointers(g)] /\ \A x \in ChildPointers(g) : \E i \in 1..n : w[i] = x
  BY DEF Walks
<1> HIDE DEF n
<1>7. n \in Nat
  BY <1>4 DEF n
<1>8. w \in Seq(Pointers) /\ Len(w) = n
  BY <1>5, <1>6, <1>7
<1>9. s \o w \in Seq(Pointers) /\ DOMAIN (s \o w) = 1..(Len(s) + n)
  BY <1>8, <1>7
<1>10. \A i \in 1..(Len(s) + n) :
          (s \o w)[i] = IF i <= Len(s) THEN s[i] ELSE w[i - Len(s)]
  BY <1>8, <1>7
<1>11. \A i \in 1..n : (s \o w)[i + Len(s)] = w[i] /\ i + Len(s) \in 1..(Len(s) + n)
  BY <1>8, <1>10, <1>7
<1>12. \A i \in DOMAIN s : (s \o w)[i] = s[i] /\ i \in 1..(Len(s) + n)
  BY <1>10, <1>7
<1>13. \A i \in 1..(Len(s) + n) : i \in DOMAIN s \/ i - Len(s) \in 1..n
  BY <1>7
<1> DEFINE t == s \o w
           both == {s[i] : i \in DOMAIN s} \cup ChildPointers(g)
<1>14. {t[i] : i \in DOMAIN t} \subseteq both
  <2> SUFFICES ASSUME NEW i \in 1..(Len(s) + n) PROVE t[i] \in both
    BY <1>9
  <2>1. CASE i \in DOMAIN s
    BY <2>1, <1>12
  <2>2. CASE i - Len(s) \in 1..n
    <3>1. ~(i <= Len(s))
      BY <2>2, <1>7
    <3>2. t[i] = w[i - Len(s)]
      BY <3>1, <1>10
    <3> QED
      BY <3>2, <2>2, <1>6 DEF n
  <2> QED
    BY <2>1, <2>2, <1>13
<1>15. {s[i] : i \in DOMAIN s} \subseteq {t[i] : i \in DOMAIN t}
  BY <1>9, <1>12
<1>16. ASSUME NEW x \in ChildPointers(g) PROVE x \in {t[i] : i \in DOMAIN t}
  <2>1. PICK i \in 1..n : w[i] = x
    BY <1>6 DEF n
  <2> QED
    BY <2>1, <1>9, <1>11
<1> QED
  BY <1>5, <1>9, <1>14, <1>15, <1>16

-----------------------------------------------------------------------------
(* The invariance proof.                                                   *)

LEMMA InitInv == ASSUME Init PROVE IndInv
<1> USE DEF Init
<1>1. TypeOK
  <2>1. todos \in Seq(Pointers) /\ finished \subseteq Pointers
    OBVIOUS
  <2>2. Nothing \in [Guids -> Nat]
    BY DEF Nothing
  <2> QED
    BY <2>1, <2>2 DEF TypeOK
<1>2. Waiting = {}
  BY DEF Waiting
<1> QED
  BY <1>1, <1>2 DEF IndInv, OnlyBelow, Counted, NoneForgotten, IdleEmpty, Copies, Nothing

LEMMA PublishInv ==
  ASSUME IndInv, NEW g \in Guids, Publish(g) PROVE IndInv'
<1> USE DEF Publish
<1>1. TypeOK'
  BY DEF IndInv, TypeOK, Nothing, Pointers
<1>2. Waiting' = {Header} /\ GuidAt(Header)' = g /\ finished' = {} /\ busy'
  BY DEF Waiting, GuidAt
<1>3. OnlyBelow'
  BY <1>2, DescendantsSelf DEF OnlyBelow, Below
<1>4. Counted'
  BY <1>2 DEF Counted, Copies, Nothing
<1> QED
  BY <1>1, <1>2, <1>3, <1>4 DEF IndInv, NoneForgotten, IdleEmpty

LEMMA SkipInv == ASSUME IndInv, Skip PROVE IndInv'
<1> USE DEF IndInv, Skip, Pop
<1>1. TypeOK'
  BY PopWaiting DEF TypeOK
<1>2. finished' \cup Waiting' = finished \cup Waiting
  BY PopWaiting DEF Waiting
<1>3. \A p : GuidAt(p)' = GuidAt(p)
  BY DEF GuidAt
<1>4. OnlyBelow'
  BY <1>2, <1>3 DEF OnlyBelow, Below
<1>5. Counted'
  BY <1>3 DEF Counted, Copies
<1>6. NoneForgotten'
  BY <1>2, <1>3 DEF NoneForgotten, Serves, ChildPointers, Children
<1> QED
  BY <1>1, <1>4, <1>5, <1>6 DEF IdleEmpty

(* What PassOn and Expand have in common: one more copy for the GUID of    *)
(* the pointer that is expanded.                                           *)
LEMMA CountOne ==
  ASSUME IndInv, NEW p \in Pointers, GuidAt(p) \in Guids,
         UNCHANGED dstGuid, finished' = finished \cup {p},
         \/ /\ toOtherRP' = OneMore(toOtherRP, GuidAt(p)) /\ UNCHANGED toSubscribers
         \/ /\ toSubscribers' = OneMore(toSubscribers, GuidAt(p)) /\ UNCHANGED toOtherRP
  PROVE  Counted'
<1>1. \A q : GuidAt(q)' = GuidAt(q)
  BY DEF GuidAt
<1>2. toSubscribers \in [Guids -> Nat] /\ toOtherRP \in [Guids -> Nat]
  BY DEF IndInv, TypeOK
<1>3. Copies(GuidAt(p))' > 0
  <2>1. CASE toOtherRP' = OneMore(toOtherRP, GuidAt(p)) /\ UNCHANGED toSubscribers
    <3>1. toOtherRP'[GuidAt(p)] = toOtherRP[GuidAt(p)] + 1
      BY <1>2, <2>1 DEF OneMore
    <3> QED
      BY <1>1, <1>2, <2>1, <3>1 DEF Copies
  <2>2. CASE toSubscribers' = OneMore(toSubscribers, GuidAt(p)) /\ UNCHANGED toOtherRP
    <3>1. toSubscribers'[GuidAt(p)] = toSubscribers[GuidAt(p)] + 1
      BY <1>2, <2>2 DEF OneMore
    <3> QED
      BY <1>1, <1>2, <2>2, <3>1 DEF Copies
  <2> QED
    BY <2>1, <2>2
<1>4. \A g \in Guids : g # GuidAt(p) => Copies(g)' = Copies(g)
  BY <1>2 DEF Copies, OneMore
<1> QED
  BY <1>1, <1>3, <1>4 DEF IndInv, Counted

LEMMA PassOnInv == ASSUME IndInv, PassOn PROVE IndInv'
<1> DEFINE p == Head(todos)
<1> USE DEF IndInv, Pop
<1>1. /\ todos # <<>> /\ busy /\ ~Serves(GuidAt(p))
      /\ todos' = Tail(todos) /\ finished' = finished \cup {p}
      /\ toOtherRP' = OneMore(toOtherRP, GuidAt(p))
      /\ UNCHANGED <<mappingTable, dstGuid, toSubscribers, busy>>
  BY DEF PassOn
<1>2. p \in Pointers /\ Tail(todos) \in Seq(Pointers) /\ p \in Waiting
  BY <1>1, PopWaiting
<1>3. GuidAt(p) \in Guids
  BY <1>2, GuidAtType
<1>4. TypeOK'
  BY <1>1, <1>2, <1>3 DEF TypeOK, OneMore
<1>5. finished' \cup Waiting' = finished \cup Waiting
  BY <1>1, PopWaiting DEF Waiting
<1>6. \A q : GuidAt(q)' = GuidAt(q)
  BY <1>1 DEF GuidAt
<1>7. OnlyBelow'
  BY <1>1, <1>5, <1>6 DEF OnlyBelow, Below
<1>8. Counted'
  BY <1>1, <1>2, <1>3, CountOne
<1>9. NoneForgotten'
  BY <1>1, <1>2, <1>5, <1>6 DEF NoneForgotten, Serves, ChildPointers, Children
<1> QED
  BY <1>1, <1>4, <1>7, <1>8, <1>9 DEF IdleEmpty

LEMMA ExpandInv == ASSUME IndInv, Expand PROVE IndInv'
<1> DEFINE p == Head(todos)
           g == GuidAt(p)
<1> USE DEF IndInv, Pop
<1>1. PICK w \in Walks(ChildPointers(g)) : todos' = Tail(todos) \o w
  BY DEF Expand
<1>2. /\ todos # <<>> /\ busy /\ Serves(g) /\ finished' = finished \cup {p}
      /\ toSubscribers' = OneMore(toSubscribers, g)
      /\ UNCHANGED <<mappingTable, dstGuid, toOtherRP, busy>>
  BY DEF Expand
<1>3. p \in Pointers /\ Tail(todos) \in Seq(Pointers) /\ p \in Waiting
  BY <1>2, PopWaiting
<1>4. g \in Guids
  BY <1>3, GuidAtType
<1>5. /\ todos' \in Seq(Pointers)
      /\ Waiting' = {Tail(todos)[i] : i \in DOMAIN Tail(todos)} \cup ChildPointers(g)
  <2> DEFINE s == Tail(todos)
  <2> HIDE DEF p, g, s
  <2>1. /\ s \o w \in Seq(Pointers)
        /\ {(s \o w)[i] : i \in DOMAIN (s \o w)} = {s[i] : i \in DOMAIN s} \cup ChildPointers(g)
    BY <1>3, <1>4, AppendWalk DEF s
  <2>2. todos' = s \o w
    BY <1>1 DEF s
  <2> QED
    BY <2>1, <2>2 DEF Waiting, s
<1>6. TypeOK'
  BY <1>2, <1>3, <1>4, <1>5 DEF TypeOK, OneMore
<1>7. finished' \cup Waiting' = finished \cup Waiting \cup ChildPointers(g)
  BY <1>2, <1>5, PopWaiting
<1>8. \A q : GuidAt(q)' = GuidAt(q)
  BY <1>2 DEF GuidAt
<1>9. \A q \in ChildPointers(g) : GuidAt(q) \in Below
  <2> SUFFICES ASSUME NEW c \in Children(g) PROVE GuidAt(<<g, c>>) \in Below
    BY DEF ChildPointers
  <2>1. g \in Below
    BY <1>3 DEF OnlyBelow
  <2>2. GuidAt(<<g, c>>) = c
    BY DEF GuidAt, Header
  <2> QED
    BY <2>1, <2>2, DescendantsClosed DEF Below, Children
<1>10. OnlyBelow'
  BY <1>2, <1>7, <1>8, <1>9 DEF OnlyBelow, Below
<1>11. Counted'
  BY <1>2, <1>3, <1>4, CountOne
<1>12. NoneForgotten'
  BY <1>2, <1>3, <1>7, <1>8 DEF NoneForgotten, Serves, ChildPointers, Children
<1> QED
  BY <1>2, <1>6, <1>10, <1>11, <1>12 DEF IdleEmpty

(* Steps that change nothing but busy, at the end of the walk.             *)
LEMMA QuietInv == ASSUME IndInv, Return \/ UNCHANGED vars PROVE IndInv'
<1> USE DEF IndInv
<1>1. /\ UNCHANGED <<mappingTable, dstGuid, todos, finished, toSubscribers, toOtherRP>>
      /\ busy' \in BOOLEAN
      /\ ~busy' => todos = <<>>
      /\ busy' => busy
  <2>1. CASE Return
    BY <2>1 DEF Return
  <2>2. CASE UNCHANGED vars
    BY <2>2 DEF vars, IdleEmpty, TypeOK
  <2> QED
    BY <2>1, <2>2
<1>2. Waiting' = Waiting /\ \A p : GuidAt(p)' = GuidAt(p)
  BY <1>1 DEF Waiting, GuidAt
<1> QED
  BY <1>1, <1>2
     DEF TypeOK, OnlyBelow, Below, Counted, Copies, NoneForgotten, IdleEmpty, Serves, ChildPointers, Children

LEMMA Invariance == Spec => []IndInv
<1>1. Init => IndInv
  BY InitInv
<1>2. IndInv /\ [Next]_vars => IndInv'
  BY PublishInv, SkipInv, PassOnInv, ExpandInv, QuietInv DEF Next, Loop
<1> QED
  BY <1>1, <1>2, PTL DEF Spec

-----------------------------------------------------------------------------
(* The theorems.                                                           *)

(* Every variable keeps its type, for every graph of GUIDs.                *)
THEOREM RPTypeCorrect == Spec => []TypeOK
BY Invariance, PTL DEF IndInv

LEMMA InvCovers == ASSUME IndInv PROVE CoversReachable
<1> USE DEF IndInv
<1>1. \A p \in finished : GuidAt(p) \in Guids
  BY GuidAtType DEF TypeOK
<1>2. Reached = {GuidAt(p) : p \in finished}
  BY <1>1 DEF Reached, Counted
<1>3. Reached \subseteq Below
  BY <1>2 DEF OnlyBelow
<1>4. ASSUME Done PROVE Below \subseteq Reached
  <2>1. finished \cup Waiting = finished /\ Header \in finished
    BY <1>4 DEF Done, IdleEmpty, Waiting, NoneForgotten
  <2>2. dstGuid \in Reached
    BY <1>2, <2>1 DEF GuidAt
  <2>3. ASSUME NEW h \in Reached, NEW c \in ChildrenIn(mappingTable, h) PROVE c \in Reached
    <3>1. PICK p \in finished : GuidAt(p) = h
      BY <1>2
    <3>2. Serves(h) /\ <<h, c>> \in ChildPointers(h)
      BY DEF Serves, ChildrenIn, ChildPointers, Children
    <3>3. <<h, c>> \in finished
      BY <2>1, <3>1, <3>2 DEF NoneForgotten
    <3>4. GuidAt(<<h, c>>) = c
      BY DEF GuidAt, Header
    <3> QED
      BY <1>2, <3>3, <3>4
  <2> QED
    BY <2>2, <2>3, DescendantsLeast DEF Below
<1> QED
  BY <1>3, <1>4 DEF CoversReachable, Below

(* For every graph of GUIDs, cyclic or not: no GUID but the descendants of *)
(* the one published gets a copy, and when handleData returns they all     *)
(* have one, although its visited set compares pointers.                   *)
THEOREM Coverage == Spec => []CoversReachable
BY Invariance, InvCovers, PTL
-----------------------------------------------------------------------------
(* How many copies.                                                        *)

Links == LinksBelow(mappingTable, dstGuid)

To(g) == {p \in finished : GuidAt(p) = g}

(* Every pointer is a link between descendants, and a GUID has as many     *)
(* copies as pointers to it were expanded.                                 *)
LinksOnly == finished \cup Waiting \subseteq Links
CountedAll ==
  /\ IsFiniteSet(finished)
  /\ \A g \in Guids : Copies(g) = Cardinality(To(g))

LEMMA HeaderLink ==
  ASSUME NEW m, NEW g
  PROVE  Header \in LinksBelow(m, g)
BY DEF LinksBelow

LEMMA LinkToChild ==
  ASSUME NEW m, NEW g, NEW h \in Descendants(m, g), NEW c \in ChildrenIn(m, h)
  PROVE  <<h, c>> \in LinksBelow(m, g)
BY DEF LinksBelow

(* What is popped was waiting, and what Expand adds are links.             *)
LEMMA LinksStep ==
  ASSUME IndInv, LinksOnly, Skip \/ PassOn \/ Expand
  PROVE  LinksOnly'
<1> USE DEF IndInv, Pop
<1>1. Links' = Links
  BY DEF Skip, PassOn, Expand, Links
<1>2. todos # <<>> /\ Head(todos) \in Waiting /\ Tail(todos) \in Seq(Pointers)
      /\ Waiting = {Head(todos)} \cup {Tail(todos)[i] : i \in DOMAIN Tail(todos)}
      /\ finished' \subseteq finished \cup {Head(todos)}
  BY PopWaiting DEF Skip, PassOn, Expand
<1>3. CASE Skip \/ PassOn
  <2>1. Waiting' = {Tail(todos)[i] : i \in DOMAIN Tail(todos)}
    BY <1>3 DEF Skip, PassOn, Waiting
  <2> QED
    BY <1>1, <1>2, <2>1 DEF LinksOnly
<1>4. CASE Expand
  <2> DEFINE g == GuidAt(Head(todos))
             s == Tail(todos)
  <2>1. PICK w \in Walks(ChildPointers(g)) : todos' = s \o w
    BY <1>4 DEF Expand
  <2>2. g \in Guids /\ g \in Below
    BY <1>2, PopWaiting, GuidAtType DEF OnlyBelow
  <2>3. ChildPointers(g) \subseteq Links
    BY <2>2, LinkToChild DEF ChildPointers, Children, Links, Below
  <2> HIDE DEF g, s
  <2>4. {(s \o w)[i] : i \in DOMAIN (s \o w)} = {s[i] : i \in DOMAIN s} \cup ChildPointers(g)
    BY <1>2, <2>2, AppendWalk DEF s
  <2>5. Waiting' = {s[i] : i \in DOMAIN s} \cup ChildPointers(g)
    BY <2>1, <2>4 DEF Waiting
  <2> QED
    BY <1>1, <1>2, <2>3, <2>5 DEF LinksOnly, s
<1> QED
  BY <1>3, <1>4

LEMMA CountStep ==
  ASSUME IndInv, CountedAll, PassOn \/ Expand
  PROVE  CountedAll'
<1> DEFINE p == Head(todos)
<1> USE DEF IndInv, Pop
<1>1. /\ p \in Pointers /\ p \notin finished /\ GuidAt(p) \in Guids
      /\ finished' = finished \cup {p} /\ dstGuid' = dstGuid
  BY PopWaiting, GuidAtType DEF PassOn, Expand
<1>2. toSubscribers \in [Guids -> Nat] /\ toOtherRP \in [Guids -> Nat]
  BY DEF TypeOK
<1>3. ASSUME NEW g \in Guids
      PROVE  Copies(g)' = IF g = GuidAt(p) THEN Copies(g) + 1 ELSE Copies(g)
  <2>1. CASE PassOn
    <3>1. toOtherRP' = [toOtherRP EXCEPT ![GuidAt(p)] = @ + 1] /\ toSubscribers' = toSubscribers
      BY <2>1 DEF PassOn, OneMore
    <3> QED
      BY <1>1, <1>2, <3>1 DEF Copies
  <2>2. CASE Expand
    <3>1. toSubscribers' = [toSubscribers EXCEPT ![GuidAt(p)] = @ + 1] /\ toOtherRP' = toOtherRP
      BY <2>2 DEF Expand, OneMore
    <3> QED
      BY <1>1, <1>2, <3>1 DEF Copies
  <2> QED
    BY <2>1, <2>2
<1>4. \A q : GuidAt(q)' = GuidAt(q)
  BY <1>1 DEF GuidAt
<1>5. ASSUME NEW g \in Guids
      PROVE  Cardinality(To(g))' = IF g = GuidAt(p) THEN Cardinality(To(g)) + 1
                                                    ELSE Cardinality(To(g))
  <2>1. IsFiniteSet(To(g))
    BY FS_Subset DEF To, CountedAll
  <2>2. CASE g = GuidAt(p)
    <3>1. To(g)' = To(g) \cup {p} /\ p \notin To(g)
      BY <1>1, <1>4, <2>2 DEF To
    <3> QED
      BY <2>1, <2>2, <3>1, FS_AddElement
  <2>3. CASE g # GuidAt(p)
    <3>1. To(g)' = To(g)
      BY <1>1, <1>4, <2>3 DEF To
    <3> QED
      BY <2>3, <3>1
  <2> QED
    BY <2>2, <2>3
<1>6. IsFiniteSet(finished)'
  BY <1>1, FS_AddElement DEF CountedAll
<1> QED
  BY <1>3, <1>5, <1>6 DEF CountedAll

(* An expansion that returns has expanded every link once, and no pointer  *)
(* that is no link.                                                        *)
LEMMA AllLinks ==
  ASSUME IndInv, LinksOnly, Done
  PROVE  finished = Links
<1>1. Waiting = {} /\ Header \in finished
  BY DEF IndInv, Done, IdleEmpty, Waiting, NoneForgotten
<1>2. Reached = Below /\ \A h \in Reached : \E p \in finished : GuidAt(p) = h
  BY InvCovers DEF CoversReachable, Below, IndInv, Reached, Counted
<1>3. ASSUME NEW h \in Below, NEW c \in ChildrenIn(mappingTable, h) PROVE <<h, c>> \in finished
  <2>1. PICK p \in finished : GuidAt(p) = h
    BY <1>2
  <2>2. Serves(h) /\ <<h, c>> \in ChildPointers(h)
    BY DEF Serves, ChildrenIn, ChildPointers, Children
  <2> QED
    BY <1>1, <2>1, <2>2 DEF IndInv, NoneForgotten
<1>4. Links \subseteq finished
  BY <1>1, <1>3 DEF Links, LinksBelow, Below
<1> QED
  BY <1>4 DEF LinksOnly

(* When handleData returns, a GUID has got exactly one copy for each link  *)
(* that leads to it from a descendant of the GUID published, itself        *)
(* included, and one more for the GUID published.                          *)
THEOREM CopiesCounted == Spec => []OneCopyPerLink
<1>1. Init => LinksOnly /\ CountedAll
  <2> SUFFICES ASSUME Init PROVE LinksOnly /\ CountedAll
    OBVIOUS
  <2>1. finished = {} /\ Waiting = {} /\ \A g \in Guids : Copies(g) = 0 /\ To(g) = {}
    BY DEF Init, Waiting, Copies, Nothing, To
  <2> QED
    BY <2>1, FS_EmptySet DEF LinksOnly, CountedAll
<1>2. IndInv /\ LinksOnly /\ CountedAll /\ [Next]_vars => (LinksOnly /\ CountedAll)'
  <2> SUFFICES ASSUME IndInv, LinksOnly, CountedAll, [Next]_vars
               PROVE  (LinksOnly /\ CountedAll)'
    OBVIOUS
  <2>1. CASE Skip
    <3>1. CountedAll'
      BY <2>1 DEF Skip, CountedAll, Copies, To, GuidAt
    <3> QED
      BY <2>1, <3>1, LinksStep
  <2>2. CASE PassOn \/ Expand
    BY <2>2, LinksStep, CountStep
  <2>3. CASE Return \/ UNCHANGED vars
    <3>1. /\ UNCHANGED <<mappingTable, dstGuid, todos, finished, toSubscribers, toOtherRP>>
      BY <2>3 DEF Return, vars
    <3> QED
      BY <3>1 DEF LinksOnly, Links, Waiting, CountedAll, Copies, To, GuidAt
  <2>4. ASSUME NEW g \in Guids, Publish(g) PROVE (LinksOnly /\ CountedAll)'
    <3>1. finished' = {} /\ Waiting' = {Header}
      BY <2>4 DEF Publish, Waiting
    <3>2. \A h \in Guids : Copies(h)' = 0 /\ To(h)' = {}
      BY <2>4 DEF Publish, Copies, Nothing, To
    <3> QED
      BY <3>1, <3>2, FS_EmptySet, HeaderLink DEF LinksOnly, CountedAll, Links
  <2> QED
    BY <2>1, <2>2, <2>3, <2>4 DEF Next, Loop
<1>3. IndInv /\ LinksOnly /\ CountedAll => OneCopyPerLink
  <2> SUFFICES ASSUME IndInv, LinksOnly, CountedAll, Done, NEW g \in Guids
               PROVE  Copies(g) = Cardinality({link \in Links : Target(link, dstGuid) = g})
    BY DEF OneCopyPerLink, Links
  <2>1. {link \in Links : Target(link, dstGuid) = g} = To(g)
    BY AllLinks DEF To, Target, GuidAt
  <2> QED
    BY <2>1 DEF CountedAll
<1> QED
  BY <1>1, <1>2, <1>3, Invariance, PTL DEF Spec
=============================================================================
