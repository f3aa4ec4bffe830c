---------------------------- MODULE HRCTableProofs ---------------------------
(***************************************************************************)
(* Proofs about the tables of an HRC router and the files that fill them,  *)
(* for any parts, values, depth of names, addresses and lines.  The tables *)
(* of names are both tries, here over the same nodes; each theorem is      *)
(* about the specification of one of them.                                 *)
(***************************************************************************)
EXTENDS GNRSFile, MulticastTable, HRCARPTable, NameTrieProofs, FiniteSetTheorems

(* The trie implements the map: whatever nodes set makes and remove        *)
(* deletes, a call changes the value of its name and of no other.          *)
THEOREM TrieIsMap == Spec => ImplementsMap
  <1>1. Init => M!Init
    BY DEF Init, M!Init
  <1>2. [Next]_vars => [M!Next]_vals
    <2> SUFFICES ASSUME [Next]_vars PROVE [M!Next]_vals
      OBVIOUS
    <2>1. CASE UNCHANGED vars
      BY <2>1 DEF vars
    <2>2. ASSUME NEW name \in Names, NEW v \in Vals, Set(name, v)
          PROVE  M!Set(name, v)
      BY <2>2 DEF Set, M!Set
    <2>3. ASSUME NEW name \in Names, Remove(name) PROVE M!Remove(name)
      <3> DEFINE held == DOMAIN vals \ {name}
      <3>1. vals' = Restrict(vals, held \ Deleted(name, held))
        BY <2>3 DEF Remove
      <3>2. held \ Deleted(name, held) = held
        BY DeletedHoldNothing
      <3> QED
        BY <3>1, <3>2 DEF M!Remove, Restrict, M!Restrict
    <2> QED
      BY <2>1, <2>2, <2>3 DEF Next, M!Next
  <1> QED
    BY <1>1, <1>2, PTL DEF Spec, ImplementsMap, M!Spec

(* remove frees every node that nothing needs any more.                    *)
THEOREM TrieIsTrimmed == Spec => []NoDeadBranch
  <1> DEFINE Inv == nodes \subseteq Names /\ NoDeadBranch
  <1>1. Init => Inv
    BY InitClosed DEF Init, NoDeadBranch
  <1>2. Inv /\ [Next]_vars => Inv'
    <2> SUFFICES ASSUME Inv, [Next]_vars PROVE Inv'
      OBVIOUS
    <2>1. CASE UNCHANGED vars
      BY <2>1 DEF vars, NoDeadBranch, IsLeaf, Children, HasVal
    <2>2. ASSUME NEW name \in Names, NEW v \in Vals, Set(name, v) PROVE Inv'
      <3>1. nodes' = nodes \cup Path(name) /\ DOMAIN vals' = DOMAIN vals \cup {name}
        BY <2>2 DEF Set
      <3>2. nodes' \subseteq Names
        BY <3>1, PathIsNames
      <3>3. ASSUME NEW n \in nodes' \ {<<>>}, IsLeaf(n)' PROVE HasVal(n)'
        <4>1. (n \in nodes /\ IsLeaf(n)) \/ n = name
          BY <3>1, <3>3, GrownLeaf
        <4> QED
          BY <3>1, <4>1 DEF NoDeadBranch, HasVal
      <3> QED
        BY <3>2, <3>3 DEF NoDeadBranch
    <2>3. ASSUME NEW name \in Names, Remove(name) PROVE Inv'
      <3> DEFINE held == DOMAIN vals \ {name}
                 gone == Deleted(name, held)
      <3>1. nodes' = nodes \ gone /\ DOMAIN vals' = held \ gone
        BY <2>3 DEF Remove, Restrict
      <3>2. gone \cap held = {}
        BY DeletedHoldNothing
      <3> HIDE DEF gone
      <3>3. ASSUME NEW n \in nodes' \ {<<>>}, IsLeaf(n)' PROVE HasVal(n)'
        <4>1. n \in held \/ (IsLeaf(n) /\ n # name)
          BY <3>1, <3>3, TrimmedLeaf DEF gone
        <4>2. n \in held
          BY <3>1, <4>1 DEF NoDeadBranch, HasVal
        <4> QED
          BY <3>1, <3>2, <4>2 DEF HasVal
      <3> QED
        BY <3>1, <3>3 DEF NoDeadBranch
    <2> QED
      BY <2>1, <2>2, <2>3 DEF Next
  <1> QED
    BY <1>1, <1>2, PTL DEF Spec
-----------------------------------------------------------------------------
(* Lookups.                                                                *)

Inv == TypeOK /\ PrefixClosed

LEMMA InvInit == Init => Inv
  <1> SUFFICES ASSUME Init PROVE Inv
    OBVIOUS
  <1>1. nodes = {<<>>} /\ DOMAIN vals = {} /\ vals \in [DOMAIN vals -> Vals]
    BY DEF Init
  <1> QED
    BY <1>1, InitClosed DEF Inv, TypeOK

LEMMA InvNext == Inv /\ [Next]_vars => Inv'
  <1> SUFFICES ASSUME Inv, [Next]_vars PROVE Inv'
    OBVIOUS
  <1>1. CASE UNCHANGED vars
    BY <1>1 DEF vars, Inv, TypeOK, PrefixClosed
  <1>2. ASSUME NEW name \in Names, NEW v \in Vals, Set(name, v) PROVE Inv'
    <2>1. nodes' = nodes \cup Path(name)
      BY <1>2 DEF Set
    <2>2. name \in nodes'
      BY <2>1, NameIsSeq, WholePrefix DEF Path
    <2>3. nodes' \subseteq Names
      BY <2>1, PathIsNames DEF Inv, TypeOK
    <2>4. DOMAIN vals' \subseteq nodes' /\ vals' \in [DOMAIN vals' -> Vals]
      BY <1>2, <2>1, <2>2 DEF Set, Inv, TypeOK
    <2>5. PrefixClosed'
      BY <2>1, GrownClosed DEF Inv
    <2> QED
      BY <2>3, <2>4, <2>5 DEF Inv, TypeOK
  <1>3. ASSUME NEW name \in Names, Remove(name) PROVE Inv'
    <2> DEFINE held == DOMAIN vals \ {name}
               gone == Deleted(name, held)
    <2>1. nodes' = nodes \ gone /\ vals' = Restrict(vals, held \ gone)
      BY <1>3 DEF Remove
    <2>2. nodes \subseteq Names /\ PrefixClosed
      BY DEF Inv, TypeOK
    <2> HIDE DEF held
    <2>3. PrefixClosed'
      BY <2>1, <2>2, TrimmedClosed
    <2> HIDE DEF gone
    <2>4. DOMAIN vals' = held \ gone /\ \A n \in held \ gone : vals'[n] = vals[n]
      BY <2>1 DEF Restrict
    <2>5. held \subseteq DOMAIN vals
      BY DEF held
    <2>6. vals' = [n \in held \ gone |-> vals[n]]
      BY <2>1 DEF Restrict
    <2>7. DOMAIN vals' \subseteq nodes' /\ vals' \in [DOMAIN vals' -> Vals]
      BY <2>1, <2>4, <2>5, <2>6 DEF Inv, TypeOK
    <2> QED
      BY <2>1, <2>2, <2>3, <2>7 DEF Inv, TypeOK
  <1> QED
    BY <1>1, <1>2, <1>3 DEF Next

(* The depths from i on where a prefix of name has a value, and the value  *)
(* at the deepest: what the call on the node at depth i should return.     *)
HoldersFrom(name, i) == {j \in i..Len(name) : Prefix(name, j) \in DOMAIN vals}

Deepest(name, i) ==
  CHOOSE v : \/ HoldersFrom(name, i) = {} /\ v = None
             \/ \E j \in HoldersFrom(name, i) :
                  (\A k \in HoldersFrom(name, i) : k <= j) /\ v = vals[Prefix(name, j)]

LEMMA GreatestOf ==
  ASSUME NEW n \in Nat, NEW T \in SUBSET (0..n), T # {}
  PROVE  \E k \in T : \A j \in T : j <= k
  <1> DEFINE U == {n - j : j \in T}
  <1>1. U \in SUBSET Nat /\ U # {}
    OBVIOUS
  <1> HIDE DEF U
  <1>2. PICK l \in U : \A m \in U : l <= m
    BY <1>1, LeastOf
  <1>3. PICK k \in T : l = n - k
    BY <1>2 DEF U
  <1>4. \A j \in T : n - k <= n - j
    BY <1>2, <1>3 DEF U
  <1>5. \A j \in T : j <= k
    BY <1>4
  <1> QED
    BY <1>5

LEMMA DeepestIs ==
  ASSUME Inv, NEW name \in Names, NEW i \in 0..Len(name)
  PROVE  /\ HoldersFrom(name, i) = {} => Deepest(name, i) = None
         /\ \A j \in HoldersFrom(name, i) :
              (\A k \in HoldersFrom(name, i) : k <= j) => Deepest(name, i) = vals[Prefix(name, j)]
         /\ HoldersFrom(name, i) # {} => Deepest(name, i) # None
  <1>1. Len(name) \in Nat /\ HoldersFrom(name, i) \in SUBSET (0..Len(name))
    BY NameIsSeq DEF HoldersFrom
  <1>2. CASE HoldersFrom(name, i) = {}
    BY <1>2 DEF Deepest
  <1>3. CASE HoldersFrom(name, i) # {}
    <2>1. PICK j \in HoldersFrom(name, i) : \A k \in HoldersFrom(name, i) : k <= j
      BY <1>1, <1>3, GreatestOf
    <2>2. \A k \in HoldersFrom(name, i) :
            (\A l \in HoldersFrom(name, i) : l <= k) => k = j
      BY <1>1, <2>1
    <2>3. Deepest(name, i) = vals[Prefix(name, j)]
      BY <1>3, <2>1, <2>2 DEF Deepest
    <2>4. vals[Prefix(name, j)] \in Vals
      BY <2>1 DEF HoldersFrom, Inv, TypeOK
    <2>5. Deepest(name, i) # None
      BY <2>3, <2>4, InterestAssumption
    <2> QED
      BY <1>3, <2>2, <2>3, <2>5
  <1> QED
    BY <1>2, <1>3
(* That of the child at depth i + 1 if there is one with a value below.    *)
Deeper(name, i) == i < Len(name) /\ Prefix(name, i + 1) \in nodes

LEMMA DeepestStep ==
  ASSUME Inv, NEW name \in Names, NEW i \in 0..Len(name)
  PROVE  Deepest(name, i) = IF Deeper(name, i) /\ Deepest(name, i + 1) # None
                              THEN Deepest(name, i + 1) ELSE ValueAt(Prefix(name, i))
  <1>0. Len(name) \in Nat /\ i \in Nat /\ i <= Len(name)
    BY NameIsSeq
  <1>1. \A j : j \in i..Len(name) <=> j = i \/ j \in (i + 1)..Len(name)
    BY <1>0
  <1>2. \A j : j \in HoldersFrom(name, i)
                 <=> (j = i /\ HasVal(Prefix(name, i))) \/ j \in HoldersFrom(name, i + 1)
    BY <1>1 DEF HoldersFrom, HasVal
  <1>3. CASE HoldersFrom(name, i + 1) = {}
    <2>1. Deeper(name, i) => Deepest(name, i + 1) = None
      BY <1>0, <1>3, DeepestIs DEF Deeper
    <2>2. CASE HasVal(Prefix(name, i))
      <3>1. HoldersFrom(name, i) = {i}
        BY <1>2, <1>3, <2>2
      <3>2. Deepest(name, i) = vals[Prefix(name, i)]
        BY <1>0, <3>1, DeepestIs
      <3> QED
        BY <2>1, <2>2, <3>2 DEF ValueAt
    <2>3. CASE ~HasVal(Prefix(name, i))
      <3>1. HoldersFrom(name, i) = {}
        BY <1>2, <1>3, <2>3
      <3>2. Deepest(name, i) = None
        BY <3>1, DeepestIs
      <3> QED
        BY <2>1, <2>3, <3>2 DEF ValueAt
    <2> QED
      BY <2>2, <2>3
  <1>4. CASE HoldersFrom(name, i + 1) # {}
    <2>1. PICK h : h \in HoldersFrom(name, i + 1)
      BY <1>4
    <2>2. h \in (i + 1)..Len(name) /\ Prefix(name, h) \in nodes
      BY <2>1 DEF HoldersFrom, Inv, TypeOK
    <2>3. h \in 0..Len(name) /\ i + 1 \in 0..h /\ i + 1 \in 0..Len(name) /\ i < Len(name)
      BY <1>0, <2>2
    <2>4. Len(Prefix(name, h)) = h /\ Prefix(Prefix(name, h), i + 1) = Prefix(name, i + 1)
      BY <2>3, PrefixOfName, PrefixOfPrefix
    <2>5. Prefix(name, i + 1) \in nodes
      BY <2>2, <2>3, <2>4 DEF Inv, PrefixClosed, Path
    <2>6. Deepest(name, i + 1) # None
      BY <1>4, <2>3, DeepestIs
    <2>7. HoldersFrom(name, i + 1) \in SUBSET (0..Len(name))
      BY <1>0 DEF HoldersFrom
    <2>8. PICK j \in HoldersFrom(name, i + 1) : \A k \in HoldersFrom(name, i + 1) : k <= j
      BY <1>0, <1>4, <2>7, GreatestOf
    <2>9. j \in HoldersFrom(name, i) /\ \A k \in HoldersFrom(name, i) : k <= j
      <3>1. i <= j
        BY <1>0, <2>8 DEF HoldersFrom
      <3> QED
        BY <1>2, <2>8, <3>1
    <2>10. Deepest(name, i) = Deepest(name, i + 1)
      BY <2>3, <2>8, <2>9, DeepestIs
    <2> QED
      BY <2>3, <2>5, <2>6, <2>10 DEF Deeper
  <1> QED
    BY <1>3, <1>4

(* The recursion is defined: there is a function that satisfies it.        *)
LEMMA MatchStep ==
  ASSUME Inv, NEW name \in Names, NEW i \in 0..Len(name)
  PROVE  Match(name)[i] = IF Deeper(name, i) /\ Match(name)[i + 1] # None
                            THEN Match(name)[i + 1] ELSE ValueAt(Prefix(name, i))
  <1> DEFINE Body(f) == [k \in 0..Len(name) |->
                           IF Deeper(name, k) /\ f[k + 1] # None
                             THEN f[k + 1] ELSE ValueAt(Prefix(name, k))]
             best == [k \in 0..Len(name) |-> Deepest(name, k)]
  <1>1. best = Body(best)
    <2>1. ASSUME NEW k \in 0..Len(name), Deeper(name, k) PROVE best[k + 1] = Deepest(name, k + 1)
      BY <2>1, NameIsSeq DEF Deeper
    <2>2. ASSUME NEW k \in 0..Len(name) PROVE best[k] = Body(best)[k]
      BY <2>1, DeepestStep
    <2> QED
      BY <2>2
  <1>2. Match(name) = CHOOSE f : f = Body(f)
    BY DEF Match, Deeper
  <1> HIDE DEF best, Body
  <1>3. Match(name) = Body(Match(name))
    BY <1>1, <1>2, Zenon
  <1> QED
    BY <1>3 DEF Body

LEMMA MatchIsDeepest ==
  ASSUME Inv, NEW name \in Names
  PROVE  LongestPrefixMatch(name) = Deepest(name, 0)
  <1> DEFINE n == Len(name)
             T == {k \in 0..n : Match(name)[n - k] # Deepest(name, n - k)}
  <1>0. n \in Nat
    BY NameIsSeq
  <1>1. T = {}
    <2> SUFFICES ASSUME T # {} PROVE FALSE
      OBVIOUS
    <2>0. T \in SUBSET Nat
      BY <1>0
    <2> HIDE DEF T
    <2>1. PICK k \in T : \A l \in T : k <= l
      BY <2>0, LeastOf
    <2> USE DEF T
    <2>2. PICK i \in 0..n : i = n - k /\ k \in 0..n
      BY <1>0, <2>1
    <2>3. Match(name)[i] # Deepest(name, i)
      BY <2>1, <2>2
    <2>4. ASSUME Deeper(name, i) PROVE Match(name)[i + 1] = Deepest(name, i + 1)
      <3>1. k - 1 \in 0..n /\ n - (k - 1) = i + 1 /\ ~(k <= k - 1)
        BY <1>0, <2>2, <2>4 DEF Deeper
      <3> QED
        BY <2>1, <3>1
    <2> QED
      BY <2>3, <2>4, MatchStep, DeepestStep
  <1>2. n \in 0..n /\ n - n = 0
    BY <1>0
  <1>3. Match(name)[0] = Deepest(name, 0)
    BY <1>1, <1>2
  <1> QED
    BY <1>3 DEF LongestPrefixMatch

LEMMA InvLookups == Inv => LookupsAgree
  <1> SUFFICES ASSUME Inv, NEW name \in Names
               PROVE  /\ ExactMatch(name) = ValueAt(name)
                      /\ Holders(name) = {} => LongestPrefixMatch(name) = None
                      /\ \A i \in Holders(name) :
                           (\A j \in Holders(name) : j <= i)
                             => LongestPrefixMatch(name) = vals[Prefix(name, i)]
    BY DEF LookupsAgree
  <1>1. ExactMatch(name) = ValueAt(name)
    BY ExistsIffNode DEF ExactMatch, ValueAt, HasVal, Inv, TypeOK
  <1>2. Holders(name) = HoldersFrom(name, 0) /\ 0 \in 0..Len(name)
    BY NameIsSeq DEF Holders, HoldersFrom
  <1> QED
    BY <1>1, <1>2, MatchIsDeepest, DeepestIs

(* After any calls a lookup gives the value of the name itself, or that of *)
(* the longest prefix of it that has one: the recursion, which asks the    *)
(* children that exist, misses none and prefers none that is shorter.      *)
THEOREM LongestMatch == Spec => []LookupsAgree
  BY InvInit, InvNext, InvLookups, PTL DEF Spec

-----------------------------------------------------------------------------
(* The strings that a GNRS file puts into the table.                       *)

(* No string is at two names, and the table finds every name it has.       *)
OwnedInv ==
  /\ allocated \in 0..MaxLines
  /\ Owned
  /\ \A n, m \in DOMAIN vals : vals[n] = vals[m] => n = m
  /\ \A n \in DOMAIN vals : Path(n) \subseteq nodes

LEMMA BindOwns ==
  ASSUME OwnedInv, allocated < MaxLines, NEW name, NEW rp, Bind(name, rp)
  PROVE  OwnedInv'
  <1> DEFINE new == allocated + 1
             exist == ExactMatch(name)
  <1>1. /\ allocated' = new /\ nodes' = nodes \cup Path(name)
        /\ vals' = [n \in DOMAIN vals \cup {name} |-> IF n = name THEN new ELSE vals[n]]
        /\ freed' = IF exist # None THEN freed \cup {exist} ELSE freed
    BY DEF Bind, Set
  <1>2. new \in 1..MaxLines /\ new \notin 1..allocated /\ 1..new = 1..allocated \cup {new}
    BY FileAssumption DEF OwnedInv
  <1>3. Range(vals) \subseteq 1..allocated /\ freed \subseteq 1..allocated /\ None \notin 1..allocated
    BY FileAssumption, InterestAssumption DEF OwnedInv, Owned
  <1>4. \A n \in DOMAIN vals : vals[n] \in Range(vals)
    BY DEF Range
  <1>5. freed' = freed \cup {vals[n] : n \in DOMAIN vals \cap {name}}
    <2>1. CASE name \in DOMAIN vals
      <3>1. exist = vals[name]
        BY <2>1 DEF OwnedInv, ExactMatch, Exists, ValueAt, HasVal
      <3> QED
        BY <1>1, <1>3, <1>4, <2>1, <3>1
    <2>2. CASE name \notin DOMAIN vals
      <3>1. exist = None
        BY <2>2 DEF ExactMatch, ValueAt, HasVal
      <3> QED
        BY <1>1, <2>2, <3>1
    <2> QED
      BY <2>1, <2>2
  <1>6. Range(vals') = {new} \cup {vals[n] : n \in DOMAIN vals \ {name}}
    BY <1>1 DEF Range
  <1>7. \A n \in DOMAIN vals : n # name => vals[n] \notin {vals[m] : m \in DOMAIN vals \cap {name}}
    BY DEF OwnedInv
  <1>8. Owned'
    <2>1. Range(vals') \cap freed' = {}
      BY <1>2, <1>3, <1>4, <1>5, <1>6, <1>7 DEF OwnedInv, Owned
    <2>2. Range(vals') \cup freed' = 1..new
      <3>1. Range(vals) = {vals[n] : n \in DOMAIN vals}
        BY DEF Range
      <3>2. Range(vals') \cup freed' = {new} \cup Range(vals) \cup freed
        BY <1>5, <1>6, <3>1
      <3> QED
        BY <1>2, <3>2 DEF OwnedInv, Owned
    <2> QED
      BY <1>1, <2>1, <2>2 DEF Owned
  <1>9. \A n, m \in DOMAIN vals' : vals'[n] = vals'[m] => n = m
    BY <1>1, <1>2, <1>3, <1>4 DEF OwnedInv
  <1>10. \A n \in DOMAIN vals' : Path(n) \subseteq nodes'
    BY <1>1 DEF OwnedInv
  <1>11. allocated' \in 0..MaxLines
    BY <1>1, <1>2
  <1> HIDE DEF new, exist
  <1> QED
    BY <1>8, <1>9, <1>10, <1>11 DEF OwnedInv, Path, Prefix

(* Every string that parseGNRSFile allocates is at one name of the table   *)
(* or was freed, never both: no lookup returns a string that was freed,    *)
(* and none is lost, for files of any length and lines of any form.        *)
THEOREM StringsOwned == FileSpec => []Owned
  <1>1. FileInit => OwnedInv
    <2> SUFFICES ASSUME FileInit PROVE OwnedInv
      OBVIOUS
    <2>1. DOMAIN vals = {} /\ allocated = 0 /\ freed = {}
      BY DEF FileInit, Init
    <2>2. Range(vals) = {} /\ 1..allocated = {}
      BY <2>1 DEF Range
    <2> QED
      BY <2>1, <2>2, FileAssumption DEF OwnedInv, Owned
  <1>2. OwnedInv /\ [FileNext]_fileVars => OwnedInv'
    <2> SUFFICES ASSUME OwnedInv, [FileNext]_fileVars PROVE OwnedInv'
      OBVIOUS
    <2>1. ASSUME UNCHANGED <<nodes, vals, allocated, freed>> PROVE OwnedInv'
      BY <2>1 DEF OwnedInv, Owned
    <2>2. CASE UNCHANGED fileVars
      BY <2>1, <2>2 DEF fileVars
    <2>3. ASSUME NEW line \in Lines, NEW terminated \in BOOLEAN, Line(line, terminated)
          PROVE  OwnedInv'
      <3>1. PICK pairs \in Pairs(line, terminated) :
              IF pairs = {} THEN UNCHANGED <<nodes, vals, allocated, freed, text>>
              ELSE allocated < MaxLines /\ \E pair \in pairs : Bind(Walked(pair[1]), pair[2])
        BY <2>3 DEF Line
      <3> QED
        BY <2>1, <3>1, BindOwns
    <2> QED
      BY <2>2, <2>3 DEF FileNext
  <1>3. OwnedInv => Owned
    BY DEF OwnedInv
  <1> QED
    BY <1>1, <1>2, <1>3, PTL DEF FileSpec

-----------------------------------------------------------------------------
(* Sequences that are cut from front to back.                              *)

(* A sequence that is cut piece by piece: at each place either nothing     *)
(* follows, or a piece and what is cut from a place further on.            *)
Onward(next, top) ==
  next \in [1..top -> 0..top] /\ \A i \in 1..top : next[i] = 0 \/ next[i] > i

IsCut(F, next, piece, top) ==
  \A i \in 1..top : F[i] = IF next[i] = 0 THEN <<>> ELSE <<piece[i]>> \o F[next[i]]

LEMMA CutExists ==
  ASSUME NEW top \in Nat \ {0}, NEW S, NEW next, Onward(next, top), NEW piece \in [1..top -> S]
  PROVE  \E F \in [1..top -> Seq(S)] : IsCut(F, next, piece, top)
  <1> DEFINE Cut(F, i) == IF next[i] = 0 THEN <<>> ELSE <<piece[i]>> \o F[next[i]]
             From(k) == (top - k)..(top)
             Fine(k) == \E F \in [From(k) -> Seq(S)] : \A i \in From(k) : F[i] = Cut(F, i)
             T == {k \in 0..top - 1 : ~Fine(k)}
  <1> USE DEF Onward
  <1>1. \A k \in 0..top - 1 : From(k) \subseteq 1..top
    OBVIOUS
  <1>2. Fine(0)
    <2> DEFINE F == [i \in From(0) |-> <<>>]
    <2>1. F \in [From(0) -> Seq(S)]
      BY EmptySeq
    <2>2. \A i \in From(0) : F[i] = Cut(F, i)
      <3>1. \A i \in From(0) : i = top /\ next[i] = 0
        BY <1>1
      <3> QED
        BY <3>1
    <2> QED
      BY <2>1, <2>2
  <1>3. ASSUME NEW k \in 1..top - 1, Fine(k - 1) PROVE Fine(k)
    <2> DEFINE new == top - k
    <2>1. PICK F \in [From(k - 1) -> Seq(S)] : \A i \in From(k - 1) : F[i] = Cut(F, i)
      BY <1>3
    <2>2. /\ From(k) = From(k - 1) \cup {new} /\ new \notin From(k - 1)
          /\ new \in 1..top - 1
      <3>1. k \in Nat /\ k >= 1 /\ k <= top - 1 /\ top \in Nat
        OBVIOUS
      <3>2. new \in 1..top - 1
        BY <3>1
      <3>3. new \notin From(k - 1)
        BY <3>1
      <3>4. From(k) \subseteq From(k - 1) \cup {new}
        BY <3>1
      <3>5. From(k - 1) \subseteq From(k) /\ new \in From(k)
        BY <3>1
      <3> QED
        BY <3>2, <3>3, <3>4, <3>5
    <2>3. \A i \in From(k) : next[i] = 0 \/ next[i] \in From(k - 1)
      BY <1>1
    <2> DEFINE G == [i \in From(k) |-> IF i = new THEN Cut(F, i) ELSE F[i]]
    <2>4. \A i \in From(k) : Cut(G, i) = Cut(F, i)
      BY <2>2, <2>3
    <2>5. Cut(F, new) \in Seq(S)
      <3>1. CASE next[new] = 0
        BY <3>1, EmptySeq
      <3>2. CASE next[new] # 0
        <4>1. F[next[new]] \in Seq(S) /\ <<piece[new]>> \in Seq(S)
          BY <2>2, <2>3, <3>2
        <4> HIDE DEF new
        <4> QED
          BY <3>2, <4>1, ConcatProperties
      <3> QED
        BY <3>1, <3>2
    <2>6. G \in [From(k) -> Seq(S)]
      BY <2>2, <2>5
    <2>7. \A i \in From(k) : G[i] = Cut(G, i)
      BY <2>1, <2>2, <2>4
    <2> QED
      BY <2>6, <2>7
  <1>4. T = {}
    <2> SUFFICES ASSUME T # {} PROVE FALSE
      OBVIOUS
    <2> HIDE DEF Fine
    <2>0. T \in SUBSET Nat
      OBVIOUS
    <2>1. PICK k \in T : \A j \in T : k <= j
      BY <2>0, LeastOf
    <2>2. k \in 1..top - 1
      BY <1>2
    <2>3. k - 1 \in 0..top - 1 /\ k - 1 \notin T
      BY <2>1, <2>2
    <2>4. Fine(k - 1)
      BY <2>3
    <2> QED
      BY <1>3, <2>2, <2>4
  <1>5. Fine(top - 1) /\ From(top - 1) = 1..top
    <2>1. top - 1 \in 0..top - 1 /\ From(top - 1) = 1..top
      OBVIOUS
    <2> HIDE DEF Fine, From
    <2> QED
      BY <1>4, <2>1
  <1> QED
    BY <1>5 DEF IsCut

(* There is only one result.                                               *)
LEMMA CutIsOne ==
  ASSUME NEW top \in Nat \ {0}, NEW next, Onward(next, top), NEW piece,
         NEW F, IsCut(F, next, piece, top), NEW G, IsCut(G, next, piece, top)
  PROVE  \A i \in 1..top : F[i] = G[i]
  <1> USE DEF Onward
  <1> DEFINE T == {k \in 0..top - 1 : F[top - k] # G[top - k]}
  <1>1. T = {}
    <2> SUFFICES ASSUME T # {} PROVE FALSE
      OBVIOUS
    <2>1. T \in SUBSET Nat
      OBVIOUS
    <2>2. PICK k \in T : \A j \in T : k <= j
      <3> HIDE DEF T
      <3> QED
        BY <2>1, LeastOf
    <2>3. PICK i \in 1..top : i = top - k /\ F[i] # G[i]
      OBVIOUS
    <2>4. next[i] # 0 /\ next[i] \in 1..top /\ next[i] > i
      <3>1. F[i] = IF next[i] = 0 THEN <<>> ELSE <<piece[i]>> \o F[next[i]]
        BY DEF IsCut
      <3>2. G[i] = IF next[i] = 0 THEN <<>> ELSE <<piece[i]>> \o G[next[i]]
        BY DEF IsCut
      <3>3. next[i] # 0
        BY <2>3, <3>1, <3>2
      <3> QED
        BY <3>3
    <2> DEFINE j == top - next[i]
    <2>5. j \in 0..top - 1 /\ j < k /\ top - j = next[i]
      BY <2>3, <2>4
    <2>6. F[next[i]] = G[next[i]]
      <3>0. k \in Nat /\ j \in Nat /\ ~(k <= j)
        BY <2>5
      <3>1. j \notin T
        <4> HIDE DEF T
        <4> QED
          BY <2>2, <3>0
      <3> QED
        BY <2>5, <3>1
    <2>7. /\ F[i] = <<piece[i]>> \o F[next[i]]
          /\ G[i] = <<piece[i]>> \o G[next[i]]
      BY <2>4 DEF IsCut
    <2> QED
      BY <2>3, <2>6, <2>7
  <1>2. ASSUME NEW i \in 1..top PROVE F[i] = G[i]
    <2>1. top - i \in 0..top - 1 /\ top - (top - i) = i
      OBVIOUS
    <2> QED
      BY <1>1, <2>1
  <1> QED
    BY <1>2

LEMMA NextOfLeast ==
  ASSUME NEW string, Len(string) \in Nat, NEW chars, NEW i \in 1..Len(string) + 1
  PROVE  LET e == NextOf(string, chars, i)
         IN  /\ e \in i..Len(string) + 1
             /\ e <= Len(string) => string[e] \in chars
             /\ \A j \in i..e - 1 : string[j] \notin chars
  <1> DEFINE T == {Len(string) + 1} \cup {j \in i..Len(string) : string[j] \in chars}
  <1>1. T \in SUBSET Nat /\ T # {}
    OBVIOUS
  <1>2. NextOf(string, chars, i) \in T /\ \A j \in T : NextOf(string, chars, i) <= j
    <2> HIDE DEF T
    <2>1. \E k \in T : \A j \in T : k <= j
      BY <1>1, LeastOf
    <2>2. NextOf(string, chars, i) = CHOOSE k \in T : \A j \in T : k <= j
      BY DEF NextOf, Min, T
    <2> QED
      BY <2>1, <2>2
  <1> QED
    BY <1>2

LEMMA AscendingIs ==
  ASSUME NEW m \in Nat, NEW c \in [1..m -> Nat], \A i, j \in 1..m : i < j => c[i] < c[j]
  PROVE  Ascending({c[i] : i \in 1..m}) = c
  <1> DEFINE S == {c[i] : i \in 1..m}
  <1>1. S \subseteq Nat /\ c \in [1..m -> S]
    OBVIOUS
  <1>2. IsFiniteSet(S) /\ Cardinality(S) = m
    <2>1. \A i, j \in 1..m : c[i] = c[j] => i = j
      OBVIOUS
    <2>2. c \in Bijection(1..m, S)
      BY <1>1, <2>1 DEF Bijection, Injection, Surjection, IsInjective
    <2>3. IsFiniteSet(1..m) /\ Cardinality(1..m) = m
      BY FS_Interval
    <2> HIDE DEF S
    <2> QED
      BY <2>2, <2>3, FS_Bijection DEF ExistsBijection
  <1>3. ASSUME NEW d \in [1..m -> S], \A i, j \in 1..m : i < j => d[i] < d[j] PROVE d = c
    <2> DEFINE T == {k \in 1..m : d[k] # c[k]}
    <2>0. T = {} => d = c
      <3>1. T = {} => \A k \in 1..m : d[k] = c[k]
        OBVIOUS
      <3> HIDE DEF T, S
      <3> QED
        BY <1>1, <1>3, <3>1
    <2>1. SUFFICES ASSUME T # {} PROVE FALSE
      <3> HIDE DEF T
      <3> QED
        BY <2>0
    <2>2. PICK k \in T : \A j \in T : k <= j
      <3>1. T \in SUBSET Nat
        OBVIOUS
      <3> QED
        BY <2>1, <3>1, LeastOf
    <2>3. k \in 1..m /\ d[k] # c[k] /\ \A j \in 1..k - 1 : d[j] = c[j]
      BY <2>2
    <2>4. c[k] < d[k]
      <3>1. PICK j \in 1..m : d[k] = c[j]
        BY <2>3
      <3>2. ~(j < k)
        BY <1>3, <2>3, <3>1
      <3> QED
        BY <2>3, <3>1, <3>2
    <2>5. PICK j \in 1..m : d[j] = c[k]
      <3>0. \A i \in 1..m : d[i] \in Nat
        BY <1>1
      <3>1. \A i, j \in 1..m : d[i] = d[j] => i = j
        <4> SUFFICES ASSUME NEW i \in 1..m, NEW j \in 1..m, d[i] = d[j], i # j PROVE FALSE
          OBVIOUS
        <4>1. i < j \/ j < i
          OBVIOUS
        <4>2. PICK x \in Nat : x = d[i] /\ x = d[j]
          BY <3>0
        <4>3. CASE i < j
          <5>1. x < x
            BY <1>3, <4>2, <4>3
          <5> QED
            BY <4>2, <5>1
        <4>4. CASE j < i
          <5>1. x < x
            BY <1>3, <4>2, <4>4
          <5> QED
            BY <4>2, <5>1
        <4> QED
          BY <4>1, <4>3, <4>4
      <3>2. d \in Injection(1..m, S)
        BY <1>3, <3>1 DEF Injection, IsInjective
      <3>3. IsFiniteSet(1..m) /\ Cardinality(1..m) = m
        BY FS_Interval
      <3>4. d \in Surjection(1..m, S)
        <4> HIDE DEF S
        <4> QED
          BY <1>2, <3>2, <3>3, FS_Injection
      <3> QED
        BY <2>3, <3>4 DEF Surjection
    <2>6. ~(j < k)
      BY <2>3, <2>5
    <2>7. d[k] \in Nat /\ d[j] \in Nat /\ c[k] \in Nat /\ (k < j => d[k] < d[j])
      BY <1>1, <1>3, <2>3
    <2>8. k \in Nat /\ j \in Nat /\ k # j
      BY <2>3, <2>5
    <2> QED
      BY <2>4, <2>5, <2>6, <2>7, <2>8
  <1> QED
    BY <1>2, <1>3 DEF Ascending

-----------------------------------------------------------------------------
(* A name as a string: its two readings agree.                             *)

WalkedEnd(string, i) == NextOf(string, {Separator}, PartStart(string, i))

WalkedStep(string, F, i) ==
  IF PartStart(string, i) > Len(string) THEN <<>>
  ELSE <<SubSeq(string, PartStart(string, i), WalkedEnd(string, i) - 1)>>
         \o F[WalkedEnd(string, i)]

LEMMA PartStartIs ==
  ASSUME NEW C, NEW string \in Seq(C), NEW i \in 1..Len(string) + 1
  PROVE  /\ Len(string) \in Nat
         /\ PartStart(string, i) \in {i, i + 1} /\ PartStart(string, i) \in 1..Len(string) + 1
         /\ i = Len(string) + 1 => PartStart(string, i) = i
         /\ \A j \in 1..Len(string) : IsSeparator(string, j) <=> string[j] = Separator
  BY DEF PartStart, IsSeparator

LEMMA WalkedEndIs ==
  ASSUME NEW C, NEW string \in Seq(C), NEW i \in 1..Len(string) + 1,
         PartStart(string, i) <= Len(string)
  PROVE  /\ WalkedEnd(string, i) \in PartStart(string, i)..Len(string) + 1
         /\ WalkedEnd(string, i) > i
         /\ WalkedEnd(string, i) <= Len(string) => IsSeparator(string, WalkedEnd(string, i))
         /\ \A j \in PartStart(string, i)..WalkedEnd(string, i) - 1 : ~IsSeparator(string, j)
  <1> DEFINE s == PartStart(string, i)
             e == WalkedEnd(string, i)
  <1>1. /\ Len(string) \in Nat /\ s \in {i, i + 1} /\ s \in 1..Len(string) + 1
        /\ \A j \in 1..Len(string) : IsSeparator(string, j) <=> string[j] = Separator
    BY PartStartIs
  <1>2. /\ e \in s..Len(string) + 1
        /\ e <= Len(string) => string[e] \in {Separator}
        /\ \A j \in s..e - 1 : string[j] \notin {Separator}
    <2> HIDE DEF s
    <2> QED
      BY <1>1, NextOfLeast DEF WalkedEnd, s
  <1>3. s = i => ~IsSeparator(string, i)
    BY DEF PartStart
  <1> QED
    BY <1>1, <1>2, <1>3

LEMMA WalkedIs ==
  ASSUME NEW C, NEW string \in Seq(C)
  PROVE  \E F \in [1..Len(string) + 1 -> Seq(Seq(C))] :
           /\ Walked(string) = F[1]
           /\ \A i \in 1..Len(string) + 1 : F[i] = WalkedStep(string, F, i)
  <1> DEFINE n == Len(string)
             top == n + 1
             next == [i \in 1..top |->
                        IF PartStart(string, i) <= n THEN WalkedEnd(string, i) ELSE 0]
             piece == [i \in 1..top |->
                        SubSeq(string, PartStart(string, i),
                               IF PartStart(string, i) <= n THEN WalkedEnd(string, i) - 1 ELSE n)]
             Body(F) == [i \in 1..top |-> WalkedStep(string, F, i)]
  <1>1. n \in Nat /\ top \in Nat \ {0} /\ 1 \in 1..top
    OBVIOUS
  <1>2. Onward(next, top)
    <2>1. \A i \in 1..top : PartStart(string, i) \in 1..top
      BY PartStartIs
    <2>2. \A i \in 1..top :
             PartStart(string, i) <= n => WalkedEnd(string, i) \in 0..top /\ WalkedEnd(string, i) > i
      <3> SUFFICES ASSUME NEW i \in 1..top, PartStart(string, i) <= n
                   PROVE  WalkedEnd(string, i) \in 0..top /\ WalkedEnd(string, i) > i
        OBVIOUS
      <3>1. PartStart(string, i) <= n
        BY <1>1, <2>1
      <3> QED
        BY <1>1, <2>1, <3>1, WalkedEndIs
    <2> QED
      BY <2>2 DEF Onward
  <1>3. piece \in [1..top -> Seq(C)]
    <2> SUFFICES ASSUME NEW i \in 1..top PROVE piece[i] \in Seq(C)
      OBVIOUS
    <2>1. PartStart(string, i) \in 1..top
      BY PartStartIs
    <2>2. PartStart(string, i) <= n => WalkedEnd(string, i) \in 1..top
      BY <1>1, <2>1, WalkedEndIs
    <2>3. PICK last \in 0..n : piece[i] = SubSeq(string, PartStart(string, i), last)
      <3>1. piece[i] = SubSeq(string, PartStart(string, i),
                              IF PartStart(string, i) <= n THEN WalkedEnd(string, i) - 1 ELSE n)
        OBVIOUS
      <3> HIDE DEF piece
      <3>2. (IF PartStart(string, i) <= n THEN WalkedEnd(string, i) - 1 ELSE n) \in 0..n
        BY <1>1, <2>1, <2>2
      <3> QED
        BY <3>1, <3>2
    <2>4. \A j \in PartStart(string, i)..last : string[j] \in C
      BY <1>1, <2>1, ElementOfSeq
    <2> HIDE DEF piece
    <2> QED
      BY <2>1, <2>3, <2>4, SubSeqProperties
  <1>4. PICK F \in [1..top -> Seq(Seq(C))] : IsCut(F, next, piece, top)
    <2> HIDE DEF n, top, next, piece
    <2> QED
      BY <1>1, <1>2, <1>3, CutExists
  <1>5. ASSUME NEW G, NEW i \in 1..top
        PROVE  (IF next[i] = 0 THEN <<>> ELSE <<piece[i]>> \o G[next[i]]) = WalkedStep(string, G, i)
    <2>1. PartStart(string, i) \in 1..top
      BY PartStartIs
    <2>2. PartStart(string, i) <= n => WalkedEnd(string, i) # 0
      BY <1>1, <2>1, WalkedEndIs
    <2>3. CASE PartStart(string, i) <= n
      BY <1>1, <2>1, <2>2, <2>3 DEF WalkedStep
    <2>4. CASE PartStart(string, i) > n
      BY <1>1, <2>1, <2>4 DEF WalkedStep
    <2>5. PartStart(string, i) <= n \/ PartStart(string, i) > n
      BY <1>1, <2>1
    <2> HIDE DEF n, top, next, piece
    <2> QED
      BY <2>3, <2>4, <2>5
  <1>6. F = Body(F)
    <2> HIDE DEF n, top, next, piece
    <2> QED
      BY <1>4, <1>5 DEF IsCut
  <1> DEFINE W == CHOOSE G : G = Body(G)
  <1>7. W = Body(W)
    <2> HIDE DEF Body
    <2> QED
      BY <1>6
  <1>8. Walked(string) = W[1]
    BY DEF Walked, WalkedStep, WalkedEnd
  <1>9. F[1] = W[1]
    <2> HIDE DEF W
    <2>1. \A i \in 1..top : W[i] = WalkedStep(string, W, i)
      BY <1>7
    <2> HIDE DEF n, top, next, piece
    <2>2. IsCut(W, next, piece, top)
      BY <1>5, <2>1 DEF IsCut
    <2>3. \A i \in 1..top : F[i] = W[i]
      BY <1>1, <1>2, <1>4, <2>2, CutIsOne
    <2> QED
      BY <1>1, <2>3
  <1>10. \A i \in 1..top : F[i] = WalkedStep(string, F, i)
    <2> HIDE DEF n, top, next, piece
    <2> QED
      BY <1>4, <1>5 DEF IsCut
  <1> QED
    BY <1>8, <1>9, <1>10

(* A place in front of a part, or at the end of the last one.              *)
Break(string, i) ==
  \/ i = 1 \/ IsSeparator(string, i)
  \/ i = Len(string) + 1 /\ Len(string) >= PartStart(string, 1) /\ ~IsSeparator(string, Len(string))

OffsetsFrom(string, x) == {b \in Offsets(string) : b >= x}

FirstOffset(string, i) ==
  IF i = Len(string) + 1 /\ i > 1 THEN Len(string) + 2 ELSE PartStart(string, i)

LEMMA OffsetIs ==
  ASSUME NEW C, NEW string \in Seq(C)
  PROVE  /\ Offsets(string) \subseteq Nat
         /\ \A b : b \in Offsets(string) <=>
              \/ b = PartStart(string, 1)
              \/ \E j \in PartStart(string, 1)..Len(string) : IsSeparator(string, j) /\ b = j + 1
              \/ /\ b = Len(string) + 2
                 /\ Len(string) >= PartStart(string, 1) /\ ~IsSeparator(string, Len(string))
  <1>1. Len(string) \in Nat /\ PartStart(string, 1) \in Nat
    BY DEF PartStart
  <1>2. \A b : b \in Offsets(string) <=>
              \/ b = PartStart(string, 1)
              \/ \E j \in PartStart(string, 1)..Len(string) : IsSeparator(string, j) /\ b = j + 1
              \/ /\ b = Len(string) + 2
                 /\ Len(string) >= PartStart(string, 1) /\ ~IsSeparator(string, Len(string))
    BY DEF Offsets
  <1>3. \A b \in Offsets(string) : b \in Nat
    BY <1>1, <1>2
  <1> QED
    BY <1>2, <1>3

LEMMA OffsetsLast ==
  ASSUME NEW C, NEW string \in Seq(C), NEW i \in 1..Len(string) + 1, Break(string, i),
         PartStart(string, i) > Len(string)
  PROVE  OffsetsFrom(string, PartStart(string, i)) = {FirstOffset(string, i)}
  <1> DEFINE n == Len(string)
             start == PartStart(string, 1)
  <1>0. n \in Nat
    OBVIOUS
  <1>1. \A b : b \in Offsets(string) <=>
          \/ b = start
          \/ \E j \in start..n : IsSeparator(string, j) /\ b = j + 1
          \/ b = n + 2 /\ n >= start /\ ~IsSeparator(string, n)
    BY OffsetIs
  <1>2. /\ start \in {1, 2} /\ PartStart(string, i) \in {i, i + 1}
        /\ PartStart(string, i) \in 1..n + 1
    <2>1. 1 \in 1..n + 1
      BY <1>0
    <2> QED
      BY <2>1, PartStartIs
  <1>3. PartStart(string, i) = n + 1
    BY <1>0, <1>2
  <1>4. CASE i = 1
    <2>1. start = n + 1 /\ FirstOffset(string, i) = start
      BY <1>3, <1>4 DEF FirstOffset
    <2> QED
      BY <1>0, <1>1, <1>4, <2>1 DEF OffsetsFrom
  <1>5. CASE i # 1 /\ IsSeparator(string, i)
    <2>1. i = n /\ n \in Nat /\ FirstOffset(string, i) = n + 1
      BY <1>0, <1>3, <1>5 DEF FirstOffset, PartStart
    <2>2. n \in start..n
      BY <1>0, <1>2, <1>5, <2>1
    <2> HIDE DEF start
    <2>3. n + 1 \in Offsets(string)
      BY <1>1, <1>5, <2>1, <2>2
    <2>4. \A b \in Offsets(string) : b >= n + 1 => b = n + 1
      BY <1>0, <1>1, <1>2, <1>5, <2>1, <2>2
    <2> QED
      BY <1>3, <2>1, <2>3, <2>4 DEF OffsetsFrom
  <1>6. CASE i # 1 /\ ~IsSeparator(string, i)
    <2>1. i = n + 1 /\ n >= start /\ ~IsSeparator(string, n) /\ FirstOffset(string, i) = n + 2
      BY <1>0, <1>6 DEF Break, FirstOffset
    <2> HIDE DEF start
    <2>2. n + 2 \in Offsets(string)
      BY <1>1, <2>1
    <2>3. \A b \in Offsets(string) : b >= n + 1 => b = n + 2
      BY <1>0, <1>1, <1>2, <2>1
    <2> QED
      BY <1>0, <1>3, <2>1, <2>2, <2>3 DEF OffsetsFrom
  <1> QED
    BY <1>4, <1>5, <1>6

LEMMA OffsetsOn ==
  ASSUME NEW C, NEW string \in Seq(C), NEW i \in 1..Len(string) + 1, Break(string, i),
         PartStart(string, i) <= Len(string)
  PROVE  LET s == PartStart(string, i)
             e == WalkedEnd(string, i)
         IN  /\ Break(string, e) /\ PartStart(string, e) > s
             /\ FirstOffset(string, i) = s /\ FirstOffset(string, e) = e + 1
             /\ OffsetsFrom(string, s) = {s} \cup OffsetsFrom(string, PartStart(string, e))
  <1> DEFINE n == Len(string)
             start == PartStart(string, 1)
             s == PartStart(string, i)
             e == WalkedEnd(string, i)
  <1>0. n \in Nat
    OBVIOUS
  <1>1. \A b : b \in Offsets(string) <=>
          \/ b = start
          \/ \E j \in start..n : IsSeparator(string, j) /\ b = j + 1
          \/ b = n + 2 /\ n >= start /\ ~IsSeparator(string, n)
    BY OffsetIs
  <1>2. start \in {1, 2} /\ s \in {i, i + 1} /\ s \in 1..n /\ start <= s /\ (i = 1 => s = start)
    <2>1. 1 \in 1..n + 1
      BY <1>0
    <2>2. start \in {1, 2} /\ s \in {i, i + 1} /\ s \in 1..n + 1
      BY <2>1, PartStartIs
    <2>3. i = 1 => s = start
      OBVIOUS
    <2> QED
      BY <1>0, <2>2, <2>3
  <1>3. /\ e \in s..n + 1 /\ e > i
        /\ e <= n => IsSeparator(string, e)
        /\ \A j \in s..e - 1 : ~IsSeparator(string, j)
    BY WalkedEndIs
  <1>4. e = n + 1 => ~IsSeparator(string, n) /\ n >= start /\ PartStart(string, e) = n + 1
    <2>1. e = n + 1 => n \in s..e - 1
      BY <1>0, <1>2
    <2>2. e = n + 1 => PartStart(string, e) = n + 1
      BY <1>0, PartStartIs
    <2> QED
      BY <1>0, <1>2, <1>3, <2>1, <2>2
  <1>5. e <= n => PartStart(string, e) = e + 1
    BY <1>3 DEF PartStart
  <1>6. Break(string, e)
    BY <1>0, <1>2, <1>3, <1>4 DEF Break
  <1>7. FirstOffset(string, i) = s
    BY <1>0, <1>2, <1>3 DEF FirstOffset
  <1>8. FirstOffset(string, e) = e + 1
    BY <1>0, <1>2, <1>3, <1>5 DEF FirstOffset
  <1>9. s \in Offsets(string)
    <2>1. CASE s = start
      BY <1>1, <2>1
    <2>2. CASE s # start
      <3>1. i # 1 /\ ~(i = n + 1)
        BY <1>0, <1>2, <1>3, <2>2
      <3>2. IsSeparator(string, i)
        BY <3>1 DEF Break
      <3>3. s = i + 1 /\ i \in start..n
        BY <1>0, <1>2, <2>2, <3>1, <3>2 DEF PartStart
      <3> QED
        BY <1>1, <3>2, <3>3
    <2> QED
      BY <2>1, <2>2
  <1> HIDE DEF n, start, s, e
  <1>10. PartStart(string, e) > s
    BY <1>0, <1>2, <1>3, <1>4, <1>5
  <1>11. ASSUME NEW b \in Offsets(string), b >= s, b # s PROVE b >= PartStart(string, e)
    <2>1. CASE b = start
      BY <1>2, <1>11, <2>1
    <2>2. ASSUME NEW j \in start..n, IsSeparator(string, j), b = j + 1 PROVE b >= PartStart(string, e)
      <3>1. j >= s /\ j \notin s..e - 1
        BY <1>0, <1>2, <1>3, <1>11, <2>2
      <3>2. j >= e
        BY <1>0, <1>2, <1>3, <3>1
      <3> QED
        BY <1>0, <1>2, <1>3, <1>4, <1>5, <2>2, <3>2
    <2>3. CASE b = n + 2
      BY <1>0, <1>2, <1>3, <1>4, <1>5, <2>3
    <2> QED
      BY <1>1, <2>1, <2>2, <2>3
  <1>12. ASSUME NEW b \in Offsets(string), b >= PartStart(string, e) PROVE b >= s
    <2>1. b \in Nat /\ PartStart(string, e) \in Nat
      BY <1>0, <1>2, <1>3, <1>4, <1>5, OffsetIs
    <2> QED
      BY <1>2, <1>10, <1>12, <2>1
  <1>13. OffsetsFrom(string, s) = {s} \cup OffsetsFrom(string, PartStart(string, e))
    <2>1. s \in OffsetsFrom(string, s)
      BY <1>0, <1>2, <1>9 DEF OffsetsFrom
    <2>2. OffsetsFrom(string, PartStart(string, e)) \subseteq OffsetsFrom(string, s)
      BY <1>12 DEF OffsetsFrom
    <2>3. OffsetsFrom(string, s) \subseteq {s} \cup OffsetsFrom(string, PartStart(string, e))
      BY <1>11 DEF OffsetsFrom
    <2> QED
      BY <2>1, <2>2, <2>3
  <1> QED
    BY <1>6, <1>7, <1>8, <1>10, <1>13 DEF s, e

(* What is walked from place i on are the parts between c's offsets.       *)
IsReading(string, w, i, m, c) ==
  /\ m \in Nat \ {0} /\ c \in [1..m -> Nat]
  /\ \A p, q \in 1..m : p < q => c[p] < c[q]
  /\ {c[p] : p \in 1..m} = OffsetsFrom(string, PartStart(string, i))
  /\ c[1] = FirstOffset(string, i)
  /\ w = [p \in 1..m - 1 |-> SubSeq(string, c[p], c[p + 1] - 2)]

LEMMA ReadLast ==
  ASSUME NEW C, NEW string \in Seq(C), NEW i \in 1..Len(string) + 1, Break(string, i),
         PartStart(string, i) > Len(string)
  PROVE  \E m, c : IsReading(string, <<>>, i, m, c)
  <1> DEFINE c == [p \in 1..1 |-> FirstOffset(string, i)]
  <1>1. OffsetsFrom(string, PartStart(string, i)) = {FirstOffset(string, i)}
    BY OffsetsLast
  <1>2. FirstOffset(string, i) \in Nat
    BY <1>1, OffsetIs DEF OffsetsFrom
  <1>3. IsReading(string, <<>>, i, 1, c)
    BY <1>1, <1>2 DEF IsReading
  <1> QED
    BY <1>3

LEMMA ConsIs ==
  ASSUME NEW S, NEW first \in S, NEW n \in Nat, NEW w \in [1..n -> S]
  PROVE  <<first>> \o w = [p \in 1..n + 1 |-> IF p = 1 THEN first ELSE w[p - 1]]
  <1> DEFINE v == <<first>> \o w
  <1>1. w \in Seq(S) /\ Len(w) = n /\ <<first>> \in Seq(S) /\ Len(<<first>>) = 1 /\ <<first>>[1] = first
    OBVIOUS
  <1>2. /\ v \in Seq(S) /\ Len(v) = 1 + n
        /\ \A p \in 1..1 + n : v[p] = IF p <= 1 THEN <<first>>[p] ELSE w[p - 1]
    BY <1>1, ConcatProperties
  <1> HIDE DEF v
  <1>3. v = [p \in 1..n + 1 |-> v[p]]
    BY <1>2
  <1>4. \A p \in 1..n + 1 : v[p] = IF p = 1 THEN first ELSE w[p - 1]
    <2> SUFFICES ASSUME NEW p \in 1..n + 1 PROVE v[p] = IF p = 1 THEN first ELSE w[p - 1]
      OBVIOUS
    <2>1. p \in 1..1 + n /\ (p <= 1 <=> p = 1)
      OBVIOUS
    <2> QED
      BY <1>1, <1>2, <2>1
  <1> QED
    BY <1>3, <1>4 DEF v

LEMMA ReadOn ==
  ASSUME NEW C, NEW string \in Seq(C), NEW i \in 1..Len(string) + 1, Break(string, i),
         PartStart(string, i) <= Len(string),
         NEW w, NEW k, NEW d, IsReading(string, w, WalkedEnd(string, i), k, d)
  PROVE  \E m, c : IsReading(string,
           <<SubSeq(string, PartStart(string, i), WalkedEnd(string, i) - 1)>> \o w, i, m, c)
  <1> DEFINE s == PartStart(string, i)
             e == WalkedEnd(string, i)
             c == [p \in 1..k + 1 |-> IF p = 1 THEN s ELSE d[p - 1]]
             Piece(p) == SubSeq(string, c[p], c[p + 1] - 2)
  <1>1. /\ k \in Nat \ {0} /\ d \in [1..k -> Nat] /\ d[1] = e + 1
        /\ \A p, q \in 1..k : p < q => d[p] < d[q]
        /\ {d[p] : p \in 1..k} = OffsetsFrom(string, PartStart(string, e))
        /\ w = [p \in 1..k - 1 |-> SubSeq(string, d[p], d[p + 1] - 2)]
    BY OffsetsOn DEF IsReading
  <1>2. /\ OffsetsFrom(string, s) = {s} \cup OffsetsFrom(string, PartStart(string, e))
        /\ FirstOffset(string, i) = s
    BY OffsetsOn
  <1>3. s \in Nat /\ e \in Nat /\ s <= e
    BY PartStartIs, WalkedEndIs
  <1> HIDE DEF s, e
  <1>4. c \in [1..k + 1 -> Nat] /\ c[1] = s /\ \A p \in 2..k + 1 : p - 1 \in 1..k /\ c[p] = d[p - 1]
    BY <1>1, <1>3
  <1>5. \A p \in 1..k : d[p] > s
    <2> SUFFICES ASSUME NEW p \in 1..k PROVE d[p] > s
      OBVIOUS
    <2>1. d[p] \in Nat /\ (p = 1 \/ d[1] < d[p])
      BY <1>1
    <2> QED
      BY <1>1, <1>3, <2>1
  <1>6. ASSUME NEW p \in 1..k + 1, NEW q \in 1..k + 1, p < q PROVE c[p] < c[q]
    <2>1. q \in 2..k + 1
      BY <1>1, <1>6
    <2>2. CASE p = 1
      BY <1>4, <1>5, <2>1, <2>2
    <2>3. CASE p # 1
      <3>1. p - 1 \in 1..k /\ q - 1 \in 1..k /\ p - 1 < q - 1
        BY <1>1, <1>6, <2>1, <2>3
      <3>2. c[p] = d[p - 1] /\ c[q] = d[q - 1]
        BY <2>3, <3>1
      <3> HIDE DEF c
      <3> QED
        BY <1>1, <3>1, <3>2
    <2> QED
      BY <2>2, <2>3
  <1>7. {c[p] : p \in 1..k + 1} = {s} \cup {d[p] : p \in 1..k}
    <2>1. \A p \in 1..k : p + 1 \in 2..k + 1 /\ c[p + 1] = d[p]
      BY <1>1, <1>4
    <2>2. 1 \in 1..k + 1 /\ c[1] = s
      BY <1>1, <1>4
    <2>3. \A p \in 1..k : p + 1 \in 1..k + 1
      BY <1>1
    <2>4. \A p \in 1..k + 1 : p = 1 \/ p \in 2..k + 1
      BY <1>1
    <2> HIDE DEF c
    <2>5. ASSUME NEW p \in 1..k + 1 PROVE c[p] \in {s} \cup {d[q] : q \in 1..k}
      <3>1. CASE p = 1
        BY <2>2, <3>1
      <3>2. CASE p \in 2..k + 1
        <4>1. p - 1 \in 1..k /\ c[p] = d[p - 1]
          BY <1>4, <3>2
        <4> QED
          BY <4>1
      <3> QED
        BY <2>4, <3>1, <3>2
    <2>6. ASSUME NEW p \in 1..k PROVE d[p] \in {c[q] : q \in 1..k + 1}
      <3>1. p + 1 \in 1..k + 1 /\ d[p] = c[p + 1]
        BY <2>1, <2>3
      <3> QED
        BY <3>1
    <2>7. s \in {c[q] : q \in 1..k + 1}
      BY <2>2
    <2> QED
      BY <2>5, <2>6, <2>7
  <1>8. <<SubSeq(string, s, e - 1)>> \o w = [p \in 1..k |-> Piece(p)]
    <2>1. PICK n \in Nat : k = n + 1 /\ k - 1 = n
      BY <1>1
    <2> DEFINE first == SubSeq(string, s, e - 1)
               S == {w[p] : p \in 1..n} \cup {first}
    <2>2. w \in [1..n -> S] /\ \A p \in 1..n : w[p] = SubSeq(string, d[p], d[p + 1] - 2)
      BY <1>1, <2>1
    <2>3. first \in S
      OBVIOUS
    <2> HIDE DEF c, S, first
    <2>4. <<first>> \o w = [p \in 1..n + 1 |-> IF p = 1 THEN first ELSE w[p - 1]]
      BY <2>2, <2>3, ConsIs
    <2>5. ASSUME NEW p \in 1..n + 1 PROVE (IF p = 1 THEN first ELSE w[p - 1]) = Piece(p)
      <3>1. CASE p = 1
        <4>1. 2 \in 2..k + 1 /\ 2 - 1 = 1 /\ 1 + 1 = 2
          BY <1>1
        <4>2. c[1] = s /\ c[2] = e + 1 /\ e + 1 - 2 = e - 1
          BY <1>1, <1>3, <1>4, <4>1
        <4>3. c[p] = s /\ c[p + 1] - 2 = e - 1
          BY <1>3, <3>1, <4>1, <4>2
        <4> QED
          BY <3>1, <4>3 DEF first
      <3>2. CASE p # 1
        <4>1. p - 1 \in 1..n /\ p - 1 + 1 = p /\ p \in 2..k + 1 /\ p + 1 \in 2..k + 1 /\ p + 1 - 1 = p
          BY <2>1, <3>2
        <4>2. c[p] = d[p - 1] /\ c[p + 1] = d[p]
          BY <1>4, <4>1
        <4>3. w[p - 1] = SubSeq(string, d[p - 1], d[p] - 2)
          BY <2>2, <4>1
        <4> QED
          BY <3>2, <4>2, <4>3
      <3> QED
        BY <3>1, <3>2
    <2> HIDE DEF Piece
    <2> QED
      BY <2>1, <2>4, <2>5 DEF first
  <1>9. \A p, q \in 1..k + 1 : p < q => c[p] < c[q]
    BY <1>6
  <1>10. PartStart(string, i) = s /\ k + 1 \in Nat \ {0} /\ k + 1 - 1 = k
    BY <1>1 DEF s
  <1> HIDE DEF c
  <1>11. IsReading(string, <<SubSeq(string, s, e - 1)>> \o w, i, k + 1, c)
    <2>1. PICK m : m = k + 1 /\ m - 1 = k
      BY <1>1
    <2>2. c[1] = FirstOffset(string, i)
      BY <1>2, <1>4
    <2> DEFINE v == <<SubSeq(string, s, e - 1)>> \o w
    <2>3. v = [p \in 1..m - 1 |-> SubSeq(string, c[p], c[p + 1] - 2)]
      BY <1>8, <1>10, <2>1
    <2>4. m \in Nat \ {0} /\ c \in [1..m -> Nat] /\ \A p, q \in 1..m : p < q => c[p] < c[q]
      BY <1>4, <1>9, <1>10, <2>1
    <2>5. {c[p] : p \in 1..m} = OffsetsFrom(string, PartStart(string, i))
      BY <1>1, <1>2, <1>7, <1>10, <2>1
    <2> HIDE DEF v
    <2>6. IsReading(string, v, i, m, c)
      BY <2>2, <2>3, <2>4, <2>5 DEF IsReading
    <2> QED
      BY <2>1, <2>6 DEF v
  <1> QED
    BY <1>11 DEF s, e

(* The two ways in which the code cuts a name into parts agree, whatever   *)
(* separators it starts or ends with or has in a row.                      *)
THEOREM NamesReadAlike ==
  ASSUME NEW C, NEW string \in Seq(C)
  PROVE  Walked(string) = Parsed(string)
  <1> DEFINE n == Len(string)
  <1>1. PICK F \in [1..n + 1 -> Seq(Seq(C))] :
          Walked(string) = F[1] /\ \A i \in 1..n + 1 : F[i] = WalkedStep(string, F, i)
    BY WalkedIs
  <1> DEFINE Fine(i) == Break(string, i) => \E m, c : IsReading(string, F[i], i, m, c)
             T == {k \in 0..n : ~Fine(n + 1 - k)}
  <1>2. n \in Nat
    OBVIOUS
  <1>3. ASSUME NEW i \in 1..n + 1, \A j \in 1..n + 1 : j > i => Fine(j) PROVE Fine(i)
    <2> SUFFICES ASSUME Break(string, i) PROVE \E m, c : IsReading(string, F[i], i, m, c)
      OBVIOUS
    <2>1. PartStart(string, i) \in 1..n + 1
      BY PartStartIs
    <2>2. CASE PartStart(string, i) > n
      BY <1>1, <2>2, ReadLast DEF WalkedStep
    <2>3. CASE PartStart(string, i) <= n
      <3> DEFINE e == WalkedEnd(string, i)
      <3>1. e \in 1..n + 1 /\ e > i /\ Break(string, e)
        <4>1. e \in PartStart(string, i)..n + 1 /\ e > i
          BY <2>3, WalkedEndIs
        <4>2. Break(string, e)
          BY <2>3, OffsetsOn
        <4> QED
          BY <1>2, <2>1, <4>1, <4>2
      <3>2. PICK k, d : IsReading(string, F[e], e, k, d)
        BY <1>3, <3>1
      <3>3. F[i] = <<SubSeq(string, PartStart(string, i), WalkedEnd(string, i) - 1)>> \o F[e]
        BY <1>1, <1>2, <2>1, <2>3 DEF WalkedStep
      <3> QED
        BY <2>3, <3>2, <3>3, ReadOn
    <2> QED
      BY <1>2, <2>1, <2>2, <2>3
  <1> HIDE DEF Fine
  <1>4. T = {}
    <2> SUFFICES ASSUME T # {} PROVE FALSE
      OBVIOUS
    <2>1. T \in SUBSET Nat
      BY <1>2
    <2>2. PICK k \in T : \A j \in T : k <= j
      <3> HIDE DEF T
      <3> QED
        BY <2>1, LeastOf
    <2>3. k \in 0..n /\ n + 1 - k \in 1..n + 1 /\ ~Fine(n + 1 - k)
      BY <1>2
    <2>4. ASSUME NEW j \in 1..n + 1, j > n + 1 - k PROVE Fine(j)
      <3>1. n + 1 - j \in 0..n /\ n + 1 - (n + 1 - j) = j /\ ~(k <= n + 1 - j)
        BY <1>2, <2>3, <2>4
      <3>2. n + 1 - j \notin T
        BY <2>2, <3>1
      <3> QED
        BY <3>1, <3>2
    <2> QED
      BY <1>3, <2>3, <2>4
  <1>5. Fine(1)
    <2>1. n \in 0..n /\ n + 1 - n = 1
      BY <1>2
    <2> QED
      BY <1>4, <2>1
  <1>6. PICK m, c : IsReading(string, F[1], 1, m, c)
    BY <1>5 DEF Fine, Break
  <1>7. OffsetsFrom(string, PartStart(string, 1)) = Offsets(string)
    <2>1. PartStart(string, 1) \in Nat
      BY DEF PartStart
    <2>2. \A b \in Offsets(string) : b >= PartStart(string, 1)
      BY <1>2, <2>1, OffsetIs
    <2> QED
      BY <2>2 DEF OffsetsFrom
  <1>8. m \in Nat \ {0} /\ c \in [1..m -> Nat] /\ Components(string) = c
    BY <1>6, <1>7, AscendingIs DEF IsReading, Components
  <1>9. Parsed(string) = [p \in 1..m - 1 |-> SubSeq(string, c[p], c[p + 1] - 2)]
    <2>1. Len(c) = m
      BY <1>8
    <2> QED
      BY <1>8, <2>1 DEF Parsed
  <1> QED
    BY <1>1, <1>6, <1>9 DEF IsReading

-----------------------------------------------------------------------------
(* The lines of a GNRS file.                                               *)

LEMMA FieldAtIs ==
  ASSUME NEW C, NEW line \in Seq(C), NEW i \in 1..Len(line) + 1
  PROVE  \/ FieldAt(line, i) = 0
         \/ FieldAt(line, i) \in i..Len(line) /\ line[FieldAt(line, i)] # Blank
  <1> DEFINE starts == {j \in i..Len(line) : line[j] # Blank}
  <1>1. starts \in SUBSET Nat
    OBVIOUS
  <1>2. CASE starts = {}
    BY <1>2 DEF FieldAt
  <1>3. CASE starts # {}
    <2>1. FieldAt(line, i) = CHOOSE j \in starts : \A k \in starts : j <= k
      BY <1>3 DEF FieldAt
    <2>2. FieldAt(line, i) \in starts
      <3> HIDE DEF starts
      <3>1. \E j \in starts : \A k \in starts : j <= k
        BY <1>1, <1>3, LeastOf
      <3> QED
        BY <2>1, <3>1
    <2> QED
      BY <2>2
  <1> QED
    BY <1>2, <1>3

LEMMA FieldIs ==
  ASSUME NEW C, NEW line \in Seq(C), NEW i \in 1..Len(line), line[i] # Blank
  PROVE  /\ NextOf(line, {Blank}, i) \in i + 1..Len(line) + 1
         /\ Field(line, i) \in Seq(C)
         /\ Head(Field(line, i)) = line[i]
  <1> DEFINE e == NextOf(line, {Blank}, i)
  <1>1. Len(line) \in Nat
    OBVIOUS
  <1>2. e \in i + 1..Len(line) + 1
    <2>1. i \in 1..Len(line) + 1
      BY <1>1
    <2>2. e \in i..Len(line) + 1 /\ (e <= Len(line) => line[e] \in {Blank})
      BY <1>1, <2>1, NextOfLeast
    <2>3. e # i
      BY <1>1, <2>2
    <2> HIDE DEF e
    <2> QED
      BY <1>1, <2>2, <2>3
  <1> HIDE DEF e
  <1>3. e - 1 \in i..Len(line)
    BY <1>1, <1>2
  <1>4. Field(line, i) = SubSeq(line, i, e - 1)
    BY DEF Field, e
  <1>5. Head(SubSeq(line, i, e - 1)) = line[i]
    BY <1>3, HeadTailOfSubSeq
  <1>6. SubSeq(line, i, e - 1) \in Seq(C)
    <2>1. \A j \in i..e - 1 : line[j] \in C
      BY <1>1, <1>3, ElementOfSeq
    <2>2. i \in Int /\ e - 1 \in Int
      BY <1>1, <1>3
    <2> QED
      BY <2>1, <2>2, SubSeqProperties
  <1> QED
    BY <1>2, <1>4, <1>5, <1>6 DEF e

FieldsStep(line, F, i) ==
  IF FieldAt(line, i) = 0 THEN <<>>
  ELSE <<Field(line, FieldAt(line, i))>> \o F[NextOf(line, {Blank}, FieldAt(line, i))]

LEMMA FieldsIs ==
  ASSUME NEW C, NEW line \in Seq(C)
  PROVE  \E F \in [1..Len(line) + 1 -> Seq(Seq(C))] :
           /\ Fields(line) = F[1]
           /\ \A i \in 1..Len(line) + 1 : F[i] = FieldsStep(line, F, i)
  <1> DEFINE top == Len(line) + 1
             next == [i \in 1..top |-> IF FieldAt(line, i) = 0 THEN 0
                                       ELSE NextOf(line, {Blank}, FieldAt(line, i))]
             piece == [i \in 1..top |-> IF FieldAt(line, i) = 0 THEN <<>>
                                        ELSE Field(line, FieldAt(line, i))]
             Body(F) == [i \in 1..top |-> FieldsStep(line, F, i)]
  <1>1. Len(line) \in Nat /\ top \in Nat \ {0} /\ 1 \in 1..top
    OBVIOUS
  <1>2. ASSUME NEW i \in 1..top, FieldAt(line, i) # 0
        PROVE  /\ NextOf(line, {Blank}, FieldAt(line, i)) \in i + 1..top
               /\ Field(line, FieldAt(line, i)) \in Seq(C)
    <2>1. PICK f : f = FieldAt(line, i)
      OBVIOUS
    <2>2. f \in i..Len(line) /\ line[f] # Blank
      BY <1>2, <2>1, FieldAtIs
    <2>3. f \in 1..Len(line)
      BY <1>1, <2>2
    <2>4. NextOf(line, {Blank}, f) \in f + 1..top /\ Field(line, f) \in Seq(C)
      BY <2>2, <2>3, FieldIs
    <2>5. NextOf(line, {Blank}, f) \in i + 1..top
      BY <1>1, <2>2, <2>4
    <2> QED
      BY <2>1, <2>4, <2>5
  <1>3. Onward(next, top)
    <2> SUFFICES ASSUME NEW i \in 1..top
                 PROVE  next[i] \in 0..top /\ (next[i] = 0 \/ next[i] > i)
      BY DEF Onward
    <2>1. CASE FieldAt(line, i) = 0
      BY <1>1, <2>1
    <2>2. CASE FieldAt(line, i) # 0
      <3>1. next[i] = NextOf(line, {Blank}, FieldAt(line, i))
        BY <2>2
      <3> HIDE DEF next
      <3>2. next[i] \in i + 1..top
        BY <1>2, <2>2, <3>1
      <3> QED
        BY <1>1, <3>2
    <2> QED
      BY <2>1, <2>2
  <1>4. piece \in [1..top -> Seq(C)]
    <2>1. <<>> \in Seq(C)
      BY EmptySeq
    <2> QED
      BY <1>2, <2>1
  <1>5. PICK F \in [1..top -> Seq(Seq(C))] : IsCut(F, next, piece, top)
    <2> HIDE DEF top, next, piece
    <2> QED
      BY <1>1, <1>3, <1>4, CutExists
  <1>6. ASSUME NEW G, NEW i \in 1..top
        PROVE  (IF next[i] = 0 THEN <<>> ELSE <<piece[i]>> \o G[next[i]]) = FieldsStep(line, G, i)
    <2>1. CASE FieldAt(line, i) = 0
      BY <2>1 DEF FieldsStep
    <2>2. CASE FieldAt(line, i) # 0
      <3>1. next[i] = NextOf(line, {Blank}, FieldAt(line, i)) /\ piece[i] = Field(line, FieldAt(line, i))
        BY <2>2
      <3>2. next[i] # 0
        <4> HIDE DEF next
        <4>1. next[i] \in i + 1..top
          BY <1>2, <2>2, <3>1
        <4> QED
          BY <1>1, <4>1
      <3> HIDE DEF next, piece
      <3> QED
        BY <2>2, <3>1, <3>2 DEF FieldsStep
    <2> HIDE DEF next, piece, top
    <2> QED
      BY <2>1, <2>2
  <1>7. F = Body(F)
    <2> HIDE DEF top, next, piece
    <2> QED
      BY <1>5, <1>6 DEF IsCut
  <1> DEFINE W == CHOOSE G : G = Body(G)
  <1>8. W = Body(W)
    <2> HIDE DEF Body
    <2> QED
      BY <1>7
  <1>9. Fields(line) = W[1]
    BY DEF Fields, FieldsStep
  <1>10. F[1] = W[1]
    <2> HIDE DEF W
    <2>1. \A i \in 1..top : W[i] = FieldsStep(line, W, i)
      BY <1>8
    <2> HIDE DEF top, next, piece
    <2>2. IsCut(W, next, piece, top)
      BY <1>6, <2>1 DEF IsCut
    <2>3. \A i \in 1..top : F[i] = W[i]
      BY <1>1, <1>3, <1>5, <2>2, CutIsOne
    <2> QED
      BY <1>1, <2>3
  <1>11. \A i \in 1..top : F[i] = FieldsStep(line, F, i)
    <2> HIDE DEF top, next, piece
    <2> QED
      BY <1>5, <1>6 DEF IsCut
  <1> QED
    BY <1>9, <1>10, <1>11

(* The first two fields of a line, where the loop looks for them.          *)
Scanned(line, fields, C) ==
  LET cd == FieldAt(line, 1)
      end == NextOf(line, {Blank}, cd)
      rp == FieldAt(line, end)
  IN  /\ cd = 0 => Len(fields) = 0
      /\ cd # 0 =>
           /\ end \in 1..Len(line) + 1
           /\ fields[1] = Field(line, cd) /\ Field(line, cd) \in Seq(C)
           /\ Head(fields[1]) = line[cd]
           /\ end = Len(line) + 1 => rp = 0
           /\ rp = 0 => Len(fields) = 1
           /\ rp # 0 => /\ Len(fields) >= 2
                        /\ fields[2] = Field(line, rp) /\ Field(line, rp) \in Seq(C)

LEMMA FirstFields ==
  ASSUME NEW C, NEW line \in Seq(C)
  PROVE  Scanned(line, Fields(line), C)
  <1>0. PICK cd, end, rp :
          /\ cd = FieldAt(line, 1) /\ end = NextOf(line, {Blank}, cd)
          /\ rp = FieldAt(line, end)
    OBVIOUS
  <1> DEFINE top == Len(line) + 1
  <1>1. PICK F \in [1..top -> Seq(Seq(C))] :
          Fields(line) = F[1] /\ \A i \in 1..top : F[i] = FieldsStep(line, F, i)
    BY FieldsIs
  <1>2. Len(line) \in Nat /\ 1 \in 1..top
    OBVIOUS
  <1>3. CASE cd = 0
    <2>1. F[1] = <<>>
      BY <1>0, <1>1, <1>2, <1>3 DEF FieldsStep
    <2> QED
      BY <1>0, <1>1, <1>3, <2>1 DEF Scanned
  <1>4. CASE cd # 0
    <2>1. cd \in 1..Len(line) /\ line[cd] # Blank
      BY <1>0, <1>2, <1>4, FieldAtIs
    <2>2. end \in 1..top /\ Field(line, cd) \in Seq(C) /\ Head(Field(line, cd)) = line[cd]
      <3>1. end \in cd + 1..top /\ Field(line, cd) \in Seq(C) /\ Head(Field(line, cd)) = line[cd]
        BY <1>0, <2>1, FieldIs
      <3> QED
        BY <1>2, <2>1, <3>1
    <2>3. F[1] = <<Field(line, cd)>> \o F[end] /\ F[end] \in Seq(Seq(C))
      BY <1>0, <1>1, <1>2, <1>4, <2>2 DEF FieldsStep
    <2>4. /\ Len(F[1]) = 1 + Len(F[end]) /\ Len(F[end]) \in Nat
          /\ F[1][1] = Field(line, cd)
          /\ Len(F[end]) > 0 => F[1][2] = F[end][1]
      <3>1. \A p \in 1..1 + Len(F[end]) :
              (<<Field(line, cd)>> \o F[end])[p] =
                IF p <= 1 THEN <<Field(line, cd)>>[p] ELSE F[end][p - 1]
        BY <2>2, <2>3, ConcatProperties
      <3>2. Len(F[end]) \in Nat /\ Len(<<Field(line, cd)>> \o F[end]) = 1 + Len(F[end])
        BY <2>2, <2>3
      <3> QED
        BY <2>3, <3>1, <3>2
    <2>5. rp = 0 => F[end] = <<>>
      BY <1>0, <1>1, <2>2 DEF FieldsStep
    <2>6. ASSUME rp # 0
          PROVE  Field(line, rp) \in Seq(C) /\ Len(F[end]) > 0 /\ F[end][1] = Field(line, rp)
      <3>1. rp \in end..Len(line) /\ line[rp] # Blank
        BY <1>0, <2>2, <2>6, FieldAtIs
      <3>2. rp \in 1..Len(line)
        BY <1>2, <2>2, <3>1
      <3>3. NextOf(line, {Blank}, rp) \in rp + 1..top /\ Field(line, rp) \in Seq(C)
        BY <3>1, <3>2, FieldIs
      <3>4. PICK e \in 1..top : e = NextOf(line, {Blank}, rp)
        BY <1>2, <3>2, <3>3
      <3>5. F[end] = <<Field(line, rp)>> \o F[e] /\ F[e] \in Seq(Seq(C))
        <4>1. F[end] = FieldsStep(line, F, end) /\ F[e] \in Seq(Seq(C))
          BY <1>1, <2>2
        <4>2. FieldsStep(line, F, end) = <<Field(line, rp)>> \o F[e]
          BY <1>0, <2>6, <3>4 DEF FieldsStep
        <4> QED
          BY <4>1, <4>2
      <3>6. /\ Len(<<Field(line, rp)>> \o F[e]) = 1 + Len(F[e]) /\ Len(F[e]) \in Nat
            /\ (<<Field(line, rp)>> \o F[e])[1] = Field(line, rp)
        BY <3>3, <3>5
      <3> QED
        BY <3>3, <3>5, <3>6
    <2>7. end = top => rp = 0
      <3>1. rp # 0 => rp \in end..Len(line)
        BY <1>0, <2>2, FieldAtIs
      <3> QED
        BY <1>2, <3>1
    <2> QED
      BY <1>0, <1>1, <1>4, <2>2, <2>4, <2>5, <2>6, <2>7 DEF Scanned
  <1> QED
    BY <1>3, <1>4

-----------------------------------------------------------------------------
(* What the table holds.                                                   *)

TextOK ==
  /\ text \in Seq(Seq(STRING)) /\ allocated = Len(text)
  /\ \A name \in DOMAIN vals : vals[name] \in 1..allocated

WrittenInv == TextOK /\ AsWritten

LEMMA BindWrites ==
  ASSUME TextOK, NEW name, NEW rp \in Seq(STRING), Bind(name, rp)
  PROVE  /\ TextOK'
         /\ DOMAIN vals' = DOMAIN vals \cup {name}
         /\ text'[vals'[name]] = rp
         /\ \A n \in DOMAIN vals \ {name} : text'[vals'[n]] = text[vals[n]]
  <1>1. /\ allocated' = allocated + 1 /\ text' = Append(text, rp)
        /\ vals' = [n \in DOMAIN vals \cup {name} |-> IF n = name THEN allocated + 1 ELSE vals[n]]
    BY DEF Bind, Set
  <1>2. text \in Seq(Seq(STRING)) /\ allocated = Len(text) /\ allocated \in Nat
    BY DEF TextOK
  <1>3. /\ text' \in Seq(Seq(STRING)) /\ Len(text') = allocated + 1
        /\ \A i \in 1..allocated : text'[i] = text[i]
        /\ text'[allocated + 1] = rp
    BY <1>1, <1>2, AppendProperties
  <1>4. \A n \in DOMAIN vals : vals[n] \in 1..allocated
    BY DEF TextOK
  <1>5. \A n \in DOMAIN vals' : vals'[n] \in 1..allocated'
    BY <1>1, <1>2, <1>4
  <1> QED
    BY <1>1, <1>3, <1>4, <1>5 DEF TextOK

LEMMA LineWrites ==
  ASSUME WrittenInv, NEW line \in Lines, NEW terminated \in BOOLEAN, Line(line, terminated)
  PROVE  WrittenInv'
  <1>1. PICK cd, end, rp : cd = FieldAt(line, 1) /\ end = NextOf(line, {Blank}, cd)
                           /\ rp = FieldAt(line, end)
    OBVIOUS
  <1>2. line \in Seq(STRING)
    BY FileAssumption
  <1> DEFINE fields == Fields(line)
             comment == line[cd] = Comment
             name == Field(line, cd)
  <1>3. /\ cd = 0 => Len(fields) = 0
        /\ cd # 0 =>
             /\ end \in 1..Len(line) + 1
             /\ fields[1] = name /\ name \in Seq(STRING) /\ Head(fields[1]) = line[cd]
             /\ end = Len(line) + 1 => rp = 0
             /\ rp = 0 => Len(fields) = 1
             /\ rp # 0 => Len(fields) >= 2 /\ fields[2] = Field(line, rp) /\ Field(line, rp) \in Seq(STRING)
    <2>1. Scanned(line, fields, STRING)
      BY <1>2, FirstFields
    <2> HIDE DEF fields
    <2> QED
      BY <1>1, <2>1 DEF Scanned
  <1>4. TextOK /\ status = "reading" /\ AsWritten
    BY DEF WrittenInv, Line
  <1>5. DOMAIN vals = DOMAIN written /\ \A n \in DOMAIN vals : text[vals[n]] = written[n]
    BY <1>4 DEF AsWritten
  <1>6. PICK pairs \in Pairs(line, terminated) :
          IF pairs = {} THEN UNCHANGED <<nodes, vals, allocated, freed, text>>
          ELSE allocated < MaxLines /\ \E pair \in pairs : Bind(Walked(pair[1]), pair[2])
    BY DEF Line
  <1>7. /\ status' = IF terminated THEN "reading"
                     ELSE IF Len(fields) = 1 /\ Head(fields[1]) # Comment THEN "odd" ELSE "ended"
        /\ written' =
             IF Len(fields) < 2 \/ Head(fields[1]) = Comment THEN written
             ELSE [n \in DOMAIN written \cup {Parsed(fields[1])} |->
                     IF n = Parsed(fields[1]) THEN fields[2] ELSE written[n]]
    BY DEF Line
  <1>8. Pairs(line, terminated) =
          IF cd = 0 \/ comment THEN {{}}
          ELSE IF end > Len(line) /\ ~terminated
                 THEN {{<<name, name>>}} \cup (IF cd = 1 THEN {{}} ELSE {})
          ELSE IF rp = 0 THEN {{}}
          ELSE {{<<name, Field(line, rp)>>}}
    BY <1>1 DEF Pairs
  <1>9. ASSUME UNCHANGED <<nodes, vals, allocated, freed, text>>, UNCHANGED written
        PROVE  WrittenInv'
    BY <1>4, <1>5, <1>9 DEF WrittenInv, TextOK, AsWritten
  <1> HIDE DEF fields, name
  <1>10. CASE cd = 0 \/ comment
    <2>1. UNCHANGED <<nodes, vals, allocated, freed, text>>
      BY <1>6, <1>8, <1>10
    <2>2. Len(fields) < 2 \/ Head(fields[1]) = Comment
      BY <1>3, <1>10
    <2> QED
      BY <1>7, <1>9, <2>1, <2>2
  <1>11. CASE ~(cd = 0 \/ comment) /\ end > Len(line) /\ ~terminated
    <2>1. Len(line) \in Nat
      BY <1>2
    <2>2. Len(fields) = 1 /\ Head(fields[1]) # Comment /\ name \in Seq(STRING)
      BY <1>3, <1>11, <2>1
    <2>3. status' = "odd"
      BY <1>7, <1>11, <2>2
    <2>4. TextOK'
      <3>1. CASE pairs = {}
        BY <1>4, <1>6, <3>1 DEF TextOK
      <3>2. CASE pairs # {}
        <4>1. pairs = {<<name, name>>}
          BY <1>8, <1>11, <3>2
        <4>2. PICK pair \in pairs : Bind(Walked(pair[1]), pair[2])
          BY <1>6, <3>2
        <4>3. pair[2] \in Seq(STRING)
          BY <2>2, <4>1
        <4> QED
          BY <1>4, <4>2, <4>3, BindWrites
      <3> QED
        BY <3>1, <3>2
    <2> QED
      BY <2>3, <2>4 DEF WrittenInv, AsWritten
  <1>12. CASE ~(cd = 0 \/ comment) /\ ~(end > Len(line) /\ ~terminated) /\ rp = 0
    <2>1. UNCHANGED <<nodes, vals, allocated, freed, text>>
      BY <1>6, <1>8, <1>12
    <2>2. Len(fields) < 2
      <3>1. Len(fields) = 1
        BY <1>3, <1>12
      <3> QED
        BY <3>1
    <2> QED
      BY <1>7, <1>9, <2>1, <2>2
  <1>13. CASE ~(cd = 0 \/ comment) /\ ~(end > Len(line) /\ ~terminated) /\ rp # 0
    <2> DEFINE new == Field(line, rp)
    <2>1. pairs = {<<name, new>>}
      BY <1>8, <1>13
    <2>2. PICK pair \in pairs : Bind(Walked(pair[1]), pair[2])
      BY <1>6, <2>1
    <2>3. /\ Len(fields) >= 2 /\ fields[1] = name /\ fields[2] = new /\ Head(fields[1]) # Comment
          /\ name \in Seq(STRING) /\ new \in Seq(STRING) /\ ~(Len(fields) < 2)
      BY <1>3, <1>13
    <2> HIDE DEF new
    <2>4. pair[1] = name /\ pair[2] = new
      BY <2>1
    <2>5. PICK key : key = Walked(pair[1]) /\ key = Parsed(name)
      BY <2>3, <2>4, NamesReadAlike
    <2>6. written' = [n \in DOMAIN written \cup {key} |-> IF n = key THEN new ELSE written[n]]
      BY <1>7, <2>3, <2>5
    <2>7. /\ TextOK' /\ DOMAIN vals' = DOMAIN vals \cup {key} /\ text'[vals'[key]] = new
          /\ \A n \in DOMAIN vals \ {key} : text'[vals'[n]] = text[vals[n]]
      <3>1. pair[2] \in Seq(STRING)
        BY <2>3, <2>4
      <3>2. /\ TextOK' /\ DOMAIN vals' = DOMAIN vals \cup {Walked(pair[1])}
            /\ text'[vals'[Walked(pair[1])]] = pair[2]
            /\ \A n \in DOMAIN vals \ {Walked(pair[1])} : text'[vals'[n]] = text[vals[n]]
        BY <1>4, <2>2, <3>1, BindWrites
      <3> QED
        BY <2>4, <2>5, <3>2
    <2>8. \A n \in DOMAIN vals' : text'[vals'[n]] = written'[n]
      BY <1>5, <2>6, <2>7
    <2>9. DOMAIN vals' = DOMAIN written'
      BY <1>5, <2>6, <2>7
    <2> QED
      BY <2>8, <2>9, <2>7 DEF WrittenInv, AsWritten
  <1> QED
    BY <1>10, <1>11, <1>12, <1>13

(* The table says what the file says, for files of any length and lines of *)
(* any characters: parseGNRSFile finds the fields, and the table the parts *)
(* of the names, where hrc_cn_parse and a reader would.                    *)
THEOREM TableAsWritten == FileSpec => []AsWritten
  <1>1. FileInit => WrittenInv
    <2> SUFFICES ASSUME FileInit PROVE WrittenInv
      OBVIOUS
    <2>1. /\ DOMAIN vals = {} /\ DOMAIN written = {} /\ text = <<>> /\ allocated = 0
      BY DEF FileInit, Init
    <2>2. text \in Seq(Seq(STRING)) /\ Len(text) = 0
      BY <2>1, EmptySeq
    <2> QED
      BY <2>1, <2>2 DEF WrittenInv, TextOK, AsWritten
  <1>2. WrittenInv /\ [FileNext]_fileVars => WrittenInv'
    <2> SUFFICES ASSUME WrittenInv, [FileNext]_fileVars PROVE WrittenInv'
      OBVIOUS
    <2>1. CASE UNCHANGED fileVars
      BY <2>1 DEF fileVars, WrittenInv, TextOK, AsWritten
    <2>2. CASE FileNext
      BY <2>2, LineWrites DEF FileNext
    <2> QED
      BY <2>1, <2>2
  <1>3. WrittenInv => AsWritten
    BY DEF WrittenInv
  <1> QED
    BY <1>1, <1>2, <1>3, PTL DEF FileSpec
-----------------------------------------------------------------------------
(* MulticastTable.                                                         *)

(* The types, and the nodes closed under prefixes.                         *)
MulticastInv == MulticastTypeOK /\ PrefixClosed

LEMMA MulticastInvInit == MulticastInit => MulticastInv
  <1> SUFFICES ASSUME MulticastInit PROVE MulticastInv
    OBVIOUS
  <1>1. nodes = {<<>>} /\ valSets \in [nodes -> SUBSET MulticastVals]
    BY DEF MulticastInit
  <1> QED
    BY <1>1, InitClosed DEF MulticastInv, MulticastTypeOK

LEMMA InsertInv ==
  ASSUME MulticastInv, NEW name \in Names, NEW v \in MulticastVals, Insert(name, v)
  PROVE  MulticastInv'
  <1>1. nodes' = nodes \cup Path(name)
    BY DEF Insert
  <1>2. nodes' \subseteq Names
    BY <1>1, PathIsNames DEF MulticastInv, MulticastTypeOK
  <1>3. valSets' \in [nodes' -> SUBSET MulticastVals]
    BY DEF Insert, MulticastInv, MulticastTypeOK, ValsAt
  <1>4. PrefixClosed'
    BY <1>1, GrownClosed DEF MulticastInv
  <1> QED
    BY <1>2, <1>3, <1>4 DEF MulticastInv, MulticastTypeOK

LEMMA LeaveInv ==
  ASSUME MulticastInv, NEW name \in Names, NEW rest \in SUBSET MulticastVals, Leave(name, rest)
  PROVE  MulticastInv'
  <1> DEFINE held == (Holding \ {name}) \cup (IF rest = {} THEN {} ELSE {name})
  <1>1. nodes' = nodes \ Deleted(name, held)
    BY DEF Leave
  <1>2. nodes' \subseteq Names
    BY <1>1 DEF MulticastInv, MulticastTypeOK
  <1>3. valSets' \in [nodes' -> SUBSET MulticastVals]
    BY <1>1 DEF Leave, MulticastInv, MulticastTypeOK
  <1>4. nodes \subseteq Names /\ PrefixClosed
    BY DEF MulticastInv, MulticastTypeOK
  <1> HIDE DEF held
  <1>5. PrefixClosed'
    BY <1>1, <1>4, TrimmedClosed
  <1> QED
    BY <1>2, <1>3, <1>5 DEF MulticastInv, MulticastTypeOK

(* Both removes leave some of the values of the node.                      *)
LEMMA RemoveLeaves ==
  ASSUME MulticastInv, NEW name \in Names, NEW v \in MulticastVals, RemoveVal(name, v)
  PROVE  /\ name \in nodes
         /\ valSets[name] \ {v} \in SUBSET MulticastVals
         /\ Leave(name, valSets[name] \ {v})
  BY ExistsIffNode DEF RemoveVal, MulticastInv, MulticastTypeOK

LEMMA ClearLeaves ==
  ASSUME MulticastInv, NEW name \in Names, Clear(name)
  PROVE  name \in nodes /\ {} \in SUBSET MulticastVals /\ Leave(name, {})
  BY ExistsIffNode DEF Clear, MulticastInv

(* The induction step of Inv.                                              *)
LEMMA MulticastInvNext == MulticastInv /\ [MulticastNext]_multicastVars => MulticastInv'
  <1> SUFFICES ASSUME MulticastInv, [MulticastNext]_multicastVars PROVE MulticastInv'
    OBVIOUS
  <1>1. CASE UNCHANGED multicastVars
    BY <1>1 DEF multicastVars, MulticastInv, MulticastTypeOK, PrefixClosed
  <1>2. ASSUME NEW name \in Names, NEW v \in MulticastVals, Insert(name, v) PROVE MulticastInv'
    BY <1>2, InsertInv
  <1>3. ASSUME NEW name \in Names, NEW v \in MulticastVals, RemoveVal(name, v) PROVE MulticastInv'
    BY <1>3, RemoveLeaves, LeaveInv
  <1>4. ASSUME NEW name \in Names, Clear(name) PROVE MulticastInv'
    BY <1>4, ClearLeaves, LeaveInv
  <1> QED
    BY <1>1, <1>2, <1>3, <1>4 DEF MulticastNext

LEMMA MulticastInvariance == MulticastSpec => []MulticastInv
  BY MulticastInvInit, MulticastInvNext, PTL DEF MulticastSpec

(* In the trie that inserts have grown and removes have shed, every set is *)
(* one of values, and every node one of a name.                            *)
THEOREM MulticastTypeCorrect == MulticastSpec => []MulticastTypeOK
  <1>1. MulticastInv => MulticastTypeOK
    BY DEF MulticastInv
  <1> QED
    BY <1>1, MulticastInvariance, PTL

-----------------------------------------------------------------------------
(* Lookups.                                                                *)

LEMMA MulticastInvLookups == MulticastInv => SetsAgree
  <1> SUFFICES ASSUME MulticastInv, NEW name \in Names
               PROVE  /\ Lookup(name) = {v \in MulticastVals : \E i \in 0..Len(name) :
                                           <<Prefix(name, i), v>> \in Bindings}
                      /\ ExactMatches(name) = {v \in MulticastVals : <<name, v>> \in Bindings}
    BY DEF SetsAgree
  <1> USE DEF MulticastInv, MulticastTypeOK
  <1>0. Len(name) \in Nat
    BY NameIsSeq
  <1>1. ASSUME NEW n \in Names, NEW v
        PROVE  v \in ValsAt(n) <=> (v \in MulticastVals /\ <<n, v>> \in Bindings)
    BY DEF ValsAt, Bindings
  <1>2. ExactMatches(name) = {v \in MulticastVals : <<name, v>> \in Bindings}
    <2>1. ExactMatches(name) = ValsAt(name)
      BY ExistsIffNode DEF ExactMatches, ValsAt
    <2> QED
      BY <1>1, <2>1
  <1>3. ASSUME NEW i \in 0..Len(name), NEW v \in ValsAt(Prefix(name, i))
        PROVE  \A j \in 0..i : Prefix(name, j) \in nodes
    <2>1. Prefix(name, i) \in nodes
      BY <1>3 DEF ValsAt
    <2>2. Len(Prefix(name, i)) = i
      BY PrefixOfName
    <2>3. ASSUME NEW j \in 0..i PROVE Prefix(Prefix(name, i), j) \in nodes
      BY <2>1, <2>2, <2>3 DEF PrefixClosed, Path
    <2> QED
      BY <2>3, PrefixOfPrefix
  <1>4. ASSUME NEW v
        PROVE  v \in Lookup(name)
                 <=> (\E i \in 0..Len(name) : v \in ValsAt(Prefix(name, i)))
    BY <1>3 DEF Lookup
  <1>5. \A i \in 0..Len(name) : Prefix(name, i) \in Names
    BY PrefixOfName
  <1>6. ASSUME NEW v
        PROVE  v \in Lookup(name) <=>
                 (v \in MulticastVals /\ \E i \in 0..Len(name) : <<Prefix(name, i), v>> \in Bindings)
    BY <1>1, <1>4, <1>5
  <1> QED
    BY <1>2, <1>6

(* After any inserts and removes, a publication finds exactly the values   *)
(* bound to its name and to the prefixes of it.                            *)
THEOREM LookupsCorrect == MulticastSpec => []SetsAgree
  BY MulticastInvLookups, MulticastInvariance, PTL

-----------------------------------------------------------------------------
(* The bindings.                                                           *)

LEMMA InsertBindings ==
  ASSUME MulticastInv, NEW name \in Names, NEW v \in MulticastVals, Insert(name, v)
  PROVE  R!Insert(name, v)
  <1> USE DEF MulticastInv, MulticastTypeOK
  <1>1. name \in nodes'
    BY WholePrefix, NameIsSeq DEF Insert, Path
  <1>2. ASSUME NEW n, NEW u
        PROVE  <<n, u>> \in Bindings' <=> (<<n, u>> \in Bindings \/ <<n, u>> = <<name, v>>)
    BY <1>1 DEF Insert, Bindings, ValsAt
  <1>3. \A b \in Bindings' \cup Bindings : b = <<b[1], b[2]>>
    BY DEF Bindings
  <1> QED
    BY <1>2, <1>3 DEF R!Insert

LEMMA LeaveBindings ==
  ASSUME MulticastInv, NEW name \in Names, name \in nodes, NEW rest \in SUBSET valSets[name],
         Leave(name, rest)
  PROVE  Bindings' = {b \in Bindings : b[1] = name => b[2] \in rest}
  <1> USE DEF MulticastInv, MulticastTypeOK
  <1> DEFINE held == (Holding \ {name}) \cup (IF rest = {} THEN {} ELSE {name})
             gone == Deleted(name, held)
  <1>1. /\ nodes' = nodes \ gone
        /\ valSets' = [n \in nodes' |-> IF n = name THEN rest ELSE valSets[n]]
    BY DEF Leave
  <1>2. gone \cap held = {}
    BY DeletedHoldNothing
  <1>3. \A n \in nodes : n # name /\ valSets[n] # {} => n \in held
    BY DEF Holding
  <1>4. rest # {} => name \in held
    OBVIOUS
  <1> HIDE DEF gone, held
  <1>5. ASSUME NEW b \in Bindings' PROVE b \in Bindings /\ (b[1] = name => b[2] \in rest)
    BY <1>1 DEF Bindings
  <1>6. ASSUME NEW b \in Bindings, b[1] = name => b[2] \in rest PROVE b \in Bindings'
    <2>1. b[1] \in nodes /\ b[2] \in valSets[b[1]] /\ b \in nodes \X MulticastVals
      BY DEF Bindings
    <2>2. b[1] \in held
      BY <1>3, <1>4, <1>6, <2>1
    <2>3. b[1] \in nodes'
      BY <1>1, <1>2, <2>1, <2>2
    <2> QED
      BY <1>1, <1>6, <2>1, <2>3 DEF Bindings
  <1> QED
    BY <1>5, <1>6

(* Whatever nodes the trie makes and deletes, a call changes the bindings  *)
(* it is about and no other.                                               *)
THEOREM TrieIsRelation == MulticastSpec => ImplementsRelation
  <1>1. MulticastInit => R!Init
    BY DEF MulticastInit, R!Init, Bindings
  <1>2. MulticastInv /\ [MulticastNext]_multicastVars => [R!Next]_Bindings
    <2> SUFFICES ASSUME MulticastInv, [MulticastNext]_multicastVars PROVE [R!Next]_Bindings
      OBVIOUS
    <2> USE DEF MulticastInv, MulticastTypeOK
    <2>1. CASE UNCHANGED multicastVars
      BY <2>1 DEF multicastVars, Bindings
    <2>2. ASSUME NEW name \in Names, NEW v \in MulticastVals, Insert(name, v)
          PROVE  R!Insert(name, v)
      BY <2>2, InsertBindings
    <2>3. \A b \in Bindings : b = <<b[1], b[2]>> /\ b[2] \in MulticastVals /\ b[2] \in valSets[b[1]]
      BY DEF Bindings
    <2>4. ASSUME NEW name \in Names, NEW v \in MulticastVals, RemoveVal(name, v)
          PROVE  R!Remove(name, v)
      <3>1. Bindings' = {b \in Bindings : b[1] = name => b[2] \in valSets[name] \ {v}}
        BY <2>4, RemoveLeaves, LeaveBindings
      <3> QED
        BY <2>3, <3>1 DEF R!Remove
    <2>5. ASSUME NEW name \in Names, Clear(name)
          PROVE  R!Clear(name)
      <3>1. Bindings' = {b \in Bindings : b[1] = name => b[2] \in {}}
        BY <2>5, ClearLeaves, LeaveBindings
      <3> QED
        BY <2>3, <3>1 DEF R!Clear
    <2> QED
      BY <2>1, <2>2, <2>4, <2>5 DEF MulticastNext, R!Next
  <1> QED
    BY <1>1, <1>2, MulticastInvariance, PTL DEF MulticastSpec, ImplementsRelation, R!Spec

-----------------------------------------------------------------------------
(* No dead branches.                                                       *)

LEMMA InsertTrimmed ==
  ASSUME MulticastInv, NoEmptyLeaf, NEW name \in Names, NEW v \in MulticastVals, Insert(name, v)
  PROVE  NoEmptyLeaf'
  <1> SUFFICES ASSUME NEW n \in nodes' \ {<<>>}, IsLeaf(n)' PROVE valSets'[n] # {}
    BY DEF NoEmptyLeaf
  <1>1. nodes \subseteq Names /\ nodes' = nodes \cup Path(name)
    BY DEF MulticastInv, MulticastTypeOK, Insert
  <1>2. (n \in nodes /\ IsLeaf(n)) \/ n = name
    BY <1>1, GrownLeaf
  <1> QED
    BY <1>2 DEF NoEmptyLeaf, Insert, ValsAt

LEMMA LeaveTrimmed ==
  ASSUME MulticastInv, NoEmptyLeaf, NEW name \in Names, NEW rest, Leave(name, rest)
  PROVE  NoEmptyLeaf'
  <1> DEFINE held == (Holding \ {name}) \cup (IF rest = {} THEN {} ELSE {name})
  <1> SUFFICES ASSUME NEW n \in nodes' \ {<<>>}, IsLeaf(n)' PROVE valSets'[n] # {}
    BY DEF NoEmptyLeaf
  <1>1. nodes \subseteq Names /\ nodes' = nodes \ Deleted(name, held)
    BY DEF MulticastInv, MulticastTypeOK, Leave
  <1>2. valSets'[n] = IF n = name THEN rest ELSE valSets[n]
    BY DEF Leave
  <1>3. n \in nodes
    BY <1>1
  <1>4. n \in held => valSets'[n] # {}
    BY <1>2 DEF Holding
  <1> HIDE DEF held
  <1>5. n \in held \/ (IsLeaf(n) /\ n # name)
    BY <1>1, TrimmedLeaf
  <1> QED
    BY <1>2, <1>3, <1>4, <1>5 DEF NoEmptyLeaf

(* remove frees every node that nothing needs any more.                    *)
THEOREM MulticastIsTrimmed == MulticastSpec => []NoEmptyLeaf
  <1>1. MulticastInit => NoEmptyLeaf
    BY DEF MulticastInit, NoEmptyLeaf
  <1>2. MulticastInv /\ NoEmptyLeaf /\ [MulticastNext]_multicastVars => NoEmptyLeaf'
    <2> SUFFICES ASSUME MulticastInv, NoEmptyLeaf, [MulticastNext]_multicastVars PROVE NoEmptyLeaf'
      OBVIOUS
    <2>1. CASE UNCHANGED multicastVars
      BY <2>1 DEF multicastVars, NoEmptyLeaf, IsLeaf, Children
    <2>2. ASSUME NEW name \in Names, NEW v \in MulticastVals, Insert(name, v) PROVE NoEmptyLeaf'
      BY <2>2, InsertTrimmed
    <2>3. ASSUME NEW name \in Names, NEW v \in MulticastVals, RemoveVal(name, v) PROVE NoEmptyLeaf'
      BY <2>3, RemoveLeaves, LeaveTrimmed
    <2>4. ASSUME NEW name \in Names, Clear(name) PROVE NoEmptyLeaf'
      BY <2>4, ClearLeaves, LeaveTrimmed
    <2> QED
      BY <2>1, <2>2, <2>3, <2>4 DEF MulticastNext
  <1> QED
    BY <1>1, <1>2, MulticastInvariance, PTL DEF MulticastSpec

-----------------------------------------------------------------------------
(* HRCARPTable, for any NAs, addresses and files.                          *)

(* What a map holds after an entry was taken out of it or put into it.     *)
LEMMA WithoutHolds ==
  ASSUME NEW f, NEW x
  PROVE  /\ DOMAIN Without(f, x) = DOMAIN f \ {x}
         /\ \A y \in DOMAIN f \ {x} : Without(f, x)[y] = f[y]
  BY DEF Without, Restrict

LEMMA WithHolds ==
  ASSUME NEW f, NEW x, NEW y
  PROVE  /\ DOMAIN With(f, x, y) = DOMAIN f \cup {x}
         /\ With(f, x, y)[x] = y
         /\ \A z \in DOMAIN f \ {x} : With(f, x, y)[z] = f[z]
  BY DEF With

InverseMaps(f, g) ==
  /\ \A x \in DOMAIN f : f[x] \in DOMAIN g /\ g[f[x]] = x
  /\ \A y \in DOMAIN g : g[y] \in DOMAIN f /\ f[g[y]] = y

(* The map f takes a to b.                                                 *)
Takes(f, a, b) == a \in DOMAIN f /\ f[a] = b

(* The heart of addNAAddress: once both old partners are taken out of the  *)
(* opposite maps, the new pair can enter both, and the pairs that share    *)
(* nothing with it stay.                                                   *)
LEMMA Rebind ==
  ASSUME NEW f, NEW g, InverseMaps(f, g), NEW x, NEW y
  PROVE  LET gg == IF x \in DOMAIN f THEN Without(g, f[x]) ELSE g
             ff == IF y \in DOMAIN gg THEN Without(f, gg[y]) ELSE f
         IN  /\ InverseMaps(With(ff, x, y), With(gg, y, x))
             /\ \A a, b : Takes(With(ff, x, y), a, b) <=>
                            (a = x /\ b = y) \/ (Takes(f, a, b) /\ a # x /\ b # y)
  <1> DEFINE gg == IF x \in DOMAIN f THEN Without(g, f[x]) ELSE g
             ff == IF y \in DOMAIN gg THEN Without(f, gg[y]) ELSE f
             F  == With(ff, x, y)
             G  == With(gg, y, x)
  <1>1. /\ DOMAIN gg = {b \in DOMAIN g : g[b] # x}
        /\ \A b \in DOMAIN gg : gg[b] = g[b]
    <2>1. CASE x \in DOMAIN f
      <3>1. gg = Without(g, f[x])
        BY <2>1
      <3> HIDE DEF gg
      <3>2. /\ DOMAIN gg = DOMAIN g \ {f[x]}
            /\ \A b \in DOMAIN g \ {f[x]} : gg[b] = g[b]
        BY <3>1, WithoutHolds
      <3> QED
        BY <2>1, <3>2 DEF InverseMaps
    <2>2. CASE x \notin DOMAIN f
      BY <2>2 DEF InverseMaps
    <2> QED
      BY <2>1, <2>2
  <1>2. /\ \A a \in DOMAIN ff : a \in DOMAIN f /\ ff[a] = f[a] /\ (a # x => f[a] # y)
        /\ \A a \in DOMAIN f : a # x /\ f[a] # y => a \in DOMAIN ff
    <2> HIDE DEF gg
    <2>1. CASE y \in DOMAIN gg
      <3>1. ff = Without(f, gg[y])
        BY <2>1
      <3> HIDE DEF ff
      <3>2. /\ DOMAIN ff = DOMAIN f \ {gg[y]}
            /\ \A a \in DOMAIN f \ {gg[y]} : ff[a] = f[a]
        BY <3>1, WithoutHolds
      <3> QED
        BY <1>1, <2>1, <3>2 DEF InverseMaps
    <2>2. CASE y \notin DOMAIN gg
      BY <1>1, <2>2 DEF InverseMaps
    <2> QED
      BY <2>1, <2>2
  <1> HIDE DEF ff, gg
  <1>0. F = With(ff, x, y) /\ G = With(gg, y, x)
    OBVIOUS
  <1> HIDE DEF F, G
  <1>3. /\ DOMAIN F = DOMAIN ff \cup {x} /\ F[x] = y
        /\ \A a \in DOMAIN ff \ {x} : F[a] = ff[a]
    BY <1>0 DEF With
  <1>4. /\ DOMAIN G = DOMAIN gg \cup {y} /\ G[y] = x
        /\ \A b \in DOMAIN gg \ {y} : G[b] = gg[b]
    BY <1>0, WithHolds
  <1>5. ASSUME NEW a \in DOMAIN F PROVE F[a] \in DOMAIN G /\ G[F[a]] = a
    BY <1>1, <1>2, <1>3, <1>4, <1>5 DEF InverseMaps
  <1>6. ASSUME NEW b \in DOMAIN G PROVE G[b] \in DOMAIN F /\ F[G[b]] = b
    BY <1>1, <1>2, <1>3, <1>4, <1>6 DEF InverseMaps
  <1>7. InverseMaps(F, G)
    BY <1>5, <1>6 DEF InverseMaps
  <1>8. ASSUME NEW a, NEW b
        PROVE  Takes(F, a, b) <=> (a = x /\ b = y) \/ (Takes(f, a, b) /\ a # x /\ b # y)
    BY <1>2, <1>3 DEF Takes
  <1> QED
    BY <1>7, <1>8 DEF F, G, ff, gg

LEMMA AddKeepsInverses ==
  ASSUME Inverses, NEW na \in NAs, NEW addr \in Addresses, AddNAAddress(na, addr)
  PROVE  /\ Inverses'
         /\ \A a, b : Takes(naAddresses', a, b) <=>
              (a = na /\ b = addr) \/ (Takes(naAddresses, a, b) /\ a # na /\ b # addr)
  <1> DEFINE inverse == IF na \in DOMAIN naAddresses
                          THEN Without(inverseNaAddresses, naAddresses[na])
                          ELSE inverseNaAddresses
             forward == IF addr \in DOMAIN inverse
                          THEN Without(naAddresses, inverse[addr])
                          ELSE naAddresses
  <1>1. InverseMaps(naAddresses, inverseNaAddresses)
    BY DEF Inverses, InverseMaps
  <1>2. /\ InverseMaps(With(forward, na, addr), With(inverse, addr, na))
        /\ \A a, b : Takes(With(forward, na, addr), a, b) <=>
             (a = na /\ b = addr) \/ (Takes(naAddresses, a, b) /\ a # na /\ b # addr)
    BY <1>1, Rebind
  <1>3. /\ naAddresses' = With(forward, na, addr)
        /\ inverseNaAddresses' = With(inverse, addr, na)
    BY DEF AddNAAddress
  <1> HIDE DEF forward, inverse
  <1>4. InverseMaps(naAddresses', inverseNaAddresses')
    BY <1>2, <1>3
  <1>5. \A a, b : Takes(naAddresses', a, b) <=>
          (a = na /\ b = addr) \/ (Takes(naAddresses, a, b) /\ a # na /\ b # addr)
    BY <1>2, <1>3
  <1> QED
    BY <1>4, <1>5 DEF Inverses, InverseMaps

(* Whatever bindings a file makes, in whatever order, the neighbour a      *)
(* packet is taken to come from is the one a packet sent to it goes to.    *)
THEOREM MapsAreInverses == ArpSpec => []Inverses
  <1>1. ArpInit => Inverses
    BY DEF ArpInit, Inverses, Empty
  <1>2. Inverses /\ [ArpNext]_arpVars => Inverses'
    <2> SUFFICES ASSUME Inverses, [ArpNext]_arpVars PROVE Inverses'
      OBVIOUS
    <2>1. CASE UNCHANGED arpVars
      BY <2>1 DEF arpVars, Inverses
    <2>2. ASSUME NEW na \in NAs, NEW addr \in Addresses, AddNAAddress(na, addr)
          PROVE  Inverses'
      BY <2>2, AddKeepsInverses
    <2> QED
      BY <2>1, <2>2 DEF ArpNext, ArpLine
  <1> QED
    BY <1>1, <1>2, PTL DEF ArpSpec

-----------------------------------------------------------------------------
(* The last line decides.                                                  *)

ArpLinesOK == arpLines \in Seq([na : NAs, addr : Addresses])

(* LatestWins, for pairs of any kind.                                      *)
LatestBinds ==
  \A a, b : Takes(naAddresses, a, b) <=>
              \E i \in DOMAIN arpLines : arpLines[i] = [na |-> a, addr |-> b] /\ Binding(i)

LEMMA LineBinds ==
  ASSUME Inverses, ArpLinesOK, LatestBinds,
         NEW na \in NAs, NEW addr \in Addresses, ArpLine(na, addr)
  PROVE  Inverses' /\ ArpLinesOK' /\ LatestBinds'
  <1> DEFINE line == [na |-> na, addr |-> addr]
  <1>0. PICK n \in Nat : n = Len(arpLines)
    BY DEF ArpLinesOK
  <1>1. /\ Inverses'
        /\ \A a, b : Takes(naAddresses', a, b) <=>
             (a = na /\ b = addr) \/ (Takes(naAddresses, a, b) /\ a # na /\ b # addr)
    BY AddKeepsInverses DEF ArpLine
  <1>2. n = Len(arpLines) /\ arpLines' = Append(arpLines, line) /\ line \in [na : NAs, addr : Addresses]
    BY <1>0 DEF ArpLine
  <1>3. /\ ArpLinesOK'
        /\ Len(arpLines') = n + 1 /\ DOMAIN arpLines = 1..n /\ DOMAIN arpLines' = 1..(n + 1)
        /\ arpLines'[n + 1] = line
        /\ \A i \in 1..n : arpLines'[i] = arpLines[i]
    BY <1>2 DEF ArpLinesOK
  <1> HIDE DEF line
  <1>4. Binding(n + 1)'
    BY <1>2, <1>3 DEF Binding
  <1>5. ASSUME NEW i \in 1..n
        PROVE  Binding(i)' <=> (Binding(i) /\ line.na # arpLines[i].na /\ line.addr # arpLines[i].addr)
    <2>1. (i + 1)..(n + 1) = ((i + 1)..n) \cup {n + 1} /\ \A j \in (i + 1)..n : j \in 1..n
      OBVIOUS
    <2> QED
      BY <1>2, <1>3, <2>1 DEF Binding
  <1>6. ASSUME NEW a, NEW b
        PROVE  Takes(naAddresses, a, b)' <=>
                 \E i \in DOMAIN arpLines' : arpLines'[i] = [na |-> a, addr |-> b] /\ Binding(i)'
    <2>1. Takes(naAddresses, a, b)' <=> Takes(naAddresses', a, b)
      BY DEF Takes
    <2>2. line.na = na /\ line.addr = addr /\ line = [na |-> na, addr |-> addr]
      BY DEF line
    <2>3. ASSUME NEW i \in 1..(n + 1), arpLines'[i] = [na |-> a, addr |-> b], Binding(i)'
          PROVE  Takes(naAddresses', a, b)
      <3>1. CASE i = n + 1
        BY <1>1, <1>3, <2>2, <2>3, <3>1
      <3>2. CASE i \in 1..n
        <4>1. arpLines[i] = [na |-> a, addr |-> b] /\ Binding(i) /\ na # a /\ addr # b
          BY <1>3, <1>5, <2>2, <2>3, <3>2
        <4>2. Takes(naAddresses, a, b)
          BY <1>3, <3>2, <4>1 DEF LatestBinds
        <4> QED
          BY <1>1, <4>1, <4>2
      <3> QED
        BY <1>2, <3>1, <3>2
    <2>4. ASSUME Takes(naAddresses', a, b)
          PROVE  \E i \in 1..(n + 1) : arpLines'[i] = [na |-> a, addr |-> b] /\ Binding(i)'
      <3>1. CASE a = na /\ b = addr
        BY <1>2, <1>3, <1>4, <2>2, <3>1
      <3>2. CASE Takes(naAddresses, a, b) /\ a # na /\ b # addr
        <4>1. PICK i \in 1..n : arpLines[i] = [na |-> a, addr |-> b] /\ Binding(i)
          BY <1>3, <3>2 DEF LatestBinds
        <4>2. Binding(i)' /\ arpLines'[i] = [na |-> a, addr |-> b]
          BY <1>3, <1>5, <2>2, <3>2, <4>1
        <4>3. i \in 1..(n + 1)
          BY <1>2
        <4> QED
          BY <4>2, <4>3
      <3> QED
        BY <1>1, <2>4, <3>1, <3>2
    <2> QED
      BY <1>3, <2>1, <2>3, <2>4
  <1>7. LatestBinds'
    BY <1>6 DEF LatestBinds
  <1> QED
    BY <1>1, <1>3, <1>7

(* However often a file binds and rebinds NAs and addresses, a neighbour   *)
(* has the address of the last line that speaks of either.                 *)
THEOREM LastLineDecides == ArpSpec => []LatestWins
  <1> DEFINE LatestInv == Inverses /\ ArpLinesOK /\ LatestBinds
  <1>1. ArpInit => LatestInv
    BY DEF ArpInit, Inverses, ArpLinesOK, LatestBinds, Takes, Empty
  <1>2. LatestInv /\ [ArpNext]_arpVars => LatestInv'
    <2> SUFFICES ASSUME LatestInv, [ArpNext]_arpVars PROVE LatestInv'
      OBVIOUS
    <2>1. CASE UNCHANGED arpVars
      BY <2>1 DEF arpVars, Inverses, ArpLinesOK, LatestBinds, Takes, Binding
    <2>2. ASSUME NEW na \in NAs, NEW addr \in Addresses, ArpLine(na, addr) PROVE LatestInv'
      BY <2>2, LineBinds
    <2> QED
      BY <2>1, <2>2 DEF ArpNext
  <1>3. LatestInv => LatestWins
    BY DEF LatestBinds, LatestWins, Takes
  <1> QED
    BY <1>1, <1>2, <1>3, PTL DEF ArpSpec
=============================================================================
