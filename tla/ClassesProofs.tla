--------------------------- MODULE ClassesProofs ----------------------------
(***************************************************************************)
(* Proofs about Classes, for every set of programs: the passes build        *)
(* tables that say what the declarations say.                               *)
(***************************************************************************)
EXTENDS Classes, SeqLemmas, FiniteSetTheorems

-----------------------------------------------------------------------------
(* ---- walks ------------------------------------------------------------------ *)

Relation(next, D) == next \in [D -> SUBSET D]

(* A walk comes to its start, goes on from where it is, and comes to        *)
(* nothing else.                                                            *)
LEMMA ReachIs ==
  ASSUME NEW D, NEW next, Relation(next, D), NEW a \in D
  PROVE  /\ Reach(next, a) \subseteq D /\ a \in Reach(next, a)
         /\ \A b \in Reach(next, a) : next[b] \subseteq Reach(next, a)
         /\ \A C \in SUBSET D : a \in C /\ (\A c \in C : next[c] \subseteq C)
                                    => Reach(next, a) \subseteq C
<1>1. DOMAIN next = D /\ \A b \in D : next[b] \subseteq D BY DEF Relation
<1>2. Reach(next, a) = {b \in D : \A C \in SUBSET D :
                           a \in C /\ (\A c \in C : next[c] \subseteq C) => b \in C}
  BY <1>1 DEF Reach
<1>3. a \in Reach(next, a) BY <1>2
<1>4. ASSUME NEW b \in Reach(next, a) PROVE next[b] \subseteq Reach(next, a)
  <2> SUFFICES ASSUME NEW c \in next[b] PROVE c \in Reach(next, a) OBVIOUS
  <2>1. b \in D /\ c \in D BY <1>1, <1>2
  <2>2. ASSUME NEW C \in SUBSET D, a \in C, \A x \in C : next[x] \subseteq C PROVE c \in C
    <3>1. b \in C BY <1>2, <2>2
    <3> QED BY <3>1, <2>2
  <2> QED BY <1>2, <2>1, <2>2
<1> QED BY <1>2, <1>3, <1>4

(* A walk is no longer than the walks from where it goes on.                *)
LEMMA ReachStep ==
  ASSUME NEW D, NEW next, Relation(next, D), NEW a \in D
  PROVE  Reach(next, a) = {a} \cup UNION {Reach(next, b) : b \in next[a]}
<1> DEFINE R == {a} \cup UNION {Reach(next, b) : b \in next[a]}
<1>1. next[a] \subseteq D BY DEF Relation
<1>2. R \subseteq D /\ \A c \in R : next[c] \subseteq R
  <2>1. \A b \in next[a] : /\ Reach(next, b) \subseteq D /\ b \in Reach(next, b)
                           /\ \A c \in Reach(next, b) : next[c] \subseteq Reach(next, b)
    BY <1>1, ReachIs
  <2> QED BY <2>1
<1>3. Reach(next, a) \subseteq R
  <2>1. R \in SUBSET D /\ a \in R /\ \A c \in R : next[c] \subseteq R BY <1>2
  <2> HIDE DEF R
  <2> QED BY <2>1, ReachIs
<1>4. ASSUME NEW b \in next[a] PROVE Reach(next, b) \subseteq Reach(next, a)
  <2>1. Reach(next, a) \in SUBSET D /\ b \in Reach(next, a) /\ b \in D
    BY ReachIs, <1>1
  <2> QED BY <2>1, ReachIs
<1> QED BY <1>3, <1>4, ReachIs

(* What a declaration reaches, it also reaches through any declaration on the way. *)
LEMMA ReachTransitive ==
  ASSUME NEW D, NEW next, Relation(next, D), NEW a \in D, NEW b \in Reach(next, a)
  PROVE  Reach(next, b) \subseteq Reach(next, a)
<1>1. Reach(next, a) \in SUBSET D /\ b \in D BY ReachIs
<1> QED BY <1>1, ReachIs

(* Two relations that agree on a set that walks do not leave.               *)
LEMMA ReachAgrees ==
  ASSUME NEW D, NEW next, Relation(next, D), NEW E, NEW other, Relation(other, E),
         NEW S \in SUBSET (D \cap E), \A s \in S : next[s] \subseteq S /\ other[s] = next[s],
         NEW a \in S
  PROVE  Reach(next, a) = Reach(other, a) /\ Reach(next, a) \subseteq S
<1>1. a \in D /\ a \in E OBVIOUS
<1>2. Reach(next, a) \subseteq S /\ Reach(other, a) \subseteq S
  <2>1. S \in SUBSET D /\ S \in SUBSET E OBVIOUS
  <2>2. Reach(next, a) \subseteq S BY <1>1, <2>1, ReachIs
  <2>3. Reach(other, a) \subseteq S BY <1>1, <2>1, ReachIs
  <2> QED BY <2>2, <2>3
<1>3. Reach(next, a) \subseteq Reach(other, a)
  <2>1. Reach(other, a) \in SUBSET D BY <1>2
  <2>2. \A c \in Reach(other, a) : next[c] \subseteq Reach(other, a) BY <1>1, <1>2, ReachIs
  <2>3. a \in Reach(other, a) BY <1>1, ReachIs
  <2> QED BY <2>1, <2>2, <2>3, <1>1, ReachIs
<1>4. Reach(other, a) \subseteq Reach(next, a)
  <2>1. Reach(next, a) \in SUBSET E BY <1>2
  <2>2. \A c \in Reach(next, a) : other[c] \subseteq Reach(next, a) BY <1>1, <1>2, ReachIs
  <2>3. a \in Reach(next, a) BY <1>1, ReachIs
  <2> QED BY <2>1, <2>2, <2>3, <1>1, ReachIs
<1> QED BY <1>2, <1>3, <1>4

-----------------------------------------------------------------------------
(* ---- chains ------------------------------------------------------------------- *)

(* Every class comes to a root along the parents: whatever holds of a class *)
(* when it holds of its parent, or when there is none, holds of all.        *)
Tree(reg) ==
  /\ NoSym \notin DOMAIN reg
  /\ \A a \in DOMAIN reg : reg[a].parent \in DOMAIN reg \cup {NoSym}
  /\ \A S \in SUBSET DOMAIN reg :
        (\A a \in DOMAIN reg : reg[a].parent \in S \cup {NoSym} => a \in S) => S = DOMAIN reg

Up(reg) == [a \in DOMAIN reg |-> {reg[a].parent} \ {NoSym}]

(* The chain of a class: itself and the chain of its parent, closed under taking chains. *)
LEMMA ChainIs ==
  ASSUME NEW reg, Tree(reg), NEW k \in DOMAIN reg
  PROVE  /\ Chain(reg, k) \subseteq DOMAIN reg /\ k \in Chain(reg, k)
         /\ \A a \in Chain(reg, k) : Chain(reg, a) \subseteq Chain(reg, k)
         /\ Chain(reg, k) = {k} \cup IF reg[k].parent = NoSym THEN {} ELSE Chain(reg, reg[k].parent)
<1>1. Relation(Up(reg), DOMAIN reg) /\ Up(reg)[k] = {reg[k].parent} \ {NoSym}
  BY DEF Tree, Up, Relation
<1>2. \A a : Chain(reg, a) = Reach(Up(reg), a) BY DEF Chain, Up
<1>3. Chain(reg, k) \subseteq DOMAIN reg /\ k \in Chain(reg, k) BY <1>1, <1>2, ReachIs
<1>4. \A a \in Chain(reg, k) : Chain(reg, a) \subseteq Chain(reg, k) BY <1>1, <1>2, ReachTransitive
<1>5. Chain(reg, k) = {k} \cup UNION {Chain(reg, b) : b \in {reg[k].parent} \ {NoSym}}
  BY <1>1, <1>2, ReachStep
<1> QED BY <1>3, <1>4, <1>5

(* A set that holds a class once it holds its parent holds every class of the tree: induction
   from Object down. *)
LEMMA ChainInduction ==
  ASSUME NEW reg, Tree(reg), NEW S,
         \A a \in DOMAIN reg : reg[a].parent \in (S \cap DOMAIN reg) \cup {NoSym} => a \in S
  PROVE  DOMAIN reg \subseteq S
<1>1. S \cap DOMAIN reg \in SUBSET DOMAIN reg OBVIOUS
<1>2. S \cap DOMAIN reg = DOMAIN reg BY <1>1 DEF Tree
<1> QED BY <1>2

(* A class is not above its parent.                                         *)
LEMMA NotAbove ==
  ASSUME NEW reg, Tree(reg), NEW k \in DOMAIN reg, reg[k].parent # NoSym
  PROVE  k \notin Chain(reg, reg[k].parent)
<1> DEFINE S == {a \in DOMAIN reg : \A b \in Chain(reg, a) :
                     reg[b].parent # NoSym => b \notin Chain(reg, reg[b].parent)}
<1>1. ASSUME NEW a \in DOMAIN reg, reg[a].parent \in (S \cap DOMAIN reg) \cup {NoSym} PROVE a \in S
  <2> SUFFICES ASSUME NEW b \in Chain(reg, a), reg[b].parent # NoSym, b \in Chain(reg, reg[b].parent)
               PROVE  FALSE
    BY <1>1
  <2>1. CASE b = a
    <3>1. reg[a].parent \in S /\ reg[a].parent \in DOMAIN reg BY <1>1, <2>1
    <3>2. a \in Chain(reg, reg[a].parent) BY <2>1
    <3> QED BY <3>1, <3>2, <2>1
  <2>2. CASE b # a
    <3>1. reg[a].parent # NoSym /\ b \in Chain(reg, reg[a].parent) BY <2>2, ChainIs
    <3>2. reg[a].parent \in S BY <3>1, <1>1
    <3> QED BY <3>1, <3>2
  <2> QED BY <2>1, <2>2
<1>2. DOMAIN reg \subseteq S
  <2> HIDE DEF S
  <2> QED BY <1>1, ChainInduction
<1> QED BY <1>2, ChainIs

(* Of two classes of a chain one is above the other, and not both unless    *)
(* they are one.                                                            *)
LEMMA ChainOrder ==
  ASSUME NEW reg, Tree(reg)
  PROVE  \A k \in DOMAIN reg : \A a, b \in Chain(reg, k) :
            /\ a \in Chain(reg, b) \/ b \in Chain(reg, a)
            /\ a \in Chain(reg, b) /\ b \in Chain(reg, a) => a = b
<1> DEFINE Ordered(k) == \A a, b \in Chain(reg, k) :
                            /\ a \in Chain(reg, b) \/ b \in Chain(reg, a)
                            /\ a \in Chain(reg, b) /\ b \in Chain(reg, a) => a = b
           S == {k \in DOMAIN reg : Ordered(k)}
<1>1. ASSUME NEW k \in DOMAIN reg, reg[k].parent \in (S \cap DOMAIN reg) \cup {NoSym} PROVE k \in S
  <2>1. CASE reg[k].parent = NoSym
    <3>1. Chain(reg, k) = {k} BY <2>1, ChainIs
    <3> QED BY <3>1
  <2>2. CASE reg[k].parent # NoSym
    <3> DEFINE up == reg[k].parent
    <3>1. up \in S /\ up \in DOMAIN reg BY <1>1, <2>2
    <3>2. Chain(reg, k) = {k} \cup Chain(reg, up) BY <2>2, ChainIs
    <3>3. k \notin Chain(reg, up) BY <2>2, NotAbove
    <3>4. \A a \in Chain(reg, up) : a \in DOMAIN reg /\ Chain(reg, a) \subseteq Chain(reg, up)
      BY <3>1, ChainIs
    <3> HIDE DEF up
    <3>5. \A a, b \in Chain(reg, up) : /\ a \in Chain(reg, b) \/ b \in Chain(reg, a)
                                       /\ a \in Chain(reg, b) /\ b \in Chain(reg, a) => a = b
      BY <3>1
    <3>6. ASSUME NEW a \in Chain(reg, k), NEW b \in Chain(reg, k)
          PROVE  /\ a \in Chain(reg, b) \/ b \in Chain(reg, a)
                 /\ a \in Chain(reg, b) /\ b \in Chain(reg, a) => a = b
      BY <3>2, <3>3, <3>4, <3>5
    <3> QED BY <3>6
  <2> QED BY <2>1, <2>2
<1>2. DOMAIN reg \subseteq S
  <2> HIDE DEF S
  <2> QED BY <1>1, ChainInduction
<1> QED BY <1>2

(* A chain that meets W has a nearest class in W, the first that find_field or find_vmethod
   finds going up. *)
LEMMA NearestExists ==
  ASSUME NEW reg, Tree(reg), NEW W
  PROVE  \A k \in DOMAIN reg : Chain(reg, k) \cap W # {} =>
            LET a == Nearest(reg, Chain(reg, k) \cap W)
            IN  a \in Chain(reg, k) \cap W /\ Chain(reg, k) \cap W \subseteq Chain(reg, a)
<1> DEFINE S == {k \in DOMAIN reg : Chain(reg, k) \cap W # {} =>
                    \E a \in Chain(reg, k) \cap W : Chain(reg, k) \cap W \subseteq Chain(reg, a)}
<1>1. ASSUME NEW k \in DOMAIN reg, reg[k].parent \in (S \cap DOMAIN reg) \cup {NoSym} PROVE k \in S
  <2>1. CASE k \in W
    <3>1. k \in Chain(reg, k) BY ChainIs
    <3> QED BY <3>1, <2>1
  <2>2. CASE k \notin W
    <3>1. Chain(reg, k) \cap W = IF reg[k].parent = NoSym THEN {} ELSE Chain(reg, reg[k].parent) \cap W
      BY <2>2, ChainIs
    <3> QED BY <3>1, <1>1
  <2> QED BY <2>1, <2>2
<1>2. DOMAIN reg \subseteq S
  <2> HIDE DEF S
  <2> QED BY <1>1, ChainInduction
<1> QED BY <1>2 DEF Nearest

(* A deeper class has more classes above it.                                *)
LEMMA ParentIsHigher ==
  ASSUME NEW reg, Tree(reg), IsFiniteSet(DOMAIN reg), NEW k \in DOMAIN reg, reg[k].parent # NoSym
  PROVE  /\ Cardinality(Chain(reg, k)) \in Nat /\ Cardinality(Chain(reg, reg[k].parent)) \in Nat
         /\ Cardinality(Chain(reg, reg[k].parent)) < Cardinality(Chain(reg, k))
<1> DEFINE up == reg[k].parent
           C  == Chain(reg, up)
<1>1. up \in DOMAIN reg BY DEF Tree
<1>2. C \subseteq DOMAIN reg /\ k \notin C /\ Chain(reg, k) = C \cup {k} BY <1>1, ChainIs, NotAbove
<1> HIDE DEF C
<1>3. IsFiniteSet(C) BY <1>2, FS_Subset
<1>4. Cardinality(C) \in Nat BY <1>3, FS_CardinalityType
<1>5. Cardinality(C \cup {k}) = Cardinality(C) + 1 BY <1>2, <1>3, FS_AddElement
<1> QED BY <1>2, <1>4, <1>5 DEF C


-----------------------------------------------------------------------------
(* ---- names ---------------------------------------------------------------------- *)

(* The first of some places in a list.                                      *)
LEMMA FirstIs ==
  ASSUME NEW ks \in SUBSET Nat
  PROVE  /\ ks = {} => First(ks) = NoSym
         /\ ks # {} => First(ks) \in ks /\ First(ks) # NoSym /\ \A l \in ks : First(ks) <= l
<1>1. ASSUME ks # {} PROVE \E k \in ks : \A l \in ks : k <= l
  <2>1. IsWellFoundedOn({p \in Nat \X Nat : p[1] < p[2]}, Nat)
    BY NatLessThanWellFounded DEF OpToRel
  <2>2. PICK k \in ks : \A l \in ks : ~ (<<l, k>> \in {p \in Nat \X Nat : p[1] < p[2]})
    BY <1>1, <2>1, WFMin
  <2>3. \A l \in ks : k <= l
    <3> SUFFICES ASSUME NEW l \in ks, l < k PROVE FALSE OBVIOUS
    <3>1. <<l, k>> \in {p \in Nat \X Nat : p[1] < p[2]} OBVIOUS
    <3> QED BY <2>2, <3>1
  <2> QED BY <2>3
<1>2. ks # {} => First(ks) \in ks /\ \A l \in ks : First(ks) <= l BY <1>1 DEF First
<1>3. ks = {} => First(ks) = NoSym BY DEF First
<1>4. \A k \in Nat : k # NoSym BY DEF NoSym
<1>5. ks # {} => First(ks) \in Nat BY <1>2
<1> QED BY <1>2, <1>3, <1>4, <1>5

NamesAreUnique(p) == \A k, l \in DOMAIN p : p[k].name = p[l].name => k = l

(* A name that resolves is the name of exactly one declaration, of the kind asked for. *)
LEMMA SymIs ==
  ASSUME NEW p \in Seq(Declarations), NamesAreUnique(p), NEW n, NEW d,
         resolve_type_sym(p, n, d) # NoSym
  PROVE  LET k == resolve_type_sym(p, n, d)
         IN  k \in DOMAIN p /\ p[k].d = d /\ p[k].name = n /\ {l \in DOMAIN p : p[l].name = n} = {k}
<1> DEFINE ks == {l \in DOMAIN p : p[l].name = n}
           k  == First(ks)
<1>1. ks \in SUBSET Nat OBVIOUS
<1>2. k # NoSym /\ p[k].d = d /\ resolve_type_sym(p, n, d) = k BY DEF resolve_type_sym
<1>3. k \in ks
  <2> HIDE DEF ks
  <2> QED BY <1>1, <1>2, FirstIs
<1>4. ks = {k} /\ k \in DOMAIN p /\ p[k].name = n
  <2> HIDE DEF k
  <2> QED BY <1>3 DEF NamesAreUnique
<1> HIDE DEF k
<1> QED BY <1>2, <1>4

(* When every name resolves, the list is resolved name by name.             *)
LEMMA ResolveIs ==
  ASSUME NEW p \in Seq(Declarations), NamesAreUnique(p), NEW names \in Seq(STRING), NEW d,
         Resolves(p, names, d)
  PROVE  /\ Resolve(p, names, d) \in Seq(DOMAIN p) /\ Len(Resolve(p, names, d)) = Len(names)
         /\ \A i \in 1 .. Len(names) : Resolve(p, names, d)[i] = resolve_type_sym(p, names[i], d)
<1> DEFINE n == Len(names)
           D == DOMAIN p
           T == Seq(D)
           sym(i) == resolve_type_sym(p, names[i], d)
           Next1(s, i) == IF sym(i) = NoSym THEN s ELSE Append(s, sym(i))
           step == [x \in T \X (1 .. n) |-> Next1(x[1], x[2])]
           Is(g) == g = [i \in 0 .. n |-> IF i = 0 THEN <<>> ELSE Next1(g[i - 1], i)]
<1>1. \A i \in 1 .. n : sym(i) # NoSym /\ sym(i) \in D
  <2> SUFFICES ASSUME NEW i \in 1 .. n PROVE sym(i) # NoSym /\ sym(i) \in D OBVIOUS
  <2>1. sym(i) # NoSym BY DEF Resolves
  <2> QED BY <2>1, SymIs
<1>2. n \in Nat /\ <<>> \in T OBVIOUS
<1> HIDE DEF sym, D
<1>3. step \in [T \X (1 .. n) -> T]
  <2>1. \A s \in T : \A i \in 1 .. n : Next1(s, i) \in T
    <3> SUFFICES ASSUME NEW s \in Seq(D), NEW i \in 1 .. n PROVE Next1(s, i) \in Seq(D) OBVIOUS
    <3>1. sym(i) \in D BY <1>1
    <3>2. Append(s, sym(i)) \in Seq(D) BY <3>1
    <3> QED BY <3>2
  <2> HIDE DEF Next1, T
  <2> QED BY <2>1
<1>4. PICK g : IsRun(g, n, T, <<>>, step)
  <2> HIDE DEF step, n, T
  <2> QED BY <1>2, <1>3, Recursion
<1>5. Is(g)
  <2>1. g \in [0 .. n -> T] /\ g[0] = <<>> /\ \A i \in 1 .. n : g[i] = step[<<g[i - 1], i>>]
    BY <1>4 DEF IsRun
  <2>2. \A i \in 1 .. n : i - 1 \in 0 .. n BY <1>2
  <2> HIDE DEF n, T, Next1
  <2>3. \A i \in 1 .. n : g[i] = Next1(g[i - 1], i) BY <2>1, <2>2
  <2> HIDE DEF step
  <2>4. \A i \in 0 .. n : i = 0 \/ i \in 1 .. n BY <1>2
  <2>5. \A i \in 0 .. n : g[i] = IF i = 0 THEN <<>> ELSE Next1(g[i - 1], i) BY <2>1, <2>3, <2>4
  <2>6. g = [i \in 0 .. n |-> g[i]] BY <2>1
  <2> QED BY <2>5, <2>6
<1> DEFINE h == CHOOSE h : Is(h)
<1>6. Is(h) BY <1>5
<1>7. Resolve(p, names, d) = h[n] BY DEF Resolve, sym
<1>8. h[0] = <<>> /\ \A i \in 1 .. n : h[i] = Next1(h[i - 1], i)
  <2>1. 0 \in 0 .. n /\ \A i \in 1 .. n : i \in 0 .. n /\ i # 0 BY <1>2
  <2> HIDE DEF h, n
  <2> QED BY <1>6, <2>1
<1> HIDE DEF h
<1> DEFINE S == {i \in 0 .. n : /\ h[i] \in T /\ Len(h[i]) = i
                                /\ \A j \in 1 .. i : h[i][j] = sym(j)}
<1>9. 0 .. n \subseteq S
  <2>1. 0 \in S
    <3>1. h[0] = <<>> /\ 0 \in 0 .. n /\ \A j \in 1 .. 0 : FALSE BY <1>2, <1>8
    <3> HIDE DEF n
    <3> QED BY <3>1, <1>2
  <2>2. ASSUME NEW i \in 0 .. n - 1, i \in S PROVE i + 1 \in S
    <3>1. i + 1 \in 1 .. n /\ i + 1 \in 0 .. n /\ (i + 1) - 1 = i BY <1>2
    <3>2. h[i + 1] = Append(h[i], sym(i + 1)) BY <3>1, <1>1, <1>8
    <3>3. sym(i + 1) \in D BY <3>1, <1>1
    <3>4. h[i] \in T /\ Len(h[i]) = i /\ \A j \in 1 .. i : h[i][j] = sym(j) BY <2>2
    <3>5. \A j \in 1 .. i + 1 : j \in 1 .. i \/ j = i + 1 BY <3>1
    <3>6. \A j \in 1 .. i + 1 : h[i + 1][j] = sym(j) BY <3>2, <3>3, <3>4, <3>5
    <3>7. h[i + 1] \in T /\ Len(h[i + 1]) = i + 1 BY <3>2, <3>3, <3>4
    <3> HIDE DEF n, T
    <3> QED BY <3>1, <3>6, <3>7
  <2> HIDE DEF S, n
  <2> QED BY <1>2, <2>1, <2>2, Induction
<1>10. n \in S
  <2> HIDE DEF S, n
  <2> QED BY <1>2, <1>9
<1>11. h[n] \in T /\ Len(h[n]) = n /\ \A j \in 1 .. n : h[n][j] = sym(j)
  <2> HIDE DEF n, T
  <2> QED BY <1>10
<1> QED BY <1>7, <1>11 DEF sym, D


(* When no declaration is cut off, every walk ends.                         *)
LEMMA NothingCutOff ==
  ASSUME NEW p \in Seq(Declarations), NEW D, D \subseteq DOMAIN p, NEW next, Relation(next, D),
         NEW to, BreakCycles(p, next, to) = {}
  PROVE  \A C \in SUBSET D : (\A c \in C : next[c] \cap C # {}) => C = {}
<1> DEFINE n == Len(p)
           T == SUBSET D
           left(s) == [k \in DOMAIN next |-> IF k \in s THEN to ELSE next[k]]
           More(s, i) == s \cup {k \in {i} \cap DOMAIN next : Loops(left(s), k)}
           step == [x \in T \X (1 .. n) |-> More(x[1], x[2])]
           Is(g) == g = [i \in 0 .. n |-> IF i = 0 THEN {} ELSE More(g[i - 1], i)]
<1>1. n \in Nat /\ {} \in T /\ DOMAIN p = 1 .. n /\ DOMAIN next = D BY DEF Relation
<1>2. step \in [T \X (1 .. n) -> T]
  <2>1. \A s \in T : \A i \in 1 .. n : More(s, i) \in T BY <1>1
  <2> HIDE DEF More, T
  <2> QED BY <2>1
<1> HIDE DEF More
<1>3. PICK g : IsRun(g, n, T, {}, step)
  <2> HIDE DEF step, n, T
  <2> QED BY <1>1, <1>2, Recursion
<1>4. Is(g)
  <2>1. g \in [0 .. n -> T] /\ g[0] = {} /\ \A i \in 1 .. n : g[i] = step[<<g[i - 1], i>>]
    BY <1>3 DEF IsRun
  <2>2. \A i \in 1 .. n : i - 1 \in 0 .. n BY <1>1
  <2> HIDE DEF n, T
  <2>3. \A i \in 1 .. n : g[i] = More(g[i - 1], i) BY <2>1, <2>2
  <2> HIDE DEF step
  <2>4. \A i \in 0 .. n : i = 0 \/ i \in 1 .. n BY <1>1
  <2>5. \A i \in 0 .. n : g[i] = IF i = 0 THEN {} ELSE More(g[i - 1], i) BY <2>1, <2>3, <2>4
  <2>6. g = [i \in 0 .. n |-> g[i]] BY <2>1
  <2> QED BY <2>5, <2>6
<1> DEFINE h == CHOOSE h : Is(h)
<1>5. Is(h) BY <1>4
<1>6. h[n] = {} BY DEF BreakCycles, More
<1>7. h[0] = {} /\ \A i \in 1 .. n : h[i] = More(h[i - 1], i)
  <2>1. 0 \in 0 .. n /\ \A i \in 1 .. n : i \in 0 .. n /\ i # 0 BY <1>1
  <2> HIDE DEF h, n
  <2> QED BY <1>5, <2>1
<1> HIDE DEF h
<1> DEFINE S == {i \in 0 .. n : h[n - i] = {}}
<1>8. 0 .. n \subseteq S
  <2>1. 0 \in S BY <1>1, <1>6
  <2>2. ASSUME NEW i \in 0 .. n - 1, i \in S PROVE i + 1 \in S
    <3>1. n - i \in 1 .. n /\ i + 1 \in 0 .. n /\ (n - i) - 1 = n - (i + 1) BY <1>1
    <3>2. h[n - i] = More(h[n - (i + 1)], n - i) BY <3>1, <1>7
    <3>3. h[n - i] = {} BY <2>2
    <3>4. h[n - (i + 1)] = {} BY <3>2, <3>3 DEF More
    <3> QED BY <3>1, <3>4
  <2> HIDE DEF S, n
  <2> QED BY <1>1, <2>1, <2>2, Induction
<1>9. \A k \in D : ~ Loops(next, k)
  <2> SUFFICES ASSUME NEW k \in D PROVE ~ Loops(next, k) OBVIOUS
  <2>1. k \in 1 .. n /\ k - 1 \in 0 .. n /\ n - k \in S /\ n - (k - 1) \in 0 .. n
        /\ n - (n - k) = k /\ n - (n - (k - 1)) = k - 1
    <3>1. k \in 1 .. n /\ n - k \in 0 .. n BY <1>1
    <3> QED BY <3>1, <1>1, <1>8
  <2>2. h[k] = {} BY <2>1
  <2>3. h[k - 1] = {} BY <2>1, <1>8
  <2>4. More({}, k) = {} BY <2>1, <2>2, <2>3, <1>7
  <2>5. left({}) = next BY <1>1 DEF Relation
  <2>6. {l \in {k} \cap D : Loops(next, l)} = {} BY <2>4, <2>5, <1>1 DEF More
  <2> QED BY <2>6
<1> SUFFICES ASSUME NEW C \in SUBSET D, \A c \in C : next[c] \cap C # {}, NEW k \in C PROVE FALSE
  OBVIOUS
<1>10. Loops(next, k)
  <2> DEFINE B == C \cap Reach(next, k)
  <2>1. k \in Reach(next, k) /\ \A b \in Reach(next, k) : next[b] \subseteq Reach(next, k)
    BY ReachIs
  <2>2. B \in SUBSET Reach(next, k) /\ B # {} BY <2>1
  <2>3. \A c \in B : next[c] \cap B # {} BY <2>1
  <2> HIDE DEF B
  <2> QED BY <2>2, <2>3 DEF Loops
<1> QED BY <1>9, <1>10


-----------------------------------------------------------------------------
(* ---- the invariant ------------------------------------------------------------------ *)

MemberKinds == {"field", "method", "getter", "setter"}
MethodKinds == {"method", "getter", "setter"}
Diagnostics ==
  {"field declared twice", "overrides nothing", "override missing", "final", "signature"}
QNames  == (STRING \cup {""}) \X STRING
Sigs    == [params : Nat, required : Nat, variadic : BOOLEAN]
IfaceMethods  == [name : QNames, kind : MemberKinds, sig : Sigs]
FieldInfos    == [name : QNames, ty : STRING, const : BOOLEAN, vis : Visibilities, slot : Nat,
                  defined_in : Nat]
VMethods      == [name : QNames, kind : MethodKinds, sig : Sigs, fn_id : Nat \X Nat, final : BOOLEAN,
                  vis : Visibilities, introduced_in : Nat]
StaticMethods == [name : QNames, sig : Sigs, fn_id : Nat \X Nat, vis : Visibilities]

Infos ==
  [parent : Int, extends : Seq(Nat), interfaces : SUBSET Nat, methods : Seq(IfaceMethods),
   fields : Seq(FieldInfos), total_slots : Nat, vtable : Seq(VMethods), ctor : Nat, ctor_sig : Sigs,
   static_fields : Seq(FieldInfos), static_methods : Seq(StaticMethods), errs : SUBSET Diagnostics]

(* What the first j members of class k declare: the instance members n of a *)
(* kind, the methods with an entry in the method table, the static methods. *)
Declares(decl, m, n, kind) == member_name(m) = n /\ m.m = kind /\ ~m.static /\ ~IsCtor(decl, m)
DeclaredIn(p, k, j, n, kind) == {l \in 1 .. j : Declares(p[k], p[k].members[l], n, kind)}
IsField(m)          == m.m = "field" /\ ~m.static
IsSlotted(decl, m)  == m.m # "field" /\ ~m.static /\ ~IsCtor(decl, m)
IsStaticMethod(m)   == m.m # "field" /\ m.static

SameKey(e, f) == e.name = f.name /\ e.kind = f.kind

(* The fields laid out after the first j members: each has the next slot, a *)
(* name that no other field of the chain has, and the type it is declared   *)
(* with; every declared field is among them.                                *)
FieldsLaid(p, reg, k, acc, j) ==
  LET up == reg[k].parent
  IN  /\ acc.total_slots = reg[up].total_slots + Len(acc.fields)
      /\ \A i \in 1 .. Len(acc.fields) :
            /\ acc.fields[i].slot = reg[up].total_slots + i - 1
            /\ find_field(reg, up, acc.fields[i].name) = <<>>
            /\ \E l \in DeclaredIn(p, k, j, acc.fields[i].name, "field") :
                  acc.fields[i].ty = p[k].members[l].ty
      /\ \A i, h \in 1 .. Len(acc.fields) : acc.fields[i].name = acc.fields[h].name => i = h
      /\ \A l \in 1 .. j : IsField(p[k].members[l]) =>
            \E i \in 1 .. Len(acc.fields) : acc.fields[i].name = member_name(p[k].members[l])
      /\ \A n : \A l, h \in DeclaredIn(p, k, j, n, "field") : l = h

(* The method table after the first j members: the parent's entries keep    *)
(* their places, no two are for one name and kind, each holds the last      *)
(* declaration here or else what the parent's holds, and every declared     *)
(* method has one.                                                          *)
MethodsTabled(p, reg, k, acc, j) ==
  LET old == reg[reg[k].parent].vtable
      tab == acc.vtable
  IN  /\ Len(old) <= Len(tab) /\ \A s \in 1 .. Len(old) : SameKey(tab[s], old[s])
      /\ \A s, t \in 1 .. Len(tab) : SameKey(tab[s], tab[t]) => s = t
      /\ \A s \in 1 .. Len(tab) :
            LET here == DeclaredIn(p, k, j, tab[s].name, tab[s].kind)
            IN  /\ here = {} => s <= Len(old) /\ tab[s].fn_id = old[s].fn_id
                /\ here # {} => \E l \in here : tab[s].fn_id = <<k, l>> /\ \A h \in here : h <= l
      /\ \A l \in 1 .. j : IsSlotted(p[k], p[k].members[l]) =>
            \E s \in 1 .. Len(tab) : tab[s].name = member_name(p[k].members[l])
                                     /\ tab[s].kind = p[k].members[l].m

(* The constructor is one, and static methods have functions of their own.  *)
FunctionsNamed(p, k, acc, j) ==
  /\ acc.ctor \in 0 .. j /\ (acc.ctor # 0 => IsCtor(p[k], p[k].members[acc.ctor]))
  /\ acc.ctor_sig.variadic => \E l \in 1 .. j : p[k].members[l].rest
  /\ \A i \in 1 .. Len(acc.static_methods) :
        \E l \in 1 .. j : /\ IsStaticMethod(p[k].members[l])
                          /\ acc.static_methods[i].fn_id = <<k, l>>
  /\ \A l \in 1 .. j : IsStaticMethod(p[k].members[l]) =>
        \E i \in 1 .. Len(acc.static_methods) :
           acc.static_methods[i].name = member_name(p[k].members[l])

Assembled(p, reg, k, acc, j) ==
  FieldsLaid(p, reg, k, acc, j) /\ MethodsTabled(p, reg, k, acc, j) /\ FunctionsNamed(p, k, acc, j)

(* A class that is built, and a declaration that has no members yet.        *)
Built(p, reg, k) == Assembled(p, reg, k, reg[k], Len(p[k].members))
Blank(info) ==
  /\ info.fields = <<>> /\ info.total_slots = 0 /\ info.vtable = <<>> /\ info.ctor = 0
  /\ info.static_fields = <<>> /\ info.static_methods = <<>> /\ info.errs = {} /\ ~ info.ctor_sig.variadic

Classes == Decls(program, "class")
Ifaces  == Decls(program, "iface")

Registered ==
  /\ registry \in [0 .. Len(program) -> Infos]
  /\ NamesAreUnique(program)
  /\ Blank(registry[OBJECT]) /\ registry[OBJECT].parent = NoSym /\ registry[OBJECT].interfaces = {}
  /\ \A k \in Ifaces : registry[k].parent = OBJECT /\ registry[k].interfaces = {}
  /\ \A k \in (0 .. Len(program)) \ Ifaces : registry[k].extends = <<>>

Unlinked == \A k \in Classes : Blank(registry[k]) /\ registry[k].errs = {}

(* The bases that are registered are the ones that are named.               *)
IfacesLinked == \A k \in Ifaces : Range(registry[k].extends) = Extended[k] /\ Extended[k] \subseteq Ifaces

ClassesLinked ==
  /\ Tree(registry)
  /\ \A k \in Classes :
        /\ registry[k].parent \in Classes \cup {OBJECT}
        /\ Extended[k] = {registry[k].parent} \ {OBJECT}
        /\ registry[k].interfaces =
              UNION {Ancestors(i) : i \in {l \in Ifaces : program[l].name \in Range(program[k].implements)}}

ParentsFirst ==
  /\ todo \subseteq Classes
  /\ \A k \in todo : Blank(registry[k])
  /\ \A k \in Classes \ todo : registry[k].parent \notin todo /\ Built(program, registry, k)

AllBuilt ==
  \A k \in Classes : Built(program, registry, k) /\ check_conformance(registry, k) = {}

TablesAreRight ==
  /\ phase # "collect" => Registered
  /\ phase \in {"extends", "methods"} => Unlinked
  /\ phase = "methods" => todo \subseteq Ifaces
  /\ phase \in {"methods", "members", "lower", "running"} => IfacesLinked
  /\ phase \in {"members", "lower", "running"} => ClassesLinked
  /\ phase = "members" => ParentsFirst
  /\ phase \in {"lower", "running"} => AllBuilt

IInv ==
  /\ program \in Programs
  /\ phase \in {"collect", "extends", "methods", "members", "lower", "running", "rejected"}
  /\ phase \in {"lower", "running"} => errors = {}
  /\ phase # "rejected" /\ errors = {} => TablesAreRight
  /\ phase = "running" =>
        image = [k \in {OBJECT} \cup Classes |-> Descriptor(program, registry, k)]
  /\ phase # "running" => event = [op |-> "none"]


-----------------------------------------------------------------------------
(* ---- declarations and their entries --------------------------------------------------- *)

(* The parts of a declaration have their types, and its index is neither Object nor the mark
   for no symbol. *)
LEMMA DeclarationIs ==
  ASSUME NEW p \in Seq(Declarations), NEW k \in DOMAIN p
  PROVE  /\ k \in Nat /\ k \in 1 .. Len(p) /\ k # OBJECT /\ k # NoSym
         /\ p[k].d \in {"class", "iface"} /\ p[k].name \in STRING
         /\ p[k].extends \in Seq(STRING) /\ p[k].implements \in Seq(STRING)
         /\ p[k].members \in Seq(Members)
<1>1. p[k] \in Declarations /\ k \in 1 .. Len(p) OBVIOUS
<1>2. k \in Nat /\ k # OBJECT /\ k # NoSym BY <1>1 DEF OBJECT, NoSym
<1> QED BY <1>1, <1>2 DEF Declarations

(* What the checker computes from a member declaration has its type: signature, qualified name
   and visibility. *)
LEMMA MemberIs ==
  ASSUME NEW m \in Members
  PROVE  /\ build_sig(m) \in Sigs /\ member_name(m) \in QNames /\ QName("", m.name) \in QNames
         /\ visibility(m) \in Visibilities /\ m.m \in MemberKinds /\ m.ty \in STRING
         /\ m.const \in BOOLEAN /\ m.final \in BOOLEAN
<1>1. build_sig(m) \in Sigs BY DEF Members, build_sig, Sigs
<1>2. m.name \in STRING /\ m.ns \in STRING /\ m.m \in MemberKinds /\ m.ty \in STRING
      /\ m.const \in BOOLEAN /\ m.final \in BOOLEAN /\ m.vis \in Visibilities BY DEF Members, MemberKinds
<1>3. visibility(m) \in Visibilities BY <1>2 DEF visibility, Visibilities
<1>4. member_name(m) \in QNames /\ QName("", m.name) \in QNames BY <1>2 DEF member_name, QNames, QName
<1> QED BY <1>1, <1>2, <1>3, <1>4

(* The entry collect_types makes for a declaration: nothing in it yet, and Object for its
   parent. *)
LEMMA EmptyIs ==
  ASSUME NEW k \in Nat
  PROVE  /\ EmptyInfo(k) \in Infos /\ Blank(EmptyInfo(k))
         /\ EmptyInfo(k).parent = IF k = OBJECT THEN NoSym ELSE OBJECT
         /\ EmptyInfo(k).interfaces = {} /\ EmptyInfo(k).extends = <<>>
<1> DEFINE up == IF k = OBJECT THEN NoSym ELSE OBJECT
<1>1. up \in Int BY DEF NoSym, OBJECT
<1>2. DefaultSig \in Sigs BY DEF DefaultSig, Sigs
<1>3. Blank(EmptyInfo(k)) BY DEF EmptyInfo, Blank, DefaultSig
<1> HIDE DEF up
<1>4. EmptyInfo(k) \in Infos BY <1>1, <1>2 DEF EmptyInfo, Infos, up
<1> QED BY <1>3, <1>4 DEF EmptyInfo

(* Merging lists of interface methods gives one.                            *)
LEMMA MergeIs ==
  ASSUME NEW list \in Seq(IfaceMethods), NEW entries \in Seq(IfaceMethods)
  PROVE  Merge(list, entries) \in Seq(IfaceMethods)
<1> DEFINE n == Len(entries)
           T == Seq(IfaceMethods)
           Next1(s, i) == IF Keyed(s, entries[i].name, entries[i].kind) # NoSym THEN s
                          ELSE Append(s, entries[i])
           step == [x \in T \X (1 .. n) |-> Next1(x[1], x[2])]
           Is(g) == g = [i \in 0 .. n |-> IF i = 0 THEN list ELSE Next1(g[i - 1], i)]
<1>1. n \in Nat /\ list \in T /\ \A i \in 1 .. n : entries[i] \in IfaceMethods OBVIOUS
<1>2. \A s \in T : \A i \in 1 .. n : Next1(s, i) \in T
  <2> SUFFICES ASSUME NEW s \in T, NEW i \in 1 .. n PROVE Next1(s, i) \in T OBVIOUS
  <2>1. entries[i] \in IfaceMethods BY <1>1
  <2> HIDE DEF n
  <2>2. Append(s, entries[i]) \in T BY <2>1
  <2> HIDE DEF T
  <2> QED BY <2>2
<1> HIDE DEF T, Next1
<1>3. step \in [T \X (1 .. n) -> T] BY <1>2
<1>4. PICK g : IsRun(g, n, T, list, step)
  <2> HIDE DEF step, n
  <2> QED BY <1>1, <1>3, Recursion
<1>5. Is(g)
  <2>1. g \in [0 .. n -> T] /\ g[0] = list /\ \A i \in 1 .. n : g[i] = step[<<g[i - 1], i>>]
    BY <1>4 DEF IsRun
  <2>2. \A i \in 1 .. n : i - 1 \in 0 .. n BY <1>1
  <2> HIDE DEF n
  <2>3. \A i \in 1 .. n : g[i] = Next1(g[i - 1], i) BY <2>1, <2>2
  <2> HIDE DEF step
  <2>4. \A i \in 0 .. n : i = 0 \/ i \in 1 .. n BY <1>1
  <2>5. \A i \in 0 .. n : g[i] = IF i = 0 THEN list ELSE Next1(g[i - 1], i) BY <2>1, <2>3, <2>4
  <2>6. g = [i \in 0 .. n |-> g[i]] BY <2>1
  <2> QED BY <2>5, <2>6
<1> DEFINE h == CHOOSE h : Is(h)
<1>6. Is(h) BY <1>5
<1>7. Merge(list, entries) = h[n] BY DEF Merge, Next1
<1>8. h[0] = list /\ \A i \in 1 .. n : h[i] = Next1(h[i - 1], i)
  <2>1. 0 \in 0 .. n /\ \A i \in 1 .. n : i \in 0 .. n /\ i # 0 BY <1>1
  <2> HIDE DEF h, n
  <2> QED BY <1>6, <2>1
<1> HIDE DEF h
<1> DEFINE S == {i \in 0 .. n : h[i] \in T}
<1>9. 0 .. n \subseteq S
  <2>1. 0 \in S BY <1>1, <1>8
  <2>2. ASSUME NEW i \in 0 .. n - 1, i \in S PROVE i + 1 \in S
    <3>1. i + 1 \in 1 .. n /\ i + 1 \in 0 .. n /\ (i + 1) - 1 = i BY <1>1
    <3>2. h[i + 1] = Next1(h[i], i + 1) BY <3>1, <1>8
    <3>3. h[i + 1] \in T BY <3>1, <3>2, <2>2, <1>2
    <3> QED BY <3>1, <3>3
  <2> HIDE DEF S, n
  <2> QED BY <1>1, <2>1, <2>2, Induction
<1>10. n \in S
  <2> HIDE DEF S, n
  <2> QED BY <1>1, <1>9
<1> QED BY <1>7, <1>10 DEF T

(* An interface's list is made of the lists of its bases and its own.       *)
LEMMA IfaceMethodsAre ==
  ASSUME NEW p \in Seq(Declarations), NEW reg, NEW k \in DOMAIN p,
         reg[k].extends \in Seq(Nat),
         \A i \in 1 .. Len(reg[k].extends) : reg[reg[k].extends[i]].methods \in Seq(IfaceMethods)
  PROVE  build_iface_methods(p, reg, k) \in Seq(IfaceMethods)
<1> DEFINE bases == reg[k].extends
           own == p[k].members
           n == Len(bases)
           T == Seq(IfaceMethods)
           Next1(s, i) == Merge(s, reg[bases[i]].methods)
           step == [x \in T \X (1 .. n) |-> Next1(x[1], x[2])]
           Is(g) == g = [i \in 0 .. n |-> IF i = 0 THEN <<>> ELSE Next1(g[i - 1], i)]
           mine == [j \in DOMAIN own |->
                      [name |-> QName("", own[j].name), kind |-> own[j].m, sig |-> build_sig(own[j])]]
<1>1. n \in Nat /\ <<>> \in T OBVIOUS
<1>2. \A s \in T : \A i \in 1 .. n : Next1(s, i) \in T BY MergeIs
<1>3. mine \in Seq(IfaceMethods)
  <2>1. own \in Seq(Members) BY DeclarationIs
  <2> HIDE DEF own
  <2>2. ASSUME NEW j \in 1 .. Len(own)
        PROVE  [name |-> QName("", own[j].name), kind |-> own[j].m, sig |-> build_sig(own[j])] \in IfaceMethods
    <3>1. own[j] \in Members BY <2>1
    <3>2. build_sig(own[j]) \in Sigs /\ QName("", own[j].name) \in QNames /\ own[j].m \in MemberKinds
      BY <3>1, MemberIs
    <3> QED BY <3>2 DEF IfaceMethods
  <2>3. DOMAIN own = 1 .. Len(own) /\ Len(own) \in Nat BY <2>1
  <2>4. mine \in [1 .. Len(own) -> IfaceMethods] BY <2>2, <2>3
  <2> HIDE DEF mine
  <2> QED BY <2>3, <2>4
<1> HIDE DEF T, Next1, mine
<1>4. step \in [T \X (1 .. n) -> T] BY <1>2
<1>5. PICK g : IsRun(g, n, T, <<>>, step)
  <2> HIDE DEF step, n
  <2> QED BY <1>1, <1>4, Recursion
<1>6. Is(g)
  <2>1. g \in [0 .. n -> T] /\ g[0] = <<>> /\ \A i \in 1 .. n : g[i] = step[<<g[i - 1], i>>]
    BY <1>5 DEF IsRun
  <2>2. \A i \in 1 .. n : i - 1 \in 0 .. n BY <1>1
  <2> HIDE DEF n
  <2>3. \A i \in 1 .. n : g[i] = Next1(g[i - 1], i) BY <2>1, <2>2
  <2> HIDE DEF step
  <2>4. \A i \in 0 .. n : i = 0 \/ i \in 1 .. n BY <1>1
  <2>5. \A i \in 0 .. n : g[i] = IF i = 0 THEN <<>> ELSE Next1(g[i - 1], i) BY <2>1, <2>3, <2>4
  <2>6. g = [i \in 0 .. n |-> g[i]] BY <2>1
  <2> QED BY <2>5, <2>6
<1> DEFINE h == CHOOSE h : Is(h)
<1>7. Is(h) BY <1>6
<1>8. build_iface_methods(p, reg, k) = Merge(h[n], mine) BY DEF build_iface_methods, Next1, mine
<1>9. h[0] = <<>> /\ \A i \in 1 .. n : h[i] = Next1(h[i - 1], i)
  <2>1. 0 \in 0 .. n /\ \A i \in 1 .. n : i \in 0 .. n /\ i # 0 BY <1>1
  <2> HIDE DEF h, n
  <2> QED BY <1>7, <2>1
<1> HIDE DEF h
<1> DEFINE S == {i \in 0 .. n : h[i] \in T}
<1>10. 0 .. n \subseteq S
  <2>1. 0 \in S BY <1>1, <1>9
  <2>2. ASSUME NEW i \in 0 .. n - 1, i \in S PROVE i + 1 \in S
    <3>1. i + 1 \in 1 .. n /\ i + 1 \in 0 .. n /\ (i + 1) - 1 = i BY <1>1
    <3>2. h[i + 1] = Next1(h[i], i + 1) BY <3>1, <1>9
    <3>3. h[i + 1] \in T BY <3>1, <3>2, <2>2, <1>2
    <3> QED BY <3>1, <3>3
  <2> HIDE DEF S, n
  <2> QED BY <1>1, <2>1, <2>2, Induction
<1>11. n \in S
  <2> HIDE DEF S, n
  <2> QED BY <1>1, <1>10
<1>12. h[n] \in Seq(IfaceMethods) BY <1>11 DEF T
<1> QED BY <1>3, <1>8, <1>12, MergeIs


(* A sequence over a set is one over every larger set. *)
LEMMA SeqOfMore ==
  ASSUME NEW D, NEW E, D \subseteq E, NEW s \in Seq(D)
  PROVE  s \in Seq(E)
<1>1. Len(s) \in Nat /\ s \in [1 .. Len(s) -> D] OBVIOUS
<1>2. s \in [1 .. Len(s) -> E] BY <1>1
<1> QED BY <1>1, <1>2

(* A list of names that resolves gives exactly the declarations that bear one of the names. *)
LEMMA NamesResolve ==
  ASSUME NEW p \in Seq(Declarations), NamesAreUnique(p), NEW names \in Seq(STRING), NEW d,
         Resolves(p, names, d)
  PROVE  /\ Range(Resolve(p, names, d)) = {l \in DOMAIN p : p[l].name \in Range(names)}
         /\ Range(Resolve(p, names, d)) \subseteq Decls(p, d)
<1> DEFINE r == Resolve(p, names, d)
           sym(i) == resolve_type_sym(p, names[i], d)
<1>1. r \in Seq(DOMAIN p) /\ Len(r) = Len(names) /\ \A i \in 1 .. Len(names) : r[i] = sym(i)
  BY ResolveIs
<1>2. \A i \in 1 .. Len(names) :
         /\ sym(i) \in DOMAIN p /\ p[sym(i)].d = d /\ p[sym(i)].name = names[i]
         /\ {l \in DOMAIN p : p[l].name = names[i]} = {sym(i)}
  <2> SUFFICES ASSUME NEW i \in 1 .. Len(names)
               PROVE  /\ sym(i) \in DOMAIN p /\ p[sym(i)].d = d /\ p[sym(i)].name = names[i]
                      /\ {l \in DOMAIN p : p[l].name = names[i]} = {sym(i)}
    OBVIOUS
  <2>1. sym(i) # NoSym BY DEF Resolves
  <2> QED BY <2>1, SymIs
<1> HIDE DEF r, sym
<1>3. Range(r) = {sym(i) : i \in 1 .. Len(names)} /\ Range(names) = {names[i] : i \in 1 .. Len(names)}
  <2>1. DOMAIN r = 1 .. Len(names) /\ DOMAIN names = 1 .. Len(names) BY <1>1
  <2>2. Range(names) = {names[i] : i \in 1 .. Len(names)} BY <2>1 DEF Range
  <2>3. Range(r) = {r[i] : i \in 1 .. Len(names)} BY <2>1 DEF Range
  <2>4. {r[i] : i \in 1 .. Len(names)} = {sym(i) : i \in 1 .. Len(names)} BY <1>1
  <2> QED BY <2>2, <2>3, <2>4
<1>4. Range(r) \subseteq {l \in DOMAIN p : p[l].name \in Range(names)} BY <1>2, <1>3
<1>5. ASSUME NEW l \in DOMAIN p, p[l].name \in Range(names) PROVE l \in Range(r)
  <2>1. PICK i \in 1 .. Len(names) : p[l].name = names[i] BY <1>3, <1>5
  <2>2. l = sym(i) BY <2>1, <1>2
  <2> QED BY <1>3, <2>2
<1>6. Range(r) \subseteq Decls(p, d) BY <1>2, <1>3 DEF Decls
<1> QED BY <1>4, <1>5, <1>6 DEF r

(* Writing the extends list of an entry leaves the rest of the entry as it was. *)
LEMMA InfoExtends ==
  ASSUME NEW i \in Infos, NEW e \in Seq(Nat)
  PROVE  LET r == [i EXCEPT !.extends = e]
         IN  /\ r \in Infos /\ r.extends = e /\ r.parent = i.parent /\ r.interfaces = i.interfaces
             /\ r.methods = i.methods /\ (Blank(i) => Blank(r))
BY DEF Infos, Blank

(* Writing the methods of an interface leaves the rest of its entry as it was. *)
LEMMA InfoMethods ==
  ASSUME NEW i \in Infos, NEW ms \in Seq(IfaceMethods)
  PROVE  LET r == [i EXCEPT !.methods = ms]
         IN  /\ r \in Infos /\ r.methods = ms /\ r.parent = i.parent /\ r.interfaces = i.interfaces
             /\ r.extends = i.extends /\ (Blank(i) => Blank(r))
BY DEF Infos, Blank

Reparented(i, up, is) == [i EXCEPT !.parent = up, !.interfaces = is]

(* Writing parent and interfaces of a class leaves the rest of its entry as it was. *)
LEMMA InfoParent ==
  ASSUME NEW i \in Infos, NEW up \in Int, NEW is \in SUBSET Nat
  PROVE  LET r == Reparented(i, up, is)
         IN  /\ r \in Infos /\ r.methods = i.methods /\ r.parent = up /\ r.interfaces = is
             /\ r.extends = i.extends /\ (Blank(i) => Blank(r))
BY DEF Infos, Blank, Reparented

(* A diagnostic that is not given was not called for.                       *)
LEMMA NoError ==
  ASSUME NEW c, NEW e, Error(c, e) = {}
  PROVE  ~ c
BY DEF Error


-----------------------------------------------------------------------------
(* ---- the passes on the hierarchy ------------------------------------------------------ *)

(* A program is a sequence of declarations, each a class or an interface, and Object is none of
   them. *)
LEMMA ProgramIs ==
  ASSUME program \in Programs
  PROVE  /\ program \in Seq(Declarations) /\ DOMAIN program = 1 .. Len(program) /\ Len(program) \in Nat
         /\ {OBJECT} \cup DOMAIN program = 0 .. Len(program)
         /\ Classes \cap Ifaces = {} /\ Classes \cup Ifaces = DOMAIN program
         /\ OBJECT \notin DOMAIN program /\ OBJECT # NoSym /\ NoSym \notin 0 .. Len(program)
         /\ \A k \in Classes : Len(program[k].extends) <= 1
<1>1. program \in Seq(Declarations) /\ \A k \in DOMAIN program : program[k].d = "class" => Len(program[k].extends) <= 1
  BY ProgramsAssumption
<1>2. DOMAIN program = 1 .. Len(program) /\ Len(program) \in Nat BY <1>1
<1>3. \A k \in DOMAIN program : program[k].d \in {"class", "iface"} BY <1>1, DeclarationIs
<1>4. Classes \cap Ifaces = {} /\ Classes \cup Ifaces = DOMAIN program BY <1>3 DEF Classes, Ifaces, Decls
<1>5. \A k \in Classes : Len(program[k].extends) <= 1 BY <1>1 DEF Classes, Decls
<1> QED BY <1>1, <1>2, <1>4, <1>5 DEF OBJECT, NoSym

(* The extends clauses as a relation on the declarations, by name. *)
LEMMA ExtendedIs ==
  ASSUME program \in Programs
  PROVE  /\ Relation(Extended, DOMAIN program)
         /\ \A k \in DOMAIN program : Extended[k] = {l \in DOMAIN program : program[l].name \in Range(program[k].extends)}
BY DEF Extended, Relation

(* collect_types, which enters every declaration under its name, keeps the invariant. *)
LEMMA CollectKeeps ==
  ASSUME IInv, collect_types
  PROVE  IInv'
<1>1. program \in Programs /\ program' = program /\ phase' = "extends" /\ event' = event /\ event = [op |-> "none"]
  BY DEF IInv, collect_types
<1>2. registry' = [k \in 0 .. Len(program) |-> EmptyInfo(k)] BY <1>1, ProgramIs DEF collect_types
<1>3. ASSUME errors' = {} PROVE TablesAreRight'
  <2>1. NamesAreUnique(program)
    <3>1. ~ \E k, l \in DOMAIN program : k # l /\ program[k].name = program[l].name
      <4>1. errors' = Error(\E k, l \in DOMAIN program : k # l /\ program[k].name = program[l].name,
                       "type declared twice") BY DEF collect_types
      <4> QED BY <4>1, <1>3, NoError
    <3> QED BY <3>1 DEF NamesAreUnique
  <2>2. \A k \in 0 .. Len(program) : /\ registry'[k] = EmptyInfo(k) /\ k \in Nat
    BY <1>1, <1>2, ProgramIs
  <2>3. \A k \in 0 .. Len(program) :
           /\ registry'[k] \in Infos /\ Blank(registry'[k]) /\ registry'[k].interfaces = {}
           /\ registry'[k].extends = <<>>
           /\ registry'[k].parent = IF k = OBJECT THEN NoSym ELSE OBJECT
    BY <2>2, EmptyIs
  <2>4. registry' \in [0 .. Len(program) -> Infos] BY <1>2, <2>3
  <2>5. OBJECT \in 0 .. Len(program) /\ \A k \in Classes \cup Ifaces : k \in 0 .. Len(program) /\ k # OBJECT
    BY <1>1, ProgramIs
  <2>6. Classes' = Classes /\ Ifaces' = Ifaces BY <1>1 DEF Classes, Ifaces
  <2>7. Registered' BY <1>1, <2>1, <2>3, <2>4, <2>5, <2>6 DEF Registered
  <2>8. Unlinked' BY <2>3, <2>5, <2>6 DEF Unlinked, Blank
  <2> QED BY <1>1, <2>7, <2>8 DEF TablesAreRight
<1> QED BY <1>1, <1>3 DEF IInv


(* The resolution of the extends clauses of interfaces, cycles broken, keeps the invariant. *)
LEMMA ResolveExtendsKeeps ==
  ASSUME IInv, ResolveExtends
  PROVE  IInv'
<1> DEFINE ext    == [k \in Ifaces |-> Resolve(program, program[k].extends, "iface")]
           cyclic == BreakCycles(program, [k \in Ifaces |-> Range(ext[k])], {})
           e(k)   == IF k \in Ifaces \ cyclic THEN ext[k] ELSE registry[k].extends
           unresolved == \E k \in Ifaces : ~ Resolves(program, program[k].extends, "iface")
<1>1. /\ program \in Programs /\ program' = program /\ phase = "extends" /\ phase' = "methods"
      /\ event' = event /\ event = [op |-> "none"] /\ todo' = Ifaces
      /\ errors \in SUBSET errors'
  BY DEF IInv, ResolveExtends, Ifaces
<1>2. registry' = [k \in DOMAIN registry |-> [registry[k] EXCEPT !.extends = e(k)]]
  BY DEF ResolveExtends, Ifaces
<1>3. errors' = errors \cup Error(unresolved, "not an interface")
                       \cup Error(cyclic # {}, "interface extends itself")
  BY DEF ResolveExtends, Ifaces
<1> HIDE DEF cyclic, unresolved
<1>4. ASSUME errors' = {} PROVE TablesAreRight'
  <2>1. errors = {} /\ Registered /\ Unlinked BY <1>1, <1>4 DEF IInv, TablesAreRight
  <2>2. ~ unresolved /\ cyclic = {} BY <1>3, <1>4, NoError
  <2>3. \A k \in Ifaces : k \in DOMAIN program /\ Resolves(program, program[k].extends, "iface")
    BY <2>2 DEF unresolved, Ifaces, Decls
  <2>4. \A k \in Ifaces : /\ ext[k] \in Seq(Nat)
                          /\ Range(ext[k]) = Extended[k] /\ Extended[k] \subseteq Ifaces
    <3> SUFFICES ASSUME NEW k \in Ifaces
                 PROVE  ext[k] \in Seq(Nat) /\ Range(ext[k]) = Extended[k] /\ Extended[k] \subseteq Ifaces
      OBVIOUS
    <3>1. program \in Seq(Declarations) /\ NamesAreUnique(program) /\ program[k].extends \in Seq(STRING)
      BY <1>1, <2>1, <2>3, ProgramIs, DeclarationIs DEF Registered
    <3>2. ext[k] = Resolve(program, program[k].extends, "iface") OBVIOUS
    <3> HIDE DEF ext
    <3>3. /\ Range(ext[k]) = {l \in DOMAIN program : program[l].name \in Range(program[k].extends)}
          /\ Range(ext[k]) \subseteq Decls(program, "iface")
      BY <3>1, <3>2, <2>3, NamesResolve
    <3>4. ext[k] \in Seq(DOMAIN program) BY <3>1, <3>2, <2>3, ResolveIs
    <3>5. DOMAIN program \subseteq Nat BY <3>1
    <3>6. ext[k] \in Seq(Nat) BY <3>4, <3>5, SeqOfMore
    <3>7. Extended[k] = Range(ext[k]) BY <1>1, <2>3, <3>3, ExtendedIs
    <3> QED BY <3>3, <3>6, <3>7 DEF Ifaces
  <2>5. \A k \in 0 .. Len(program) : registry[k] \in Infos BY <2>1 DEF Registered
  <2>6. \A k \in 0 .. Len(program) : e(k) \in Seq(Nat)
    <3> SUFFICES ASSUME NEW k \in 0 .. Len(program) PROVE e(k) \in Seq(Nat) OBVIOUS
    <3>1. registry[k].extends \in Seq(Nat) BY <2>5 DEF Infos
    <3> HIDE DEF ext
    <3> QED BY <3>1, <2>4
  <2>7. \A k \in Ifaces : e(k) = ext[k] BY <2>2
  <2> HIDE DEF e, ext
  <2>8. DOMAIN registry = 0 .. Len(program) BY <2>1 DEF Registered
  <2>9. \A k \in 0 .. Len(program) :
           /\ registry'[k] \in Infos /\ registry'[k].extends = e(k)
           /\ registry'[k].parent = registry[k].parent
           /\ registry'[k].interfaces = registry[k].interfaces /\ (Blank(registry[k]) => Blank(registry'[k]))
    <3> SUFFICES ASSUME NEW k \in 0 .. Len(program)
                 PROVE  /\ registry'[k] \in Infos /\ registry'[k].extends = e(k)
                        /\ registry'[k].parent = registry[k].parent
                        /\ registry'[k].interfaces = registry[k].interfaces
                        /\ (Blank(registry[k]) => Blank(registry'[k]))
      OBVIOUS
    <3>1. registry'[k] = [registry[k] EXCEPT !.extends = e(k)] BY <1>2, <2>8
    <3> QED BY <3>1, <2>5, <2>6, InfoExtends
  <2>10. OBJECT \in 0 .. Len(program) /\ \A k \in Classes \cup Ifaces : k \in 0 .. Len(program)
    BY <1>1, ProgramIs
  <2>11. Classes' = Classes /\ Ifaces' = Ifaces /\ Extended' = Extended
    BY <1>1 DEF Classes, Ifaces, Extended
  <2>12. registry' \in [0 .. Len(program) -> Infos] BY <1>2, <2>8, <2>9
  <2>17. \A k \in (0 .. Len(program)) \ Ifaces : e(k) = registry[k].extends BY DEF e
  <2>13. Registered' BY <1>1, <2>1, <2>9, <2>10, <2>11, <2>12, <2>17 DEF Registered
  <2>14. Unlinked' BY <2>1, <2>9, <2>10, <2>11 DEF Unlinked, Blank
  <2>15. IfacesLinked' BY <2>4, <2>7, <2>9, <2>10, <2>11 DEF IfacesLinked
  <2> QED BY <1>1, <2>11, <2>13, <2>14, <2>15 DEF TablesAreRight
<1> QED BY <1>1, <1>4 DEF IInv

(* build_iface_methods, for an interface whose bases are done, keeps the invariant. *)
LEMMA BuildInterfaceKeeps ==
  ASSUME IInv, BuildInterface
  PROVE  IInv'
<1> DEFINE k  == First(todo)
           ms == build_iface_methods(program, registry, k)
<1>1. /\ program \in Programs /\ program' = program /\ phase = "methods" /\ phase' = phase
      /\ event' = event /\ event = [op |-> "none"] /\ todo' = todo \ {k} /\ todo # {}
      /\ errors \in SUBSET errors' /\ registry' = [registry EXCEPT ![k].methods = ms]
  BY DEF IInv, BuildInterface
<1>2. ASSUME errors' = {} PROVE TablesAreRight'
  <2>1. errors = {} /\ Registered /\ Unlinked /\ IfacesLinked /\ todo \subseteq Ifaces
    BY <1>1, <1>2 DEF IInv, TablesAreRight
  <2>2. program \in Seq(Declarations) /\ \A l \in Ifaces : l \in DOMAIN program /\ l \in Nat /\ l \in 0 .. Len(program)
    <3>1. \A l \in Ifaces : l \in DOMAIN program /\ l \in 0 .. Len(program) BY <1>1, ProgramIs
    <3> QED BY <1>1, <3>1, ProgramIs, DeclarationIs
  <2>3. k \in Ifaces
    <3>1. todo \in SUBSET Nat BY <2>1, <2>2
    <3> QED BY <1>1, <2>1, <3>1, FirstIs
  <2> HIDE DEF k
  <2>4. \A l \in 0 .. Len(program) : registry[l] \in Infos BY <2>1 DEF Registered
  <2>5. ms \in Seq(IfaceMethods)
    <3>1. registry[k].extends \in Seq(Nat) BY <2>2, <2>3, <2>4 DEF Infos
    <3>2. \A i \in 1 .. Len(registry[k].extends) : registry[registry[k].extends[i]].methods \in Seq(IfaceMethods)
      <4> SUFFICES ASSUME NEW i \in 1 .. Len(registry[k].extends)
                   PROVE  registry[registry[k].extends[i]].methods \in Seq(IfaceMethods)
        OBVIOUS
      <4>1. registry[k].extends[i] \in Range(registry[k].extends) BY <3>1, InRange
      <4>2. registry[k].extends[i] \in 0 .. Len(program) BY <4>1, <2>1, <2>2, <2>3 DEF IfacesLinked
      <4> QED BY <4>2, <2>4 DEF Infos
    <3> QED BY <2>2, <2>3, <3>1, <3>2, IfaceMethodsAre
  <2> HIDE DEF ms
  <2>6. DOMAIN registry = 0 .. Len(program) BY <2>1 DEF Registered
  <2>7. \A l \in 0 .. Len(program) : registry'[l] = IF l = k THEN [registry[k] EXCEPT !.methods = ms] ELSE registry[l]
    BY <1>1, <2>6
  <2>8. \A l \in 0 .. Len(program) :
           /\ registry'[l] \in Infos /\ registry'[l].extends = registry[l].extends
           /\ registry'[l].parent = registry[l].parent
           /\ registry'[l].interfaces = registry[l].interfaces /\ (Blank(registry[l]) => Blank(registry'[l]))
    <3> SUFFICES ASSUME NEW l \in 0 .. Len(program)
                 PROVE  /\ registry'[l] \in Infos /\ registry'[l].extends = registry[l].extends
                        /\ registry'[l].parent = registry[l].parent
                        /\ registry'[l].interfaces = registry[l].interfaces
                        /\ (Blank(registry[l]) => Blank(registry'[l]))
      OBVIOUS
    <3>1. CASE l = k
      <4>1. registry'[k] = [registry[k] EXCEPT !.methods = ms] /\ registry[k] \in Infos
        BY <3>1, <2>4, <2>7
      <4> QED BY <3>1, <4>1, <2>5, InfoMethods
    <3>2. CASE l # k BY <3>2, <2>4, <2>7
    <3> QED BY <3>1, <3>2
  <2>9. OBJECT \in 0 .. Len(program) /\ \A l \in Classes \cup Ifaces : l \in 0 .. Len(program)
    BY <1>1, ProgramIs
  <2>10. Classes' = Classes /\ Ifaces' = Ifaces /\ Extended' = Extended
    BY <1>1 DEF Classes, Ifaces, Extended
  <2>11. registry' \in [0 .. Len(program) -> Infos]
    <3>1. registry \in [0 .. Len(program) -> Infos] BY <2>1 DEF Registered
    <3>2. [registry[k] EXCEPT !.methods = ms] \in Infos BY <2>2, <2>3, <2>7, <2>8
    <3> DEFINE v == [registry[k] EXCEPT !.methods = ms]
    <3>3. registry' = [registry EXCEPT ![k] = v] BY <1>1
    <3>4. v \in Infos BY <3>2
    <3> HIDE DEF v
    <3> QED BY <3>1, <3>3, <3>4
  <2>12. Registered' BY <1>1, <2>1, <2>8, <2>9, <2>10, <2>11 DEF Registered
  <2>13. Unlinked' BY <2>1, <2>8, <2>9, <2>10 DEF Unlinked, Blank
  <2>14. IfacesLinked' BY <2>1, <2>8, <2>9, <2>10 DEF IfacesLinked
  <2>15. (todo \subseteq Ifaces)' BY <1>1, <2>1, <2>10
  <2> QED BY <1>1, <2>12, <2>13, <2>14, <2>15 DEF TablesAreRight
<1> QED BY <1>1, <1>2 DEF IInv


(* The first name after `extends`.                                          *)
FirstOr(names, other) == IF names = <<>> THEN other ELSE names[1]

(* The resolution of parents and implements clauses, cycles broken, keeps the invariant. *)
LEMMA ResolveParentsKeeps ==
  ASSUME IInv, ResolveParents
  PROVE  IInv'
<1> DEFINE sup(k) == Resolve(program, program[k].extends, "class")
           imp(k) == Resolve(program, program[k].implements, "iface")
           par    == [k \in Classes |-> FirstOr(sup(k), OBJECT)]
           next   == [k \in Classes |-> {par[k]} \ {OBJECT}]
           cyclic == BreakCycles(program, next, {})
           up(k)  == IF k \in cyclic THEN OBJECT ELSE par[k]
           is(k)  == FlattenInterfaces(registry, Range(imp(k)))
           unresolved == \E k \in Classes : ~ Resolves(program, program[k].extends, "class")
           unlisted   == \E k \in Classes : ~ Resolves(program, program[k].implements, "iface")
<1>1. /\ program \in Programs /\ program' = program /\ phase = "methods" /\ phase' = "members"
      /\ event' = event /\ event = [op |-> "none"] /\ todo' = Classes
  BY DEF IInv, ResolveParents, Classes
<1>2. registry' = [k \in DOMAIN registry |->
                      IF k \in Classes THEN [registry[k] EXCEPT !.parent = up(k), !.interfaces = is(k)]
                      ELSE registry[k]]
  BY DEF ResolveParents, Classes, FirstOr
<1>3. /\ errors \in SUBSET errors' /\ Error(unresolved, "not a class") \in SUBSET errors'
      /\ Error(cyclic # {}, "class inherits from itself") \in SUBSET errors'
      /\ Error(unlisted, "not an interface") \in SUBSET errors'
  BY DEF ResolveParents, Classes, FirstOr
<1> HIDE DEF cyclic, unresolved, unlisted
<1>4. ASSUME errors' = {} PROVE TablesAreRight'
  <2>1. errors = {} /\ Registered /\ Unlinked /\ IfacesLinked
    BY <1>1, <1>3, <1>4 DEF IInv, TablesAreRight
  <2>2. ~ unresolved /\ ~ unlisted /\ cyclic = {} BY <1>3, <1>4, NoError
  <2>3. /\ program \in Seq(Declarations) /\ NamesAreUnique(program)
        /\ \A k \in Classes \cup Ifaces : k \in DOMAIN program /\ k \in Nat /\ k \in 0 .. Len(program) /\ k # OBJECT
        /\ OBJECT \in 0 .. Len(program) /\ Classes \cap Ifaces = {}
    BY <1>1, <2>1, ProgramIs DEF Registered
  <2>4. \A k \in Classes : /\ Range(imp(k)) = {l \in Ifaces : program[l].name \in Range(program[k].implements)}
                           /\ Extended[k] = {par[k]} \ {OBJECT} /\ par[k] \in Classes \cup {OBJECT}
    <3> SUFFICES ASSUME NEW k \in Classes
                 PROVE  /\ Range(imp(k)) = {l \in Ifaces : program[l].name \in Range(program[k].implements)}
                        /\ Extended[k] = {par[k]} \ {OBJECT} /\ par[k] \in Classes \cup {OBJECT}
      OBVIOUS
    <3>1. /\ k \in DOMAIN program /\ program[k].extends \in Seq(STRING) /\ program[k].implements \in Seq(STRING)
          /\ Len(program[k].extends) <= 1
      BY <1>1, <2>3, ProgramIs, DeclarationIs
    <3>2. Resolves(program, program[k].extends, "class") /\ Resolves(program, program[k].implements, "iface")
      BY <2>2 DEF unresolved, unlisted
    <3>3. /\ Range(imp(k)) = {l \in DOMAIN program : program[l].name \in Range(program[k].implements)}
          /\ Range(imp(k)) \subseteq Ifaces
      BY <2>3, <3>1, <3>2, NamesResolve DEF Ifaces
    <3>4. /\ Range(sup(k)) = {l \in DOMAIN program : program[l].name \in Range(program[k].extends)}
          /\ Range(sup(k)) \subseteq Classes
      BY <2>3, <3>1, <3>2, NamesResolve DEF Classes
    <3>5. sup(k) \in Seq(DOMAIN program) /\ Len(sup(k)) <= 1 BY <2>3, <3>1, <3>2, ResolveIs
    <3>6. Extended[k] = Range(sup(k)) BY <1>1, <3>1, <3>4, ExtendedIs
    <3>7. par[k] = FirstOr(sup(k), OBJECT) OBVIOUS
    <3> HIDE DEF sup, imp, par
    <3>8. Range(sup(k)) = IF sup(k) = <<>> THEN {} ELSE {sup(k)[1]} BY <3>5 DEF Range
    <3>9. Range(imp(k)) = {l \in Ifaces : program[l].name \in Range(program[k].implements)}
      BY <2>3, <3>3
    <3>10. CASE sup(k) = <<>> BY <3>6, <3>7, <3>8, <3>9, <3>10 DEF FirstOr
    <3>11. CASE sup(k) # <<>>
      <4>1. par[k] = sup(k)[1] /\ Extended[k] = {par[k]} /\ par[k] \in Classes
        BY <3>4, <3>6, <3>7, <3>8, <3>11 DEF FirstOr
      <4> QED BY <4>1, <2>3, <3>9
    <3> QED BY <3>10, <3>11
  <2>5. \A C \in SUBSET Classes : (\A c \in C : par[c] # OBJECT /\ par[c] \in C) => C = {}
    <3>1. Relation(next, Classes)
      <4>1. \A k \in Classes : {par[k]} \ {OBJECT} \in SUBSET Classes BY <2>4
      <4> HIDE DEF par
      <4> QED BY <4>1 DEF Relation
    <3>2. Classes \subseteq DOMAIN program BY <2>3
    <3>3. BreakCycles(program, next, {}) = {} BY <2>2 DEF cyclic
    <3>4. \A k \in Classes : next[k] = {par[k]} \ {OBJECT} OBVIOUS
    <3> HIDE DEF next, par
    <3>5. \A C \in SUBSET Classes : (\A c \in C : next[c] \cap C # {}) => C = {}
      <4>1. program \in Seq(Declarations) BY <2>3
      <4> QED BY <4>1, <3>1, <3>2, <3>3, NothingCutOff, SMTT(40)
    <3> SUFFICES ASSUME NEW C \in SUBSET Classes, \A c \in C : par[c] # OBJECT /\ par[c] \in C
                 PROVE  C = {}
      OBVIOUS
    <3>6. \A c \in C : par[c] \in next[c] \cap C BY <3>4
    <3> QED BY <3>5, <3>6
  <2>6. \A k \in Classes : up(k) = par[k] BY <2>2
  <2> HIDE DEF up, par, next
  <2>7. \A i \in Ifaces : Reach(Bases(registry), i) = Ancestors(i) /\ Ancestors(i) \subseteq Ifaces
    <3> DEFINE D == 0 .. Len(program)
    <3>1. DOMAIN registry = D BY <2>1 DEF Registered
    <3>2. \A i \in Ifaces : Range(registry[i].extends) = Extended[i] /\ Extended[i] \subseteq Ifaces
      BY <2>1 DEF IfacesLinked
    <3>3. \A i \in D \ Ifaces : Range(registry[i].extends) = {}
      <4> SUFFICES ASSUME NEW i \in D \ Ifaces PROVE Range(registry[i].extends) = {} OBVIOUS
      <4>1. registry[i].extends = <<>> BY <2>1 DEF Registered
      <4>2. Range(<<>>) = {} BY DEF Range
      <4> QED BY <4>1, <4>2
    <3>4. Ifaces \subseteq D BY <2>3
    <3> HIDE DEF D
    <3>5. Relation(Bases(registry), D) /\ \A i \in D : Bases(registry)[i] = Range(registry[i].extends)
      BY <3>1, <3>2, <3>3, <3>4 DEF Relation, Bases
    <3>6. Relation(Extended, DOMAIN program) BY <1>1, ExtendedIs
    <3>7. Ifaces \in SUBSET (D \cap DOMAIN program) BY <3>4, <2>3
    <3>8. \A s \in Ifaces : Bases(registry)[s] \subseteq Ifaces /\ Extended[s] = Bases(registry)[s]
      BY <3>2, <3>4, <3>5
    <3>9. \A i \in Ifaces : /\ Reach(Bases(registry), i) = Reach(Extended, i)
                            /\ Reach(Bases(registry), i) \subseteq Ifaces
      BY <3>5, <3>6, <3>7, <3>8, ReachAgrees
    <3> QED BY <3>9 DEF Ancestors
  <2>8. \A k \in Classes :
           is(k) = UNION {Ancestors(i) : i \in {l \in Ifaces : program[l].name \in Range(program[k].implements)}}
    <3> SUFFICES ASSUME NEW k \in Classes
                 PROVE  is(k) = UNION {Ancestors(i) : i \in {l \in Ifaces :
                                          program[l].name \in Range(program[k].implements)}}
      OBVIOUS
    <3> DEFINE L == {l \in Ifaces : program[l].name \in Range(program[k].implements)}
    <3>1. is(k) = UNION {Reach(Bases(registry), i) : i \in L} BY <2>4 DEF FlattenInterfaces
    <3>2. L \subseteq Ifaces OBVIOUS
    <3> HIDE DEF L, is
    <3>3. {Reach(Bases(registry), i) : i \in L} = {Ancestors(i) : i \in L} BY <3>2, <2>7
    <3> QED BY <3>1, <3>3 DEF L
  <2>9. \A k \in Classes : is(k) \in SUBSET Nat
    <3> SUFFICES ASSUME NEW k \in Classes PROVE is(k) \in SUBSET Nat OBVIOUS
    <3>1. is(k) \subseteq Ifaces
      <4> HIDE DEF is
      <4> QED BY <2>7, <2>8
    <3>2. Ifaces \subseteq Nat BY <2>3
    <3> HIDE DEF is
    <3> QED BY <3>1, <3>2
  <2> HIDE DEF is
  <2>10. DOMAIN registry = 0 .. Len(program) /\ \A k \in 0 .. Len(program) : registry[k] \in Infos
    BY <2>1 DEF Registered
  <2>11. \A k \in Classes :
           /\ registry'[k] \in Infos /\ registry'[k].extends = registry[k].extends
           /\ registry'[k].parent = par[k] /\ registry'[k].interfaces = is(k) /\ Blank(registry'[k])
    <3> SUFFICES ASSUME NEW k \in Classes
                 PROVE  /\ registry'[k] \in Infos /\ registry'[k].extends = registry[k].extends
                        /\ registry'[k].parent = par[k] /\ registry'[k].interfaces = is(k)
                        /\ Blank(registry'[k])
      OBVIOUS
    <3>1. registry'[k] = [registry[k] EXCEPT !.parent = up(k), !.interfaces = is(k)] BY <1>2, <2>3, <2>10
    <3>2. registry[k] \in Infos /\ Blank(registry[k]) BY <2>1, <2>3, <2>10 DEF Unlinked
    <3>3. up(k) \in Int BY <2>3, <2>4, <2>6
    <3>4. up(k) = par[k] BY <2>6
    <3>5. is(k) \in SUBSET Nat BY <2>9
    <3> DEFINE old == registry[k]
               to  == up(k)
               all == is(k)
    <3>6. /\ registry'[k] = Reparented(old, to, all)
          /\ old \in Infos /\ Blank(old) /\ to \in Int /\ all \in SUBSET Nat
      BY <3>1, <3>2, <3>3, <3>5 DEF Reparented
    <3>7. to = par[k] /\ all = is(k) /\ old.extends = registry[k].extends BY <3>4
    <3> HIDE DEF old, to, all
    <3>8. /\ registry'[k] \in Infos /\ registry'[k].extends = old.extends
          /\ registry'[k].parent = to /\ registry'[k].interfaces = all /\ Blank(registry'[k])
      BY <3>6, InfoParent
    <3> QED BY <3>7, <3>8
  <2>12. \A k \in (0 .. Len(program)) \ Classes : registry'[k] = registry[k] BY <1>2, <2>10
  <2>13. Classes' = Classes /\ Ifaces' = Ifaces /\ Extended' = Extended /\ (\A i : Ancestors(i)' = Ancestors(i))
    BY <1>1 DEF Classes, Ifaces, Extended, Ancestors, Reach
  <2>14. Registered'
    <3>1. \A k \in 0 .. Len(program) : registry'[k] \in Infos BY <2>10, <2>11, <2>12
    <3>2. DOMAIN registry' = 0 .. Len(program) /\ registry' = [k \in 0 .. Len(program) |-> registry'[k]]
      BY <1>2, <2>10
    <3>3. registry' \in [0 .. Len(program) -> Infos] BY <3>1, <3>2
    <3>4. registry'[OBJECT] = registry[OBJECT] /\ \A k \in Ifaces : registry'[k] = registry[k]
      BY <2>3, <2>12
    <3>5. \A k \in (0 .. Len(program)) \ Ifaces : registry'[k].extends = registry[k].extends
      BY <2>11, <2>12
    <3> QED BY <1>1, <2>1, <2>13, <3>3, <3>4, <3>5 DEF Registered
  <2>15. IfacesLinked'
    <3>1. \A k \in Ifaces : registry'[k] = registry[k] BY <2>3, <2>12
    <3> QED BY <2>1, <2>13, <3>1 DEF IfacesLinked
  <2>16. ParentsFirst'
    <3>1. \A k \in Classes : Blank(registry'[k]) BY <2>11
    <3> QED BY <1>1, <2>13, <3>1 DEF ParentsFirst
  <2>17. Tree(registry')
    <3>1. DOMAIN registry' = 0 .. Len(program) BY <1>2, <2>10
    <3>2. registry'[OBJECT].parent = NoSym /\ \A k \in Ifaces : registry'[k].parent = OBJECT
      BY <2>1, <2>3, <2>12 DEF Registered
    <3>3. \A k \in Classes : registry'[k].parent = par[k] BY <2>11
    <3>4. 0 .. Len(program) = {OBJECT} \cup Classes \cup Ifaces /\ NoSym \notin 0 .. Len(program)
      BY <1>1, ProgramIs
    <3>5. OBJECT # NoSym /\ NoSym \notin Classes BY <3>4, <2>3
    <3> DEFINE D == DOMAIN registry'
    <3>6. D = {OBJECT} \cup Classes \cup Ifaces /\ NoSym \notin D BY <3>1, <3>4
    <3> HIDE DEF D
    <3>7. \A a \in D : registry'[a].parent \in D \cup {NoSym} BY <2>4, <3>2, <3>3, <3>6
    <3>8. ASSUME NEW S \in SUBSET D, \A a \in D : registry'[a].parent \in S \cup {NoSym} => a \in S
          PROVE  S = D
      <4>1. OBJECT \in S BY <3>2, <3>6, <3>8
      <4>2. Ifaces \subseteq S BY <3>2, <3>6, <3>8, <4>1
      <4> DEFINE C == Classes \ S
      <4>3. \A c \in C : par[c] # OBJECT /\ par[c] \in C
        <5> SUFFICES ASSUME NEW c \in C PROVE par[c] # OBJECT /\ par[c] \in C OBVIOUS
        <5>1. c \in D /\ c \notin S /\ registry'[c].parent = par[c] BY <3>3, <3>6
        <5>2. par[c] \notin S BY <5>1, <3>8
        <5> QED BY <5>2, <4>1, <2>4
      <4>4. C = {}
        <5>1. C \in SUBSET Classes OBVIOUS
        <5> HIDE DEF C
        <5> QED BY <5>1, <4>3, <2>5
      <4> QED BY <3>6, <4>1, <4>2, <4>4
    <3> QED BY <3>6, <3>7, <3>8 DEF Tree, D
  <2>18. ClassesLinked'
    <3>1. \A k \in Classes :
            /\ registry'[k].parent \in Classes \cup {OBJECT}
            /\ Extended[k] = {registry'[k].parent} \ {OBJECT}
            /\ registry'[k].interfaces =
                 UNION {Ancestors(i) : i \in {l \in Ifaces : program[l].name \in Range(program[k].implements)}}
      BY <2>4, <2>8, <2>11
    <3> QED BY <1>1, <2>13, <2>17, <3>1 DEF ClassesLinked
  <2> QED BY <1>1, <2>14, <2>15, <2>16, <2>18 DEF TablesAreRight
<1> QED BY <1>1, <1>4 DEF IInv



-----------------------------------------------------------------------------
(* ---- the members of a class ------------------------------------------------------------ *)

(* What adding a member never changes.                                      *)
Kept(r, acc) ==
  /\ r.parent = acc.parent /\ r.extends = acc.extends /\ r.interfaces = acc.interfaces
  /\ r.methods = acc.methods

(* Reporting a diagnostic changes nothing but the diagnostics of the entry. *)
LEMMA InfoErrs ==
  ASSUME NEW i \in Infos, NEW es \in SUBSET Diagnostics
  PROVE  LET r == [i EXCEPT !.errs = es]
         IN  /\ r \in Infos /\ Kept(r, i) /\ r.errs = es
             /\ r.fields = i.fields /\ r.total_slots = i.total_slots /\ r.vtable = i.vtable
             /\ r.ctor = i.ctor /\ r.ctor_sig = i.ctor_sig /\ r.static_methods = i.static_methods
BY DEF Infos, Kept

(* Entering a static field changes nothing the proof speaks of. *)
LEMMA InfoStaticFields ==
  ASSUME NEW i \in Infos, NEW fs \in Seq(FieldInfos)
  PROVE  LET r == [i EXCEPT !.static_fields = fs]
         IN  /\ r \in Infos /\ Kept(r, i) /\ r.errs = i.errs
             /\ r.fields = i.fields /\ r.total_slots = i.total_slots /\ r.vtable = i.vtable
             /\ r.ctor = i.ctor /\ r.ctor_sig = i.ctor_sig /\ r.static_methods = i.static_methods
BY DEF Infos, Kept

WithFields(i, fs, n) == [i EXCEPT !.fields = fs, !.total_slots = n]

(* Entering a field changes the fields and the count of slots only. *)
LEMMA InfoFields ==
  ASSUME NEW i \in Infos, NEW fs \in Seq(FieldInfos), NEW n \in Nat
  PROVE  LET r == WithFields(i, fs, n)
         IN  /\ r \in Infos /\ Kept(r, i) /\ r.errs = i.errs
             /\ r.fields = fs /\ r.total_slots = n /\ r.vtable = i.vtable
             /\ r.ctor = i.ctor /\ r.ctor_sig = i.ctor_sig /\ r.static_methods = i.static_methods
BY DEF Infos, Kept, WithFields

WithCtor(i, c, sig) == [i EXCEPT !.ctor = c, !.ctor_sig = sig]

(* Entering a constructor changes the constructor and its signature only. *)
LEMMA InfoCtor ==
  ASSUME NEW i \in Infos, NEW c \in Nat, NEW sig \in Sigs
  PROVE  LET r == WithCtor(i, c, sig)
         IN  /\ r \in Infos /\ Kept(r, i) /\ r.errs = i.errs
             /\ r.fields = i.fields /\ r.total_slots = i.total_slots /\ r.vtable = i.vtable
             /\ r.ctor = c /\ r.ctor_sig = sig /\ r.static_methods = i.static_methods
BY DEF Infos, Kept, WithCtor

(* Entering a static method changes the static methods only. *)
LEMMA InfoStaticMethods ==
  ASSUME NEW i \in Infos, NEW ms \in Seq(StaticMethods)
  PROVE  LET r == [i EXCEPT !.static_methods = ms]
         IN  /\ r \in Infos /\ Kept(r, i) /\ r.errs = i.errs
             /\ r.fields = i.fields /\ r.total_slots = i.total_slots /\ r.vtable = i.vtable
             /\ r.ctor = i.ctor /\ r.ctor_sig = i.ctor_sig /\ r.static_methods = ms
BY DEF Infos, Kept

WithTable(i, t, es) == [i EXCEPT !.vtable = t, !.errs = es]

(* Entering a method changes the table and the diagnostics only. *)
LEMMA InfoTable ==
  ASSUME NEW i \in Infos, NEW t \in Seq(VMethods), NEW es \in SUBSET Diagnostics
  PROVE  LET r == WithTable(i, t, es)
         IN  /\ r \in Infos /\ Kept(r, i) /\ r.errs = es
             /\ r.fields = i.fields /\ r.total_slots = i.total_slots /\ r.vtable = t
             /\ r.ctor = i.ctor /\ r.ctor_sig = i.ctor_sig /\ r.static_methods = i.static_methods
BY DEF Infos, Kept, WithTable

Started(i, t, n) == [i EXCEPT !.vtable = t, !.total_slots = n]

(* build_class_members starts from the table of the parent and its count of slots. *)
LEMMA InfoStart ==
  ASSUME NEW i \in Infos, NEW t \in Seq(VMethods), NEW n \in Nat
  PROVE  LET r == Started(i, t, n)
         IN  /\ r \in Infos /\ Kept(r, i) /\ r.errs = i.errs
             /\ r.fields = i.fields /\ r.total_slots = n /\ r.vtable = t
             /\ r.ctor = i.ctor /\ r.ctor_sig = i.ctor_sig /\ r.static_methods = i.static_methods
BY DEF Infos, Kept, Started

(* A lookup finds an entry with the name and kind, if there is one.         *)
LEMMA KeyedIs ==
  ASSUME NEW T, NEW es \in Seq(T), NEW n, NEW kind
  PROVE  /\ Keyed(es, n, kind) = NoSym => \A i \in 1 .. Len(es) : ~ (es[i].name = n /\ es[i].kind = kind)
         /\ Keyed(es, n, kind) # NoSym =>
              /\ Keyed(es, n, kind) \in 1 .. Len(es)
              /\ es[Keyed(es, n, kind)].name = n /\ es[Keyed(es, n, kind)].kind = kind
<1> DEFINE ks == {i \in DOMAIN es : es[i].name = n /\ es[i].kind = kind}
<1>1. ks \in SUBSET Nat /\ DOMAIN es = 1 .. Len(es) OBVIOUS
<1>2. Keyed(es, n, kind) = First(ks) BY DEF Keyed
<1>3. /\ ks = {} => First(ks) = NoSym
      /\ ks # {} => First(ks) \in ks /\ First(ks) # NoSym
  <2> HIDE DEF ks
  <2> QED BY <1>1, FirstIs
<1> QED BY <1>1, <1>2, <1>3

(* Looking an entry up by its name finds one of that name, or there is none. *)
LEMMA NamedIs ==
  ASSUME NEW T, NEW es \in Seq(T), NEW n
  PROVE  /\ Named(es, n) = NoSym => \A i \in 1 .. Len(es) : es[i].name # n
         /\ Named(es, n) # NoSym => Named(es, n) \in 1 .. Len(es) /\ es[Named(es, n)].name = n
<1> DEFINE ks == {i \in DOMAIN es : es[i].name = n}
<1>1. ks \in SUBSET Nat /\ DOMAIN es = 1 .. Len(es) OBVIOUS
<1>2. Named(es, n) = First(ks) BY DEF Named
<1>3. /\ ks = {} => First(ks) = NoSym
      /\ ks # {} => First(ks) \in ks /\ First(ks) # NoSym
  <2> HIDE DEF ks
  <2> QED BY <1>1, FirstIs
<1> QED BY <1>1, <1>2, <1>3


(* One entry more, and one entry replaced.                                  *)
IsAppend(t, s, e) ==
  Len(t) = Len(s) + 1 /\ t[Len(s) + 1] = e /\ \A i \in 1 .. Len(s) : t[i] = s[i]
IsReplaced(t, s, pos, e) ==
  Len(t) = Len(s) /\ t[pos] = e /\ \A i \in 1 .. Len(s) : i # pos => t[i] = s[i]

(* An appended sequence keeps its entries and has one more at its end. *)
LEMMA AppendIs ==
  ASSUME NEW T, NEW s \in Seq(T), NEW e \in T, NEW t, t = Append(s, e)
  PROVE  IsAppend(t, s, e)
BY DEF IsAppend

(* A replaced entry is the only one that changes. *)
LEMMA ReplacedIs ==
  ASSUME NEW T, NEW s \in Seq(T), NEW e \in T, NEW pos \in 1 .. Len(s), NEW t, t = [s EXCEPT ![pos] = e]
  PROVE  IsReplaced(t, s, pos, e)
BY DEF IsReplaced

(* The entry of a field.                                                    *)
FieldEntry(acc, k, m) ==
  [name |-> member_name(m), ty |-> m.ty, const |-> m.const, vis |-> visibility(m),
   slot |-> acc.total_slots, defined_in |-> k]

(* A field without a diagnostic has a new name, and the next slot unless it *)
(* is static.                                                               *)
LEMMA AddFieldIs ==
  ASSUME NEW acc \in Infos, NEW m \in Members, NEW k \in Nat, NEW reg
  PROVE  LET r == AddField(acc, reg, k, m)
             n == member_name(m)
             e == FieldEntry(acc, k, m)
         IN  /\ r \in Infos /\ Kept(r, acc) /\ acc.errs \subseteq r.errs
             /\ r.vtable = acc.vtable /\ r.ctor = acc.ctor /\ r.ctor_sig = acc.ctor_sig /\ r.static_methods = acc.static_methods
             /\ e \in FieldInfos /\ e.name = n /\ e.ty = m.ty /\ e.slot = acc.total_slots
             /\ r.errs = {} =>
                  /\ Named(acc.fields, n) = NoSym /\ find_field(reg, reg[k].parent, n) = <<>>
                  /\ m.static => r.fields = acc.fields /\ r.total_slots = acc.total_slots
                  /\ ~ m.static => IsAppend(r.fields, acc.fields, e) /\ r.total_slots = acc.total_slots + 1
<1> DEFINE n == member_name(m)
           e == FieldEntry(acc, k, m)
           r == AddField(acc, reg, k, m)
           twice == \/ Named(acc.fields, n) # NoSym \/ Named(acc.static_fields, n) # NoSym
                    \/ find_field(reg, reg[k].parent, n) # <<>>
           es == acc.errs \cup {"field declared twice"}
           sf == Append(acc.static_fields, e)
           fs == Append(acc.fields, e)
           t1 == acc.total_slots + 1
<1>1. e \in FieldInfos /\ e.name = n /\ e.ty = m.ty /\ e.slot = acc.total_slots
  <2>1. acc.total_slots \in Nat BY DEF Infos
  <2> QED BY <2>1, MemberIs DEF FieldEntry, FieldInfos
<1>2. r = IF twice THEN [acc EXCEPT !.errs = es]
          ELSE IF m.static THEN [acc EXCEPT !.static_fields = sf]
          ELSE WithFields(acc, fs, t1)
  BY DEF AddField, FieldEntry, WithFields
<1> HIDE DEF twice, e
<1>3. es \in SUBSET Diagnostics /\ es # {} /\ acc.errs \subseteq es BY DEF Infos, Diagnostics
<1>4. sf \in Seq(FieldInfos) /\ fs \in Seq(FieldInfos) /\ t1 \in Nat
  <2>1. acc.static_fields \in Seq(FieldInfos) /\ acc.fields \in Seq(FieldInfos) /\ acc.total_slots \in Nat
    BY DEF Infos
  <2> QED BY <1>1, <2>1
<1> DEFINE Good == /\ r \in Infos /\ Kept(r, acc) /\ acc.errs \subseteq r.errs
                   /\ r.vtable = acc.vtable /\ r.ctor = acc.ctor /\ r.ctor_sig = acc.ctor_sig /\ r.static_methods = acc.static_methods
                   /\ r.errs = {} =>
                        /\ Named(acc.fields, n) = NoSym /\ find_field(reg, reg[k].parent, n) = <<>>
                        /\ m.static => r.fields = acc.fields /\ r.total_slots = acc.total_slots
                        /\ ~ m.static => IsAppend(r.fields, acc.fields, e) /\ r.total_slots = acc.total_slots + 1
<1>5. ASSUME twice PROVE Good
  <2>1. r = [acc EXCEPT !.errs = es] BY <1>2, <1>5
  <2> HIDE DEF es, r, n
  <2> QED BY <1>1, <1>3, <2>1, InfoErrs
<1>6. ASSUME ~ twice, m.static PROVE Good
  <2>1. r = [acc EXCEPT !.static_fields = sf] BY <1>2, <1>6
  <2>2. Named(acc.fields, n) = NoSym /\ find_field(reg, reg[k].parent, n) = <<>> BY <1>6 DEF twice
  <2> HIDE DEF sf, fs, t1, r, n
  <2>3. /\ r \in Infos /\ Kept(r, acc) /\ r.errs = acc.errs /\ r.fields = acc.fields
        /\ r.total_slots = acc.total_slots
        /\ r.vtable = acc.vtable /\ r.ctor = acc.ctor /\ r.ctor_sig = acc.ctor_sig /\ r.static_methods = acc.static_methods
    BY <1>4, <2>1, InfoStaticFields
  <2> QED BY <1>1, <1>6, <2>2, <2>3
<1>7. ASSUME ~ twice, ~ m.static PROVE Good
  <2>1. r = WithFields(acc, fs, t1) BY <1>2, <1>7
  <2>2. Named(acc.fields, n) = NoSym /\ find_field(reg, reg[k].parent, n) = <<>> BY <1>7 DEF twice
  <2> HIDE DEF sf, fs, t1, r, n
  <2>3. /\ r \in Infos /\ Kept(r, acc) /\ r.errs = acc.errs /\ r.fields = fs /\ r.total_slots = t1
        /\ r.vtable = acc.vtable /\ r.ctor = acc.ctor /\ r.ctor_sig = acc.ctor_sig /\ r.static_methods = acc.static_methods
    <3>1. \A t \in Nat : LET q == WithFields(acc, fs, t)
                         IN  /\ q \in Infos /\ Kept(q, acc) /\ q.errs = acc.errs /\ q.fields = fs
                             /\ q.total_slots = t
                             /\ q.vtable = acc.vtable /\ q.ctor = acc.ctor /\ q.ctor_sig = acc.ctor_sig /\ q.static_methods = acc.static_methods
      BY <1>4, InfoFields
    <3> QED BY <1>4, <2>1, <3>1, Zenon
  <2>4. IsAppend(fs, acc.fields, e) /\ t1 = acc.total_slots + 1
    <3>1. acc.fields \in Seq(FieldInfos) BY DEF Infos
    <3> QED BY <1>1, <3>1, AppendIs DEF fs, t1
  <2> QED BY <1>1, <1>7, <2>2, <2>3, <2>4
<1>8. Good BY <1>5, <1>6, <1>7
<1> QED BY <1>1, <1>8 DEF e

(* The entry of a method: an override keeps who introduced it.              *)
MethodEntry(acc, k, j, m) ==
  LET pos   == Keyed(acc.vtable, member_name(m), m.m)
      entry == [name |-> member_name(m), kind |-> m.m, sig |-> build_sig(m), fn_id |-> <<k, j>>,
                final |-> m.final, vis |-> visibility(m), introduced_in |-> k]
  IN  IF pos = NoSym THEN entry
      ELSE [entry EXCEPT !.vis = acc.vtable[pos].vis, !.introduced_in = acc.vtable[pos].introduced_in]
StaticEntry(k, j, m) ==
  [name |-> member_name(m), sig |-> build_sig(m), fn_id |-> <<k, j>>, vis |-> visibility(m)]

(* A method takes the place of the inherited one or a new one.              *)
LEMMA AddMethodIs ==
  ASSUME NEW acc \in Infos, NEW m \in Members, m.m # "field", NEW k \in Nat, NEW j \in Nat
  PROVE  LET r == AddMethod(acc, k, j, m)
             n == member_name(m)
             e == MethodEntry(acc, k, j, m)
             pos == Keyed(acc.vtable, n, m.m)
             s == StaticEntry(k, j, m)
         IN  /\ r \in Infos /\ Kept(r, acc) /\ acc.errs \subseteq r.errs
             /\ r.fields = acc.fields /\ r.total_slots = acc.total_slots /\ r.ctor = acc.ctor /\ r.ctor_sig = acc.ctor_sig
             /\ s \in StaticMethods /\ s.name = n /\ s.fn_id = <<k, j>>
             /\ e.name = n /\ e.kind = m.m /\ e.fn_id = <<k, j>>
             /\ m.static => r.vtable = acc.vtable /\ IsAppend(r.static_methods, acc.static_methods, s)
             /\ ~ m.static => e \in VMethods /\ r.static_methods = acc.static_methods
             /\ ~ m.static /\ pos = NoSym => IsAppend(r.vtable, acc.vtable, e)
             /\ ~ m.static /\ pos # NoSym => IsReplaced(r.vtable, acc.vtable, pos, e)
<1> DEFINE n == member_name(m)
           pos == Keyed(acc.vtable, n, m.m)
           old == acc.vtable[pos]
           e == MethodEntry(acc, k, j, m)
           s == StaticEntry(k, j, m)
           r == AddMethod(acc, k, j, m)
           ms == Append(acc.static_methods, s)
           es1 == acc.errs \cup IF m.override THEN {"overrides nothing"} ELSE {}
           es2 == acc.errs \cup (IF m.override THEN {} ELSE {"override missing"})
                           \cup (IF old.final THEN {"final"} ELSE {})
                           \cup (IF old.sig = build_sig(m) THEN {} ELSE {"signature"})
           t1 == Append(acc.vtable, e)
           t2 == [acc.vtable EXCEPT ![pos] = e]
<1>1. /\ s \in StaticMethods /\ s.name = n /\ s.fn_id = <<k, j>>
      /\ e.name = n /\ e.kind = m.m /\ e.fn_id = <<k, j>>
  BY MemberIs DEF StaticEntry, StaticMethods, MethodEntry
<1>2. /\ acc.vtable \in Seq(VMethods) /\ acc.static_methods \in Seq(StaticMethods)
      /\ acc.errs \in SUBSET Diagnostics
  BY DEF Infos
<1>3. pos # NoSym => pos \in 1 .. Len(acc.vtable) /\ old \in VMethods
  <2>1. pos # NoSym => pos \in 1 .. Len(acc.vtable) BY <1>2, KeyedIs
  <2> HIDE DEF pos
  <2> QED BY <1>2, <2>1
<1>4. e \in VMethods
  <2>1. m.m \in MethodKinds BY MemberIs DEF MemberKinds, MethodKinds
  <2>2. pos # NoSym => old.vis \in Visibilities /\ old.introduced_in \in Nat BY <1>3 DEF VMethods
  <2> DEFINE vis == IF pos = NoSym THEN visibility(m) ELSE old.vis
             intro == IF pos = NoSym THEN k ELSE old.introduced_in
  <2>3. vis \in Visibilities /\ intro \in Nat BY <2>2, MemberIs
  <2> DEFINE new == [name |-> n, kind |-> m.m, sig |-> build_sig(m), fn_id |-> <<k, j>>, final |-> m.final,
                     vis |-> visibility(m), introduced_in |-> k]
  <2>4. new \in VMethods BY <2>1, MemberIs DEF VMethods
  <2>5. e = IF pos = NoSym THEN new ELSE [new EXCEPT !.vis = old.vis, !.introduced_in = old.introduced_in]
    BY DEF MethodEntry
  <2> HIDE DEF e, new, old, pos
  <2> QED BY <2>2, <2>4, <2>5 DEF VMethods
<1>5. r = IF m.static THEN [acc EXCEPT !.static_methods = ms]
          ELSE IF pos = NoSym THEN WithTable(acc, t1, es1) ELSE WithTable(acc, t2, es2)
  <2>1. CASE m.static BY <2>1 DEF AddMethod, StaticEntry
  <2>2. CASE ~ m.static /\ pos = NoSym BY <2>2 DEF AddMethod, MethodEntry, WithTable
  <2>3. CASE ~ m.static /\ pos # NoSym BY <2>3 DEF AddMethod, MethodEntry, WithTable
  <2> QED BY <2>1, <2>2, <2>3
<1>6. es1 \in SUBSET Diagnostics /\ es2 \in SUBSET Diagnostics /\ acc.errs \subseteq es1 /\ acc.errs \subseteq es2
  BY <1>2 DEF Diagnostics
<1> HIDE DEF s, e, pos, es1, es2
<1>7. ms \in Seq(StaticMethods) /\ t1 \in Seq(VMethods) /\ (pos # NoSym => t2 \in Seq(VMethods))
  <2>1. ms \in Seq(StaticMethods) /\ t1 \in Seq(VMethods) BY <1>1, <1>2, <1>4
  <2>2. ASSUME pos # NoSym PROVE t2 \in Seq(VMethods)
    <3>1. acc.vtable \in [1 .. Len(acc.vtable) -> VMethods] /\ Len(acc.vtable) \in Nat BY <1>2
    <3>2. t2 \in [1 .. Len(acc.vtable) -> VMethods] BY <1>4, <3>1
    <3> HIDE DEF t2
    <3> QED BY <3>1, <3>2
  <2> QED BY <2>1, <2>2
<1> DEFINE Good == /\ r \in Infos /\ Kept(r, acc) /\ acc.errs \subseteq r.errs
                   /\ r.fields = acc.fields /\ r.total_slots = acc.total_slots /\ r.ctor = acc.ctor /\ r.ctor_sig = acc.ctor_sig
                   /\ m.static => r.vtable = acc.vtable /\ IsAppend(r.static_methods, acc.static_methods, s)
                   /\ ~ m.static => r.static_methods = acc.static_methods
                   /\ ~ m.static /\ pos = NoSym => IsAppend(r.vtable, acc.vtable, e)
                   /\ ~ m.static /\ pos # NoSym => IsReplaced(r.vtable, acc.vtable, pos, e)
<1>8. ASSUME m.static PROVE Good
  <2>1. r = [acc EXCEPT !.static_methods = ms] BY <1>5, <1>8
  <2> HIDE DEF r, ms, t1, t2
  <2>2. /\ r \in Infos /\ Kept(r, acc) /\ r.errs = acc.errs /\ r.fields = acc.fields
        /\ r.total_slots = acc.total_slots /\ r.vtable = acc.vtable /\ r.ctor = acc.ctor /\ r.ctor_sig = acc.ctor_sig
        /\ r.static_methods = ms
    BY <1>7, <2>1, InfoStaticMethods
  <2>3. IsAppend(ms, acc.static_methods, s) BY <1>1, <1>2, AppendIs DEF ms
  <2> HIDE DEF n
  <2> QED BY <1>1, <1>2, <1>8, <2>2, <2>3
<1>9. ASSUME ~ m.static, pos = NoSym PROVE Good
  <2>1. r = WithTable(acc, t1, es1) BY <1>5, <1>9
  <2> HIDE DEF r, ms, t1, t2
  <2>2. /\ r \in Infos /\ Kept(r, acc) /\ r.errs = es1 /\ r.fields = acc.fields
        /\ r.total_slots = acc.total_slots /\ r.vtable = t1 /\ r.ctor = acc.ctor /\ r.ctor_sig = acc.ctor_sig
        /\ r.static_methods = acc.static_methods
    BY <1>6, <1>7, <2>1, InfoTable
  <2>3. IsAppend(t1, acc.vtable, e) BY <1>2, <1>4, AppendIs DEF t1
  <2> HIDE DEF n
  <2> QED BY <1>6, <1>9, <2>2, <2>3
<1>10. ASSUME ~ m.static, pos # NoSym PROVE Good
  <2>1. r = WithTable(acc, t2, es2) BY <1>5, <1>10
  <2>2. t2 \in Seq(VMethods) BY <1>7, <1>10
  <2> HIDE DEF r, ms, t1, t2
  <2>3. /\ r \in Infos /\ Kept(r, acc) /\ r.errs = es2 /\ r.fields = acc.fields
        /\ r.total_slots = acc.total_slots /\ r.vtable = t2 /\ r.ctor = acc.ctor /\ r.ctor_sig = acc.ctor_sig
        /\ r.static_methods = acc.static_methods
    BY <1>6, <2>1, <2>2, InfoTable
  <2>4. IsReplaced(t2, acc.vtable, pos, e) BY <1>2, <1>3, <1>4, <1>10, ReplacedIs DEF t2
  <2> HIDE DEF n
  <2> QED BY <1>6, <1>10, <2>3, <2>4
<1>11. Good BY <1>8, <1>9, <1>10
<1> QED BY <1>1, <1>4, <1>11 DEF e, s, pos


(* One more member declares what it says, or no instance member.            *)
LEMMA FieldDeclares ==
  ASSUME NEW decl, NEW m \in Members, IsField(m), NEW n, NEW kind
  PROVE  Declares(decl, m, n, kind) <=> n = member_name(m) /\ kind = "field"
BY DEF Declares, IsField, IsCtor

(* A member with a place in the table declares its name, as its kind of member. *)
LEMMA MethodDeclares ==
  ASSUME NEW decl, NEW m \in Members, IsSlotted(decl, m), NEW n, NEW kind
  PROVE  Declares(decl, m, n, kind) <=> n = member_name(m) /\ kind = m.m
BY DEF Declares, IsSlotted

(* A member that is no field declares no field. *)
LEMMA NoFieldDeclares ==
  ASSUME NEW decl, NEW m \in Members, ~ IsField(m), NEW n
  PROVE  ~ Declares(decl, m, n, "field")
BY DEF Declares, IsField

(* A member with no place in the table declares no method, getter or setter. *)
LEMMA NoMethodDeclares ==
  ASSUME NEW decl, NEW m \in Members, ~ IsSlotted(decl, m), NEW n, NEW kind, kind # "field"
  PROVE  ~ Declares(decl, m, n, kind)
BY DEF Declares, IsSlotted

(* The members read so far that declare a name: one more is read, and it may be among them. *)
LEMMA DeclaredMore ==
  ASSUME NEW p, NEW k, NEW j \in Nat, NEW i \in Nat, i = j + 1, NEW m, m = p[k].members[i], NEW n, NEW kind
  PROVE  DeclaredIn(p, k, i, n, kind) = DeclaredIn(p, k, j, n, kind)
                                        \cup {l \in {i} : Declares(p[k], m, n, kind)}
<1>1. 1 .. i = 1 .. j \cup {i} OBVIOUS
<1> QED BY <1>1 DEF DeclaredIn

(* Member i of class k is m, the one after the first j.                     *)
OneMore(p, k, j, i, m) == j \in Nat /\ i \in Nat /\ i = j + 1 /\ m \in Members /\ m = p[k].members[i]

(* The fields of a class are laid out right up to a member that is no field, if they were
   before it. *)
LEMMA FieldsStay ==
  ASSUME NEW p, NEW reg, NEW k, NEW j, NEW i,
         NEW acc, NEW r, NEW m, OneMore(p, k, j, i, m), FieldsLaid(p, reg, k, acc, j),
         ~ IsField(m), r.fields = acc.fields, r.total_slots = acc.total_slots
  PROVE  FieldsLaid(p, reg, k, r, i)
<1> USE DEF OneMore
<1>1. \A n : DeclaredIn(p, k, i, n, "field") = DeclaredIn(p, k, j, n, "field")
  <2>1. \A n : ~ Declares(p[k], m, n, "field") BY NoFieldDeclares
  <2>2. \A n : DeclaredIn(p, k, i, n, "field") = DeclaredIn(p, k, j, n, "field")
                  \cup {l \in {i} : Declares(p[k], m, n, "field")}
    BY DeclaredMore
  <2> QED BY <2>1, <2>2
<1>2. \A l \in 1 .. i : IsField(p[k].members[l]) => l \in 1 .. j OBVIOUS
<1> QED BY <1>1, <1>2 DEF FieldsLaid

(* The fields of a class stay laid out right when AddField gives one the next free slot. *)
LEMMA FieldsGrow ==
  ASSUME NEW p, NEW reg, NEW k, NEW j, NEW i1,
         NEW acc \in Infos, NEW r \in Infos, NEW e \in FieldInfos,
         NEW m, OneMore(p, k, j, i1, m), FieldsLaid(p, reg, k, acc, j), IsField(m),
         reg[reg[k].parent].total_slots \in Nat,
         e.name = member_name(m), e.ty = m.ty,
         e.slot = acc.total_slots, Named(acc.fields, e.name) = NoSym,
         find_field(reg, reg[k].parent, e.name) = <<>>,
         IsAppend(r.fields, acc.fields, e), r.total_slots = acc.total_slots + 1
  PROVE  FieldsLaid(p, reg, k, r, i1)
<1> USE DEF OneMore
<1> DEFINE fs   == acc.fields
           base == reg[reg[k].parent].total_slots
           Dec(i, n) == DeclaredIn(p, k, i, n, "field")
<1>1. fs \in Seq(FieldInfos) /\ Len(fs) \in Nat /\ acc.total_slots = base + Len(fs) /\ base \in Nat
  BY DEF Infos, FieldsLaid
<1>2. /\ Len(r.fields) = Len(fs) + 1 /\ r.fields[Len(fs) + 1] = e
      /\ \A i \in 1 .. Len(fs) : r.fields[i] = fs[i]
  BY DEF IsAppend
<1>3. \A n : Dec(i1, n) = Dec(j, n) \cup IF n = e.name THEN {i1} ELSE {}
  <2>1. \A n : Declares(p[k], m, n, "field") <=> n = e.name BY FieldDeclares
  <2>2. \A n : Dec(i1, n) = Dec(j, n) \cup {l \in {i1} : Declares(p[k], m, n, "field")}
    <3>1. 1 .. i1 = 1 .. j \cup {i1} OBVIOUS
    <3> QED BY <3>1 DEF DeclaredIn
  <2> HIDE DEF Dec
  <2> QED BY <2>1, <2>2
<1>4. \A i \in 1 .. Len(fs) : fs[i].name # e.name BY <1>1, NamedIs
<1>5. \A i \in 1 .. Len(fs) :
         /\ fs[i].slot = base + i - 1 /\ find_field(reg, reg[k].parent, fs[i].name) = <<>>
         /\ \E l \in Dec(j, fs[i].name) : fs[i].ty = p[k].members[l].ty
  BY DEF FieldsLaid
<1>6. \A i, h \in 1 .. Len(fs) : fs[i].name = fs[h].name => i = h BY DEF FieldsLaid
<1>7. \A l \in 1 .. j : IsField(p[k].members[l]) =>
         \E i \in 1 .. Len(fs) : fs[i].name = member_name(p[k].members[l])
  BY DEF FieldsLaid
<1>8. \A n : \A l, h \in Dec(j, n) : l = h BY DEF FieldsLaid
<1>9. Dec(j, e.name) = {}
  <2> SUFFICES ASSUME NEW l \in Dec(j, e.name) PROVE FALSE OBVIOUS
  <2>1. l \in 1 .. j /\ Declares(p[k], p[k].members[l], e.name, "field") BY DEF DeclaredIn
  <2>2. IsField(p[k].members[l]) /\ member_name(p[k].members[l]) = e.name BY <2>1 DEF Declares, IsField
  <2> QED BY <2>1, <2>2, <1>4, <1>7
<1>10. \A i \in 1 .. Len(r.fields) : i \in 1 .. Len(fs) \/ i = Len(fs) + 1 BY <1>1, <1>2
<1> HIDE DEF fs, base, Dec
<1>11. r.total_slots = base + Len(r.fields) BY <1>1, <1>2
<1>12. \A i \in 1 .. Len(r.fields) :
         /\ r.fields[i].slot = base + i - 1
         /\ find_field(reg, reg[k].parent, r.fields[i].name) = <<>>
         /\ \E l \in Dec(i1, r.fields[i].name) : r.fields[i].ty = p[k].members[l].ty
  <2> SUFFICES ASSUME NEW i \in 1 .. Len(r.fields)
               PROVE  /\ r.fields[i].slot = base + i - 1
                      /\ find_field(reg, reg[k].parent, r.fields[i].name) = <<>>
                      /\ \E l \in Dec(i1, r.fields[i].name) : r.fields[i].ty = p[k].members[l].ty
    OBVIOUS
  <2>1. CASE i \in 1 .. Len(fs)
    <3>1. r.fields[i] = fs[i] BY <2>1, <1>2
    <3>2. PICK l \in Dec(j, fs[i].name) : fs[i].ty = p[k].members[l].ty BY <2>1, <1>5
    <3>3. l \in Dec(i1, fs[i].name) BY <3>2, <1>3
    <3> QED BY <2>1, <3>1, <3>2, <3>3, <1>5
  <2>2. CASE i = Len(fs) + 1
    <3>1. r.fields[i] = e /\ i - 1 = Len(fs) BY <2>2, <1>1, <1>2
    <3>2. i1 \in Dec(i1, e.name) BY <1>3
    <3>3. e.slot = base + i - 1 BY <1>1, <2>2
    <3> QED BY <3>1, <3>2, <3>3
  <2> QED BY <2>1, <2>2, <1>10
<1>13. \A i, h \in 1 .. Len(r.fields) : r.fields[i].name = r.fields[h].name => i = h
  <2> SUFFICES ASSUME NEW i \in 1 .. Len(r.fields), NEW h \in 1 .. Len(r.fields),
                      r.fields[i].name = r.fields[h].name
               PROVE  i = h
    OBVIOUS
  <2> QED BY <1>2, <1>4, <1>6, <1>10
<1>14. \A l \in 1 .. i1 : IsField(p[k].members[l]) =>
         \E i \in 1 .. Len(r.fields) : r.fields[i].name = member_name(p[k].members[l])
  <2> SUFFICES ASSUME NEW l \in 1 .. i1, IsField(p[k].members[l])
               PROVE  \E i \in 1 .. Len(r.fields) : r.fields[i].name = member_name(p[k].members[l])
    OBVIOUS
  <2>1. CASE l = i1
    <3>1. Len(fs) + 1 \in 1 .. Len(r.fields) BY <1>1, <1>2
    <3> QED BY <2>1, <3>1, <1>2
  <2>2. CASE l # i1
    <3>1. l \in 1 .. j BY <2>2
    <3>2. PICK i \in 1 .. Len(fs) : fs[i].name = member_name(p[k].members[l]) BY <3>1, <1>7
    <3>3. i \in 1 .. Len(r.fields) /\ r.fields[i] = fs[i] BY <1>1, <1>2
    <3> QED BY <3>2, <3>3
  <2> QED BY <2>1, <2>2
<1>15. \A n : \A l, h \in Dec(i1, n) : l = h
  <2> SUFFICES ASSUME NEW n, NEW l \in Dec(i1, n), NEW h \in Dec(i1, n) PROVE l = h OBVIOUS
  <2>1. CASE n = e.name BY <2>1, <1>3, <1>9
  <2>2. CASE n # e.name BY <2>2, <1>3, <1>8
  <2> QED BY <2>1, <2>2
<1> QED BY <1>11, <1>12, <1>13, <1>14, <1>15 DEF FieldsLaid, base, Dec


(* An entry of a method table after j members: the last declaration here,   *)
(* or what the parent's table holds.                                        *)
LEMMA TableStays ==
  ASSUME NEW p, NEW reg, NEW k, NEW j, NEW i1, NEW acc \in Infos, NEW r,
         NEW m, OneMore(p, k, j, i1, m), MethodsTabled(p, reg, k, acc, j),
         ~ IsSlotted(p[k], m), r.vtable = acc.vtable
  PROVE  MethodsTabled(p, reg, k, r, i1)
<1> USE DEF OneMore
<1> DEFINE tab == acc.vtable
<1>1. \A s \in 1 .. Len(tab) : tab[s].kind # "field"
  <2>1. tab \in Seq(VMethods) BY DEF Infos
  <2>2. \A s \in 1 .. Len(tab) : tab[s] \in VMethods BY <2>1
  <2> HIDE DEF tab
  <2> QED BY <2>2 DEF VMethods, MethodKinds
<1>2. \A s \in 1 .. Len(tab) : ~ Declares(p[k], m, tab[s].name, tab[s].kind)
  BY <1>1, NoMethodDeclares
<1>3. 1 .. i1 = 1 .. j \cup {i1} OBVIOUS
<1>4. \A s \in 1 .. Len(tab) : DeclaredIn(p, k, i1, tab[s].name, tab[s].kind) = DeclaredIn(p, k, j, tab[s].name, tab[s].kind)
  BY <1>2, <1>3 DEF DeclaredIn
<1>5. \A l \in 1 .. i1 : IsSlotted(p[k], p[k].members[l]) => l \in 1 .. j BY <1>3
<1> DEFINE old == reg[reg[k].parent].vtable
           Dec(i, x) == DeclaredIn(p, k, i, x.name, x.kind)
<1>6. /\ Len(old) <= Len(tab) /\ \A s \in 1 .. Len(old) : SameKey(tab[s], old[s])
      /\ \A s, t \in 1 .. Len(tab) : SameKey(tab[s], tab[t]) => s = t
      /\ \A s \in 1 .. Len(tab) :
            /\ Dec(j, tab[s]) = {} => s <= Len(old) /\ tab[s].fn_id = old[s].fn_id
            /\ Dec(j, tab[s]) # {} => \E l \in Dec(j, tab[s]) : tab[s].fn_id = <<k, l>> /\ \A h \in Dec(j, tab[s]) : h <= l
      /\ \A l \in 1 .. j : IsSlotted(p[k], p[k].members[l]) =>
            \E s \in 1 .. Len(tab) : tab[s].name = member_name(p[k].members[l])
                                     /\ tab[s].kind = p[k].members[l].m
  BY DEF MethodsTabled
<1>7. \A s \in 1 .. Len(tab) : Dec(i1, tab[s]) = Dec(j, tab[s]) BY <1>4
<1>8. r.vtable = tab OBVIOUS
<1> HIDE DEF tab, old, Dec
<1>9. \A s \in 1 .. Len(tab) :
        /\ Dec(i1, tab[s]) = {} => s <= Len(old) /\ tab[s].fn_id = old[s].fn_id
        /\ Dec(i1, tab[s]) # {} => \E l \in Dec(i1, tab[s]) :
               tab[s].fn_id = <<k, l>> /\ \A h \in Dec(i1, tab[s]) : h <= l
  BY <1>6, <1>7
<1>10. \A l \in 1 .. i1 : IsSlotted(p[k], p[k].members[l]) =>
         \E s \in 1 .. Len(tab) : tab[s].name = member_name(p[k].members[l])
                                  /\ tab[s].kind = p[k].members[l].m
  BY <1>5, <1>6
<1> QED BY <1>6, <1>8, <1>9, <1>10 DEF MethodsTabled, old, Dec

(* The table of a class stays right when AddMethod appends a member no ancestor has. *)
LEMMA TableGrows ==
  ASSUME NEW p, NEW reg, NEW k, NEW j, NEW i1, NEW acc \in Infos, NEW r \in Infos,
         NEW m, OneMore(p, k, j, i1, m), MethodsTabled(p, reg, k, acc, j),
         IsSlotted(p[k], m), NEW e \in VMethods, e.name = member_name(m), e.kind = m.m, e.fn_id = <<k, i1>>,
         \A s \in 1 .. Len(acc.vtable) : ~ SameKey(acc.vtable[s], e), IsAppend(r.vtable, acc.vtable, e),
         reg[reg[k].parent] \in Infos
  PROVE  MethodsTabled(p, reg, k, r, i1)
<1> USE DEF OneMore
<1> DEFINE tab == acc.vtable
           new == r.vtable
           old == reg[reg[k].parent].vtable
           Dec(i, x) == DeclaredIn(p, k, i, x.name, x.kind)
<1>1. Len(tab) \in Nat /\ Len(new) \in Nat /\ Len(old) \in Nat
  <2>1. tab \in Seq(VMethods) /\ new \in Seq(VMethods) BY DEF Infos
  <2>2. \A i \in Infos : i.vtable \in Seq(VMethods) BY DEF Infos
  <2>3. old \in Seq(VMethods) BY <2>2
  <2> HIDE DEF tab, new, old
  <2> QED BY <2>1, <2>3
<1>2. Len(new) = Len(tab) + 1 /\ new[Len(tab) + 1] = e /\ \A s \in 1 .. Len(tab) : new[s] = tab[s]
  BY DEF IsAppend
<1>3. /\ Len(old) <= Len(tab) /\ \A s \in 1 .. Len(old) : SameKey(tab[s], old[s])
      /\ \A s, t \in 1 .. Len(tab) : SameKey(tab[s], tab[t]) => s = t
      /\ \A s \in 1 .. Len(tab) :
            /\ Dec(j, tab[s]) = {} => s <= Len(old) /\ tab[s].fn_id = old[s].fn_id
            /\ Dec(j, tab[s]) # {} => \E l \in Dec(j, tab[s]) : tab[s].fn_id = <<k, l>> /\ \A h \in Dec(j, tab[s]) : h <= l
      /\ \A l \in 1 .. j : IsSlotted(p[k], p[k].members[l]) =>
            \E s \in 1 .. Len(tab) : tab[s].name = member_name(p[k].members[l])
                                     /\ tab[s].kind = p[k].members[l].m
  BY DEF MethodsTabled
<1>4. \A x : Declares(p[k], m, x.name, x.kind) <=> x.name = e.name /\ x.kind = e.kind
  BY MethodDeclares
<1>5. 1 .. i1 = 1 .. j \cup {i1} OBVIOUS
<1>6. \A s \in 1 .. Len(tab) : Dec(i1, tab[s]) = Dec(j, tab[s]) BY <1>4, <1>5 DEF DeclaredIn, SameKey
<1>7. i1 \in Dec(i1, e) /\ \A h \in Dec(i1, e) : h <= i1 BY <1>4 DEF DeclaredIn
<1>8. \A s \in 1 .. Len(new) : s \in 1 .. Len(tab) \/ s = Len(tab) + 1 BY <1>1, <1>2
<1> HIDE DEF tab, new, old, Dec
<1>9. Len(old) <= Len(new) /\ \A s \in 1 .. Len(old) : SameKey(new[s], old[s])
  <2>1. \A s \in 1 .. Len(old) : s \in 1 .. Len(tab) BY <1>1, <1>3
  <2> QED BY <2>1, <1>1, <1>2, <1>3
<1>10. \A s, t \in 1 .. Len(new) : SameKey(new[s], new[t]) => s = t
  <2> SUFFICES ASSUME NEW s \in 1 .. Len(new), NEW t \in 1 .. Len(new), SameKey(new[s], new[t]) PROVE s = t
    OBVIOUS
  <2>1. SameKey(new[t], new[s]) BY DEF SameKey
  <2>2. \A u \in 1 .. Len(tab) : ~ SameKey(tab[u], e) BY DEF tab
  <2>3. CASE s \in 1 .. Len(tab) /\ t \in 1 .. Len(tab) BY <2>3, <1>2, <1>3
  <2>4. CASE s = Len(tab) + 1 /\ t \in 1 .. Len(tab) BY <2>1, <2>2, <2>4, <1>2
  <2>5. CASE t = Len(tab) + 1 /\ s \in 1 .. Len(tab) BY <2>2, <2>5, <1>2
  <2>6. CASE s = Len(tab) + 1 /\ t = Len(tab) + 1 BY <2>6
  <2> QED BY <2>3, <2>4, <2>5, <2>6, <1>8
<1>11. \A s \in 1 .. Len(new) :
         /\ Dec(i1, new[s]) = {} => s <= Len(old) /\ new[s].fn_id = old[s].fn_id
         /\ Dec(i1, new[s]) # {} => \E l \in Dec(i1, new[s]) : new[s].fn_id = <<k, l>> /\ \A h \in Dec(i1, new[s]) : h <= l
  <2> SUFFICES ASSUME NEW s \in 1 .. Len(new)
               PROVE  /\ Dec(i1, new[s]) = {} => s <= Len(old) /\ new[s].fn_id = old[s].fn_id
                      /\ Dec(i1, new[s]) # {} => \E l \in Dec(i1, new[s]) :
                             new[s].fn_id = <<k, l>> /\ \A h \in Dec(i1, new[s]) : h <= l
    OBVIOUS
  <2>1. CASE s \in 1 .. Len(tab)
    <3>1. new[s] = tab[s] /\ Dec(i1, new[s]) = Dec(j, tab[s]) BY <2>1, <1>2, <1>6
    <3> QED BY <2>1, <3>1, <1>3
  <2>2. CASE s = Len(tab) + 1
    <3>1. new[s] = e /\ new[s].fn_id = <<k, i1>> BY <2>2, <1>2
    <3> QED BY <3>1, <1>7
  <2> QED BY <2>1, <2>2, <1>8
<1>12. \A l \in 1 .. i1 : IsSlotted(p[k], p[k].members[l]) =>
         \E s \in 1 .. Len(new) : new[s].name = member_name(p[k].members[l]) /\ new[s].kind = p[k].members[l].m
  <2> SUFFICES ASSUME NEW l \in 1 .. i1, IsSlotted(p[k], p[k].members[l])
               PROVE  \E s \in 1 .. Len(new) : new[s].name = member_name(p[k].members[l])
                                               /\ new[s].kind = p[k].members[l].m
    OBVIOUS
  <2>1. CASE l = i1
    <3>1. Len(tab) + 1 \in 1 .. Len(new) BY <1>1, <1>2
    <3> QED BY <2>1, <3>1, <1>2
  <2>2. CASE l # i1
    <3>1. l \in 1 .. j BY <2>2, <1>5
    <3>2. PICK s \in 1 .. Len(tab) : tab[s].name = member_name(p[k].members[l]) /\ tab[s].kind = p[k].members[l].m
      BY <3>1, <1>3
    <3>3. s \in 1 .. Len(new) /\ new[s] = tab[s] BY <1>1, <1>2
    <3> QED BY <3>2, <3>3
  <2> QED BY <2>1, <2>2
<1> QED BY <1>9, <1>10, <1>11, <1>12 DEF MethodsTabled, new, old, Dec

(* The table of a class stays right when AddMethod puts a member in the place of the one it
   overrides. *)
LEMMA TableReplaces ==
  ASSUME NEW p, NEW reg, NEW k, NEW j, NEW i1, NEW acc \in Infos, NEW r \in Infos,
         NEW m, OneMore(p, k, j, i1, m), MethodsTabled(p, reg, k, acc, j),
         IsSlotted(p[k], m), NEW e \in VMethods, e.name = member_name(m), e.kind = m.m, e.fn_id = <<k, i1>>,
         NEW pos \in 1 .. Len(acc.vtable), SameKey(acc.vtable[pos], e), IsReplaced(r.vtable, acc.vtable, pos, e)
  PROVE  MethodsTabled(p, reg, k, r, i1)
<1> USE DEF OneMore
<1> DEFINE tab == acc.vtable
           new == r.vtable
           old == reg[reg[k].parent].vtable
           Dec(i, x) == DeclaredIn(p, k, i, x.name, x.kind)
<1>2. Len(new) = Len(tab) /\ new[pos] = e /\ \A s \in 1 .. Len(tab) : s # pos => new[s] = tab[s]
  BY DEF IsReplaced
<1>3. /\ Len(old) <= Len(tab) /\ \A s \in 1 .. Len(old) : SameKey(tab[s], old[s])
      /\ \A s, t \in 1 .. Len(tab) : SameKey(tab[s], tab[t]) => s = t
      /\ \A s \in 1 .. Len(tab) :
            /\ Dec(j, tab[s]) = {} => s <= Len(old) /\ tab[s].fn_id = old[s].fn_id
            /\ Dec(j, tab[s]) # {} => \E l \in Dec(j, tab[s]) : tab[s].fn_id = <<k, l>> /\ \A h \in Dec(j, tab[s]) : h <= l
      /\ \A l \in 1 .. j : IsSlotted(p[k], p[k].members[l]) =>
            \E s \in 1 .. Len(tab) : tab[s].name = member_name(p[k].members[l])
                                     /\ tab[s].kind = p[k].members[l].m
  BY DEF MethodsTabled
<1>4. \A x : Declares(p[k], m, x.name, x.kind) <=> x.name = e.name /\ x.kind = e.kind
  BY MethodDeclares
<1>5. 1 .. i1 = 1 .. j \cup {i1} OBVIOUS
<1>6. \A s \in 1 .. Len(tab) : s # pos => Dec(i1, tab[s]) = Dec(j, tab[s])
  <2> SUFFICES ASSUME NEW s \in 1 .. Len(tab), s # pos PROVE Dec(i1, tab[s]) = Dec(j, tab[s]) OBVIOUS
  <2>1. ~ SameKey(tab[s], tab[pos]) BY <1>3
  <2>2. ~ (tab[s].name = e.name /\ tab[s].kind = e.kind) BY <2>1 DEF SameKey
  <2>3. ~ Declares(p[k], m, tab[s].name, tab[s].kind) BY <2>2, <1>4
  <2> QED BY <2>3, <1>5 DEF DeclaredIn
<1>7. i1 \in Dec(i1, e) /\ \A h \in Dec(i1, e) : h <= i1 BY <1>4 DEF DeclaredIn
<1>8. \A s \in 1 .. Len(tab) : SameKey(new[s], tab[s]) BY <1>2 DEF SameKey
<1>9. Len(tab) \in Nat /\ Len(old) <= Len(tab) /\ \A s \in 1 .. Len(old) : s \in 1 .. Len(tab)
  <2>1. Len(tab) \in Nat BY DEF Infos
  <2>2. Len(old) <= Len(tab) BY <1>3
  <2> HIDE DEF tab, old
  <2> QED BY <2>1, <2>2
<1> HIDE DEF tab, new, old, Dec
<1>10. \A s \in 1 .. Len(old) : SameKey(new[s], old[s]) BY <1>3, <1>8, <1>9 DEF SameKey
<1>11. \A s, t \in 1 .. Len(new) : SameKey(new[s], new[t]) => s = t
  <2> SUFFICES ASSUME NEW s \in 1 .. Len(tab), NEW t \in 1 .. Len(tab), SameKey(new[s], new[t]) PROVE s = t
    BY <1>2
  <2>1. SameKey(tab[s], tab[t]) BY <1>8 DEF SameKey
  <2> QED BY <2>1, <1>3
<1>12. \A s \in 1 .. Len(new) :
         /\ Dec(i1, new[s]) = {} => s <= Len(old) /\ new[s].fn_id = old[s].fn_id
         /\ Dec(i1, new[s]) # {} => \E l \in Dec(i1, new[s]) : new[s].fn_id = <<k, l>> /\ \A h \in Dec(i1, new[s]) : h <= l
  <2> SUFFICES ASSUME NEW s \in 1 .. Len(tab)
               PROVE  /\ Dec(i1, new[s]) = {} => s <= Len(old) /\ new[s].fn_id = old[s].fn_id
                      /\ Dec(i1, new[s]) # {} => \E l \in Dec(i1, new[s]) :
                             new[s].fn_id = <<k, l>> /\ \A h \in Dec(i1, new[s]) : h <= l
    BY <1>2
  <2>1. CASE s # pos
    <3>1. new[s] = tab[s] /\ Dec(i1, new[s]) = Dec(j, tab[s]) BY <2>1, <1>2, <1>6
    <3> QED BY <3>1, <1>3
  <2>2. CASE s = pos
    <3>1. new[s] = e /\ new[s].fn_id = <<k, i1>> BY <2>2, <1>2
    <3> QED BY <3>1, <1>7
  <2> QED BY <2>1, <2>2
<1>13. \A l \in 1 .. i1 : IsSlotted(p[k], p[k].members[l]) =>
         \E s \in 1 .. Len(new) : new[s].name = member_name(p[k].members[l]) /\ new[s].kind = p[k].members[l].m
  <2> SUFFICES ASSUME NEW l \in 1 .. i1, IsSlotted(p[k], p[k].members[l])
               PROVE  \E s \in 1 .. Len(new) : new[s].name = member_name(p[k].members[l])
                                               /\ new[s].kind = p[k].members[l].m
    OBVIOUS
  <2>1. CASE l = i1
    <3>1. pos \in 1 .. Len(new) BY <1>2 DEF tab
    <3> QED BY <2>1, <3>1, <1>2
  <2>2. CASE l # i1
    <3>1. l \in 1 .. j BY <2>2, <1>5
    <3>2. PICK s \in 1 .. Len(tab) : tab[s].name = member_name(p[k].members[l]) /\ tab[s].kind = p[k].members[l].m
      BY <3>1, <1>3
    <3>3. s \in 1 .. Len(new) /\ new[s].name = tab[s].name /\ new[s].kind = tab[s].kind BY <1>2, <1>8 DEF SameKey
    <3> QED BY <3>2, <3>3
  <2> QED BY <2>1, <2>2
<1> QED BY <1>2, <1>9, <1>10, <1>11, <1>12, <1>13 DEF MethodsTabled, new, old, Dec


(* Constructor and static methods are named right past a member that is no static method. *)
LEMMA FunctionsStay ==
  ASSUME NEW p, NEW k, NEW j, NEW i1, NEW acc, NEW r,
         NEW m, OneMore(p, k, j, i1, m), FunctionsNamed(p, k, acc, j), ~ IsStaticMethod(m),
         r.static_methods = acc.static_methods,
         \/ r.ctor = acc.ctor /\ r.ctor_sig = acc.ctor_sig
         \/ r.ctor = i1 /\ IsCtor(p[k], m) /\ r.ctor_sig = build_sig(m)
  PROVE  FunctionsNamed(p, k, r, i1)
<1> USE DEF OneMore
<1>1. 1 .. i1 = 1 .. j \cup {i1} /\ 0 .. i1 = 0 .. j \cup {i1} OBVIOUS
<1>2. r.ctor \in 0 .. i1 /\ (r.ctor # 0 => IsCtor(p[k], p[k].members[r.ctor])) BY <1>1 DEF FunctionsNamed
<1>0. r.ctor_sig.variadic => \E l \in 1 .. i1 : p[k].members[l].rest BY <1>1 DEF FunctionsNamed, build_sig
<1>3. \A l \in 1 .. i1 : IsStaticMethod(p[k].members[l]) => l \in 1 .. j BY <1>1
<1> DEFINE ms == acc.static_methods
<1>4. /\ \A i \in 1 .. Len(ms) : \E l \in 1 .. j : IsStaticMethod(p[k].members[l]) /\ ms[i].fn_id = <<k, l>>
      /\ \A l \in 1 .. j : IsStaticMethod(p[k].members[l]) =>
            \E i \in 1 .. Len(ms) : ms[i].name = member_name(p[k].members[l])
  BY DEF FunctionsNamed
<1>5. r.static_methods = ms OBVIOUS
<1> HIDE DEF ms
<1>6. \A i \in 1 .. Len(ms) : \E l \in 1 .. i1 : IsStaticMethod(p[k].members[l]) /\ ms[i].fn_id = <<k, l>>
  BY <1>1, <1>4
<1>7. \A l \in 1 .. i1 : IsStaticMethod(p[k].members[l]) =>
            \E i \in 1 .. Len(ms) : ms[i].name = member_name(p[k].members[l])
  BY <1>3, <1>4
<1> QED BY <1>0, <1>2, <1>5, <1>6, <1>7 DEF FunctionsNamed

(* Constructor and static methods are named right past a static method entered under its name. *)
LEMMA FunctionsGrow ==
  ASSUME NEW p, NEW k, NEW j, NEW i1, NEW acc \in Infos, NEW r,
         NEW m, OneMore(p, k, j, i1, m), FunctionsNamed(p, k, acc, j), IsStaticMethod(m), NEW s,
         IsAppend(r.static_methods, acc.static_methods, s), r.ctor = acc.ctor /\ r.ctor_sig = acc.ctor_sig,
         s.name = member_name(m), s.fn_id = <<k, i1>>
  PROVE  FunctionsNamed(p, k, r, i1)
<1> USE DEF OneMore
<1> DEFINE ms == acc.static_methods
           new == r.static_methods
<1>1. 1 .. i1 = 1 .. j \cup {i1} /\ 0 .. j \subseteq 0 .. i1 OBVIOUS
<1>2. r.ctor \in 0 .. i1 /\ (r.ctor # 0 => IsCtor(p[k], p[k].members[r.ctor])) BY <1>1 DEF FunctionsNamed
<1>0. r.ctor_sig.variadic => \E l \in 1 .. i1 : p[k].members[l].rest BY <1>1 DEF FunctionsNamed
<1>3. /\ \A i \in 1 .. Len(ms) : \E l \in 1 .. j : IsStaticMethod(p[k].members[l]) /\ ms[i].fn_id = <<k, l>>
      /\ \A l \in 1 .. j : IsStaticMethod(p[k].members[l]) =>
            \E i \in 1 .. Len(ms) : ms[i].name = member_name(p[k].members[l])
  BY DEF FunctionsNamed
<1>4. ms \in Seq(StaticMethods) BY DEF Infos
<1>5. Len(new) = Len(ms) + 1 /\ new[Len(ms) + 1] = s /\ \A i \in 1 .. Len(ms) : new[i] = ms[i] BY DEF IsAppend
<1> HIDE DEF ms, new
<1>6. Len(ms) \in Nat /\ \A i \in 1 .. Len(new) : i \in 1 .. Len(ms) \/ i = Len(ms) + 1 BY <1>4, <1>5
<1>7. \A i \in 1 .. Len(new) : \E l \in 1 .. i1 : IsStaticMethod(p[k].members[l]) /\ new[i].fn_id = <<k, l>>
  <2> SUFFICES ASSUME NEW i \in 1 .. Len(new)
               PROVE  \E l \in 1 .. i1 : IsStaticMethod(p[k].members[l]) /\ new[i].fn_id = <<k, l>>
    OBVIOUS
  <2>1. CASE i \in 1 .. Len(ms)
    <3>1. PICK l \in 1 .. j : IsStaticMethod(p[k].members[l]) /\ ms[i].fn_id = <<k, l>> BY <2>1, <1>3
    <3>2. l \in 1 .. i1 /\ new[i] = ms[i] BY <2>1, <1>1, <1>5
    <3> QED BY <3>1, <3>2
  <2>2. CASE i = Len(ms) + 1
    <3>1. i1 \in 1 .. i1 /\ IsStaticMethod(p[k].members[i1]) BY <1>1
    <3>2. new[i].fn_id = <<k, i1>> BY <2>2, <1>5
    <3> QED BY <3>1, <3>2
  <2> QED BY <2>1, <2>2, <1>6
<1>8. \A l \in 1 .. i1 : IsStaticMethod(p[k].members[l]) =>
            \E i \in 1 .. Len(new) : new[i].name = member_name(p[k].members[l])
  <2> SUFFICES ASSUME NEW l \in 1 .. i1, IsStaticMethod(p[k].members[l])
               PROVE  \E i \in 1 .. Len(new) : new[i].name = member_name(p[k].members[l])
    OBVIOUS
  <2>1. CASE l = i1
    <3>1. Len(ms) + 1 \in 1 .. Len(new) BY <1>5, <1>6
    <3> QED BY <2>1, <3>1, <1>5
  <2>2. CASE l # i1
    <3>1. PICK i \in 1 .. Len(ms) : ms[i].name = member_name(p[k].members[l]) BY <2>2, <1>1, <1>3
    <3>2. i \in 1 .. Len(new) /\ new[i] = ms[i] BY <1>5, <1>6
    <3> QED BY <3>1, <3>2
  <2> QED BY <2>1, <2>2
<1> QED BY <1>0, <1>2, <1>7, <1>8 DEF FunctionsNamed, new

(* A field without a diagnostic keeps the tables right.                     *)
LEMMA FieldKeeps ==
  ASSUME NEW p, NEW k \in Nat, NEW reg, reg[reg[k].parent] \in Infos, NEW j, NEW i1, NEW m,
         OneMore(p, k, j, i1, m), m \in Members, NEW acc \in Infos, m.m = "field",
         NEW r, r = AddField(acc, reg, k, m), r.errs = {}, Assembled(p, reg, k, acc, j)
  PROVE  Assembled(p, reg, k, r, i1)
<1>1. ~ IsCtor(p[k], m) /\ ~ IsSlotted(p[k], m) /\ ~ IsStaticMethod(m) /\ (IsField(m) <=> ~ m.static)
  BY DEF IsCtor, IsSlotted, IsStaticMethod, IsField
<1>2. FieldsLaid(p, reg, k, acc, j) /\ MethodsTabled(p, reg, k, acc, j) /\ FunctionsNamed(p, k, acc, j)
  BY DEF Assembled
<1> DEFINE e == FieldEntry(acc, k, m)
<1> HIDE DEF e
<1>3. /\ r \in Infos /\ r.vtable = acc.vtable /\ r.ctor = acc.ctor /\ r.ctor_sig = acc.ctor_sig /\ r.static_methods = acc.static_methods
      /\ e \in FieldInfos /\ e.name = member_name(m) /\ e.ty = m.ty /\ e.slot = acc.total_slots
      /\ Named(acc.fields, e.name) = NoSym /\ find_field(reg, reg[k].parent, e.name) = <<>>
      /\ m.static => r.fields = acc.fields /\ r.total_slots = acc.total_slots
      /\ ~ m.static => IsAppend(r.fields, acc.fields, e) /\ r.total_slots = acc.total_slots + 1
  BY AddFieldIs DEF e
<1>4. FieldsLaid(p, reg, k, r, i1)
  <2>1. CASE m.static BY <1>1, <1>2, <1>3, <2>1, FieldsStay
  <2>2. CASE ~ m.static
    <3>1. reg[reg[k].parent].total_slots \in Nat
      <4>1. \A i \in Infos : i.total_slots \in Nat BY DEF Infos
      <4> QED BY <4>1
    <3> QED BY <1>1, <1>2, <1>3, <2>2, <3>1, FieldsGrow
  <2> QED BY <2>1, <2>2
<1>5. MethodsTabled(p, reg, k, r, i1) BY <1>1, <1>2, <1>3, TableStays
<1>6. FunctionsNamed(p, k, r, i1) BY <1>1, <1>2, <1>3, FunctionsStay
<1> QED BY <1>4, <1>5, <1>6 DEF Assembled

(* So does the constructor ...                                              *)
LEMMA CtorKeeps ==
  ASSUME NEW p, NEW k \in Nat, NEW reg, NEW j, NEW i1, NEW m, OneMore(p, k, j, i1, m), NEW acc \in Infos,
         IsCtor(p[k], m), NEW r, r.fields = acc.fields, r.total_slots = acc.total_slots,
         r.vtable = acc.vtable, r.ctor = i1, r.ctor_sig = build_sig(m), r.static_methods = acc.static_methods,
         Assembled(p, reg, k, acc, j)
  PROVE  Assembled(p, reg, k, r, i1)
<1>1. ~ IsSlotted(p[k], m) /\ ~ IsStaticMethod(m) /\ ~ IsField(m)
  BY DEF IsCtor, IsSlotted, IsStaticMethod, IsField
<1>2. FieldsLaid(p, reg, k, acc, j) /\ MethodsTabled(p, reg, k, acc, j) /\ FunctionsNamed(p, k, acc, j)
  BY DEF Assembled
<1>3. FieldsLaid(p, reg, k, r, i1) BY <1>1, <1>2, FieldsStay
<1>4. MethodsTabled(p, reg, k, r, i1) BY <1>1, <1>2, TableStays
<1>5. FunctionsNamed(p, k, r, i1) BY <1>1, <1>2, FunctionsStay
<1> QED BY <1>3, <1>4, <1>5 DEF Assembled

(* ... and a method or accessor.                                            *)
LEMMA MethodKeeps ==
  ASSUME NEW p, NEW k \in Nat, NEW reg, reg[reg[k].parent] \in Infos, NEW j, NEW i1 \in Nat, NEW m,
         OneMore(p, k, j, i1, m), m \in Members, NEW acc \in Infos, m.m # "field", ~ IsCtor(p[k], m),
         NEW r, r = AddMethod(acc, k, i1, m), Assembled(p, reg, k, acc, j)
  PROVE  Assembled(p, reg, k, r, i1)
<1>1. ~ IsField(m) /\ (IsSlotted(p[k], m) <=> ~ m.static) /\ (IsStaticMethod(m) <=> m.static)
  BY DEF IsSlotted, IsStaticMethod, IsField
<1>2. FieldsLaid(p, reg, k, acc, j) /\ MethodsTabled(p, reg, k, acc, j) /\ FunctionsNamed(p, k, acc, j)
  BY DEF Assembled
<1> DEFINE e == MethodEntry(acc, k, i1, m)
           pos == Keyed(acc.vtable, member_name(m), m.m)
           s == StaticEntry(k, i1, m)
<1> HIDE DEF e, pos, s
<1>3. /\ r \in Infos /\ r.fields = acc.fields /\ r.total_slots = acc.total_slots /\ r.ctor = acc.ctor /\ r.ctor_sig = acc.ctor_sig
      /\ s.name = member_name(m) /\ s.fn_id = <<k, i1>>
      /\ e.name = member_name(m) /\ e.kind = m.m /\ e.fn_id = <<k, i1>>
      /\ m.static => r.vtable = acc.vtable /\ IsAppend(r.static_methods, acc.static_methods, s)
      /\ ~ m.static => e \in VMethods /\ r.static_methods = acc.static_methods
      /\ ~ m.static /\ pos = NoSym => IsAppend(r.vtable, acc.vtable, e)
      /\ ~ m.static /\ pos # NoSym => IsReplaced(r.vtable, acc.vtable, pos, e)
  <2> DEFINE x == AddMethod(acc, k, i1, m)
  <2>1. x \in Infos /\ x.fields = acc.fields /\ x.total_slots = acc.total_slots /\ x.ctor = acc.ctor /\ x.ctor_sig = acc.ctor_sig
    BY AddMethodIs, Zenon
  <2>2. /\ s.name = member_name(m) /\ s.fn_id = <<k, i1>>
        /\ e.name = member_name(m) /\ e.kind = m.m /\ e.fn_id = <<k, i1>>
    BY DEF e, s, MethodEntry, StaticEntry
  <2>3. m.static => x.vtable = acc.vtable /\ IsAppend(x.static_methods, acc.static_methods, s)
    BY AddMethodIs, Zenon DEF s
  <2>4. ~ m.static => e \in VMethods /\ x.static_methods = acc.static_methods
    BY AddMethodIs, Zenon DEF e
  <2>5. ~ m.static /\ pos = NoSym => IsAppend(x.vtable, acc.vtable, e)
    BY AddMethodIs, Zenon DEF e, pos
  <2>6. ~ m.static /\ pos # NoSym => IsReplaced(x.vtable, acc.vtable, pos, e)
    BY AddMethodIs, Zenon DEF e, pos
  <2>7. r = x OBVIOUS
  <2> HIDE DEF x
  <2> QED BY <2>1, <2>2, <2>3, <2>4, <2>5, <2>6, <2>7
<1>4. /\ pos = NoSym => \A t \in 1 .. Len(acc.vtable) : ~ SameKey(acc.vtable[t], e)
      /\ pos # NoSym => pos \in 1 .. Len(acc.vtable) /\ SameKey(acc.vtable[pos], e)
  <2>1. acc.vtable \in Seq(VMethods) BY DEF Infos
  <2>2. e.name = member_name(m) /\ e.kind = m.m BY <1>3
  <2> QED BY <2>1, <2>2, KeyedIs DEF pos, SameKey
<1>5. FieldsLaid(p, reg, k, r, i1) BY <1>1, <1>2, <1>3, FieldsStay
<1>6. MethodsTabled(p, reg, k, r, i1)
  <2>1. CASE m.static BY <1>1, <1>2, <1>3, <2>1, TableStays
  <2>2. CASE ~ m.static /\ pos = NoSym
    <3>1. \A t \in 1 .. Len(acc.vtable) : ~ SameKey(acc.vtable[t], e) BY <1>4, <2>2
    <3> QED BY <1>1, <1>2, <1>3, <2>2, <3>1, TableGrows
  <2>3. CASE ~ m.static /\ pos # NoSym
    <3>1. pos \in 1 .. Len(acc.vtable) /\ SameKey(acc.vtable[pos], e) BY <1>4, <2>3
    <3> QED BY <1>1, <1>2, <1>3, <2>3, <3>1, TableReplaces
  <2> QED BY <2>1, <2>2, <2>3
<1>7. FunctionsNamed(p, k, r, i1)
  <2>1. CASE m.static BY <1>1, <1>2, <1>3, <2>1, FunctionsGrow
  <2>2. CASE ~ m.static BY <1>1, <1>2, <1>3, <2>2, FunctionsStay
  <2> QED BY <2>1, <2>2
<1> QED BY <1>5, <1>6, <1>7 DEF Assembled

(* One step of the loop of build_class_members keeps what is not a class's  *)
(* own and every diagnostic ...                                             *)
LEMMA AddMemberIs ==
  ASSUME NEW p \in Seq(Declarations), NEW k \in DOMAIN p, NEW reg, NEW i \in 1 .. Len(p[k].members),
         NEW acc \in Infos
  PROVE  LET r == AddMember(acc, p, reg, k, i)
         IN  r \in Infos /\ Kept(r, acc) /\ acc.errs \subseteq r.errs
<1> DEFINE m == p[k].members[i]
           r == AddMember(acc, p, reg, k, i)
<1>1. k \in Nat /\ m \in Members /\ i \in Nat
  <2>1. p[k].members \in Seq(Members) /\ k \in Nat BY DeclarationIs
  <2> QED BY <2>1
<1> DEFINE fld == AddField(acc, reg, k, m)
           ctr == WithCtor(acc, i, build_sig(m))
           mth == AddMethod(acc, k, i, m)
<1>2. r = CASE m.m = "field" -> fld [] IsCtor(p[k], m) -> ctr [] OTHER -> mth
  BY DEF AddMember, WithCtor
<1> DEFINE Good == r \in Infos /\ Kept(r, acc) /\ acc.errs \subseteq r.errs
<1> HIDE DEF fld, ctr, mth, m, r
<1>9. /\ m.m = "field" => r = fld
      /\ m.m # "field" /\ IsCtor(p[k], m) => r = ctr
      /\ m.m # "field" /\ ~ IsCtor(p[k], m) => r = mth
  <2>1. IsCtor(p[k], m) => m.m = "method" BY DEF IsCtor
  <2>2. CASE m.m = "field" BY <1>2, <2>1, <2>2
  <2>3. CASE m.m # "field" /\ IsCtor(p[k], m) BY <1>2, <2>3
  <2>4. CASE m.m # "field" /\ ~ IsCtor(p[k], m) BY <1>2, <2>4
  <2> QED BY <2>2, <2>3, <2>4
<1> HIDE DEF m
<1>3. ASSUME m.m = "field" PROVE Good
  <2>1. r = AddField(acc, reg, k, m) BY <1>9, <1>3 DEF fld
  <2>2. AddField(acc, reg, k, m) \in Infos /\ Kept(AddField(acc, reg, k, m), acc)
        /\ acc.errs \subseteq AddField(acc, reg, k, m).errs
    BY <1>1, AddFieldIs, Zenon
  <2> QED BY <2>1, <2>2
<1>4. ASSUME m.m # "field", IsCtor(p[k], m) PROVE Good
  <2>1. r = WithCtor(acc, i, build_sig(m)) BY <1>9, <1>4 DEF ctr
  <2>2. build_sig(m) \in Sigs BY <1>1, MemberIs
  <2>3. WithCtor(acc, i, build_sig(m)) \in Infos /\ Kept(WithCtor(acc, i, build_sig(m)), acc)
        /\ WithCtor(acc, i, build_sig(m)).errs = acc.errs
    BY <1>1, <2>2, InfoCtor, Zenon
  <2> QED BY <2>1, <2>3
<1>5. ASSUME m.m # "field", ~ IsCtor(p[k], m) PROVE Good
  <2>1. r = AddMethod(acc, k, i, m) BY <1>9, <1>5 DEF mth
  <2>2. AddMethod(acc, k, i, m) \in Infos /\ Kept(AddMethod(acc, k, i, m), acc)
        /\ acc.errs \subseteq AddMethod(acc, k, i, m).errs
    BY <1>1, <1>5, AddMethodIs, Zenon
  <2> QED BY <2>1, <2>2
<1>6. Good BY <1>3, <1>4, <1>5
<1> QED BY <1>6 DEF r

(* ... and the tables right, if it has no diagnostic.                       *)
LEMMA AddMemberKeeps ==
  ASSUME NEW p \in Seq(Declarations), NEW k \in DOMAIN p, NEW reg, reg[reg[k].parent] \in Infos,
         NEW j \in Nat, NEW i1 \in Nat, i1 = j + 1, i1 <= Len(p[k].members), NEW acc \in Infos,
         NEW r, r = AddMember(acc, p, reg, k, i1), r.errs = {}, Assembled(p, reg, k, acc, j)
  PROVE  Assembled(p, reg, k, r, i1)
<1> DEFINE m == p[k].members[i1]
<1>1. k \in Nat /\ m \in Members
  <2>1. p[k].members \in Seq(Members) /\ k \in Nat BY DeclarationIs
  <2>2. i1 \in 1 .. Len(p[k].members) BY <2>1
  <2> QED BY <2>1, <2>2
<1> DEFINE fld == AddField(acc, reg, k, m)
           ctr == WithCtor(acc, i1, build_sig(m))
           mth == AddMethod(acc, k, i1, m)
<1>2. r = CASE m.m = "field" -> fld [] IsCtor(p[k], m) -> ctr [] OTHER -> mth
  BY DEF AddMember, WithCtor
<1> HIDE DEF fld, ctr, mth, m
<1>9. /\ m.m = "field" => r = fld
      /\ m.m # "field" /\ IsCtor(p[k], m) => r = ctr
      /\ m.m # "field" /\ ~ IsCtor(p[k], m) => r = mth
  <2>1. IsCtor(p[k], m) => m.m = "method" BY DEF IsCtor
  <2>2. CASE m.m = "field" BY <1>2, <2>1, <2>2
  <2>3. CASE m.m # "field" /\ IsCtor(p[k], m) BY <1>2, <2>3
  <2>4. CASE m.m # "field" /\ ~ IsCtor(p[k], m) BY <1>2, <2>4
  <2> QED BY <2>2, <2>3, <2>4
<1>3. OneMore(p, k, j, i1, m) BY <1>1 DEF OneMore, m
<1> HIDE DEF m
<1>4. CASE m.m = "field"
  <2>1. r = AddField(acc, reg, k, m) BY <1>9, <1>4 DEF fld
  <2> QED BY <1>1, <1>3, <1>4, <2>1, FieldKeeps
<1>5. CASE m.m # "field" /\ IsCtor(p[k], m)
  <2>1. r = WithCtor(acc, i1, build_sig(m)) BY <1>9, <1>5 DEF ctr
  <2>2. build_sig(m) \in Sigs BY <1>1, MemberIs
  <2> DEFINE q == WithCtor(acc, i1, build_sig(m))
  <2>3. q.fields = acc.fields /\ q.total_slots = acc.total_slots /\ q.vtable = acc.vtable
        /\ q.ctor = i1 /\ q.ctor_sig = build_sig(m) /\ q.static_methods = acc.static_methods
    BY DEF WithCtor, Infos
  <2>4. r = q BY <2>1
  <2> HIDE DEF q
  <2> QED BY <1>1, <1>3, <1>5, <2>3, <2>4, CtorKeeps
<1>6. CASE m.m # "field" /\ ~ IsCtor(p[k], m)
  <2>1. r = AddMethod(acc, k, i1, m) BY <1>9, <1>6 DEF mth
  <2> QED BY <1>1, <1>3, <1>6, <2>1, MethodKeeps
<1> QED BY <1>4, <1>5, <1>6

(* What the loop starts from, and what it comes to.                         *)
ClassStart(reg, k) ==
  Started(reg[k], reg[reg[k].parent].vtable, FirstSlot(reg, reg[k].parent))

(* build_class_members, without a diagnostic, assembles the class from all its members. *)
LEMMA ClassMembersAre ==
  ASSUME NEW p \in Seq(Declarations), NEW k \in DOMAIN p, NEW reg, reg[k] \in Infos,
         reg[reg[k].parent] \in Infos, NEW info, info = build_class_members(p, reg, k)
  PROVE  /\ info \in Infos /\ Kept(info, reg[k]) /\ reg[k].errs \subseteq info.errs
         /\ info.errs = {} /\ Assembled(p, reg, k, ClassStart(reg, k), 0)
               => Assembled(p, reg, k, info, Len(p[k].members))
<1> DEFINE n == Len(p[k].members)
           T == Infos
           b == ClassStart(reg, k)
           Next1(a, i) == AddMember(a, p, reg, k, i)
           step == [x \in T \X (1 .. n) |-> Next1(x[1], x[2])]
           Is(g) == g = [i \in 0 .. n |-> IF i = 0 THEN b ELSE Next1(g[i - 1], i)]
<1>1. n \in Nat
  <2>1. p[k].members \in Seq(Members) BY DeclarationIs
  <2> QED BY <2>1
<1>2. b \in T /\ Kept(b, reg[k]) /\ b.errs = reg[k].errs
  <2>1. \A i \in Infos : i.total_slots \in Nat /\ i.vtable \in Seq(VMethods) BY DEF Infos
  <2> DEFINE t == reg[reg[k].parent].vtable
             f == reg[reg[k].parent].total_slots
  <2>2. t \in Seq(VMethods) /\ f \in Nat BY <2>1
  <2>3. b = Started(reg[k], t, f) BY DEF ClassStart, FirstSlot
  <2> HIDE DEF t, f, b
  <2> QED BY <2>2, <2>3, InfoStart
<1>3. \A a \in T : \A i \in 1 .. n : /\ Next1(a, i) \in T /\ Kept(Next1(a, i), a)
                                    /\ a.errs \subseteq Next1(a, i).errs
  <2> SUFFICES ASSUME NEW a \in T, NEW i \in 1 .. n
               PROVE  Next1(a, i) \in T /\ Kept(Next1(a, i), a) /\ a.errs \subseteq Next1(a, i).errs
    OBVIOUS
  <2> DEFINE r == Next1(a, i)
  <2> HIDE DEF r
  <2>1. r = AddMember(a, p, reg, k, i) BY DEF r
  <2>2. r \in Infos /\ Kept(r, a) /\ a.errs \subseteq r.errs
    <3>1. a \in Infos /\ i \in 1 .. Len(p[k].members) OBVIOUS
    <3> QED BY <2>1, <3>1, AddMemberIs, Zenon
  <2> QED BY <2>2 DEF r
<1>4. ASSUME NEW a \in T, NEW j \in Nat, NEW i \in 1 .. n, i = j + 1, Next1(a, i).errs = {},
             Assembled(p, reg, k, a, j)
      PROVE  Assembled(p, reg, k, Next1(a, i), i)
  BY <1>1, <1>4, AddMemberKeeps
<1> HIDE DEF T, Next1, b
<1>5. step \in [T \X (1 .. n) -> T] BY <1>3
<1>6. PICK g : IsRun(g, n, T, b, step)
  <2> HIDE DEF step, n
  <2> QED BY <1>1, <1>2, <1>5, Recursion
<1>7. Is(g)
  <2>1. g \in [0 .. n -> T] /\ g[0] = b /\ \A i \in 1 .. n : g[i] = step[<<g[i - 1], i>>]
    BY <1>6 DEF IsRun
  <2>2. \A i \in 1 .. n : i - 1 \in 0 .. n BY <1>1
  <2> HIDE DEF n
  <2>3. \A i \in 1 .. n : g[i] = Next1(g[i - 1], i) BY <2>1, <2>2
  <2> HIDE DEF step
  <2>4. \A i \in 0 .. n : i = 0 \/ i \in 1 .. n BY <1>1
  <2>5. \A i \in 0 .. n : g[i] = IF i = 0 THEN b ELSE Next1(g[i - 1], i) BY <2>1, <2>3, <2>4
  <2>6. g = [i \in 0 .. n |-> g[i]] BY <2>1
  <2> QED BY <2>5, <2>6
<1> DEFINE h == CHOOSE h : Is(h)
<1>8. Is(h) BY <1>7
<1>9. info = h[n] BY DEF build_class_members, Next1, b, ClassStart, Started
<1>10. h[0] = b /\ \A i \in 1 .. n : h[i] = Next1(h[i - 1], i)
  <2>1. 0 \in 0 .. n /\ \A i \in 1 .. n : i \in 0 .. n /\ i # 0 BY <1>1
  <2> HIDE DEF h, n
  <2> QED BY <1>8, <2>1
<1> HIDE DEF h
<1> DEFINE Good(a, i) == /\ a \in T /\ Kept(a, reg[k]) /\ reg[k].errs \subseteq a.errs
                         /\ a.errs = {} /\ Assembled(p, reg, k, b, 0) => Assembled(p, reg, k, a, i)
           S == {i \in 0 .. n : Good(h[i], i)}
<1>11. 0 .. n \subseteq S
  <2>1. 0 \in S BY <1>1, <1>2, <1>10
  <2>2. ASSUME NEW i \in 0 .. n - 1, i \in S PROVE i + 1 \in S
    <3>1. i + 1 \in 1 .. n /\ i + 1 \in 0 .. n /\ (i + 1) - 1 = i /\ i \in Nat BY <1>1
    <3> DEFINE i1 == i + 1
               r == Next1(h[i], i1)
    <3>2. h[i1] = r /\ Good(h[i], i) BY <3>1, <1>10, <2>2
    <3>3. i1 \in 1 .. n /\ i1 = i + 1 BY <3>1
    <3> HIDE DEF i1
    <3>4. r \in T /\ Kept(r, h[i]) /\ h[i].errs \subseteq r.errs BY <3>2, <3>3, <1>3
    <3>5. Kept(r, reg[k]) /\ reg[k].errs \subseteq r.errs BY <3>2, <3>4 DEF Kept
    <3>6. ASSUME r.errs = {}, Assembled(p, reg, k, b, 0) PROVE Assembled(p, reg, k, r, i1)
      <4>1. Assembled(p, reg, k, h[i], i) BY <3>2, <3>4, <3>6
      <4>2. h[i] \in T BY <3>2
      <4> QED BY <3>1, <3>3, <3>6, <4>1, <4>2, <1>4
    <3>7. Good(r, i1) BY <3>4, <3>5, <3>6
    <3> HIDE DEF Good, r
    <3> QED BY <3>1, <3>2, <3>7 DEF i1
  <2> HIDE DEF S, n
  <2> QED BY <1>1, <2>1, <2>2, Induction
<1>12. n \in S
  <2> HIDE DEF S, n
  <2> QED BY <1>1, <1>11
<1> QED BY <1>9, <1>12 DEF T, b

-----------------------------------------------------------------------------
(* ---- parents before children ----------------------------------------------------------- *)

(* The next class in topo_order is not below another that is still to come. *)
LEMMA TopoIs ==
  ASSUME NEW reg, Tree(reg), IsFiniteSet(DOMAIN reg), NEW ks \in SUBSET Nat, ks \subseteq DOMAIN reg, ks # {}
  PROVE  topo_first(reg, ks) \in ks /\ reg[topo_first(reg, ks)].parent \notin ks
<1> DEFINE D(k) == Cardinality(Chain(reg, k))
           Ds   == {D(k) : k \in ks}
           Ms   == {k \in ks : D(k) = First(Ds)}
           Least(k) == \A l \in ks : D(k) < D(l) \/ (D(k) = D(l) /\ k <= l)
<1>1. \A k \in ks : D(k) \in Nat
  <2> SUFFICES ASSUME NEW k \in ks PROVE D(k) \in Nat OBVIOUS
  <2>1. Chain(reg, k) \subseteq DOMAIN reg BY ChainIs
  <2>2. IsFiniteSet(Chain(reg, k)) BY <2>1, FS_Subset
  <2> QED BY <2>2, FS_CardinalityType
<1>2. topo_first(reg, ks) = CHOOSE k \in ks : Least(k) BY DEF topo_first
<1>3. \A k \in ks : reg[k].parent \in ks => D(reg[k].parent) < D(k)
  <2> SUFFICES ASSUME NEW k \in ks, reg[k].parent \in ks PROVE D(reg[k].parent) < D(k) OBVIOUS
  <2>1. reg[k].parent # NoSym BY DEF Tree
  <2> QED BY <2>1, ParentIsHigher
<1> HIDE DEF D
<1>4. Ds \in SUBSET Nat /\ Ds # {} BY <1>1
<1>5. First(Ds) \in Ds /\ \A d \in Ds : First(Ds) <= d
  <2> HIDE DEF Ds
  <2> QED BY <1>4, FirstIs
<1>6. Ms \in SUBSET Nat /\ Ms # {} BY <1>5
<1>7. First(Ms) \in Ms /\ \A k \in Ms : First(Ms) <= k
  <2> HIDE DEF Ms
  <2> QED BY <1>6, FirstIs
<1>8. First(Ms) \in ks /\ Least(First(Ms))
  <2>1. First(Ms) \in ks /\ D(First(Ms)) = First(Ds) BY <1>7
  <2>2. \A l \in ks : D(l) \in Ds /\ (D(l) = First(Ds) => First(Ms) <= l) BY <1>7
  <2> DEFINE f == First(Ms)
             d == First(Ds)
  <2>3. d \in Nat /\ f \in ks BY <1>4, <1>5, <2>1
  <2>4. \A l \in ks : d <= D(l) /\ (D(l) = d => f <= l) BY <1>5, <2>2
  <2>5. D(f) = d BY <2>1
  <2> HIDE DEF f, d, Ms, Ds
  <2>6. Least(f) BY <1>1, <2>3, <2>4, <2>5
  <2> QED BY <2>3, <2>6 DEF f
<1> DEFINE t == topo_first(reg, ks)
<1>9. t \in ks /\ Least(t)
  <2> HIDE DEF Least, Ms
  <2> QED BY <1>2, <1>8
<1> HIDE DEF t
<1>10. reg[t].parent \notin ks
  <2> SUFFICES ASSUME reg[t].parent \in ks PROVE FALSE OBVIOUS
  <2> DEFINE u == reg[t].parent
             du == D(u)
             dt == D(t)
  <2>1. du < dt BY <1>3, <1>9
  <2>2. du \in Nat /\ dt \in Nat BY <1>1, <1>9
  <2>3. dt < du \/ (dt = du /\ t <= u) BY <1>9
  <2> HIDE DEF du, dt
  <2> QED BY <2>1, <2>2, <2>3
<1> QED BY <1>9, <1>10 DEF t

(* A class that is not to come has none that is to come above it, when its  *)
(* parent has none.                                                         *)
LEMMA AboveIsDone ==
  ASSUME NEW reg, Tree(reg), NEW todos, \A a \in DOMAIN reg \ todos : reg[a].parent \notin todos
  PROVE  \A k \in DOMAIN reg \ todos : Chain(reg, k) \cap todos = {}
<1> DEFINE S == {k \in DOMAIN reg : k \notin todos => Chain(reg, k) \cap todos = {}}
<1>1. ASSUME NEW k \in DOMAIN reg, reg[k].parent \in (S \cap DOMAIN reg) \cup {NoSym} PROVE k \in S
  <2> SUFFICES ASSUME k \notin todos PROVE Chain(reg, k) \cap todos = {} OBVIOUS
  <2>1. CASE reg[k].parent = NoSym
    <3>1. Chain(reg, k) = {k} BY <2>1, ChainIs
    <3> QED BY <3>1
  <2>2. CASE reg[k].parent # NoSym
    <3>1. Chain(reg, k) = {k} \cup Chain(reg, reg[k].parent) BY <2>2, ChainIs
    <3>2. Chain(reg, reg[k].parent) \cap todos = {} BY <1>1, <2>2
    <3> QED BY <3>1, <3>2
  <2> QED BY <2>1, <2>2
<1>2. DOMAIN reg \subseteq S
  <2> HIDE DEF S
  <2> QED BY <1>1, ChainInduction
<1> QED BY <1>2

(* Two registries with the same parents, and the same classes above k.      *)
Alike(reg, other) == DOMAIN other = DOMAIN reg /\ \A a \in DOMAIN reg : other[a].parent = reg[a].parent

(* Two tables with the same parents have the same chains. *)
LEMMA ChainsAlike ==
  ASSUME NEW reg, NEW other, Alike(reg, other)
  PROVE  (Tree(reg) => Tree(other)) /\ \A a : Chain(other, a) = Chain(reg, a)
<1>1. [a \in DOMAIN other |-> {other[a].parent} \ {NoSym}] = [a \in DOMAIN reg |-> {reg[a].parent} \ {NoSym}]
  BY DEF Alike
<1>2. \A a : Chain(other, a) = Chain(reg, a) BY <1>1 DEF Chain
<1>3. Tree(reg) => Tree(other) BY DEF Tree, Alike
<1> QED BY <1>2, <1>3

(* find_field answers the same in two tables that agree on the chain it climbs. *)
LEMMA FieldsFoundAlike ==
  ASSUME NEW reg, NEW other, Alike(reg, other), NEW k, \A a \in Chain(reg, k) : other[a].fields = reg[a].fields,
         Tree(reg), k \in DOMAIN reg, NEW n
  PROVE  find_field(other, k, n) = find_field(reg, k, n)
<1>1. \A a : Chain(other, a) = Chain(reg, a) BY ChainsAlike
<1>2. \A as : Nearest(other, as) = Nearest(reg, as)
  <2> DEFINE Pick(next, as) == CHOOSE a \in as : as \subseteq Reach(next, a)
  <2>1. Up(other) = Up(reg) BY DEF Alike, Up
  <2>2. \A as : Nearest(other, as) = Pick(Up(other), as) /\ Nearest(reg, as) = Pick(Up(reg), as)
    BY DEF Nearest, Chain, Up
  <2> HIDE DEF Pick
  <2> QED BY <2>1, <2>2
<1> DEFINE owners == {a \in Chain(reg, k) : Named(reg[a].fields, n) # NoSym}
           others == {a \in Chain(other, k) : Named(other[a].fields, n) # NoSym}
           near == Nearest(reg, owners)
<1>3. others = owners BY <1>1
<1>4. owners # {} => near \in owners
  <2> DEFINE W == {a \in DOMAIN reg : Named(reg[a].fields, n) # NoSym}
  <2>1. Chain(reg, k) \subseteq DOMAIN reg BY ChainIs
  <2>2. owners = Chain(reg, k) \cap W BY <2>1
  <2> HIDE DEF W, owners
  <2> QED BY <2>2, NearestExists
<1>5. owners # {} => other[near].fields = reg[near].fields BY <1>4
<1>6. Nearest(other, others) = near BY <1>2, <1>3
<1>7. find_field(reg, k, n) = IF owners = {} THEN <<>> ELSE <<reg[near].fields[Named(reg[near].fields, n)]>>
  BY DEF find_field
<1>8. find_field(other, k, n) = IF owners = {} THEN <<>> ELSE <<other[near].fields[Named(other[near].fields, n)]>>
  <2>1. find_field(other, k, n) =
           IF others = {} THEN <<>>
           ELSE <<other[Nearest(other, others)].fields[Named(other[Nearest(other, others)].fields, n)]>>
    BY DEF find_field
  <2> HIDE DEF others, owners, near
  <2> QED BY <2>1, <1>3, <1>6
<1> HIDE DEF owners, near
<1>9. CASE owners = {} BY <1>7, <1>8, <1>9
<1>10. CASE owners # {} BY <1>5, <1>7, <1>8, <1>10
<1> QED BY <1>9, <1>10

(* A class assembled over one table is assembled over another that agrees on its ancestors. *)
LEMMA AssembledAlike ==
  ASSUME NEW p, NEW reg, NEW other, Alike(reg, other), Tree(reg), NEW k \in DOMAIN reg,
         reg[k].parent \in DOMAIN reg, \A a \in Chain(reg, reg[k].parent) : other[a] = reg[a],
         NEW acc, NEW j, Assembled(p, reg, k, acc, j)
  PROVE  Assembled(p, other, k, acc, j)
<1> DEFINE up == reg[k].parent
<1>1. other[k].parent = up BY DEF Alike
<1>2. other[up] = reg[up] BY ChainIs
<1>3. \A n : find_field(other, up, n) = find_field(reg, up, n)
  <2> SUFFICES ASSUME NEW n PROVE find_field(other, up, n) = find_field(reg, up, n) OBVIOUS
  <2> HIDE DEF up
  <2>1. up \in DOMAIN reg /\ \A a \in Chain(reg, up) : other[a].fields = reg[a].fields BY DEF up
  <2> QED BY <2>1, FieldsFoundAlike
<1>4. FieldsLaid(p, reg, k, acc, j) /\ MethodsTabled(p, reg, k, acc, j) /\ FunctionsNamed(p, k, acc, j)
  BY DEF Assembled
<1>5. FieldsLaid(p, other, k, acc, j) BY <1>1, <1>2, <1>3, <1>4 DEF FieldsLaid
<1>6. MethodsTabled(p, other, k, acc, j) BY <1>1, <1>2, <1>4 DEF MethodsTabled
<1> QED BY <1>4, <1>5, <1>6 DEF Assembled

(* A class starts from its parent's slots and method table.                 *)
LEMMA StartAssembled ==
  ASSUME NEW p, NEW reg, NEW k, reg[k] \in Infos, Blank(reg[k]), reg[reg[k].parent] \in Infos,
         \A s, t \in 1 .. Len(reg[reg[k].parent].vtable) :
            SameKey(reg[reg[k].parent].vtable[s], reg[reg[k].parent].vtable[t]) => s = t
  PROVE  Assembled(p, reg, k, ClassStart(reg, k), 0)
<1> DEFINE tab  == reg[reg[k].parent].vtable
           base == reg[reg[k].parent].total_slots
           b    == ClassStart(reg, k)
<1>1. tab \in Seq(VMethods) /\ base \in Nat
  <2>1. \A i \in Infos : i.vtable \in Seq(VMethods) /\ i.total_slots \in Nat BY DEF Infos
  <2> QED BY <2>1
<1>2. /\ b.vtable = tab /\ b.total_slots = base /\ b.fields = <<>> /\ b.ctor = 0 /\ b.static_methods = <<>>
      /\ ~ b.ctor_sig.variadic
  <2>1. b = Started(reg[k], tab, base) BY DEF ClassStart, FirstSlot
  <2> HIDE DEF b, tab, base
  <2> QED BY <1>1, <2>1, InfoStart DEF Blank
<1>3. FieldsLaid(p, reg, k, b, 0)
  <2>1. \A n : DeclaredIn(p, k, 0, n, "field") = {} BY DEF DeclaredIn
  <2>2. b.fields = <<>> /\ Len(b.fields) = 0 /\ 1 .. Len(b.fields) = {} /\ 1 .. 0 = {} BY <1>2
  <2>3. b.total_slots = base + Len(b.fields) BY <1>1, <1>2, <2>2
  <2> HIDE DEF b
  <2> QED BY <2>1, <2>2, <2>3 DEF FieldsLaid
<1>4. MethodsTabled(p, reg, k, b, 0)
  <2>1. \A n, kind : DeclaredIn(p, k, 0, n, kind) = {} BY DEF DeclaredIn
  <2>2. Len(tab) \in Nat /\ 1 .. 0 = {} BY <1>1
  <2>3. \A s, t \in 1 .. Len(tab) : SameKey(tab[s], tab[t]) => s = t OBVIOUS
  <2>4. b.vtable = tab BY <1>2
  <2> HIDE DEF b, tab
  <2>5. \A s \in 1 .. Len(tab) : s <= Len(tab) /\ SameKey(tab[s], tab[s]) BY <2>2 DEF SameKey
  <2>6. Len(tab) <= Len(tab) /\ \A s \in 1 .. Len(tab) : SameKey(tab[s], tab[s])
    BY <2>2, <2>5
  <2>7. \A s \in 1 .. Len(tab) :
           LET here == DeclaredIn(p, k, 0, tab[s].name, tab[s].kind)
           IN  /\ here = {} => s <= Len(tab) /\ tab[s].fn_id = tab[s].fn_id
               /\ here # {} => \E l \in here : tab[s].fn_id = <<k, l>> /\ \A h \in here : h <= l
    BY <2>1, <2>5
  <2>8. \A l \in 1 .. 0 : IsSlotted(p[k], p[k].members[l]) =>
           \E s \in 1 .. Len(tab) : tab[s].name = member_name(p[k].members[l])
                                    /\ tab[s].kind = p[k].members[l].m
    BY <2>2
  <2>9. tab = reg[reg[k].parent].vtable BY DEF tab
  <2> QED BY ONLY <2>3, <2>4, <2>6, <2>7, <2>8, <2>9, Zenon DEF MethodsTabled
<1>5. FunctionsNamed(p, k, b, 0)
  <2>1. 1 .. Len(b.static_methods) = {} /\ 1 .. 0 = {} /\ 0 \in 0 .. 0 BY <1>2
  <2> HIDE DEF b
  <2> QED BY <1>2, <2>1 DEF FunctionsNamed
<1> QED BY <1>3, <1>4, <1>5 DEF Assembled

(* build_class_members, for a class whose parent is done, keeps the invariant. *)
LEMMA BuildMembersKeeps ==
  ASSUME IInv, BuildMembers
  PROVE  IInv'
<1> DEFINE k    == topo_first(registry, todo)
           info == build_class_members(program, registry, k)
<1>1. /\ program \in Programs /\ program' = program /\ phase = "members" /\ phase' = phase
      /\ event' = event /\ event = [op |-> "none"] /\ todo' = todo \ {k} /\ todo # {}
      /\ errors' = errors \cup info.errs /\ registry' = [registry EXCEPT ![k] = info]
  BY DEF IInv, BuildMembers
<1>2. ASSUME errors' = {} PROVE TablesAreRight'
  <2>1. errors = {} /\ info.errs = {} /\ Registered /\ IfacesLinked /\ ClassesLinked /\ ParentsFirst
    BY <1>1, <1>2 DEF IInv, TablesAreRight
  <2>2. /\ program \in Seq(Declarations) /\ Len(program) \in Nat /\ DOMAIN registry = 0 .. Len(program)
        /\ Classes \subseteq DOMAIN program /\ Classes \subseteq 0 .. Len(program)
        /\ OBJECT \in 0 .. Len(program) /\ NoSym \notin 0 .. Len(program)
        /\ OBJECT \notin Classes /\ 0 .. Len(program) = {OBJECT} \cup Classes \cup Ifaces
        /\ Classes \cap Ifaces = {}
    BY <1>1, <2>1, ProgramIs DEF Registered
  <2>3. \A l \in 0 .. Len(program) : registry[l] \in Infos BY <2>1 DEF Registered
  <2>4. Tree(registry) /\ todo \subseteq Classes BY <2>1 DEF ClassesLinked, ParentsFirst
  <2>5. k \in todo /\ registry[k].parent \notin todo
    <3>1. IsFiniteSet(DOMAIN registry) BY <2>2, FS_Interval
    <3>2. todo \in SUBSET Nat /\ todo \subseteq DOMAIN registry BY <2>2, <2>4
    <3> QED BY <1>1, <2>4, <3>1, <3>2, TopoIs
  <2> HIDE DEF k
  <2> DEFINE up == registry[k].parent
  <2>6. k \in Classes /\ k \in 0 .. Len(program) /\ k \in DOMAIN program /\ up \in Classes \cup {OBJECT} /\ up \in 0 .. Len(program)
    BY <2>1, <2>2, <2>4, <2>5 DEF ClassesLinked
  <2>7. info \in Infos /\ Kept(info, registry[k])
        /\ (Assembled(program, registry, k, ClassStart(registry, k), 0)
              => Assembled(program, registry, k, info, Len(program[k].members)))
    <3> HIDE DEF info
    <3>1. info = build_class_members(program, registry, k) BY DEF info
    <3>2. registry[k] \in Infos /\ registry[registry[k].parent] \in Infos BY <2>3, <2>6
    <3> QED BY <2>1, <2>2, <2>6, <3>1, <3>2, ClassMembersAre
  <2>8. \A s, t \in 1 .. Len(registry[up].vtable) : SameKey(registry[up].vtable[s], registry[up].vtable[t]) => s = t
    <3>1. CASE up = OBJECT
      <4>1. registry[up].vtable = <<>> BY <2>1, <3>1 DEF Registered, Blank
      <4> QED BY <4>1
    <3>2. CASE up \in Classes
      <4>1. Built(program, registry, up) BY <2>1, <2>5, <3>2 DEF ParentsFirst
      <4> QED BY <4>1 DEF Built, Assembled, MethodsTabled
    <3> QED BY <2>6, <3>1, <3>2
  <2>9. Assembled(program, registry, k, info, Len(program[k].members))
    <3>1. Blank(registry[k]) BY <2>1, <2>5 DEF ParentsFirst
    <3>2. registry[k] \in Infos /\ registry[registry[k].parent] \in Infos BY <2>3, <2>6
    <3>3. Assembled(program, registry, k, ClassStart(registry, k), 0) BY <2>8, <3>1, <3>2, StartAssembled
    <3> QED BY <2>7, <3>3
  <2> HIDE DEF info
  <2>10. \A l \in 0 .. Len(program) : registry'[l] = IF l = k THEN info ELSE registry[l] BY <1>1, <2>2
  <2>11. /\ DOMAIN registry' = 0 .. Len(program) /\ registry'[k] = info
         /\ \A l \in 0 .. Len(program) : l # k => registry'[l] = registry[l]
    BY <1>1, <2>2, <2>6, <2>10
  <2>12. \A l \in 0 .. Len(program) :
            /\ registry'[l] \in Infos /\ registry'[l].extends = registry[l].extends
            /\ registry'[l].parent = registry[l].parent /\ registry'[l].interfaces = registry[l].interfaces
    <3>1. registry'[k] \in Infos /\ Kept(registry'[k], registry[k]) BY <2>7, <2>11
    <3> QED BY <2>3, <2>11, <3>1 DEF Kept
  <2>13. Alike(registry, registry') BY <2>2, <2>11, <2>12 DEF Alike
  <2>14. \A l \in DOMAIN registry \ todo : Chain(registry, l) \cap todo = {} /\ registry[l].parent \notin todo
    <3>1. \A a \in DOMAIN registry \ todo : registry[a].parent \notin todo
      <4>1. registry[OBJECT].parent = NoSym /\ \A i \in Ifaces : registry[i].parent = OBJECT
        BY <2>1 DEF Registered
      <4>2. NoSym \notin todo /\ OBJECT \notin todo BY <2>2, <2>4
      <4>3. \A c \in Classes \ todo : registry[c].parent \notin todo BY <2>1 DEF ParentsFirst
      <4> QED BY <2>2, <4>1, <4>2, <4>3
    <3> QED BY <2>4, <3>1, AboveIsDone
  <2>15. Assembled(program, registry', k, info, Len(program[k].members))
    <3>1. up \in DOMAIN registry /\ k \in DOMAIN registry BY <2>2, <2>6
    <3>2. \A a \in Chain(registry, up) : registry'[a] = registry[a]
      <4>1. up \in DOMAIN registry \ todo BY <2>5, <3>1
      <4>2. Chain(registry, up) \cap todo = {} /\ Chain(registry, up) \subseteq DOMAIN registry
        BY <2>4, <2>14, <4>1, ChainIs
      <4> QED BY <2>2, <2>5, <2>11, <4>2
    <3> QED BY <2>4, <2>9, <2>13, <3>1, <3>2, AssembledAlike
  <2>16. \A c \in Classes \ todo : Built(program, registry', c)
    <3> SUFFICES ASSUME NEW c \in Classes \ todo PROVE Built(program, registry', c) OBVIOUS
    <3>1. c \in DOMAIN registry \ todo /\ c \in DOMAIN registry /\ registry[c].parent \in DOMAIN registry \ todo
      <4>1. registry[c].parent \in Classes \cup {OBJECT} BY <2>1 DEF ClassesLinked
      <4> QED BY <2>2, <2>14, <4>1
    <3>2. \A a \in Chain(registry, registry[c].parent) : registry'[a] = registry[a]
      <4>1. Chain(registry, registry[c].parent) \cap todo = {} /\ Chain(registry, registry[c].parent) \subseteq DOMAIN registry
        BY <2>4, <2>14, <3>1, ChainIs
      <4> QED BY <2>2, <2>5, <2>11, <4>1
    <3>3. Assembled(program, registry, c, registry[c], Len(program[c].members))
      BY <2>1 DEF ParentsFirst, Built
    <3>4. registry'[c] = registry[c] BY <2>2, <2>5, <2>11, <3>1
    <3>5. Assembled(program, registry', c, registry[c], Len(program[c].members))
      BY <2>4, <2>13, <3>1, <3>2, <3>3, AssembledAlike
    <3> QED BY <3>4, <3>5 DEF Built
  <2>17. Classes' = Classes /\ Ifaces' = Ifaces /\ Extended' = Extended /\ \A i : Ancestors(i)' = Ancestors(i)
    BY <1>1 DEF Classes, Ifaces, Extended, Ancestors
  <2>18. Registered'
    <3>1. registry' \in [0 .. Len(program) -> Infos]
      <4>1. registry \in [0 .. Len(program) -> Infos] BY <2>1 DEF Registered
      <4> QED BY <1>1, <2>7, <4>1
    <3>2. OBJECT # k /\ \A i \in Ifaces : i # k BY <2>2, <2>6
    <3>3. Blank(registry'[OBJECT]) BY <2>1, <2>2, <2>11, <3>2 DEF Registered
    <3> QED BY <1>1, <2>1, <2>2, <2>12, <2>17, <3>1, <3>3 DEF Registered
  <2>19. IfacesLinked'
    <3>1. \A i \in Ifaces : registry'[i].extends = registry[i].extends BY <2>2, <2>12
    <3> QED BY <2>1, <2>17, <3>1 DEF IfacesLinked
  <2>20. ClassesLinked'
    <3>1. Tree(registry') BY <2>4, <2>13, ChainsAlike
    <3>2. \A c \in Classes : registry'[c].parent = registry[c].parent /\ registry'[c].interfaces = registry[c].interfaces
      BY <2>2, <2>12
    <3> QED BY <1>1, <2>1, <2>17, <3>1, <3>2 DEF ClassesLinked
  <2>21. ParentsFirst'
    <3>1. Built(program, registry', k) BY <2>11, <2>15 DEF Built
    <3>2. \A c \in todo' : Blank(registry'[c])
      <4>1. \A c \in todo' : c \in todo /\ c # k /\ c \in 0 .. Len(program) BY <1>1, <2>2, <2>4
      <4> QED BY <2>1, <2>11, <4>1 DEF ParentsFirst
    <3>3. \A c \in Classes \ todo' : registry'[c].parent \notin todo' /\ Built(program, registry', c)
      <4> SUFFICES ASSUME NEW c \in Classes \ todo'
                   PROVE  registry'[c].parent \notin todo' /\ Built(program, registry', c)
        OBVIOUS
      <4>1. registry'[c].parent = registry[c].parent BY <2>2, <2>12
      <4>2. CASE c = k BY <1>1, <2>5, <3>1, <4>1, <4>2
      <4>3. CASE c # k
        <5>1. c \in Classes \ todo BY <1>1, <4>3
        <5>2. registry[c].parent \notin todo BY <2>1, <5>1 DEF ParentsFirst
        <5>3. Built(program, registry', c) BY <2>16, <5>1
        <5>4. registry'[c].parent \notin todo' BY <1>1, <4>1, <5>2
        <5> QED BY <5>3, <5>4
      <4> QED BY <4>2, <4>3
    <3>4. todo' \subseteq Classes BY <1>1, <2>4
    <3> QED BY <1>1, <2>17, <3>2, <3>3, <3>4 DEF ParentsFirst
  <2> QED BY <1>1, <2>18, <2>19, <2>20, <2>21 DEF TablesAreRight
<1> QED BY <1>1, <1>2 DEF IInv

(* The checks that follow reject a class that does not conform.             *)
LEMMA FinishCheckKeeps ==
  ASSUME IInv, FinishCheck
  PROVE  IInv'
<1> DEFINE conform == UNION {check_conformance(registry, k) : k \in Classes}
<1>1. /\ program \in Programs /\ program' = program /\ phase = "members" /\ todo = {}
      /\ phase' = IF errors' = {} THEN "lower" ELSE "rejected"
      /\ registry' = registry /\ event' = event /\ event = [op |-> "none"]
      /\ errors \subseteq errors' /\ conform \subseteq errors'
  BY DEF IInv, FinishCheck, Classes
<1>2. ASSUME errors' = {} PROVE TablesAreRight'
  <2>1. errors = {} /\ conform = {} /\ phase' = "lower" BY <1>1, <1>2
  <2>2. Registered /\ IfacesLinked /\ ClassesLinked /\ ParentsFirst BY <1>1, <2>1 DEF IInv, TablesAreRight
  <2>3. Classes' = Classes /\ Ifaces' = Ifaces /\ Extended' = Extended /\ \A i : Ancestors(i)' = Ancestors(i)
    BY <1>1 DEF Classes, Ifaces, Extended, Ancestors
  <2>4. Registered' /\ IfacesLinked' /\ ClassesLinked'
    BY <1>1, <2>2, <2>3 DEF Registered, IfacesLinked, ClassesLinked
  <2>5. AllBuilt'
    <3>1. \A k \in Classes : check_conformance(registry, k) = {} BY <2>1
    <3>2. \A k \in Classes : Built(program, registry, k) BY <1>1, <2>2 DEF ParentsFirst
    <3> QED BY <1>1, <2>3, <3>1, <3>2 DEF AllBuilt
  <2> QED BY <2>1, <2>4, <2>5 DEF TablesAreRight
<1>3. phase' \in {"lower", "rejected"} /\ (phase' = "lower" => errors' = {}) BY <1>1
<1> HIDE DEF conform
<1> QED BY <1>1, <1>2, <1>3 DEF IInv

(* The descriptors are made of the tables.                                  *)
LEMMA LowerKeeps ==
  ASSUME IInv, lower_classes
  PROVE  IInv'
<1>1. /\ program \in Programs /\ program' = program /\ phase = "lower" /\ phase' = "running" /\ todo' = todo
      /\ registry' = registry /\ event' = event /\ errors = {} /\ errors' = {}
      /\ image' = [k \in {OBJECT} \cup Classes |-> Descriptor(program, registry, k)]
  BY DEF IInv, lower_classes, Classes
<1>2. Registered /\ IfacesLinked /\ ClassesLinked /\ AllBuilt BY <1>1 DEF IInv, TablesAreRight
<1>3. Classes' = Classes /\ Ifaces' = Ifaces /\ Extended' = Extended /\ \A i : Ancestors(i)' = Ancestors(i)
  BY <1>1 DEF Classes, Ifaces, Extended, Ancestors
<1>4. Registered' /\ IfacesLinked' /\ ClassesLinked' /\ AllBuilt'
  BY <1>1, <1>2, <1>3 DEF Registered, IfacesLinked, ClassesLinked, AllBuilt
<1>5. TablesAreRight' BY <1>1, <1>4 DEF TablesAreRight
<1>6. image' = [k \in {OBJECT} \cup Classes' |-> Descriptor(program', registry', k)] BY <1>1, <1>3
<1> QED BY <1>1, <1>5, <1>6 DEF IInv

(* An operation of the running program changes no table.                    *)
LEMMA RunningKeeps ==
  ASSUME IInv, phase = "running", UNCHANGED <<program, phase, todo, registry, errors, image>>
  PROVE  IInv'
<1>1. /\ program \in Programs /\ errors = {} /\ TablesAreRight
      /\ image = [k \in {OBJECT} \cup Classes |-> Descriptor(program, registry, k)]
  BY DEF IInv
<1>2. Registered /\ IfacesLinked /\ ClassesLinked /\ AllBuilt BY <1>1 DEF TablesAreRight
<1>3. Classes' = Classes /\ Ifaces' = Ifaces /\ Extended' = Extended /\ \A i : Ancestors(i)' = Ancestors(i)
  BY DEF Classes, Ifaces, Extended, Ancestors
<1>4. Registered' /\ IfacesLinked' /\ ClassesLinked' /\ AllBuilt'
  BY <1>2, <1>3 DEF Registered, IfacesLinked, ClassesLinked, AllBuilt
<1>5. TablesAreRight' BY <1>4 DEF TablesAreRight
<1>6. image' = [k \in {OBJECT} \cup Classes' |-> Descriptor(program', registry', k)] BY <1>1, <1>3
<1> QED BY <1>1, <1>5, <1>6 DEF IInv

(* A step of the running program is one operation, and says which.          *)
Operates ==
  AccessMember \/ StaticAccess \/ CallInterface \/ super_call \/ QualifiedAccess \/ TypeTest \/ Widen \/ new_object

(* An operation of the running program changes no table. *)
LEMMA OperatesIs ==
  ASSUME Operates
  PROVE  Ready /\ UNCHANGED <<program, phase, todo, registry, errors, image>>
<1>1. CASE AccessMember
  BY <1>1 DEF AccessMember, class_member_read, class_member_write, class_method_call, class_member, Running
<1>2. CASE StaticAccess BY <1>2 DEF StaticAccess, Running
<1>3. CASE CallInterface BY <1>3 DEF CallInterface, Running
<1>4. CASE super_call BY <1>4 DEF super_call, Running
<1>5. CASE QualifiedAccess BY <1>5 DEF QualifiedAccess, Running
<1>6. CASE TypeTest BY <1>6 DEF TypeTest, Running
<1>7. CASE Widen BY <1>7 DEF Widen, Running
<1>8. CASE new_object BY <1>8 DEF new_object, Running
<1> QED BY <1>1, <1>2, <1>3, <1>4, <1>5, <1>6, <1>7, <1>8 DEF Operates

(* The invariant holds before the first pass. *)
LEMMA InitHolds ==
  ASSUME Init
  PROVE  IInv
<1>1. program \in Programs /\ phase = "collect" /\ event = [op |-> "none"] BY DEF Init
<1>2. TablesAreRight BY <1>1 DEF TablesAreRight
<1> QED BY <1>1, <1>2 DEF IInv

(* Every pass of the checker, the lowering, and every operation of the program keeps the
   invariant. *)
LEMMA NextKeeps ==
  ASSUME IInv, [Next]_vars
  PROVE  IInv'
<1>1. CASE collect_types BY <1>1, CollectKeeps
<1>2. CASE ResolveExtends BY <1>2, ResolveExtendsKeeps
<1>3. CASE BuildInterface BY <1>3, BuildInterfaceKeeps
<1>4. CASE ResolveParents BY <1>4, ResolveParentsKeeps
<1>5. CASE BuildMembers BY <1>5, BuildMembersKeeps
<1>6. CASE FinishCheck BY <1>6, FinishCheckKeeps
<1>7. CASE lower_classes BY <1>7, LowerKeeps
<1>8. CASE Operates
  <2>1. phase = "running" /\ UNCHANGED <<program, phase, todo, registry, errors, image>>
    BY <1>8, OperatesIs DEF Ready
  <2> QED BY <2>1, RunningKeeps
<1>9. CASE UNCHANGED vars
  <2>1. UNCHANGED <<program, phase, todo, registry, errors, image, event>> BY <1>9 DEF vars
  <2>2. Classes' = Classes /\ Ifaces' = Ifaces /\ Extended' = Extended /\ \A i : Ancestors(i)' = Ancestors(i)
    BY <2>1 DEF Classes, Ifaces, Extended, Ancestors
  <2>3. Registered' = Registered BY <2>1, <2>2 DEF Registered
  <2>4. Unlinked' = Unlinked BY <2>1, <2>2 DEF Unlinked
  <2>5. IfacesLinked' = IfacesLinked BY <2>1, <2>2 DEF IfacesLinked
  <2>6. ClassesLinked => ClassesLinked' BY <2>1, <2>2 DEF ClassesLinked
  <2>7. ParentsFirst => ParentsFirst' BY <2>1, <2>2 DEF ParentsFirst
  <2>8. AllBuilt => AllBuilt' BY <2>1, <2>2 DEF AllBuilt
  <2>9. TablesAreRight => TablesAreRight'
    BY <2>1, <2>2, <2>3, <2>4, <2>5, <2>6, <2>7, <2>8 DEF TablesAreRight
  <2> QED BY <2>1, <2>2, <2>9 DEF IInv
<1> QED BY <1>1, <1>2, <1>3, <1>4, <1>5, <1>6, <1>7, <1>8, <1>9 DEF Next, Operates

(* The passes leave tables that say what the declarations say.              *)
THEOREM TablesAreRightThroughout == Spec => []IInv
BY InitHolds, NextKeeps, PTL DEF Spec

-----------------------------------------------------------------------------
(* ---- the tables of a running program ----------------------------------------------------- *)

Tabled ==
  /\ program \in Programs /\ Registered /\ IfacesLinked /\ ClassesLinked /\ AllBuilt
  /\ image = [k \in {OBJECT} \cup Classes |-> Descriptor(program, registry, k)]

(* A program that runs has passed the checker: its tables are complete and right. *)
LEMMA RunningIsTabled ==
  ASSUME IInv, phase = "running"
  PROVE  Tabled
<1>1. errors = {} /\ TablesAreRight BY DEF IInv
<1> QED BY <1>1 DEF IInv, TablesAreRight, Tabled

(* What complete tables are: every class entered, its parent above it, its members assembled. *)
LEMMA TabledIs ==
  ASSUME Tabled
  PROVE  /\ program \in Seq(Declarations) /\ DOMAIN program = 1 .. Len(program) /\ Len(program) \in Nat
         /\ DOMAIN registry = 0 .. Len(program) /\ DOMAIN image = {OBJECT} \cup Classes
         /\ DOMAIN registry = {OBJECT} \cup Classes \cup Ifaces /\ Classes \cap Ifaces = {}
         /\ DOMAIN program = Classes \cup Ifaces /\ OBJECT \notin DOMAIN program /\ NoSym \notin DOMAIN registry
         /\ Tree(registry) /\ registry[OBJECT].parent = NoSym /\ registry[OBJECT].interfaces = {}
         /\ registry[OBJECT].fields = <<>> /\ registry[OBJECT].vtable = <<>> /\ registry[OBJECT].total_slots = 0
         /\ \A k \in Classes : registry[k].parent \in Classes \cup {OBJECT} /\ Extended[k] = {registry[k].parent} \ {OBJECT}
         /\ \A k \in DOMAIN registry : registry[k] \in Infos
         /\ \A k \in Classes : Assembled(program, registry, k, registry[k], Len(program[k].members))
<1>1. program \in Programs /\ Registered /\ ClassesLinked /\ AllBuilt BY DEF Tabled
<1>2. /\ program \in Seq(Declarations) /\ DOMAIN program = 1 .. Len(program) /\ Len(program) \in Nat
      /\ {OBJECT} \cup DOMAIN program = 0 .. Len(program)
      /\ Classes \cap Ifaces = {} /\ Classes \cup Ifaces = DOMAIN program
      /\ OBJECT \notin DOMAIN program /\ NoSym \notin 0 .. Len(program)
  BY <1>1, ProgramIs
<1>3. DOMAIN image = {OBJECT} \cup Classes BY DEF Tabled
<1>4. DOMAIN registry = 0 .. Len(program) /\ \A k \in DOMAIN registry : registry[k] \in Infos
  BY <1>1 DEF Registered
<1>5. /\ registry[OBJECT].parent = NoSym /\ registry[OBJECT].interfaces = {}
      /\ registry[OBJECT].fields = <<>> /\ registry[OBJECT].vtable = <<>> /\ registry[OBJECT].total_slots = 0
  BY <1>1 DEF Registered, Blank
<1>6. Tree(registry) /\ \A k \in Classes : /\ registry[k].parent \in Classes \cup {OBJECT}
                                           /\ Extended[k] = {registry[k].parent} \ {OBJECT}
  BY <1>1 DEF ClassesLinked
<1>7. \A k \in Classes : Assembled(program, registry, k, registry[k], Len(program[k].members))
  BY <1>1 DEF AllBuilt, Built
<1> QED BY <1>2, <1>3, <1>4, <1>5, <1>6, <1>7

(* Whatever holds of the root, and of a class when it holds of its parent,  *)
(* holds of every class.                                                    *)
LEMMA ClassInduction ==
  ASSUME Tabled, NEW S, OBJECT \in S, \A k \in Classes : registry[k].parent \in S => k \in S
  PROVE  Classes \subseteq S
<1> DEFINE R == S \cup Ifaces
<1>1. /\ Tree(registry) /\ DOMAIN registry = {OBJECT} \cup Classes \cup Ifaces /\ Classes \cap Ifaces = {}
      /\ \A k \in Classes : registry[k].parent \in Classes \cup {OBJECT} /\ registry[k].parent # NoSym
      /\ OBJECT \notin Ifaces
  <2>1. /\ Tree(registry) /\ DOMAIN registry = {OBJECT} \cup Classes \cup Ifaces /\ Classes \cap Ifaces = {}
        /\ \A k \in Classes : registry[k].parent \in Classes \cup {OBJECT}
        /\ OBJECT \notin DOMAIN program /\ DOMAIN program = Classes \cup Ifaces /\ NoSym \notin DOMAIN registry
    BY TabledIs
  <2>2. \A k \in Classes : registry[k].parent \in DOMAIN registry BY <2>1
  <2> QED BY <2>1, <2>2
<1>2. ASSUME NEW a \in DOMAIN registry, registry[a].parent \in (R \cap DOMAIN registry) \cup {NoSym} PROVE a \in R
  <2>1. CASE a \in Classes
    <3>1. registry[a].parent \in R /\ registry[a].parent \notin Ifaces BY <1>1, <1>2, <2>1
    <3> QED BY <2>1, <3>1
  <2> QED BY <1>1, <2>1
<1>3. DOMAIN registry \subseteq R
  <2> HIDE DEF R
  <2> QED BY <1>1, <1>2, ChainInduction
<1> QED BY <1>1, <1>3

(* The parents in the table are the extends clauses: the chain of a class is its ancestors and
   Object. *)
LEMMA ClassChainIs ==
  ASSUME Tabled
  PROVE  /\ Chain(registry, OBJECT) = {OBJECT}
         /\ \A k \in Classes : /\ Chain(registry, k) = {k} \cup Chain(registry, registry[k].parent)
                               /\ k \in Ancestors(k)
                               /\ k \notin Chain(registry, registry[k].parent)
         /\ \A k \in Classes \cup {OBJECT} : Chain(registry, k) \subseteq Classes \cup {OBJECT}
         /\ \A k \in Classes : Ancestors(k) \subseteq Classes /\ Chain(registry, k) = Ancestors(k) \cup {OBJECT}
<1>1. /\ Tree(registry) /\ DOMAIN registry = {OBJECT} \cup Classes \cup Ifaces
      /\ \A k \in Classes : /\ registry[k].parent \in Classes \cup {OBJECT} /\ registry[k].parent # NoSym
                            /\ Extended[k] = {registry[k].parent} \ {OBJECT} /\ k \in DOMAIN program
      /\ registry[OBJECT].parent = NoSym /\ OBJECT \notin Classes
  BY TabledIs
<1>2. Chain(registry, OBJECT) = {OBJECT} BY <1>1, ChainIs
<1>3. \A k \in Classes : Chain(registry, k) = {k} \cup Chain(registry, registry[k].parent)
  BY <1>1, ChainIs
<1>4. \A k \in Classes : k \notin Chain(registry, registry[k].parent) BY <1>1, NotAbove
<1>5. \A k \in Classes : Ancestors(k) = {k} \cup UNION {Ancestors(b) : b \in {registry[k].parent} \ {OBJECT}}
  <2>1. Relation(Extended, DOMAIN program) BY ExtendedIs DEF Tabled
  <2> SUFFICES ASSUME NEW k \in Classes
               PROVE  Ancestors(k) = {k} \cup UNION {Ancestors(b) : b \in {registry[k].parent} \ {OBJECT}}
    OBVIOUS
  <2>2. Reach(Extended, k) = {k} \cup UNION {Reach(Extended, b) : b \in Extended[k]} BY <1>1, <2>1, ReachStep
  <2> QED BY <1>1, <2>2 DEF Ancestors
<1> DEFINE S == {OBJECT} \cup {k \in Classes : Ancestors(k) \subseteq Classes /\ Chain(registry, k) = Ancestors(k) \cup {OBJECT}}
<1>6. ASSUME NEW k \in Classes, registry[k].parent \in S PROVE k \in S
  <2>1. CASE registry[k].parent = OBJECT
    <3>1. Ancestors(k) = {k} BY <1>5, <2>1
    <3>2. Chain(registry, k) = {k} \cup {OBJECT} BY <1>2, <1>3, <2>1
    <3> QED BY <3>1, <3>2
  <2>2. CASE registry[k].parent # OBJECT
    <3>1. Ancestors(k) = {k} \cup Ancestors(registry[k].parent) BY <1>5, <2>2
    <3>2. /\ Ancestors(registry[k].parent) \subseteq Classes
          /\ Chain(registry, registry[k].parent) = Ancestors(registry[k].parent) \cup {OBJECT}
      BY <1>6, <2>2
    <3>3. Chain(registry, k) = Ancestors(k) \cup {OBJECT} BY <1>3, <3>1, <3>2
    <3> QED BY <3>1, <3>2, <3>3
  <2> QED BY <2>1, <2>2
<1>7. Classes \subseteq S
  <2>1. OBJECT \in S OBVIOUS
  <2> HIDE DEF S
  <2> QED BY <1>6, <2>1, ClassInduction
<1>8. \A k \in Classes : Ancestors(k) \subseteq Classes /\ Chain(registry, k) = Ancestors(k) \cup {OBJECT}
  BY <1>1, <1>7
<1>9. \A k \in Classes : k \in Ancestors(k) BY <1>5
<1> QED BY <1>2, <1>3, <1>4, <1>8, <1>9

(* The chains of the descriptors are those of the registry.                 *)
LEMMA ImageChainIs ==
  ASSUME Tabled
  PROVE  \A k \in Classes \cup {OBJECT} : Chain(image, k) = Chain(registry, k)
<1> DEFINE K == {OBJECT} \cup Classes
<1>1. /\ DOMAIN image = K /\ K \subseteq DOMAIN registry /\ Tree(registry)
      /\ \A k \in Classes : registry[k].parent \in K
      /\ registry[OBJECT].parent = NoSym /\ NoSym \notin DOMAIN registry
  BY TabledIs
<1>2. \A k \in K : image[k].parent = registry[k].parent BY DEF Tabled, Descriptor
<1>3. \A k \in K : registry[k].parent \in K \cup {NoSym} BY <1>1
<1> HIDE DEF K
<1>4. Relation(Up(registry), DOMAIN registry) BY <1>1 DEF Relation, Up, Tree
<1>5. Relation(Up(image), K) BY <1>1, <1>2, <1>3 DEF Relation, Up
<1>6. K \in SUBSET (DOMAIN registry \cap K) BY <1>1
<1>7. \A k \in K : Up(registry)[k] \subseteq K /\ Up(image)[k] = Up(registry)[k] BY <1>1, <1>2, <1>3 DEF Up
<1>8. \A k \in K : Reach(Up(registry), k) = Reach(Up(image), k) BY <1>4, <1>5, <1>6, <1>7, ReachAgrees
<1> QED BY <1>8 DEF Chain, Up, K

(* The bases of an interface in the table are those its extends clauses reach. *)
LEMMA IfaceChainIs ==
  ASSUME Tabled
  PROVE  \A i \in Ifaces : /\ Ancestors(i) \subseteq Ifaces /\ i \in Ancestors(i)
                           /\ Reach(Bases(registry), i) = Ancestors(i)
                           /\ \A j \in Ancestors(i) : Ancestors(j) \subseteq Ancestors(i)
<1>1. /\ DOMAIN registry = 0 .. Len(program) /\ Ifaces \subseteq DOMAIN registry /\ Ifaces \subseteq DOMAIN program
      /\ \A k \in DOMAIN registry : registry[k] \in Infos
  BY TabledIs
<1>2. \A k \in Ifaces : Range(registry[k].extends) = Extended[k] /\ Extended[k] \subseteq Ifaces
  BY DEF Tabled, IfacesLinked
<1>3. \A k \in (0 .. Len(program)) \ Ifaces : registry[k].extends = <<>> BY DEF Tabled, Registered
<1>4. Relation(Extended, DOMAIN program) BY ExtendedIs DEF Tabled
<1>5. Relation(Bases(registry), DOMAIN registry)
  <2>1. \A k \in DOMAIN registry : Range(registry[k].extends) \subseteq DOMAIN registry
    <3>1. \A k \in Ifaces : Range(registry[k].extends) \subseteq DOMAIN registry BY <1>1, <1>2
    <3>2. Range(<<>>) = {} BY DEF Range
    <3> QED BY <1>1, <1>3, <3>1, <3>2
  <2> QED BY <2>1 DEF Relation, Bases
<1>6. Ifaces \in SUBSET (DOMAIN registry \cap DOMAIN program) BY <1>1
<1>7. \A k \in Ifaces : Bases(registry)[k] \subseteq Ifaces /\ Extended[k] = Bases(registry)[k]
  BY <1>1, <1>2 DEF Bases
<1> SUFFICES ASSUME NEW i \in Ifaces
             PROVE  /\ Ancestors(i) \subseteq Ifaces /\ i \in Ancestors(i)
                    /\ Reach(Bases(registry), i) = Ancestors(i)
                    /\ \A j \in Ancestors(i) : Ancestors(j) \subseteq Ancestors(i)
  OBVIOUS
<1>8. Reach(Bases(registry), i) = Reach(Extended, i) /\ Reach(Bases(registry), i) \subseteq Ifaces
  BY <1>4, <1>5, <1>6, <1>7, ReachAgrees
<1>9. i \in Reach(Extended, i) /\ \A j \in Reach(Extended, i) : Reach(Extended, j) \subseteq Reach(Extended, i)
  BY <1>1, <1>4, ReachIs, ReachTransitive
<1> QED BY <1>8, <1>9 DEF Ancestors

-----------------------------------------------------------------------------
(* ---- type tests -------------------------------------------------------------------------- *)

(* The interfaces a class lists, with all they extend.                      *)
Listed(a) == {i \in Ifaces : program[i].name \in Range(program[a].implements)}

(* The flattened interfaces of a class are what it lists and all they extend. *)
LEMMA InterfacesAre ==
  ASSUME Tabled
  PROVE  /\ \A a \in Classes : registry[a].interfaces = UNION {Ancestors(i) : i \in Listed(a)}
         /\ \A a \in Classes : registry[a].interfaces \subseteq Ifaces
<1>1. \A a \in Classes : registry[a].interfaces = UNION {Ancestors(i) : i \in Listed(a)}
  BY DEF Tabled, ClassesLinked, Listed
<1>2. \A i \in Ifaces : Ancestors(i) \subseteq Ifaces BY IfaceChainIs
<1> QED BY <1>1, <1>2 DEF Listed

(* The walk up the descriptors finds a class exactly when the declarations make it an ancestor. *)
LEMMA ClassTested ==
  ASSUME Tabled, NEW v \in Classes, NEW t \in Classes \cup {OBJECT}
  PROVE  t \in Chain(registry, v) <=> DeclaresType(v, t)
<1>1. Chain(registry, v) = Ancestors(v) \cup {OBJECT} BY ClassChainIs
<1>2. \A i \in Ifaces : t \notin Ancestors(i)
  <2>1. OBJECT \notin Ifaces /\ Classes \cap Ifaces = {} BY TabledIs
  <2> QED BY <2>1, IfaceChainIs
<1> QED BY <1>1, <1>2 DEF DeclaresType, Ifaces

(* The search for an interface on the way up finds it exactly when some ancestor promises it. *)
LEMMA IfaceTested ==
  ASSUME Tabled, NEW v \in Classes, NEW t \in Ifaces
  PROVE  implements(registry, v, t) <=> DeclaresType(v, t)
<1>1. Chain(registry, v) = Ancestors(v) \cup {OBJECT} /\ Ancestors(v) \subseteq Classes BY ClassChainIs
<1>2. t # OBJECT /\ t \notin Ancestors(v) /\ registry[OBJECT].interfaces = {}
  <2>1. OBJECT \notin DOMAIN program /\ Ifaces \subseteq DOMAIN program /\ Classes \cap Ifaces = {}
        /\ registry[OBJECT].interfaces = {}
    BY TabledIs
  <2> QED BY <1>1, <2>1
<1>3. \A a \in Ancestors(v) : t \in registry[a].interfaces <=>
        \E i \in Ifaces : program[i].name \in Range(program[a].implements) /\ t \in Ancestors(i)
  BY <1>1, InterfacesAre DEF Listed
<1>4. DeclaresType(v, t) <=> \E a \in Ancestors(v) : \E i \in Ifaces :
        program[i].name \in Range(program[a].implements) /\ t \in Ancestors(i)
  BY <1>2 DEF DeclaresType, Ifaces
<1>5. implements(registry, v, t) <=> \E a \in Ancestors(v) : t \in registry[a].interfaces
  BY <1>1, <1>2 DEF implements
<1> QED BY <1>3, <1>4, <1>5

(* A class has a table of an interface when one of its chain lists it.      *)
LEMMA TableTested ==
  ASSUME Tabled, NEW v \in Classes, NEW t
  PROVE  /\ is_iface(image, v, t) <=> implements(registry, v, t)
         /\ is_iface(image, v, t) => v \in TableOwners(image, v, t)
<1>1. Chain(image, v) = Chain(registry, v) /\ Chain(registry, v) \subseteq Classes \cup {OBJECT} /\ v \in Chain(registry, v)
  <2>1. v \in Classes \cup {OBJECT} OBVIOUS
  <2>2. Chain(registry, v) = {v} \cup Chain(registry, registry[v].parent) BY ClassChainIs
  <2> QED BY <2>1, <2>2, ImageChainIs, ClassChainIs
<1>2. \A a \in Classes \cup {OBJECT} : (\E x \in image[a].ifaces : x.id = t)
                                          <=> \E b \in Chain(registry, a) : t \in registry[b].interfaces
  <2> SUFFICES ASSUME NEW a \in Classes \cup {OBJECT}
               PROVE  (\E x \in image[a].ifaces : x.id = t)
                         <=> \E b \in Chain(registry, a) : t \in registry[b].interfaces
    OBVIOUS
  <2>1. image[a].ifaces = InterfaceTables(registry, a) BY DEF Tabled, Descriptor
  <2> DEFINE is == UNION {registry[b].interfaces : b \in Chain(registry, a)}
             fn(m) == registry[a].vtable[find_vmethod(registry, a, m.name, m.kind)].fn_id
             tab(i) == [s \in DOMAIN registry[i].methods |-> fn(registry[i].methods[s])]
  <2>2. InterfaceTables(registry, a) = {[id |-> i, table |-> tab(i)] : i \in is} BY DEF InterfaceTables
  <2>3. t \in is <=> \E b \in Chain(registry, a) : t \in registry[b].interfaces OBVIOUS
  <2> HIDE DEF is, tab
  <2>4. ASSUME t \in is PROVE \E x \in image[a].ifaces : x.id = t
    <3>1. [id |-> t, table |-> tab(t)] \in image[a].ifaces BY <2>1, <2>2, <2>4
    <3> QED BY <3>1
  <2>5. ASSUME NEW x \in image[a].ifaces, x.id = t PROVE t \in is
    <3>1. PICK i \in is : x = [id |-> i, table |-> tab(i)] BY <2>1, <2>2
    <3> QED BY <2>5, <3>1
  <2> QED BY <2>3, <2>4, <2>5
<1>3. \A a \in Chain(registry, v) : Chain(registry, a) \subseteq Chain(registry, v)
  <2>1. Tree(registry) /\ v \in DOMAIN registry BY TabledIs
  <2> QED BY <2>1, ChainIs
<1>4. TableOwners(image, v, t) = {a \in Chain(registry, v) : \E x \in image[a].ifaces : x.id = t}
  BY <1>1 DEF TableOwners
<1>5. is_iface(image, v, t) <=> \E a \in Chain(registry, v) : \E x \in image[a].ifaces : x.id = t
  BY <1>4 DEF is_iface
<1>6. implements(registry, v, t) <=> \E a \in Chain(registry, v) : t \in registry[a].interfaces
  BY DEF implements
<1>7. is_iface(image, v, t) <=> implements(registry, v, t) BY <1>1, <1>2, <1>3, <1>5, <1>6
<1>8. implements(registry, v, t) => v \in TableOwners(image, v, t) BY <1>1, <1>2, <1>4, <1>6
<1> QED BY <1>7, <1>8

(* The run-time test of a value and a type.                                 *)
LEMMA AnyIs ==
  ASSUME Tabled, NEW t \in DOMAIN registry
  PROVE  /\ \A v \in Classes : any_is(image, v, t) <=> DeclaresType(v, t)
         /\ ~ any_is(image, Null, t) /\ ~ any_is(image, Plain, t)
<1>1. /\ DOMAIN image = {OBJECT} \cup Classes /\ DOMAIN registry = {OBJECT} \cup Classes \cup Ifaces
      /\ Classes \cap Ifaces = {} /\ OBJECT \notin Ifaces /\ DOMAIN registry = 0 .. Len(program)
  <2>1. OBJECT \notin DOMAIN program /\ DOMAIN program = Classes \cup Ifaces BY TabledIs
  <2> QED BY <2>1, TabledIs
<1>2. ASSUME NEW v \in Classes PROVE any_is(image, v, t) <=> DeclaresType(v, t)
  <2>1. v \in DOMAIN image /\ v \in Classes \cup {OBJECT} BY <1>1
  <2>2. CASE t \in Classes \cup {OBJECT}
    <3>1. any_is(image, v, t) <=> t \in Chain(image, v) BY <1>1, <2>1, <2>2 DEF any_is, is_class
    <3>2. Chain(image, v) = Chain(registry, v) BY <2>1, ImageChainIs
    <3>3. t \in Chain(registry, v) <=> DeclaresType(v, t) BY <2>2, ClassTested
    <3> QED BY <3>1, <3>2, <3>3
  <2>3. CASE t \in Ifaces
    <3>1. any_is(image, v, t) <=> is_iface(image, v, t) BY <1>1, <2>1, <2>3 DEF any_is
    <3>2. is_iface(image, v, t) <=> implements(registry, v, t) BY TableTested
    <3>3. implements(registry, v, t) <=> DeclaresType(v, t) BY <2>3, IfaceTested
    <3> QED BY <3>1, <3>2, <3>3
  <2> QED BY <1>1, <2>2, <2>3
<1>3. Null \notin DOMAIN image /\ Plain \notin DOMAIN image
  <2>1. Null \notin 0 .. Len(program) /\ Plain \notin 0 .. Len(program) BY DEF Null, Plain
  <2> QED BY <1>1, <2>1
<1> QED BY <1>2, <1>3 DEF any_is

(* A conversion that needs no code leads to a type the class declares.      *)
LEMMA WideningIs ==
  ASSUME Tabled, NEW r \in Classes, NEW s \in DOMAIN registry, NEW t \in DOMAIN registry,
         conversion(registry, r, s), conversion(registry, s, t)
  PROVE  any_is(image, r, t)
<1>1. /\ DOMAIN registry = {OBJECT} \cup Classes \cup Ifaces /\ Classes \cap Ifaces = {} /\ OBJECT \notin Ifaces
      /\ Concrete = Classes /\ Tree(registry) /\ registry[OBJECT].interfaces = {}
  <2>1. OBJECT \notin DOMAIN program /\ DOMAIN program = Classes \cup Ifaces BY TabledIs
  <2> QED BY <2>1, TabledIs DEF Concrete, Classes
<1>2. OBJECT \in Chain(registry, r) BY ClassChainIs
<1>3. \A a \in Chain(registry, r) : Chain(registry, a) \subseteq Chain(registry, r)
  <2>1. r \in DOMAIN registry BY <1>1
  <2> QED BY <1>1, <2>1, ChainIs
<1>4. t \in Classes \cup {OBJECT} => t \in Chain(registry, r)
  <2> SUFFICES ASSUME t \in Classes \cup {OBJECT} PROVE t \in Chain(registry, r) OBVIOUS
  <2>1. CASE t = OBJECT BY <1>2, <2>1
  <2>2. CASE t # OBJECT
    <3>1. s \in Classes \cup {OBJECT} /\ t \in Chain(registry, s) BY <1>1, <2>2 DEF conversion, is_subclass
    <3>2. s \in Chain(registry, r) BY <1>1, <3>1 DEF conversion, is_subclass
    <3> QED BY <1>3, <3>1, <3>2
  <2> QED BY <2>1, <2>2
<1>5. t \in Ifaces => implements(registry, r, t)
  <2> SUFFICES ASSUME t \in Ifaces PROVE implements(registry, r, t) OBVIOUS
  <2>1. CASE s \in Classes \cup {OBJECT}
    <3>1. s \in Chain(registry, r) BY <1>1, <2>1 DEF conversion, is_subclass
    <3>2. implements(registry, s, t) BY <1>1, <2>1 DEF conversion
    <3>3. PICK a \in Chain(registry, s) : t \in registry[a].interfaces BY <3>2 DEF implements
    <3>4. a \in Chain(registry, r) BY <1>3, <3>1
    <3> QED BY <3>3, <3>4 DEF implements
  <2>2. CASE s \in Ifaces
    <3>1. implements(registry, r, s) BY <1>1, <2>2 DEF conversion
    <3>2. iface_extends(registry, s, t) BY <1>1, <2>2 DEF conversion
    <3>3. t \in Ancestors(s) BY <2>2, <3>2, IfaceChainIs DEF iface_extends
    <3>4. PICK a \in Chain(registry, r) : s \in registry[a].interfaces BY <3>1 DEF implements
    <3>5. a \in Classes
      <4>1. Chain(registry, r) \subseteq Classes \cup {OBJECT} BY ClassChainIs
      <4> QED BY <1>1, <3>4, <4>1
    <3>6. PICK i \in Listed(a) : s \in Ancestors(i) BY <3>4, <3>5, InterfacesAre
    <3>7. t \in Ancestors(i) BY <3>3, <3>6, IfaceChainIs DEF Listed
    <3>8. t \in registry[a].interfaces BY <3>5, <3>7, InterfacesAre
    <3> QED BY <3>4, <3>8 DEF implements
  <2> QED BY <1>1, <2>1, <2>2
<1>6. CASE t \in Classes \cup {OBJECT}
  <2>1. DeclaresType(r, t) BY <1>4, <1>6, ClassTested
  <2> QED BY <2>1, AnyIs
<1>7. CASE t \in Ifaces
  <2>1. DeclaresType(r, t) BY <1>5, <1>7, IfaceTested
  <2> QED BY <2>1, AnyIs
<1> QED BY <1>1, <1>6, <1>7


(* A pass of the compiler leaves no event, and an operation does not end in *)
(* one.                                                                     *)
LEMMA PassesAreSilent ==
  ASSUME IInv, Next, ~ Operates
  PROVE  event' = [op |-> "none"]
<1>1. event' = event /\ phase # "running"
  BY DEF Next, Operates, collect_types, ResolveExtends, BuildInterface, ResolveParents, BuildMembers, FinishCheck,
         lower_classes
<1> QED BY <1>1 DEF IInv

(* The property of the last event, with the tables as they are.             *)
TestedRight(e) ==
  /\ e.op = "is" =>
        LET v   == e.recv
            yes == v \in Concrete /\ DeclaresType(v, e.static)
        IN  /\ e.ok = yes
            /\ e.as = IF yes THEN v ELSE Null
            /\ e.coerced = IF yes \/ v = Null THEN v ELSE "TypeError"
  /\ e.op = "widen" => e.ok

(* The three run-time tests of a boxed value, is, as and coerce, agree with the declarations. *)
LEMMA TypeTestIsRight ==
  ASSUME Tabled, NEW v \in Concrete \cup {Null, Plain}, NEW t \in DOMAIN registry
  PROVE  TestedRight([op |-> "is", recv |-> v, static |-> t, ok |-> any_is(image, v, t),
                      as |-> any_as(image, v, t), coerced |-> any_coerce(image, v, t)])
<1> DEFINE yes == v \in Concrete /\ DeclaresType(v, t)
<1>1. Concrete = Classes BY DEF Concrete, Classes
<1>2. Null \notin Classes /\ Plain \notin Classes
  <2>1. Classes \subseteq 1 .. Len(program) BY TabledIs
  <2> QED BY <2>1 DEF Null, Plain
<1>3. any_is(image, v, t) <=> yes BY <1>1, <1>2, AnyIs
<1>4. any_is(image, v, t) \in BOOLEAN /\ yes \in BOOLEAN
  <2>1. any_is(image, v, t) \in BOOLEAN BY DEF any_is, is_class, is_iface
  <2> QED BY <2>1 DEF DeclaresType
<1>5. any_is(image, v, t) = yes BY <1>3, <1>4
<1>6. any_as(image, v, t) = IF yes THEN v ELSE Null BY <1>3 DEF any_as
<1>7. any_coerce(image, v, t) = IF yes \/ v = Null THEN v ELSE "TypeError" BY <1>3 DEF any_coerce
<1> QED BY <1>5, <1>6, <1>7 DEF TestedRight


(* Every operation that tests a type answers as the declarations say. *)
LEMMA OperationsTested ==
  ASSUME IInv, Operates
  PROVE  TestedRight(event')
<1>0. Tabled BY OperatesIs, RunningIsTabled DEF Ready
<1>1. CASE AccessMember
  BY <1>1 DEF AccessMember, class_member_read, class_member_write, class_method_call, class_member, Running, TestedRight
<1>2. CASE StaticAccess BY <1>2 DEF StaticAccess, Running, TestedRight
<1>3. CASE CallInterface BY <1>3 DEF CallInterface, Running, TestedRight
<1>4. CASE super_call BY <1>4 DEF super_call, Running, TestedRight
<1>5. CASE QualifiedAccess BY <1>5 DEF QualifiedAccess, Running, TestedRight
<1>6. CASE TypeTest
  <2>1. PICK v \in Concrete \cup {Null, Plain}, t \in DOMAIN registry :
           event' = [op |-> "is", recv |-> v, static |-> t, ok |-> any_is(image, v, t),
                     as |-> any_as(image, v, t), coerced |-> any_coerce(image, v, t)]
    BY <1>6 DEF TypeTest, Running
  <2> QED BY <1>0, <2>1, TypeTestIsRight
<1>7. CASE Widen
  <2>1. PICK r \in Concrete, s \in DOMAIN registry, t \in DOMAIN registry :
           /\ conversion(registry, r, s) /\ conversion(registry, s, t)
           /\ event' = [op |-> "widen", recv |-> r, static |-> t, ok |-> any_is(image, r, t)]
    BY <1>7 DEF Widen, Running
  <2>2. any_is(image, r, t) BY <1>0, <2>1, WideningIs DEF Concrete, Classes
  <2> QED BY <2>1, <2>2 DEF TestedRight
<1>8. CASE new_object BY <1>8 DEF new_object, Running, TestedRight
<1> QED BY <1>1, <1>2, <1>3, <1>4, <1>5, <1>6, <1>7, <1>8 DEF Operates

(* `is`, `as`, a checked coercion and a catch clause hold exactly for the   *)
(* types the class declares, and a widening that is not tested would have   *)
(* passed the test.                                                         *)
THEOREM TypeTestsAreOfDeclarations == Spec => []TypeTestsFollowDeclarations
<1>1. TypeTestsFollowDeclarations <=> TestedRight(event) BY DEF TypeTestsFollowDeclarations, TestedRight
<1>2. Init => TypeTestsFollowDeclarations BY DEF Init, TypeTestsFollowDeclarations
<1>3. ASSUME IInv, TypeTestsFollowDeclarations, [Next]_vars PROVE TypeTestsFollowDeclarations'
  <2>1. CASE Operates
    <3>1. TestedRight(event') BY <1>3, <2>1, OperationsTested
    <3>2. program' = program BY <2>1, OperatesIs
    <3> QED BY <3>1, <3>2 DEF TypeTestsFollowDeclarations, TestedRight, Concrete, DeclaresType, Ancestors, Extended
  <2>2. CASE Next /\ ~ Operates
    <3>1. event' = [op |-> "none"] BY <1>3, <2>2, PassesAreSilent
    <3> QED BY <3>1 DEF TypeTestsFollowDeclarations
  <2>3. CASE UNCHANGED vars
    <3>1. program' = program /\ event' = event BY <2>3 DEF vars
    <3> QED BY <1>3, <3>1 DEF TypeTestsFollowDeclarations, Concrete, DeclaresType, Ancestors, Extended
  <2> QED BY <1>3, <2>1, <2>2, <2>3
<1> QED BY <1>2, <1>3, TablesAreRightThroughout, PTL DEF Spec


-----------------------------------------------------------------------------
(* ---- fields of an instance --------------------------------------------------------------- *)

Fields(a) == Range(registry[a].fields)
Total(a)  == registry[a].total_slots
ParentOf(a) == registry[a].parent

(* The root has no fields; those of a class have the slots above its        *)
(* parent's, and are the fields that the class declares.                    *)
LEMMA ClassFieldsAre ==
  ASSUME Tabled
  PROVE  /\ Fields(OBJECT) = {} /\ \A k \in Classes \cup {OBJECT} : Total(k) \in Nat
         /\ \A k \in Classes :
              /\ Total(ParentOf(k)) <= Total(k)
              /\ \A f \in Fields(k) : /\ f.slot \in Nat /\ Total(ParentOf(k)) <= f.slot /\ f.slot < Total(k)
                                      /\ find_field(registry, ParentOf(k), f.name) = <<>>
                                      /\ \E l \in Declared(k, f.name, "field") :
                                            /\ f.ty = program[k].members[l].ty
                                            /\ Declared(k, f.name, "field") = {l}
              /\ \A f, g \in Fields(k) : f.slot = g.slot \/ f.name = g.name => f = g
              /\ \A n : Declared(k, n, "field") # {} => \E f \in Fields(k) : f.name = n
<1>1. Fields(OBJECT) = {}
  <2>1. registry[OBJECT].fields = <<>> BY TabledIs
  <2>2. Range(<<>>) = {} BY DEF Range
  <2> QED BY <2>1, <2>2 DEF Fields
<1>2. \A k \in Classes \cup {OBJECT} : registry[k] \in Infos BY TabledIs
<1>3. \A k \in Classes \cup {OBJECT} : Total(k) \in Nat /\ registry[k].fields \in Seq(FieldInfos)
  BY <1>2 DEF Infos, Total
<1> SUFFICES ASSUME NEW k \in Classes
             PROVE  /\ Total(ParentOf(k)) <= Total(k)
                    /\ \A f \in Fields(k) : /\ f.slot \in Nat /\ Total(ParentOf(k)) <= f.slot /\ f.slot < Total(k)
                                            /\ find_field(registry, ParentOf(k), f.name) = <<>>
                                            /\ \E l \in Declared(k, f.name, "field") :
                                                  /\ f.ty = program[k].members[l].ty
                                                  /\ Declared(k, f.name, "field") = {l}
                    /\ \A f, g \in Fields(k) : f.slot = g.slot \/ f.name = g.name => f = g
                    /\ \A n : Declared(k, n, "field") # {} => \E f \in Fields(k) : f.name = n
  BY <1>1, <1>3
<1> DEFINE fs   == registry[k].fields
           base == Total(ParentOf(k))
           J    == Len(program[k].members)
<1>4. ParentOf(k) \in Classes \cup {OBJECT} /\ k \in DOMAIN program /\ program \in Seq(Declarations)
  BY TabledIs DEF ParentOf
<1>5. base \in Nat /\ fs \in Seq(FieldInfos) /\ Len(fs) \in Nat BY <1>3, <1>4
<1>6. program[k].members \in Seq(Members) /\ DOMAIN program[k].members = 1 .. J
  <2>1. program[k].members \in Seq(Members) BY <1>4, DeclarationIs
  <2> QED BY <2>1
<1>7. FieldsLaid(program, registry, k, registry[k], J) BY TabledIs DEF Assembled
<1>8. \A n : DeclaredIn(program, k, J, n, "field") = Declared(k, n, "field")
  BY <1>6 DEF DeclaredIn, Declared, Declares
<1>9. /\ Total(k) = base + Len(fs)
      /\ \A i \in 1 .. Len(fs) : /\ fs[i].slot = base + i - 1
                                 /\ find_field(registry, ParentOf(k), fs[i].name) = <<>>
                                 /\ \E l \in Declared(k, fs[i].name, "field") : fs[i].ty = program[k].members[l].ty
      /\ \A i, h \in 1 .. Len(fs) : fs[i].name = fs[h].name => i = h
      /\ \A l \in 1 .. J : IsField(program[k].members[l]) =>
            \E i \in 1 .. Len(fs) : fs[i].name = member_name(program[k].members[l])
      /\ \A n : \A l, h \in Declared(k, n, "field") : l = h
  <2>1. Total(k) = base + Len(fs) BY <1>7 DEF FieldsLaid, Total, ParentOf
  <2>2. \A i \in 1 .. Len(fs) : /\ fs[i].slot = base + i - 1
                                 /\ find_field(registry, ParentOf(k), fs[i].name) = <<>>
                                 /\ \E l \in Declared(k, fs[i].name, "field") : fs[i].ty = program[k].members[l].ty
    BY <1>7, <1>8 DEF FieldsLaid, Total, ParentOf
  <2>3. /\ \A i, h \in 1 .. Len(fs) : fs[i].name = fs[h].name => i = h
        /\ \A l \in 1 .. J : IsField(program[k].members[l]) =>
            \E i \in 1 .. Len(fs) : fs[i].name = member_name(program[k].members[l])
        /\ \A n : \A l, h \in Declared(k, n, "field") : l = h
    BY <1>7, <1>8 DEF FieldsLaid
  <2> QED BY <2>1, <2>2, <2>3
<1>10. \A f : f \in Fields(k) <=> \E i \in 1 .. Len(fs) : f = fs[i] BY <1>5 DEF Fields, Range
<1> HIDE DEF fs, base, J
<1>11. base <= Total(k) BY <1>5, <1>9
<1>12. ASSUME NEW f \in Fields(k)
       PROVE  /\ f.slot \in Nat /\ base <= f.slot /\ f.slot < Total(k)
              /\ find_field(registry, ParentOf(k), f.name) = <<>>
              /\ \E l \in Declared(k, f.name, "field") : /\ f.ty = program[k].members[l].ty
                                                         /\ Declared(k, f.name, "field") = {l}
  <2>1. PICK i \in 1 .. Len(fs) : f = fs[i] BY <1>10
  <2>2. f.slot = base + i - 1 BY <1>9, <2>1
  <2>3. f.slot \in Nat /\ base <= f.slot /\ f.slot < Total(k) BY <1>5, <1>9, <2>2
  <2>4. PICK l \in Declared(k, f.name, "field") : f.ty = program[k].members[l].ty BY <1>9, <2>1
  <2>5. Declared(k, f.name, "field") = {l} BY <1>9, <2>4
  <2>6. find_field(registry, ParentOf(k), f.name) = <<>> BY <1>9, <2>1
  <2> QED BY <2>3, <2>4, <2>5, <2>6
<1>13. ASSUME NEW f \in Fields(k), NEW g \in Fields(k), f.slot = g.slot \/ f.name = g.name PROVE f = g
  <2>1. PICK i \in 1 .. Len(fs) : f = fs[i] BY <1>10
  <2>2. PICK h \in 1 .. Len(fs) : g = fs[h] BY <1>10
  <2>3. f.slot = base + i - 1 /\ g.slot = base + h - 1 BY <1>9, <2>1, <2>2
  <2>4. f.slot = g.slot => i = h BY <1>5, <2>3
  <2>5. f.name = g.name => i = h BY <1>9, <2>1, <2>2
  <2> QED BY <1>13, <2>1, <2>2, <2>4, <2>5
<1>14. ASSUME NEW n, Declared(k, n, "field") # {} PROVE \E f \in Fields(k) : f.name = n
  <2>1. PICK l \in Declared(k, n, "field") : TRUE BY <1>14
  <2>2. l \in 1 .. J /\ IsField(program[k].members[l]) /\ member_name(program[k].members[l]) = n
    BY <1>6, <2>1 DEF Declared, IsField
  <2> QED BY <1>9, <1>10, <2>2
<1> QED BY <1>11, <1>12, <1>13, <1>14 DEF base

(* A class has no fewer slots than the classes above it.                    *)
LEMMA TotalsGrow ==
  ASSUME Tabled
  PROVE  \A k \in Classes \cup {OBJECT} : \A a \in Chain(registry, k) : Total(a) <= Total(k)
<1> DEFINE S == {OBJECT} \cup {k \in Classes : \A a \in Chain(registry, k) : Total(a) <= Total(k)}
<1>1. \A k \in Classes \cup {OBJECT} : Total(k) \in Nat /\ Chain(registry, k) \subseteq Classes \cup {OBJECT}
  BY ClassFieldsAre, ClassChainIs
<1>2. \A a \in Chain(registry, OBJECT) : Total(a) <= Total(OBJECT)
  <2>1. Chain(registry, OBJECT) = {OBJECT} BY ClassChainIs
  <2> QED BY <1>1, <2>1
<1>3. ASSUME NEW k \in Classes, registry[k].parent \in S PROVE k \in S
  <2>1. /\ Chain(registry, k) = {k} \cup Chain(registry, ParentOf(k))
        /\ ParentOf(k) \in Classes \cup {OBJECT}
    BY ClassChainIs, TabledIs DEF ParentOf
  <2>2. \A a \in Chain(registry, ParentOf(k)) : Total(a) <= Total(ParentOf(k)) BY <1>2, <1>3 DEF ParentOf
  <2>3. Total(ParentOf(k)) <= Total(k) BY ClassFieldsAre
  <2>4. ASSUME NEW a \in Chain(registry, k) PROVE Total(a) <= Total(k)
    <3>1. a \in Classes \cup {OBJECT} BY <1>1
    <3>2. Total(a) \in Nat /\ Total(k) \in Nat /\ Total(ParentOf(k)) \in Nat BY <1>1, <2>1, <3>1
    <3>3. a = k \/ Total(a) <= Total(ParentOf(k)) BY <2>1, <2>2
    <3> QED BY <2>3, <3>2, <3>3
  <2> QED BY <2>4
<1>4. Classes \subseteq S
  <2>1. OBJECT \in S OBVIOUS
  <2> HIDE DEF S
  <2> QED BY <1>3, <2>1, ClassInduction
<1>5. OBJECT \notin Classes BY TabledIs
<1> QED BY <1>2, <1>4, <1>5

(* A field is found in the class of the chain that has one of its name.     *)
LEMMA FieldFound ==
  ASSUME Tabled, NEW k \in Classes \cup {OBJECT}, NEW n
  PROVE  /\ find_field(registry, k, n) = <<>> => \A a \in Chain(registry, k) : \A f \in Fields(a) : f.name # n
         /\ find_field(registry, k, n) # <<>> =>
               \E a \in Chain(registry, k) : \E f \in Fields(a) : f.name = n /\ find_field(registry, k, n) = <<f>>
<1> DEFINE owners == {a \in Chain(registry, k) : Named(registry[a].fields, n) # NoSym}
           near   == Nearest(registry, owners)
<1>1. find_field(registry, k, n) =
         IF owners = {} THEN <<>> ELSE <<registry[near].fields[Named(registry[near].fields, n)]>>
  BY DEF find_field
<1>2. Chain(registry, k) \subseteq DOMAIN registry /\ Tree(registry) /\ k \in DOMAIN registry
      /\ \A a \in DOMAIN registry : registry[a].fields \in Seq(FieldInfos)
  <2>1. k \in DOMAIN registry /\ Tree(registry) /\ \A a \in DOMAIN registry : registry[a] \in Infos BY TabledIs
  <2> QED BY <2>1, ChainIs DEF Infos
<1>3. \A a \in Chain(registry, k) :
         /\ Named(registry[a].fields, n) = NoSym => \A f \in Fields(a) : f.name # n
         /\ Named(registry[a].fields, n) # NoSym =>
              /\ registry[a].fields[Named(registry[a].fields, n)] \in Fields(a)
              /\ registry[a].fields[Named(registry[a].fields, n)].name = n
  <2> SUFFICES ASSUME NEW a \in Chain(registry, k)
               PROVE  /\ Named(registry[a].fields, n) = NoSym => \A f \in Fields(a) : f.name # n
                      /\ Named(registry[a].fields, n) # NoSym =>
                           /\ registry[a].fields[Named(registry[a].fields, n)] \in Fields(a)
                           /\ registry[a].fields[Named(registry[a].fields, n)].name = n
    OBVIOUS
  <2> DEFINE fs == registry[a].fields
             i  == Named(fs, n)
  <2>1. fs \in Seq(FieldInfos) BY <1>2
  <2> HIDE DEF fs
  <2>2. /\ i = NoSym => \A j \in 1 .. Len(fs) : fs[j].name # n
        /\ i # NoSym => i \in 1 .. Len(fs) /\ fs[i].name = n
    BY <2>1, NamedIs
  <2>3. \A f : f \in Range(fs) <=> \E j \in 1 .. Len(fs) : f = fs[j] BY <2>1 DEF Range
  <2> HIDE DEF i
  <2> QED BY <2>2, <2>3 DEF Fields, fs, i
<1>4. owners # {} => near \in owners
  <2> DEFINE W == {a \in DOMAIN registry : Named(registry[a].fields, n) # NoSym}
  <2>1. owners = Chain(registry, k) \cap W BY <1>2
  <2> HIDE DEF W, owners
  <2> QED BY <1>2, <2>1, NearestExists
<1> HIDE DEF near
<1>5. CASE owners = {} BY <1>1, <1>3, <1>5
<1>6. CASE owners # {}
  <2>1. near \in Chain(registry, k) /\ Named(registry[near].fields, n) # NoSym BY <1>4, <1>6
  <2>2. find_field(registry, k, n) = <<registry[near].fields[Named(registry[near].fields, n)]>> BY <1>1, <1>6
  <2>3. registry[near].fields[Named(registry[near].fields, n)] \in Fields(near)
        /\ registry[near].fields[Named(registry[near].fields, n)].name = n
    BY <1>3, <2>1
  <2> QED BY <2>1, <2>2, <2>3
<1> QED BY <1>5, <1>6


(* No two fields of an instance have one slot or one name.                  *)
LEMMA FieldsApart ==
  ASSUME Tabled, NEW k \in Classes \cup {OBJECT}
  PROVE  \A a, b \in Chain(registry, k) : \A f \in Fields(a), g \in Fields(b) :
            f.slot = g.slot \/ f.name = g.name => a = b /\ f = g
<1>1. /\ Tree(registry) /\ k \in DOMAIN registry /\ Chain(registry, k) \subseteq Classes \cup {OBJECT}
  <2>1. Tree(registry) /\ k \in DOMAIN registry BY TabledIs
  <2> QED BY <2>1, ClassChainIs
<1>2. ASSUME NEW a \in Chain(registry, k), NEW b \in Chain(registry, k), NEW f \in Fields(a), NEW g \in Fields(b),
             a # b, a \in Chain(registry, b)
      PROVE  f.slot # g.slot /\ f.name # g.name
  <2>1. a \in Classes /\ b \in Classes BY <1>1, ClassFieldsAre
  <2>2. a \in Chain(registry, ParentOf(b)) /\ ParentOf(b) \in Classes \cup {OBJECT}
    <3>1. Chain(registry, b) = {b} \cup Chain(registry, ParentOf(b)) BY <2>1, ClassChainIs DEF ParentOf
    <3>2. ParentOf(b) \in Classes \cup {OBJECT} BY <2>1, TabledIs DEF ParentOf
    <3> QED BY <1>2, <3>1, <3>2
  <2>3. Total(a) <= Total(ParentOf(b)) BY <2>2, TotalsGrow
  <2>4. f.slot \in Nat /\ f.slot < Total(a) BY <2>1, ClassFieldsAre
  <2>5. /\ g.slot \in Nat /\ Total(ParentOf(b)) <= g.slot
        /\ find_field(registry, ParentOf(b), g.name) = <<>>
    BY <2>1, ClassFieldsAre
  <2>6. Total(a) \in Nat /\ Total(ParentOf(b)) \in Nat BY <2>1, <2>2, ClassFieldsAre
  <2>7. f.slot # g.slot BY <2>3, <2>4, <2>5, <2>6
  <2>8. f.name # g.name BY <2>2, <2>5, FieldFound
  <2> QED BY <2>7, <2>8
<1>3. ASSUME NEW a \in Chain(registry, k), NEW b \in Chain(registry, k), NEW f \in Fields(a), NEW g \in Fields(b),
             f.slot = g.slot \/ f.name = g.name
      PROVE  a = b /\ f = g
  <2>1. a \in Chain(registry, b) \/ b \in Chain(registry, a) BY <1>1, ChainOrder
  <2>2. a = b BY <1>2, <1>3, <2>1
  <2>3. a \in Classes BY <1>1, ClassFieldsAre
  <2>4. f = g BY <1>3, <2>2, <2>3, ClassFieldsAre
  <2> QED BY <2>2, <2>4
<1> QED BY <1>3

(* So a field of the chain is found by its name, is the declared one, and   *)
(* the slot table has its type.                                             *)
LEMMA FieldIs ==
  ASSUME Tabled, NEW k \in Classes, NEW a \in Chain(registry, k), NEW f \in Fields(a)
  PROVE  /\ find_field(registry, k, f.name) = <<f>>
         /\ f.slot \in 0 .. Total(k) - 1 /\ SlotTypes(registry, k)[f.slot] = f.ty
         /\ Declarers(k, f.name, "field") = {a} /\ NearestOf({a}) = a
         /\ f.ty = program[a].members[Max(Declared(a, f.name, "field"))].ty
<1>1. k \in Classes \cup {OBJECT} /\ Chain(registry, k) \subseteq Classes \cup {OBJECT} /\ a \in Classes
      /\ Chain(registry, k) = Ancestors(k) \cup {OBJECT} /\ Ancestors(k) \subseteq Classes /\ OBJECT \notin Classes
  <2>1. Chain(registry, k) = Ancestors(k) \cup {OBJECT} /\ Ancestors(k) \subseteq Classes BY ClassChainIs
  <2>2. OBJECT \notin Classes /\ Fields(OBJECT) = {} BY TabledIs, ClassFieldsAre
  <2> QED BY <2>1, <2>2
<1>2. find_field(registry, k, f.name) = <<f>>
  <2>1. find_field(registry, k, f.name) # <<>> BY <1>1, FieldFound
  <2>2. PICK b \in Chain(registry, k) : \E g \in Fields(b) : g.name = f.name /\ find_field(registry, k, f.name) = <<g>>
    BY <1>1, <2>1, FieldFound
  <2>3. PICK g \in Fields(b) : g.name = f.name /\ find_field(registry, k, f.name) = <<g>> BY <2>2
  <2>4. f = g BY <1>1, <2>3, FieldsApart
  <2> QED BY <2>3, <2>4
<1>3. f.slot \in 0 .. Total(k) - 1
  <2>1. f.slot \in Nat /\ f.slot < Total(a) BY <1>1, ClassFieldsAre
  <2>2. Total(a) <= Total(k) BY <1>1, TotalsGrow
  <2>3. Total(a) \in Nat /\ Total(k) \in Nat BY <1>1, ClassFieldsAre
  <2> QED BY <2>1, <2>2, <2>3
<1>4. SlotTypes(registry, k)[f.slot] = f.ty
  <2> DEFINE owner == CHOOSE b \in Chain(registry, k) : \E g \in Range(registry[b].fields) : g.slot = f.slot
             field == CHOOSE g \in Range(registry[owner].fields) : g.slot = f.slot
  <2>1. SlotTypes(registry, k)[f.slot] = field.ty BY <1>3 DEF SlotTypes, Total
  <2>2. owner \in Chain(registry, k) /\ \E g \in Range(registry[owner].fields) : g.slot = f.slot BY DEF Fields
  <2> HIDE DEF owner
  <2>3. field \in Fields(owner) /\ field.slot = f.slot BY <2>2 DEF Fields
  <2> HIDE DEF field
  <2>4. field = f BY <1>1, <2>2, <2>3, FieldsApart
  <2> QED BY <2>1, <2>4
<1>5. \E l \in Declared(a, f.name, "field") : /\ f.ty = program[a].members[l].ty
                                              /\ Declared(a, f.name, "field") = {l}
  BY <1>1, ClassFieldsAre
<1>6. Declarers(k, f.name, "field") = {a}
  <2>1. a \in Declarers(k, f.name, "field") BY <1>1, <1>5 DEF Declarers
  <2>2. ASSUME NEW b \in Declarers(k, f.name, "field") PROVE b = a
    <3>1. b \in Chain(registry, k) /\ b \in Classes /\ Declared(b, f.name, "field") # {}
      BY <1>1, <2>2 DEF Declarers
    <3>2. PICK g \in Fields(b) : g.name = f.name BY <3>1, ClassFieldsAre
    <3> QED BY <1>1, <3>1, <3>2, FieldsApart
  <2> QED BY <2>1, <2>2
<1>7. NearestOf({a}) = a
  <2>1. {a} \subseteq Ancestors(a) BY <1>1, ClassChainIs
  <2> QED BY <2>1 DEF NearestOf
<1>8. f.ty = program[a].members[Max(Declared(a, f.name, "field"))].ty
  <2>1. PICK l \in Declared(a, f.name, "field") : /\ f.ty = program[a].members[l].ty
                                                  /\ Declared(a, f.name, "field") = {l}
    BY <1>5
  <2>2. Max({l}) = l
    <3>1. l \in DOMAIN program[a].members BY <2>1 DEF Declared
    <3>2. l \in Int
      <4>1. a \in DOMAIN program /\ program \in Seq(Declarations) BY <1>1, TabledIs
      <4>2. program[a].members \in Seq(Members) BY <4>1, DeclarationIs
      <4> QED BY <3>1, <4>2
    <3> QED BY <3>2 DEF Max
  <2> QED BY <2>1, <2>2
<1> QED BY <1>2, <1>3, <1>4, <1>6, <1>7, <1>8


LaidOutRight(e) ==
  e.op = "field" =>
    LET decl == NearestOf(Declarers(e.static, e.name, "field"))
        m    == program[decl].members[Max(Declared(decl, e.name, "field"))]
    IN  /\ e.word \in 1..(image[e.recv].words - 1) \ {image[e.recv].expando}
        /\ e.ty = m.ty /\ image[e.recv].slots[e.word - 1] = m.ty
        /\ \A o : o # e.name => (Declarers(e.recv, o, "field") # {} =>
                                   field_ptr(find_field(registry, e.recv, o)[1].slot) # e.word)

(* An access compiled for a class s, on an instance of a class r below it.  *)
LEMMA FieldAccessIsRight ==
  ASSUME Tabled, NEW s \in Classes, NEW r \in Classes, s \in Chain(registry, r), NEW n,
         find_field(registry, s, n) # <<>>,
         NEW e, e.op = "field", e.recv = r, e.static = s, e.name = n,
         e.word = field_ptr(find_field(registry, s, n)[1].slot),
         e.ty = image[s].slots[find_field(registry, s, n)[1].slot]
  PROVE  LaidOutRight(e)
<1>1. PICK a \in Chain(registry, s) : \E f \in Fields(a) : f.name = n /\ find_field(registry, s, n) = <<f>>
  BY FieldFound
<1>2. PICK f \in Fields(a) : f.name = n /\ find_field(registry, s, n) = <<f>> BY <1>1
<1>3. a \in Chain(registry, r)
  <2>1. Tree(registry) /\ r \in DOMAIN registry BY TabledIs
  <2>2. Chain(registry, s) \subseteq Chain(registry, r) BY <2>1, ChainIs
  <2> QED BY <2>2
<1> DEFINE m == program[a].members[Max(Declared(a, n, "field"))]
<1>4. /\ f.slot \in 0 .. Total(r) - 1 /\ SlotTypes(registry, r)[f.slot] = f.ty /\ SlotTypes(registry, s)[f.slot] = f.ty
      /\ Declarers(s, n, "field") = {a} /\ NearestOf({a}) = a /\ f.ty = m.ty
  <2>1. /\ SlotTypes(registry, s)[f.slot] = f.ty /\ Declarers(s, f.name, "field") = {a} /\ NearestOf({a}) = a
        /\ f.ty = program[a].members[Max(Declared(a, f.name, "field"))].ty
    BY <1>1, <1>2, FieldIs
  <2>2. f.slot \in 0 .. Total(r) - 1 /\ SlotTypes(registry, r)[f.slot] = f.ty BY <1>3, FieldIs
  <2> QED BY <1>2, <2>1, <2>2
<1>5. e.word = f.slot + 1 /\ e.ty = f.ty /\ image[r].slots[f.slot] = f.ty
  <2>1. image[s].slots = SlotTypes(registry, s) /\ image[r].slots = SlotTypes(registry, r)
    BY DEF Tabled, Descriptor
  <2> QED BY <1>2, <1>4, <2>1 DEF field_ptr
<1>6. e.word \in 1..(image[r].words - 1) \ {image[r].expando}
  <2> DEFINE dynamic == r = OBJECT \/ program[r].dynamic
  <2>1. image[r].words = 1 + Total(r) + (IF dynamic THEN 1 ELSE 0)
        /\ image[r].expando = IF dynamic THEN 1 + Total(r) ELSE NoSym
    BY DEF Tabled, Descriptor, Total
  <2>2. Total(r) \in Nat BY ClassFieldsAre
  <2> HIDE DEF dynamic
  <2> QED BY <1>4, <1>5, <2>1, <2>2 DEF NoSym
<1>7. ASSUME NEW o, o # n, Declarers(r, o, "field") # {}
      PROVE  field_ptr(find_field(registry, r, o)[1].slot) # e.word
  <2>1. PICK b \in Ancestors(r) : Declared(b, o, "field") # {} BY <1>7 DEF Declarers
  <2>2. b \in Chain(registry, r) /\ b \in Classes BY ClassChainIs
  <2>3. PICK g \in Fields(b) : g.name = o BY <2>1, <2>2, ClassFieldsAre
  <2>4. find_field(registry, r, o) = <<g>> /\ g.slot \in 0 .. Total(r) - 1 BY <2>2, <2>3, FieldIs
  <2>5. g.slot # f.slot
    <3>1. r \in Classes \cup {OBJECT} OBVIOUS
    <3> QED BY <1>2, <1>3, <1>7, <2>2, <2>3, <3>1, FieldsApart
  <2>6. Total(r) \in Nat BY ClassFieldsAre
  <2> QED BY <1>4, <1>5, <2>4, <2>5, <2>6 DEF field_ptr
<1>8. e.word - 1 = f.slot
  <2>1. Total(r) \in Nat BY ClassFieldsAre
  <2> QED BY <1>4, <1>5, <2>1
<1> HIDE DEF m
<1>9. NearestOf(Declarers(e.static, e.name, "field")) = a BY <1>4
<1>10. program[NearestOf(Declarers(e.static, e.name, "field"))].members[
          Max(Declared(NearestOf(Declarers(e.static, e.name, "field")), e.name, "field"))] = m
  BY <1>9 DEF m
<1>11. e.ty = m.ty /\ image[r].slots[e.word - 1] = m.ty BY <1>4, <1>5, <1>8
<1>12. e.word \in 1..(image[e.recv].words - 1) \ {image[e.recv].expando} BY <1>6
<1>13. /\ e.ty = program[NearestOf(Declarers(e.static, e.name, "field"))].members[
            Max(Declared(NearestOf(Declarers(e.static, e.name, "field")), e.name, "field"))].ty
       /\ image[e.recv].slots[e.word - 1] = program[NearestOf(Declarers(e.static, e.name, "field"))].members[
            Max(Declared(NearestOf(Declarers(e.static, e.name, "field")), e.name, "field"))].ty
  BY <1>10, <1>11
<1>14. \A o : o # e.name => (Declarers(e.recv, o, "field") # {} =>
                              field_ptr(find_field(registry, e.recv, o)[1].slot) # e.word)
  BY <1>7
<1> QED BY <1>12, <1>13, <1>14, Zenon DEF LaidOutRight


(* An access in the code is of a field, or calls a slot of the method table *)
(* that has the name.                                                       *)
LEMMA AccessIs ==
  ASSUME NEW ctx, NEW s, NEW r, NEW n, NEW access \in {"read", "write", "call"},
         class_member(ctx, s, r, n, access)
  PROVE  /\ s \in Classes /\ s \in Chain(registry, r)
         /\ \/ /\ find_field(registry, s, n) # <<>>
               /\ event' = [op |-> "field", recv |-> r, ctx |-> ctx, static |-> s, name |-> n, access |-> access,
                            word |-> field_ptr(find_field(registry, s, n)[1].slot),
                            ty |-> image[s].slots[find_field(registry, s, n)[1].slot]]
            \/ \E kind \in Range(Kinds) :
                 /\ find_field(registry, s, n) = <<>> /\ find_vmethod(registry, s, n, kind) # NoSym
                 /\ event' = [op |-> "method", recv |-> r, ctx |-> ctx, static |-> s, name |-> n, access |-> access,
                              kind |-> registry[s].vtable[find_vmethod(registry, s, n, kind)].kind,
                              fn |-> call_virtual(image, r, find_vmethod(registry, s, n, kind))]
<1> DEFINE mb == resolve_member(registry, s, n, access)
           f  == find_field(registry, s, n)
<1>1. s \in Classes /\ s \in Chain(registry, r) BY DEF class_member, Upcast, Concrete, Classes, is_subclass
<1>2. mb.r # "error" BY DEF class_member
<1>3. CASE f # <<>>
  <2>1. mb = [r |-> "field", field |-> f[1]] BY <1>2, <1>3 DEF resolve_member
  <2> HIDE DEF f
  <2>2. mb.r = "field" /\ mb.field = f[1] BY <2>1
  <2>3. event' = [op |-> "field", recv |-> r, ctx |-> ctx, static |-> s, name |-> n, access |-> access,
                  word |-> field_ptr(mb.field.slot), ty |-> image[s].slots[mb.field.slot]]
    BY <2>2 DEF class_member, Running
  <2> QED BY <1>1, <1>3, <2>2, <2>3 DEF f
<1>4. CASE f = <<>>
  <2> DEFINE prop == \E kind \in {"getter", "setter"} : find_vmethod(registry, s, n, kind) # NoSym
             kind == CASE access = "read"  -> IF prop THEN "getter" ELSE "method"
                       [] access = "write" -> "setter"
                       [] access = "call"  -> "method"
  <2>1. mb = IF (access = "call" /\ prop) \/ find_vmethod(registry, s, n, kind) = NoSym
             THEN [r |-> "error"] ELSE [r |-> "slot", vslot |-> find_vmethod(registry, s, n, kind)]
    BY <1>4 DEF resolve_member
  <2>2. kind \in {"getter", "setter", "method"} OBVIOUS
  <2> HIDE DEF prop, kind, f, mb
  <2>3. find_vmethod(registry, s, n, kind) # NoSym /\ mb.r = "slot" /\ mb.vslot = find_vmethod(registry, s, n, kind)
    BY <1>2, <2>1
  <2>4. event' = [op |-> "method", recv |-> r, ctx |-> ctx, static |-> s, name |-> n, access |-> access,
                  kind |-> registry[s].vtable[mb.vslot].kind, fn |-> call_virtual(image, r, mb.vslot)]
    BY <2>3 DEF class_member, Running, mb
  <2>5. kind \in Range(Kinds)
    <3>1. Kinds[1] = "getter" /\ Kinds[2] = "setter" /\ Kinds[3] = "method" /\ DOMAIN Kinds = 1 .. 3 BY DEF Kinds
    <3> QED BY <2>2, <3>1 DEF Range
  <2> QED BY <1>1, <1>4, <2>3, <2>4, <2>5 DEF f
<1> QED BY <1>1, <1>3, <1>4


(* An access in the code is a field's or a method's.                        *)
LEMMA AccessOps ==
  ASSUME AccessMember
  PROVE  event'.op \in {"field", "method"}
<1>1. PICK ctx \in {NoSym} \cup Concrete, r \in Concrete, s \in Concrete, raw \in RawNames, open \in OpenSets :
         LET n == effective_member_name(registry, s, raw, open)
         IN  \/ class_member_read(ctx, s, r, n)
             \/ class_member_write(ctx, s, r, n)
             \/ class_method_call(ctx, s, r, n)
  BY DEF AccessMember
<1> DEFINE n == effective_member_name(registry, s, raw, open)
<1>2. PICK access \in {"read", "write", "call"} : class_member(ctx, s, r, n, access)
  BY <1>1 DEF class_member_read, class_member_write, class_method_call
<1> HIDE DEF n
<1> QED BY <1>2 DEF class_member, Running

(* What the declarations say does not change while the program runs.        *)
LEMMA SameDeclarations ==
  ASSUME program' = program
  PROVE  /\ \A k, n, kind : Declared(k, n, kind)' = Declared(k, n, kind)
         /\ \A k, n, kind : Declarers(k, n, kind)' = Declarers(k, n, kind)
         /\ \A as : NearestOf(as)' = NearestOf(as)
         /\ \A k : Ancestors(k)' = Ancestors(k)
<1>1. Extended' = Extended BY DEF Extended
<1>2. \A k : Ancestors(k)' = Ancestors(k) BY <1>1 DEF Ancestors
<1>3. \A k, n, kind : Declared(k, n, kind)' = Declared(k, n, kind) BY DEF Declared
<1>4. \A k, n, kind : Declarers(k, n, kind)' = Declarers(k, n, kind) BY <1>2, <1>3 DEF Declarers
<1>5. \A as : NearestOf(as)' = NearestOf(as) BY <1>2 DEF NearestOf
<1> QED BY <1>2, <1>3, <1>4, <1>5

(* Every operation that reads or writes a field uses the slot and type of the declaration. *)
LEMMA OperationsLaidOut ==
  ASSUME IInv, Operates
  PROVE  LaidOutRight(event')
<1>0. Tabled BY OperatesIs, RunningIsTabled DEF Ready
<1>1. CASE AccessMember
  <2>1. PICK ctx \in {NoSym} \cup Concrete, r \in Concrete, s \in Concrete, raw \in RawNames, open \in OpenSets :
           LET n == effective_member_name(registry, s, raw, open)
           IN  \/ class_member_read(ctx, s, r, n)
               \/ class_member_write(ctx, s, r, n)
               \/ class_method_call(ctx, s, r, n)
    BY <1>1 DEF AccessMember
  <2> DEFINE n == effective_member_name(registry, s, raw, open)
  <2>2. PICK access \in {"read", "write", "call"} : class_member(ctx, s, r, n, access)
    BY <2>1 DEF class_member_read, class_member_write, class_method_call
  <2> HIDE DEF n
  <2>3. r \in Classes BY <2>1 DEF Concrete, Classes
  <2>4. s \in Classes /\ s \in Chain(registry, r) BY <2>2, AccessIs
  <2>5. CASE /\ find_field(registry, s, n) # <<>>
             /\ event' = [op |-> "field", recv |-> r, ctx |-> ctx, static |-> s, name |-> n, access |-> access,
                          word |-> field_ptr(find_field(registry, s, n)[1].slot),
                          ty |-> image[s].slots[find_field(registry, s, n)[1].slot]]
    <3>1. /\ event'.op = "field" /\ event'.recv = r /\ event'.static = s /\ event'.name = n
          /\ event'.word = field_ptr(find_field(registry, s, n)[1].slot)
          /\ event'.ty = image[s].slots[find_field(registry, s, n)[1].slot]
      BY <2>5
    <3> QED BY <1>0, <2>3, <2>4, <2>5, <3>1, FieldAccessIsRight
  <2>6. CASE event'.op = "method" BY <2>6 DEF LaidOutRight
  <2> QED BY <2>2, <2>5, <2>6, AccessIs
<1>2. CASE StaticAccess
  <2>1. event'.op = "static" BY <1>2 DEF StaticAccess, Running
  <2> QED BY <2>1 DEF LaidOutRight
<1>3. CASE CallInterface
  <2>1. event'.op = "iface" BY <1>3 DEF CallInterface, Running
  <2> QED BY <2>1 DEF LaidOutRight
<1>4. CASE super_call
  <2>1. event'.op = "super" BY <1>4 DEF super_call, Running
  <2> QED BY <2>1 DEF LaidOutRight
<1>5. CASE QualifiedAccess
  <2>1. event'.op = "qualified" BY <1>5 DEF QualifiedAccess, Running
  <2> QED BY <2>1 DEF LaidOutRight
<1>6. CASE TypeTest
  <2>1. event'.op = "is" BY <1>6 DEF TypeTest, Running
  <2> QED BY <2>1 DEF LaidOutRight
<1>7. CASE Widen
  <2>1. event'.op = "widen" BY <1>7 DEF Widen, Running
  <2> QED BY <2>1 DEF LaidOutRight
<1>8. CASE new_object
  <2>1. event'.op = "new" BY <1>8 DEF new_object, Running
  <2> QED BY <2>1 DEF LaidOutRight
<1> QED BY <1>1, <1>2, <1>3, <1>4, <1>5, <1>6, <1>7, <1>8 DEF Operates

(* A field is in the same word of every instance, whatever class the access *)
(* is compiled for; the word holds the declared type, lies in the instance  *)
(* and is no other field's, nor the expando map's.                          *)
THEOREM LayoutIsThroughout == Spec => []LayoutIsInherited
<1>1. LaidOutRight(event) => LayoutIsInherited
  <2> SUFFICES ASSUME LaidOutRight(event), event.op = "field" PROVE LayoutIsInherited BY DEF LayoutIsInherited
  <2> DEFINE names == UNION {{member_name(program[a].members[j]) : j \in DOMAIN program[a].members} :
                             a \in Ancestors(event.recv)}
             decl  == NearestOf(Declarers(event.static, event.name, "field"))
             m     == program[decl].members[Max(Declared(decl, event.name, "field"))]
  <2>1. /\ event.word \in 1..(image[event.recv].words - 1) \ {image[event.recv].expando}
        /\ event.ty = m.ty /\ image[event.recv].slots[event.word - 1] = m.ty
    BY Zenon DEF LaidOutRight
  <2>2. \A o \in names \ {event.name} : Declarers(event.recv, o, "field") # {} =>
                                          field_ptr(find_field(registry, event.recv, o)[1].slot) # event.word
    <3> HIDE DEF names
    <3> QED BY Zenon DEF LaidOutRight
  <2> QED BY <2>1, <2>2, Zenon DEF LayoutIsInherited
<1>2. Init => LaidOutRight(event) BY DEF Init, LaidOutRight
<1>3. ASSUME IInv, LaidOutRight(event), [Next]_vars PROVE LaidOutRight(event)'
  <2>1. CASE Operates
    <3>1. LaidOutRight(event') BY <1>3, <2>1, OperationsLaidOut
    <3>2. UNCHANGED <<program, registry, image>> BY <2>1, OperatesIs
    <3> QED BY <3>1, <3>2, SameDeclarations DEF LaidOutRight
  <2>2. CASE Next /\ ~ Operates
    <3>1. event' = [op |-> "none"] BY <1>3, <2>2, PassesAreSilent
    <3> QED BY <3>1 DEF LaidOutRight
  <2>3. CASE UNCHANGED vars
    <3>1. UNCHANGED <<program, registry, image, event>> BY <2>3 DEF vars
    <3> QED BY <1>3, <3>1, SameDeclarations DEF LaidOutRight
  <2> QED BY <1>3, <2>1, <2>2, <2>3
<1> QED BY <1>1, <1>2, <1>3, TablesAreRightThroughout, PTL DEF Spec


-----------------------------------------------------------------------------
(* ---- methods of an instance -------------------------------------------------------------- *)

Table(a) == registry[a].vtable

(* An entry holds the last declaration in the class, or else what the       *)
(* parent's entry holds.                                                    *)
HoldsOwn(k, s) ==
  LET here == Declared(k, Table(k)[s].name, Table(k)[s].kind)
  IN  /\ here = {} => /\ s <= Len(Table(ParentOf(k)))
                      /\ Table(k)[s].fn_id = Table(ParentOf(k))[s].fn_id
      /\ here # {} => \E l \in here : Table(k)[s].fn_id = <<k, l>> /\ \A h \in here : h <= l

(* A class keeps the entries of its parent in their places, has one for     *)
(* each method it declares, and no two for one name and kind.               *)
LEMMA ClassMethodsAre ==
  ASSUME Tabled
  PROVE  /\ Table(OBJECT) = <<>> /\ \A k \in Classes \cup {OBJECT} : Table(k) \in Seq(VMethods)
         /\ \A k \in Classes :
              /\ Len(Table(ParentOf(k))) <= Len(Table(k))
              /\ \A s \in 1 .. Len(Table(ParentOf(k))) : SameKey(Table(k)[s], Table(ParentOf(k))[s])
              /\ \A s, t \in 1 .. Len(Table(k)) : SameKey(Table(k)[s], Table(k)[t]) => s = t
              /\ \A s \in 1 .. Len(Table(k)) : HoldsOwn(k, s)
              /\ \A n : \A kind \in MethodKinds : Declared(k, n, kind) # {} =>
                    \E s \in 1 .. Len(Table(k)) : Table(k)[s].name = n /\ Table(k)[s].kind = kind
<1>1. Table(OBJECT) = <<>> BY TabledIs DEF Table
<1>2. \A k \in Classes \cup {OBJECT} : registry[k] \in Infos BY TabledIs
<1>3. \A k \in Classes \cup {OBJECT} : Table(k) \in Seq(VMethods) BY <1>2 DEF Infos, Table
<1>4. \A k \in Classes : /\ program[k].members \in Seq(Members)
                         /\ DOMAIN program[k].members = 1 .. Len(program[k].members)
  <2> SUFFICES ASSUME NEW k \in Classes PROVE program[k].members \in Seq(Members) OBVIOUS
  <2>1. k \in DOMAIN program /\ program \in Seq(Declarations) BY TabledIs
  <2> QED BY <2>1, DeclarationIs
<1>5. \A k \in Classes : \A n, kind : DeclaredIn(program, k, Len(program[k].members), n, kind) = Declared(k, n, kind)
  BY <1>4 DEF DeclaredIn, Declared, Declares
<1>6. \A k \in Classes : MethodsTabled(program, registry, k, registry[k], Len(program[k].members))
  BY TabledIs DEF Assembled
<1>7. ASSUME NEW k \in Classes
      PROVE  /\ Len(Table(ParentOf(k))) <= Len(Table(k))
             /\ \A s \in 1 .. Len(Table(ParentOf(k))) : SameKey(Table(k)[s], Table(ParentOf(k))[s])
             /\ \A s, t \in 1 .. Len(Table(k)) : SameKey(Table(k)[s], Table(k)[t]) => s = t
  BY <1>6, <1>7 DEF MethodsTabled, Table, ParentOf
<1>8. ASSUME NEW k \in Classes, NEW s \in 1 .. Len(Table(k))
      PROVE  HoldsOwn(k, s)
  <2> DEFINE here == DeclaredIn(program, k, Len(program[k].members), Table(k)[s].name, Table(k)[s].kind)
  <2>1. MethodsTabled(program, registry, k, registry[k], Len(program[k].members)) BY <1>6, <1>8
  <2>2. /\ here = {} => /\ s <= Len(Table(ParentOf(k)))
                        /\ Table(k)[s].fn_id = Table(ParentOf(k))[s].fn_id
        /\ here # {} => \E l \in here : Table(k)[s].fn_id = <<k, l>> /\ \A h \in here : h <= l
    BY <1>8, <2>1 DEF MethodsTabled, Table, ParentOf
  <2>3. here = Declared(k, Table(k)[s].name, Table(k)[s].kind) BY <1>5, <1>8
  <2> HIDE DEF here
  <2> QED BY <2>2, <2>3 DEF HoldsOwn
<1>9. ASSUME NEW k \in Classes, NEW n, NEW kind \in MethodKinds, Declared(k, n, kind) # {}
      PROVE  \E s \in 1 .. Len(Table(k)) : Table(k)[s].name = n /\ Table(k)[s].kind = kind
  <2>1. PICK l \in Declared(k, n, kind) : TRUE BY <1>9
  <2>2. l \in 1 .. Len(program[k].members) /\ IsSlotted(program[k], program[k].members[l])
        /\ member_name(program[k].members[l]) = n /\ program[k].members[l].m = kind
    BY <1>4, <1>9, <2>1 DEF Declared, IsSlotted, MethodKinds
  <2> QED BY <1>6, <2>2 DEF MethodsTabled, Table
<1> QED BY <1>1, <1>3, <1>7, <1>8, <1>9


(* A class has the entries of every class above it, in their places.        *)
LEMMA TablesExtend ==
  ASSUME Tabled
  PROVE  \A k \in Classes \cup {OBJECT} : \A a \in Chain(registry, k) :
            /\ Len(Table(a)) <= Len(Table(k))
            /\ \A s \in 1 .. Len(Table(a)) : SameKey(Table(k)[s], Table(a)[s])
<1> DEFINE Above(k) == \A a \in Chain(registry, k) : /\ Len(Table(a)) <= Len(Table(k))
                                                   /\ \A s \in 1 .. Len(Table(a)) : SameKey(Table(k)[s], Table(a)[s])
           S == {OBJECT} \cup {k \in Classes : Above(k)}
<1>1. \A k \in Classes \cup {OBJECT} : /\ Table(k) \in Seq(VMethods) /\ Len(Table(k)) \in Nat
                                       /\ Chain(registry, k) \subseteq Classes \cup {OBJECT}
  BY ClassMethodsAre, ClassChainIs
<1>2. Above(OBJECT)
  <2>1. Chain(registry, OBJECT) = {OBJECT} BY ClassChainIs
  <2> QED BY <1>1, <2>1 DEF SameKey
<1>3. ASSUME NEW k \in Classes, registry[k].parent \in S PROVE k \in S
  <2>1. /\ Chain(registry, k) = {k} \cup Chain(registry, ParentOf(k))
        /\ ParentOf(k) \in Classes \cup {OBJECT}
    BY ClassChainIs, TabledIs DEF ParentOf
  <2>2. Above(ParentOf(k)) BY <1>2, <1>3 DEF ParentOf
  <2>3. /\ Len(Table(ParentOf(k))) <= Len(Table(k))
        /\ \A s \in 1 .. Len(Table(ParentOf(k))) : SameKey(Table(k)[s], Table(ParentOf(k))[s])
    BY ClassMethodsAre
  <2>4. ASSUME NEW a \in Chain(registry, k)
        PROVE  /\ Len(Table(a)) <= Len(Table(k))
               /\ \A s \in 1 .. Len(Table(a)) : SameKey(Table(k)[s], Table(a)[s])
    <3>1. a \in Classes \cup {OBJECT} /\ Len(Table(a)) \in Nat /\ Len(Table(k)) \in Nat /\ Len(Table(ParentOf(k))) \in Nat
      BY <1>1, <2>1
    <3>2. CASE a = k BY <3>1, <3>2 DEF SameKey
    <3>3. CASE a \in Chain(registry, ParentOf(k))
      <4>1. /\ Len(Table(a)) <= Len(Table(ParentOf(k)))
            /\ \A s \in 1 .. Len(Table(a)) : SameKey(Table(ParentOf(k))[s], Table(a)[s])
        BY <2>2, <3>3
      <4>2. \A s \in 1 .. Len(Table(a)) : s \in 1 .. Len(Table(ParentOf(k))) BY <3>1, <4>1
      <4>3. \A s \in 1 .. Len(Table(a)) : SameKey(Table(k)[s], Table(a)[s])
        BY <2>3, <4>1, <4>2 DEF SameKey
      <4> QED BY <2>3, <3>1, <4>1, <4>3
    <3> QED BY <2>1, <2>4, <3>2, <3>3
  <2> QED BY <2>4
<1>4. Classes \subseteq S
  <2>1. OBJECT \in S OBVIOUS
  <2> HIDE DEF S
  <2> QED BY <1>3, <2>1, ClassInduction
<1>5. OBJECT \notin Classes BY TabledIs
<1> QED BY <1>2, <1>4, <1>5

(* An entry holds the last declaration of the nearest class that has one.   *)
Nearer(k, n, kind, a) == a \in Declarers(k, n, kind) /\ Declarers(k, n, kind) \subseteq Ancestors(a)
Holds(k, s) ==
  \E a \in Classes :
     /\ Nearer(k, Table(k)[s].name, Table(k)[s].kind, a)
     /\ \E l \in Declared(a, Table(k)[s].name, Table(k)[s].kind) :
           /\ Table(k)[s].fn_id = <<a, l>>
           /\ \A h \in Declared(a, Table(k)[s].name, Table(k)[s].kind) : h <= l

(* Every entry of a table is of the most derived declaration of its name and kind. *)
LEMMA EntriesHold ==
  ASSUME Tabled
  PROVE  \A k \in Classes : \A s \in 1 .. Len(Table(k)) : Holds(k, s)
<1> DEFINE S == {OBJECT} \cup {k \in Classes : \A s \in 1 .. Len(Table(k)) : Holds(k, s)}
<1>1. ASSUME NEW k \in Classes, registry[k].parent \in S PROVE k \in S
  <2> SUFFICES ASSUME NEW s \in 1 .. Len(Table(k)) PROVE Holds(k, s) OBVIOUS
  <2> DEFINE n    == Table(k)[s].name
             kind == Table(k)[s].kind
             here == Declared(k, n, kind)
             up   == ParentOf(k)
  <2>1. /\ here = {} => s <= Len(Table(up)) /\ Table(k)[s].fn_id = Table(up)[s].fn_id
        /\ here # {} => \E l \in here : Table(k)[s].fn_id = <<k, l>> /\ \A h \in here : h <= l
    <3>1. HoldsOwn(k, s) BY ClassMethodsAre
    <3> QED BY <3>1 DEF HoldsOwn
  <2>2. Ancestors(k) \subseteq Classes /\ k \in Ancestors(k) BY ClassChainIs
  <2>3. CASE here # {}
    <3>1. Nearer(k, n, kind, k) BY <2>2, <2>3 DEF Nearer, Declarers
    <3> HIDE DEF n, kind
    <3> QED BY <2>1, <2>3, <3>1 DEF Holds, n, kind
  <2>4. CASE here = {}
    <3>1. Table(OBJECT) = <<>> /\ up \in Classes \cup {OBJECT} BY ClassMethodsAre, TabledIs DEF ParentOf
    <3>2. s <= Len(Table(up)) /\ Table(k)[s].fn_id = Table(up)[s].fn_id BY <2>1, <2>4
    <3>3. up # OBJECT
      <4>1. up = OBJECT => Len(Table(up)) = 0 BY <3>1
      <4>2. ~ (s <= 0) OBVIOUS
      <4> QED BY <3>2, <4>1, <4>2
    <3>4. up \in Classes /\ up \in S BY <1>1, <3>1, <3>3 DEF ParentOf
    <3>5. s \in 1 .. Len(Table(up))
      <4>1. Table(up) \in Seq(VMethods) BY <3>1, ClassMethodsAre
      <4>2. Len(Table(up)) \in Nat BY <4>1
      <4> QED BY <3>2, <4>2
    <3>6. Holds(up, s) BY <3>3, <3>4, <3>5
    <3>7. Table(up)[s].name = n /\ Table(up)[s].kind = kind
      <4>1. SameKey(Table(k)[s], Table(up)[s]) BY <3>5, ClassMethodsAre
      <4> QED BY <4>1 DEF SameKey
    <3>8. PICK a \in Classes :
             /\ Nearer(up, n, kind, a)
             /\ \E l \in Declared(a, n, kind) : Table(up)[s].fn_id = <<a, l>> /\ \A h \in Declared(a, n, kind) : h <= l
      BY <3>6, <3>7 DEF Holds
    <3>9. Ancestors(k) = {k} \cup Ancestors(up)
      <4>1. Chain(registry, k) = {k} \cup Chain(registry, up) BY ClassChainIs DEF ParentOf
      <4>2. Chain(registry, k) = Ancestors(k) \cup {OBJECT} /\ Chain(registry, up) = Ancestors(up) \cup {OBJECT}
            /\ Ancestors(k) \subseteq Classes /\ Ancestors(up) \subseteq Classes
        BY <3>4, ClassChainIs
      <4>3. OBJECT \notin Classes BY TabledIs
      <4> QED BY <4>1, <4>2, <4>3
    <3>10. Declarers(k, n, kind) = Declarers(up, n, kind) BY <2>4, <3>9 DEF Declarers
    <3>11. Nearer(k, n, kind, a) BY <3>8, <3>10 DEF Nearer
    <3> HIDE DEF n, kind
    <3> QED BY <3>2, <3>8, <3>11 DEF Holds, n, kind
  <2> QED BY <2>3, <2>4
<1>2. Classes \subseteq S
  <2>1. OBJECT \in S OBVIOUS
  <2> HIDE DEF S
  <2> QED BY <1>1, <2>1, ClassInduction
<1>3. OBJECT \notin Classes BY TabledIs
<1> QED BY <1>2, <1>3


(* Of the bodies of a class, those that go to a function of its method      *)
(* table are the declarations of the name and kind; the last one stays.     *)
LEMMA BodyIs ==
  ASSUME Tabled, NEW a \in Classes, NEW n, NEW kind \in MethodKinds, NEW l \in Declared(a, n, kind),
         \A h \in Declared(a, n, kind) : h <= l
  PROVE  Body(program, registry, <<a, l>>) = <<a, l>> /\ Max(Declared(a, n, kind)) = l
<1> DEFINE ms == program[a].members
           J  == Len(ms)
<1>1. program \in Seq(Declarations) /\ a \in DOMAIN program /\ ms \in Seq(Members) /\ DOMAIN ms = 1 .. J /\ J \in Nat
  <2>1. a \in DOMAIN program /\ program \in Seq(Declarations) BY TabledIs
  <2>2. ms \in Seq(Members) BY <2>1, DeclarationIs
  <2> QED BY <2>1, <2>2
<1>2. l \in 1 .. J /\ ~ ms[l].static /\ ms[l].m = kind /\ ~ IsCtor(program[a], ms[l]) /\ member_name(ms[l]) = n
  BY <1>1 DEF Declared
<1>3. FunctionsNamed(program, a, registry[a], J) BY TabledIs DEF Assembled
<1>4. Table(a) \in Seq(VMethods) /\ registry[a].static_methods \in Seq(StaticMethods)
  <2>1. registry[a] \in Infos BY TabledIs
  <2> QED BY <2>1 DEF Table, Infos
<1> HIDE DEF ms, J
<1>5. ASSUME NEW j \in 1 .. J
      PROVE  BodyFn(program, registry, a, j) = <<a, l>> <=> j \in Declared(a, n, kind)
  <2> DEFINE m == ms[j]
             o == member_name(m)
  <2>1. BodyFn(program, registry, a, j) =
           IF m.m = "field" THEN <<>>
           ELSE IF IsCtor(program[a], m) THEN <<a, registry[a].ctor>>
           ELSE IF m.static THEN registry[a].static_methods[Named(registry[a].static_methods, o)].fn_id
           ELSE Table(a)[find_vmethod(registry, a, o, m.m)].fn_id
    BY DEF BodyFn, ms, Table
  <2>2. j \in Declared(a, n, kind) <=> o = n /\ m.m = kind /\ ~ m.static /\ ~ IsCtor(program[a], m)
    BY <1>1 DEF Declared, ms
  <2>3. kind # "field" /\ m.m \in MemberKinds
    <3>1. m \in Members BY <1>1 DEF J, ms
    <3> QED BY <3>1 DEF MethodKinds, MemberKinds, Members
  <2>4. CASE m.m = "field"
    <3>1. <<a, l>> # <<>> OBVIOUS
    <3> QED BY <2>1, <2>2, <2>3, <2>4, <3>1
  <2>5. CASE m.m # "field" /\ IsCtor(program[a], m)
    <3>1. BodyFn(program, registry, a, j) = <<a, registry[a].ctor>> BY <2>1, <2>5
    <3>2. registry[a].ctor # l
      <4>1. registry[a].ctor # 0 => IsCtor(program[a], ms[registry[a].ctor]) BY <1>3 DEF FunctionsNamed, ms
      <4> QED BY <1>2, <4>1
    <3> QED BY <2>2, <2>5, <3>1, <3>2
  <2>6. CASE m.m # "field" /\ ~ IsCtor(program[a], m) /\ m.static
    <3> DEFINE ss == registry[a].static_methods
    <3>1. BodyFn(program, registry, a, j) = ss[Named(ss, o)].fn_id BY <2>1, <2>6
    <3>2. Named(ss, o) \in 1 .. Len(ss)
      <4>1. \E i \in 1 .. Len(ss) : ss[i].name = o BY <1>3, <2>6 DEF FunctionsNamed, IsStaticMethod, ms
      <4>2. ss \in Seq(StaticMethods) BY <1>4
      <4> HIDE DEF ss, o
      <4> QED BY <4>1, <4>2, NamedIs
    <3>3. \E h \in 1 .. J : IsStaticMethod(ms[h]) /\ ss[Named(ss, o)].fn_id = <<a, h>>
      BY <1>3, <3>2 DEF FunctionsNamed, ms
    <3>4. ss[Named(ss, o)].fn_id # <<a, l>> BY <1>2, <3>3 DEF IsStaticMethod
    <3> QED BY <2>2, <2>6, <3>1, <3>4
  <2>7. CASE m.m # "field" /\ ~ IsCtor(program[a], m) /\ ~ m.static
    <3> DEFINE s == find_vmethod(registry, a, o, m.m)
    <3>1. BodyFn(program, registry, a, j) = Table(a)[s].fn_id BY <2>1, <2>7
    <3>2. m.m \in MethodKinds /\ j \in Declared(a, o, m.m)
      <4>1. m.m \in MethodKinds BY <2>3, <2>7 DEF MethodKinds, MemberKinds
      <4> QED BY <1>1, <2>7, <4>1 DEF Declared, ms
    <3>3. s \in 1 .. Len(Table(a)) /\ Table(a)[s].name = o /\ Table(a)[s].kind = m.m
      <4>1. \E t \in 1 .. Len(Table(a)) : Table(a)[t].name = o /\ Table(a)[t].kind = m.m
        BY <3>2, ClassMethodsAre
      <4>2. s = Keyed(Table(a), o, m.m) BY DEF find_vmethod, Table
      <4> HIDE DEF s, o
      <4> QED BY <1>4, <4>1, <4>2, KeyedIs
    <3>4. HoldsOwn(a, s) BY <3>3, ClassMethodsAre
    <3>5. \E i \in Declared(a, o, m.m) : Table(a)[s].fn_id = <<a, i>> /\ \A h \in Declared(a, o, m.m) : h <= i
      BY <3>2, <3>3, <3>4 DEF HoldsOwn
    <3>6. PICK i \in Declared(a, o, m.m) : Table(a)[s].fn_id = <<a, i>> /\ \A h \in Declared(a, o, m.m) : h <= i
      BY <3>5
    <3>7. i \in 1 .. J /\ member_name(ms[i]) = o /\ ms[i].m = m.m BY <1>1, <3>6 DEF Declared, ms
    <3> HIDE DEF s, o
    <3>8. i = l => o = n /\ m.m = kind BY <1>2, <3>7
    <3>9. o = n /\ m.m = kind => i = l
      <4> SUFFICES ASSUME o = n, m.m = kind PROVE i = l OBVIOUS
      <4>1. i <= l /\ l <= i BY <3>6
      <4> QED BY <1>2, <3>7, <4>1
    <3>10. <<a, i>> = <<a, l>> <=> i = l OBVIOUS
    <3> QED BY <2>2, <2>7, <3>1, <3>6, <3>8, <3>9, <3>10 DEF o
  <2> QED BY <2>4, <2>5, <2>6, <2>7
<1>6. {j \in 1 .. J : BodyFn(program, registry, a, j) = <<a, l>>} = Declared(a, n, kind)
  <2>1. Declared(a, n, kind) \subseteq 1 .. J BY <1>1 DEF Declared, ms
  <2> QED BY <1>5, <2>1
<1>7. Max(Declared(a, n, kind)) = l
  <2>1. Declared(a, n, kind) \subseteq Int BY <1>1 DEF Declared, ms
  <2> DEFINE D == Declared(a, n, kind)
  <2>2. Max(D) \in D /\ \A y \in D : Max(D) >= y
    <3>1. l \in D /\ \A y \in D : l >= y BY <2>1
    <3> HIDE DEF D
    <3> QED BY <3>1 DEF Max
  <2>3. Max(D) <= l /\ l <= Max(D) BY <2>1, <2>2
  <2> QED BY <2>1, <2>2, <2>3
<1>8. Body(program, registry, <<a, l>>) = <<a, Max({j \in 1 .. J : BodyFn(program, registry, a, j) = <<a, l>>})>>
  BY <1>1 DEF Body, ms
<1> QED BY <1>6, <1>7, <1>8


(* An entry of the method table runs the declaration nearest to the class.  *)
LEMMA EntryIsMostDerived ==
  ASSUME Tabled, NEW k \in Classes, NEW s \in 1 .. Len(Table(k))
  PROVE  Body(program, registry, Table(k)[s].fn_id) = MostDerived(k, Table(k)[s].name, Table(k)[s].kind)
<1> DEFINE n    == Table(k)[s].name
           kind == Table(k)[s].kind
<1>1. Holds(k, s) BY EntriesHold
<1>2. kind \in MethodKinds
  <2>1. Table(k) \in Seq(VMethods) BY ClassMethodsAre
  <2>2. Table(k)[s] \in VMethods BY <2>1
  <2> QED BY <2>2 DEF VMethods
<1> HIDE DEF n, kind
<1>3. PICK a \in Classes :
         /\ Nearer(k, n, kind, a)
         /\ \E l \in Declared(a, n, kind) : Table(k)[s].fn_id = <<a, l>> /\ \A h \in Declared(a, n, kind) : h <= l
  BY <1>1 DEF Holds, n, kind
<1>4. PICK l \in Declared(a, n, kind) : Table(k)[s].fn_id = <<a, l>> /\ \A h \in Declared(a, n, kind) : h <= l
  BY <1>3
<1>5. Body(program, registry, <<a, l>>) = <<a, l>> /\ Max(Declared(a, n, kind)) = l BY <1>2, <1>3, <1>4, BodyIs
<1>6. NearestOf(Declarers(k, n, kind)) = a
  <2> DEFINE D == Declarers(k, n, kind)
             b == NearestOf(D)
  <2>1. a \in D /\ D \subseteq Ancestors(a) BY <1>3 DEF Nearer
  <2>2. b \in D /\ D \subseteq Ancestors(b)
    <3> HIDE DEF D
    <3> QED BY <2>1 DEF NearestOf
  <2>3. D \subseteq Ancestors(k) BY DEF Declarers
  <2> HIDE DEF b
  <2>4. /\ a \in Chain(registry, k) /\ b \in Chain(registry, k)
        /\ a \in Chain(registry, b) /\ b \in Chain(registry, a)
    <3>1. Chain(registry, k) = Ancestors(k) \cup {OBJECT} /\ Ancestors(k) \subseteq Classes BY ClassChainIs
    <3>2. a \in Classes /\ b \in Classes BY <2>1, <2>2, <2>3, <3>1
    <3>3. Chain(registry, a) = Ancestors(a) \cup {OBJECT} /\ Chain(registry, b) = Ancestors(b) \cup {OBJECT}
      BY <3>2, ClassChainIs
    <3> QED BY <2>1, <2>2, <2>3, <3>1, <3>3
  <2>5. Tree(registry) /\ k \in DOMAIN registry BY TabledIs
  <2>6. a = b BY <2>4, <2>5, ChainOrder
  <2> QED BY <2>6 DEF b
<1>7. MostDerived(k, n, kind) = <<a, l>> BY <1>5, <1>6 DEF MostDerived
<1> QED BY <1>4, <1>5, <1>7 DEF n, kind

(* A method found for a class above is the receiver's at the same place.    *)
LEMMA CallIsMostDerived ==
  ASSUME Tabled, NEW r \in Classes, NEW a \in Chain(registry, r), NEW s \in 1 .. Len(Table(a))
  PROVE  call_virtual(image, r, s) = MostDerived(r, Table(a)[s].name, Table(a)[s].kind)
<1>1. r \in Classes \cup {OBJECT} /\ a \in Classes \cup {OBJECT} BY ClassChainIs
<1>2. Len(Table(a)) <= Len(Table(r)) /\ SameKey(Table(r)[s], Table(a)[s]) BY <1>1, TablesExtend
<1>3. s \in 1 .. Len(Table(r)) /\ DOMAIN Table(r) = 1 .. Len(Table(r))
  <2>1. Table(a) \in Seq(VMethods) /\ Table(r) \in Seq(VMethods) BY <1>1, ClassMethodsAre
  <2>2. Len(Table(a)) \in Nat /\ Len(Table(r)) \in Nat /\ DOMAIN Table(r) = 1 .. Len(Table(r)) BY <2>1
  <2> QED BY <1>2, <2>2
<1>4. image[r].vtable = [i \in DOMAIN Table(r) |-> Table(r)[i].fn_id]
  BY <1>1 DEF Tabled, Descriptor, Table
<1>5. image[r].vtable[s] = Table(r)[s].fn_id BY <1>3, <1>4
<1>6. Body(program, registry, Table(r)[s].fn_id) = MostDerived(r, Table(r)[s].name, Table(r)[s].kind)
  BY <1>3, EntryIsMostDerived
<1> QED BY <1>2, <1>5, <1>6 DEF call_virtual, SameKey

(* What find_vmethod finds is an entry of the name and kind asked for. *)
LEMMA VMethodIs ==
  ASSUME Tabled, NEW a \in Classes \cup {OBJECT}, NEW n, NEW kind, find_vmethod(registry, a, n, kind) # NoSym
  PROVE  /\ a \in Classes /\ find_vmethod(registry, a, n, kind) \in 1 .. Len(Table(a))
         /\ Table(a)[find_vmethod(registry, a, n, kind)].name = n
         /\ Table(a)[find_vmethod(registry, a, n, kind)].kind = kind
<1>1. Table(a) \in Seq(VMethods) /\ Table(OBJECT) = <<>> BY ClassMethodsAre
<1>2. find_vmethod(registry, a, n, kind) = Keyed(Table(a), n, kind) BY DEF find_vmethod, Table
<1>3. /\ Keyed(Table(a), n, kind) \in 1 .. Len(Table(a))
      /\ Table(a)[Keyed(Table(a), n, kind)].name = n /\ Table(a)[Keyed(Table(a), n, kind)].kind = kind
  BY <1>1, <1>2, KeyedIs
<1>4. a # OBJECT
  <2>1. a = OBJECT => Len(Table(a)) = 0 BY <1>1
  <2> QED BY <1>3, <2>1
<1> QED BY <1>2, <1>3, <1>4


(* A class of which one above lists an interface has all its methods.       *)
LEMMA Conforms ==
  ASSUME Tabled, NEW r \in Classes, NEW i, implements(registry, r, i), NEW m \in Range(registry[i].methods)
  PROVE  find_vmethod(registry, r, m.name, m.kind) # NoSym
<1>1. PICK a \in Chain(registry, r) : i \in registry[a].interfaces BY DEF implements
<1>2. a \in Classes
  <2>1. Chain(registry, r) \subseteq Classes \cup {OBJECT} BY ClassChainIs
  <2>2. registry[OBJECT].interfaces = {} BY TabledIs
  <2> QED BY <1>1, <2>1, <2>2
<1>3. find_vmethod(registry, a, m.name, m.kind) # NoSym
  <2> DEFINE Fault(x) == LET v == find_vmethod(registry, a, x.name, x.kind)
                         IN  IF v = NoSym THEN {"missing method"}
                             ELSE IF registry[a].vtable[v].sig # x.sig THEN {"signature"}
                             ELSE IF registry[a].vtable[v].vis # "public" THEN {"not public"} ELSE {}
  <2>1. check_conformance(registry, a) = {} BY <1>2 DEF Tabled, AllBuilt
  <2>2. UNION {UNION {Fault(x) : x \in Range(registry[j].methods)} : j \in registry[a].interfaces} = {}
    BY <2>1 DEF check_conformance
  <2> HIDE DEF Fault
  <2>3. Fault(m) = {} BY <1>1, <2>2
  <2> QED BY <2>3 DEF Fault
<1> DEFINE s == find_vmethod(registry, a, m.name, m.kind)
<1>4. s \in 1 .. Len(Table(a)) /\ Table(a)[s].name = m.name /\ Table(a)[s].kind = m.kind
  BY <1>2, <1>3, VMethodIs
<1> HIDE DEF s
<1>5. Len(Table(a)) <= Len(Table(r)) /\ SameKey(Table(r)[s], Table(a)[s]) BY <1>1, <1>4, TablesExtend
<1>6. Table(a) \in Seq(VMethods) /\ Table(r) \in Seq(VMethods) BY <1>2, ClassMethodsAre
<1>7. s \in 1 .. Len(Table(r)) /\ Table(r)[s].name = m.name /\ Table(r)[s].kind = m.kind
  <2>1. Len(Table(a)) \in Nat /\ Len(Table(r)) \in Nat BY <1>6
  <2> QED BY <1>4, <1>5, <2>1 DEF SameKey
<1>8. find_vmethod(registry, r, m.name, m.kind) = Keyed(Table(r), m.name, m.kind) BY DEF find_vmethod, Table
<1> QED BY <1>6, <1>7, <1>8, KeyedIs

(* A call through an interface runs the declaration nearest to the receiver.*)
LEMMA InterfaceCallIs ==
  ASSUME Tabled, NEW r \in Classes, NEW i \in Ifaces, implements(registry, r, i), NEW n, NEW kind,
         find_iface_method(registry, i, n, kind) # NoSym
  PROVE  call_iface(image, r, i, find_iface_method(registry, i, n, kind)) = MostDerived(r, n, kind)
<1> DEFINE ms == registry[i].methods
           q  == find_iface_method(registry, i, n, kind)
           v  == find_vmethod(registry, r, n, kind)
<1>1. ms \in Seq(IfaceMethods)
  <2>1. registry[i] \in Infos BY TabledIs
  <2> QED BY <2>1 DEF Infos
<1>2. q \in 1 .. Len(ms) /\ ms[q].name = n /\ ms[q].kind = kind /\ DOMAIN ms = 1 .. Len(ms)
  <2> HIDE DEF ms
  <2>1. q = Keyed(ms, n, kind) BY DEF find_iface_method, ms
  <2>2. q # NoSym OBVIOUS
  <2> HIDE DEF q
  <2>3. q \in 1 .. Len(ms) /\ ms[q].name = n /\ ms[q].kind = kind BY <1>1, <2>1, <2>2, KeyedIs
  <2> QED BY <1>1, <2>3
<1>3. v # NoSym
  <2>1. ms[q] \in Range(ms) BY <1>2 DEF Range
  <2>2. find_vmethod(registry, r, ms[q].name, ms[q].kind) # NoSym BY <2>1, Conforms
  <2> QED BY <1>2, <2>2
<1>4. Nearest(image, TableOwners(image, r, i)) = r
  <2> DEFINE O == TableOwners(image, r, i)
             b == Nearest(image, O)
  <2>1. r \in O BY TableTested
  <2>2. O \subseteq Chain(image, r) BY DEF TableOwners
  <2> HIDE DEF O
  <2>3. b \in O /\ O \subseteq Chain(image, b) BY <2>1, <2>2 DEF Nearest
  <2> HIDE DEF b
  <2>4. Chain(image, r) = Chain(registry, r) /\ Chain(registry, r) \subseteq Classes \cup {OBJECT}
        /\ r \in Chain(registry, r) /\ Tree(registry) /\ r \in DOMAIN registry
    <3>1. r \in Classes \cup {OBJECT} OBVIOUS
    <3>2. Tree(registry) /\ r \in DOMAIN registry BY TabledIs
    <3>3. Chain(image, r) = Chain(registry, r) BY <3>1, ImageChainIs
    <3>4. Chain(registry, r) \subseteq Classes \cup {OBJECT} BY <3>1, ClassChainIs
    <3> QED BY <3>2, <3>3, <3>4, ChainIs
  <2>5. b \in Classes \cup {OBJECT} /\ Chain(image, b) = Chain(registry, b) BY <2>2, <2>3, <2>4, ImageChainIs
  <2>6. b \in Chain(registry, r) /\ r \in Chain(registry, b) BY <2>1, <2>2, <2>3, <2>4, <2>5
  <2>7. b = r BY <2>4, <2>6, ChainOrder
  <2> QED BY <2>7 DEF b, O
<1>5. iface_table(image, r, i)[q] = Table(r)[v].fn_id
  <2> DEFINE fn(m) == registry[r].vtable[find_vmethod(registry, r, m.name, m.kind)].fn_id
             tab(j) == [s \in DOMAIN registry[j].methods |-> fn(registry[j].methods[s])]
             is == UNION {registry[a].interfaces : a \in Chain(registry, r)}
             t == CHOOSE t \in image[r].ifaces : t.id = i
  <2>1. image[r].ifaces = {[id |-> j, table |-> tab(j)] : j \in is}
    <3>1. image[r].ifaces = InterfaceTables(registry, r) BY DEF Tabled, Descriptor
    <3> QED BY <3>1 DEF InterfaceTables
  <2>2. tab(i)[q] = Table(r)[v].fn_id
    <3>1. tab(i)[q] = fn(ms[q]) BY <1>2
    <3> QED BY <1>2, <3>1 DEF Table
  <2>3. i \in is BY DEF implements
  <2>4. iface_table(image, r, i) = t.table BY <1>4 DEF iface_table
  <2> HIDE DEF tab, is, q, v
  <2>5. \E x \in image[r].ifaces : x.id = i
    <3>1. [id |-> i, table |-> tab(i)] \in image[r].ifaces BY <2>1, <2>3
    <3> QED BY <3>1
  <2>6. t \in image[r].ifaces /\ t.id = i BY <2>5
  <2> HIDE DEF t
  <2>7. PICK j \in is : t = [id |-> j, table |-> tab(j)] BY <2>1, <2>6
  <2>8. t.table = tab(i) BY <2>6, <2>7
  <2> QED BY <2>2, <2>4, <2>8
<1>6. v \in 1 .. Len(Table(r)) /\ Table(r)[v].name = n /\ Table(r)[v].kind = kind
  <2>1. r \in Classes \cup {OBJECT} OBVIOUS
  <2> QED BY <1>3, <2>1, VMethodIs
<1>7. Body(program, registry, Table(r)[v].fn_id) = MostDerived(r, n, kind)
  <2> HIDE DEF v
  <2> QED BY <1>6, EntryIsMostDerived
<1>8. call_iface(image, r, i, q) = Body(program, registry, iface_table(image, r, i)[q]) BY DEF call_iface
<1> QED BY <1>5, <1>7, <1>8


(* A member some ancestor declares has an entry in the table. *)
LEMMA DeclaredIsTabled ==
  ASSUME Tabled, NEW k \in Classes, NEW n, NEW kind \in MethodKinds, Declared(k, n, kind) # {}
  PROVE  \E s \in 1 .. Len(Table(k)) : Table(k)[s].name = n /\ Table(k)[s].kind = kind
BY ClassMethodsAre

(* In particular a declared method.                                         *)
LEMMA MethodIsTabled ==
  ASSUME Tabled, NEW k \in Classes, NEW n, Declared(k, n, "method") # {}
  PROVE  \E s \in 1 .. Len(Table(k)) : Table(k)[s].name = n /\ Table(k)[s].kind = "method"
<1>1. "method" \in MethodKinds BY DEF MethodKinds
<1> QED BY <1>1, DeclaredIsTabled

(* The rows of a class: its qualified fields and methods.                   *)
LEMMA RowsAre ==
  ASSUME Tabled, NEW a \in Classes \cup {OBJECT}
  PROVE  /\ \A x \in image[a].members :
              \/ \E f \in Fields(a) : x.name = f.name /\ x.r = "field" /\ x.at = f.slot + 1
              \/ \E s \in 1 .. Len(Table(a)) :
                    x.name = Table(a)[s].name /\ x.r = "slot" /\ x.at = s /\ Table(a)[s].kind = "method"
         /\ \A f \in Fields(a) : f.name[1] # "" => \E x \in image[a].members : x.name = f.name
         /\ \A s \in 1 .. Len(Table(a)) : Table(a)[s].name[1] # "" /\ Table(a)[s].kind = "method"
               => \E x \in image[a].members : x.name = Table(a)[s].name
<1> DEFINE FieldRow(f) == [name |-> f.name, r |-> "field", at |-> f.slot + 1]
           SlotRow(s)  == [name |-> Table(a)[s].name, r |-> "slot", at |-> s]
           fs == {g \in Fields(a) : g.name[1] # ""}
           ss == {v \in 1 .. Len(Table(a)) : Table(a)[v].name[1] # "" /\ Table(a)[v].kind = "method"}
<1>1. DOMAIN Table(a) = 1 .. Len(Table(a))
  <2>1. Table(a) \in Seq(VMethods) BY ClassMethodsAre
  <2> QED BY <2>1
<1>2. image[a].members = {FieldRow(f) : f \in fs} \cup {SlotRow(s) : s \in ss}
  <2>1. image[a].members = NsMembers(registry, a) BY DEF Tabled, Descriptor
  <2> QED BY <1>1, <2>1 DEF NsMembers, Fields, Table
<1>3. \A f : FieldRow(f).name = f.name /\ FieldRow(f).r = "field" /\ FieldRow(f).at = f.slot + 1 OBVIOUS
<1>4. \A s : SlotRow(s).name = Table(a)[s].name /\ SlotRow(s).r = "slot" /\ SlotRow(s).at = s OBVIOUS
<1>5. \A f \in fs : f \in Fields(a) OBVIOUS
<1>6. \A s \in ss : s \in 1 .. Len(Table(a)) /\ Table(a)[s].kind = "method" OBVIOUS
<1>7. \A f \in Fields(a) : f.name[1] # "" => f \in fs OBVIOUS
<1>8. \A s \in 1 .. Len(Table(a)) : Table(a)[s].name[1] # "" /\ Table(a)[s].kind = "method" => s \in ss OBVIOUS
<1> HIDE DEF FieldRow, SlotRow, fs, ss
<1>9. ASSUME NEW x \in image[a].members
      PROVE  \/ \E f \in Fields(a) : x.name = f.name /\ x.r = "field" /\ x.at = f.slot + 1
             \/ \E s \in 1 .. Len(Table(a)) :
                   x.name = Table(a)[s].name /\ x.r = "slot" /\ x.at = s /\ Table(a)[s].kind = "method"
  <2>1. (\E f \in fs : x = FieldRow(f)) \/ \E s \in ss : x = SlotRow(s) BY <1>2
  <2> QED BY <1>3, <1>4, <1>5, <1>6, <2>1
<1>10. \A f \in Fields(a) : f.name[1] # "" => \E x \in image[a].members : x.name = f.name
  BY <1>2, <1>3, <1>7
<1>11. \A s \in 1 .. Len(Table(a)) : Table(a)[s].name[1] # "" /\ Table(a)[s].kind = "method"
               => \E x \in image[a].members : x.name = Table(a)[s].name
  BY <1>2, <1>4, <1>8
<1> QED BY <1>9, <1>10, <1>11

Qualified(n) == n[1] # ""

(* A qualified method or field that a class declares has a row.             *)
LEMMA MethodHasRow ==
  ASSUME Tabled, NEW k \in Classes, NEW n, Qualified(n), Declared(k, n, "method") # {}
  PROVE  \E x \in image[k].members : x.name = n
<1>1. PICK s \in 1 .. Len(Table(k)) : Table(k)[s].name = n /\ Table(k)[s].kind = "method" BY MethodIsTabled
<1>2. Table(k)[s].name[1] # "" BY <1>1, Zenon DEF Qualified
<1>3. PICK x \in image[k].members : x.name = Table(k)[s].name BY <1>1, <1>2, RowsAre
<1> QED BY <1>1, <1>3, Zenon

(* The search at run time finds the member that the name means, and finds   *)
(* one when there is one.                                                   *)
LEMMA QualifiedIs ==
  ASSUME Tabled, NEW r \in Classes, NEW n, Qualified(n)
  PROVE  LET m == find_member(image, r, n)
         IN  /\ m = <<>> => \A kind \in {"method", "field"} : Declarers(r, n, kind) = {}
             /\ m # <<>> => \/ m[1].r = "field" /\ m[1].at = field_ptr(find_field(registry, r, n)[1].slot)
                            \/ m[1].r = "slot" /\ call_virtual(image, r, m[1].at) = MostDerived(r, n, "method")
<1> DEFINE rows(a) == {x \in image[a].members : x.name = n}
           owners  == {a \in Chain(image, r) : rows(a) # {}}
           near    == Nearest(image, owners)
           found   == rows(near)
           m       == find_member(image, r, n)
           Best(x) == x.r = "field" \/ \A l \in found : l.r # "field"
<1>1. m = IF owners = {} THEN <<>> ELSE <<CHOOSE x \in found : Best(x)>> BY DEF find_member
<1>2. /\ Chain(image, r) = Chain(registry, r) /\ Chain(registry, r) \subseteq Classes \cup {OBJECT}
      /\ Tree(registry) /\ r \in DOMAIN registry /\ Chain(registry, r) \subseteq DOMAIN registry
      /\ Chain(registry, r) = Ancestors(r) \cup {OBJECT} /\ Ancestors(r) \subseteq Classes
  <2>1. r \in Classes \cup {OBJECT} OBVIOUS
  <2>2. Tree(registry) /\ r \in DOMAIN registry BY TabledIs
  <2>3. Chain(image, r) = Chain(registry, r) BY <2>1, ImageChainIs
  <2>4. Chain(registry, r) \subseteq Classes \cup {OBJECT} BY <2>1, ClassChainIs
  <2>5. Chain(registry, r) = Ancestors(r) \cup {OBJECT} /\ Ancestors(r) \subseteq Classes BY ClassChainIs
  <2> QED BY <2>2, <2>3, <2>4, <2>5, ChainIs
<1>3. \A a \in Chain(image, r) : rows(a) # {} <=> a \in owners OBVIOUS
<1>4. CASE owners = {}
  <2>1. \A a \in Chain(registry, r) : \A x \in image[a].members : x.name # n BY <1>2, <1>4
  <2>2. Declarers(r, n, "field") = {}
    <3> SUFFICES ASSUME NEW b \in Declarers(r, n, "field") PROVE FALSE OBVIOUS
    <3>1. b \in Ancestors(r) /\ Declared(b, n, "field") # {} BY DEF Declarers
    <3>2. b \in Classes /\ b \in Chain(registry, r) BY <1>2, <3>1
    <3>3. PICK f \in Fields(b) : f.name = n BY <3>1, <3>2, ClassFieldsAre
    <3>4. \E x \in image[b].members : x.name = n
      <4>1. f.name[1] # "" BY <3>3, Zenon DEF Qualified
      <4>2. PICK x \in image[b].members : x.name = f.name BY <3>2, <4>1, RowsAre
      <4> QED BY <3>3, <4>2, Zenon
    <3> QED BY <2>1, <3>2, <3>4
  <2>3. Declarers(r, n, "method") = {}
    <3> SUFFICES ASSUME NEW b \in Declarers(r, n, "method") PROVE FALSE OBVIOUS
    <3>1. b \in Ancestors(r) /\ Declared(b, n, "method") # {} BY DEF Declarers
    <3>2. b \in Classes /\ b \in Chain(registry, r) BY <1>2, <3>1
    <3>4. \E x \in image[b].members : x.name = n BY <3>1, <3>2, MethodHasRow
    <3> QED BY <2>1, <3>2, <3>4
  <2> QED BY <1>1, <1>4, <2>2, <2>3
<1>5. CASE owners # {}
  <2>1. near \in owners
    <3> DEFINE W == {a \in DOMAIN registry : rows(a) # {}}
               a == Nearest(registry, Chain(registry, r) \cap W)
    <3>1. owners = Chain(registry, r) \cap W BY <1>2
    <3> HIDE DEF W, owners
    <3>2. a \in owners /\ owners \subseteq Chain(registry, a) BY <1>2, <1>5, <3>1, NearestExists
    <3> HIDE DEF a
    <3>3. a \in Classes \cup {OBJECT} BY <1>2, <3>1, <3>2
    <3>4. owners \subseteq Chain(image, a) BY <3>2, <3>3, ImageChainIs
    <3> QED BY <3>2, <3>4 DEF Nearest
  <2>2. near \in Chain(registry, r) /\ near \in Classes \cup {OBJECT} /\ found # {} BY <1>2, <2>1
  <2> DEFINE x == CHOOSE x \in found : Best(x)
  <2>3. x \in found
    <3> HIDE DEF rows, near
    <3>1. \E y \in found : Best(y) BY <2>2
    <3> HIDE DEF Best, found
    <3> QED BY <3>1
  <2>4. x \in image[near].members /\ x.name = n BY <2>3
  <2>5. m = <<x>> BY <1>1, <1>5
  <2> HIDE DEF near, x, m
  <2>6. m # <<>> /\ m[1] = x BY <2>5
  <2>7. CASE \E f \in Fields(near) : x.name = f.name /\ x.r = "field" /\ x.at = f.slot + 1
    <3>1. PICK f \in Fields(near) : x.name = f.name /\ x.r = "field" /\ x.at = f.slot + 1 BY <2>7
    <3>2. find_field(registry, r, f.name) = <<f>> BY <2>2, FieldIs
    <3>3. find_field(registry, r, n)[1].slot = f.slot
      <4>1. f.name = n BY <2>4, <3>1
      <4>2. find_field(registry, r, n) = <<f>> BY <3>2, <4>1, Zenon
      <4>3. <<f>>[1] = f OBVIOUS
      <4> QED BY <4>2, <4>3, Zenon
    <3>4. x.r = "field" /\ x.at = field_ptr(find_field(registry, r, n)[1].slot) BY <3>1, <3>3 DEF field_ptr
    <3> QED BY <2>6, <3>4 DEF m
  <2>8. CASE \E s \in 1 .. Len(Table(near)) : x.name = Table(near)[s].name /\ x.r = "slot" /\ x.at = s
                                              /\ Table(near)[s].kind = "method"
    <3>1. PICK s \in 1 .. Len(Table(near)) : x.name = Table(near)[s].name /\ x.r = "slot" /\ x.at = s
                                             /\ Table(near)[s].kind = "method"
      BY <2>8
    <3>2. call_virtual(image, r, s) = MostDerived(r, Table(near)[s].name, Table(near)[s].kind)
      BY <2>2, CallIsMostDerived
    <3>3. x.r = "slot" /\ call_virtual(image, r, x.at) = MostDerived(r, n, "method") BY <2>4, <3>1, <3>2
    <3> QED BY <2>6, <3>3 DEF m
  <2> QED BY <2>2, <2>4, <2>7, <2>8, RowsAre
<1> QED BY <1>4, <1>5


-----------------------------------------------------------------------------
(* ---- every call runs the nearest declaration ------------------------------------------ *)

DispatchedRight(e) ==
  /\ e.op \in {"method", "iface"} => e.fn = MostDerived(e.recv, e.name, e.kind)
  /\ e.op = "super" => e.fn = MostDerived(e.static, e.name, "method")
  /\ e.op = "qualified" =>
       /\ e.found \in {"slot", "field", "none"}
       /\ e.found = "slot" => e.fn = MostDerived(e.recv, e.name, "method")
       /\ e.found = "field" => e.word = field_ptr(find_field(registry, e.recv, e.name)[1].slot)
       /\ e.found = "none" => \A kind \in {"method", "field"} : Declarers(e.recv, e.name, kind) = {}

(* A call in the code runs the declaration nearest to the receiver.         *)
LEMMA AccessDispatched ==
  ASSUME Tabled, AccessMember
  PROVE  DispatchedRight(event')
<1>1. PICK ctx \in {NoSym} \cup Concrete, r \in Concrete, s \in Concrete, raw \in RawNames, open \in OpenSets :
         LET n == effective_member_name(registry, s, raw, open)
         IN  \/ class_member_read(ctx, s, r, n)
             \/ class_member_write(ctx, s, r, n)
             \/ class_method_call(ctx, s, r, n)
  BY DEF AccessMember
<1> DEFINE n == effective_member_name(registry, s, raw, open)
<1>2. PICK access \in {"read", "write", "call"} : class_member(ctx, s, r, n, access)
  BY <1>1 DEF class_member_read, class_member_write, class_method_call
<1> HIDE DEF n
<1>3. r \in Classes BY <1>1 DEF Concrete, Classes
<1>4. s \in Classes /\ s \in Chain(registry, r) BY <1>2, AccessIs
<1>5. CASE event'.op = "field" BY <1>5 DEF DispatchedRight
<1>6. ASSUME NEW kind,
             find_vmethod(registry, s, n, kind) # NoSym,
             event' = [op |-> "method", recv |-> r, ctx |-> ctx, static |-> s, name |-> n, access |-> access,
                       kind |-> registry[s].vtable[find_vmethod(registry, s, n, kind)].kind,
                       fn |-> call_virtual(image, r, find_vmethod(registry, s, n, kind))]
      PROVE  DispatchedRight(event')
  <2> DEFINE v == find_vmethod(registry, s, n, kind)
  <2>1. /\ event'.op = "method" /\ event'.recv = r /\ event'.name = n
        /\ event'.kind = Table(s)[v].kind /\ event'.fn = call_virtual(image, r, v)
    BY <1>6 DEF Table
  <2>2. v \in 1 .. Len(Table(s)) /\ Table(s)[v].name = n
    <3>1. s \in Classes \cup {OBJECT} BY <1>4
    <3> QED BY <1>6, <3>1, VMethodIs
  <2> HIDE DEF v
  <2>3. call_virtual(image, r, v) = MostDerived(r, Table(s)[v].name, Table(s)[v].kind)
    BY <1>3, <1>4, <2>2, CallIsMostDerived
  <2> QED BY <2>1, <2>2, <2>3 DEF DispatchedRight
<1>7. \/ event'.op = "field"
      \/ \E kind \in Range(Kinds) :
           /\ find_field(registry, s, n) = <<>> /\ find_vmethod(registry, s, n, kind) # NoSym
           /\ event' = [op |-> "method", recv |-> r, ctx |-> ctx, static |-> s, name |-> n, access |-> access,
                        kind |-> registry[s].vtable[find_vmethod(registry, s, n, kind)].kind,
                        fn |-> call_virtual(image, r, find_vmethod(registry, s, n, kind))]
  BY <1>2, AccessIs
<1> QED BY <1>5, <1>6, <1>7

(* So does one through an interface ...                                     *)
LEMMA InterfaceDispatched ==
  ASSUME Tabled, CallInterface
  PROVE  DispatchedRight(event')
<1>1. PICK r \in Concrete, i \in Decls(program, "iface"), n \in MemberNames, kind \in Range(Kinds) :
        /\ implements(registry, r, i)
        /\ find_iface_method(registry, i, n, kind) # NoSym
        /\ Running([op |-> "iface", recv |-> r, static |-> i, name |-> n, kind |-> kind,
                    fn |-> call_iface(image, r, i, find_iface_method(registry, i, n, kind))])
  BY DEF CallInterface
<1>2. r \in Classes /\ i \in Ifaces BY <1>1 DEF Concrete, Classes, Ifaces
<1>3. call_iface(image, r, i, find_iface_method(registry, i, n, kind)) = MostDerived(r, n, kind)
  BY <1>1, <1>2, InterfaceCallIs
<1>4. /\ event'.op = "iface" /\ event'.recv = r /\ event'.name = n /\ event'.kind = kind
      /\ event'.fn = call_iface(image, r, i, find_iface_method(registry, i, n, kind))
  BY <1>1 DEF Running
<1> QED BY <1>3, <1>4 DEF DispatchedRight

(* ... and one with super, of which the receiver is the parent class.       *)
LEMMA SuperDispatched ==
  ASSUME Tabled, super_call
  PROVE  DispatchedRight(event')
<1>1. PICK ctx \in Concrete, n \in MemberNames :
           LET parent == registry[ctx].parent
               v      == find_vmethod(registry, parent, n, "method")
           IN  /\ v # NoSym
               /\ Running([op |-> "super", ctx |-> ctx, static |-> parent, name |-> n, kind |-> "method",
                           fn |-> Body(program, registry, registry[parent].vtable[v].fn_id)])
  BY DEF super_call
<1> DEFINE parent == registry[ctx].parent
           v      == find_vmethod(registry, parent, n, "method")
<1>2. parent \in Classes \cup {OBJECT}
  <2>1. ctx \in Classes BY <1>1 DEF Concrete, Classes
  <2> QED BY <2>1, TabledIs
<1>3. /\ event'.op = "super" /\ event'.static = parent /\ event'.name = n
      /\ event'.fn = Body(program, registry, Table(parent)[v].fn_id)
  BY <1>1 DEF Running, Table
<1>4. v # NoSym BY <1>1
<1>5. /\ parent \in Classes /\ v \in 1 .. Len(Table(parent))
      /\ Table(parent)[v].name = n /\ Table(parent)[v].kind = "method"
  <2> HIDE DEF parent
  <2> QED BY <1>2, <1>4, VMethodIs
<1> HIDE DEF parent, v
<1>6. Body(program, registry, Table(parent)[v].fn_id) = MostDerived(parent, n, "method")
  BY <1>5, EntryIsMostDerived
<1> QED BY <1>3, <1>6 DEF DispatchedRight

(* A search at run time finds the nearest member.                           *)
LEMMA QualifiedDispatched ==
  ASSUME Tabled, QualifiedAccess
  PROVE  DispatchedRight(event')
<1>1. PICK r \in Concrete, ns \in UNION OpenSets, raw \in RawNames :
        LET n == QName(ns, raw)
            m == find_member(image, r, n)
        IN  Running([op |-> "qualified", recv |-> r, name |-> n,
                     found |-> IF m = <<>> THEN "none" ELSE m[1].r,
                     word  |-> IF m # <<>> /\ m[1].r = "field" THEN m[1].at ELSE NoSym,
                     fn    |-> IF m # <<>> /\ m[1].r = "slot" THEN call_virtual(image, r, m[1].at)
                               ELSE <<>>])
  BY DEF QualifiedAccess
<1> DEFINE n == QName(ns, raw)
           m == find_member(image, r, n)
<1>2. r \in Classes BY <1>1 DEF Concrete, Classes
<1>3. Qualified(n)
  <2>1. ns # "" BY <1>1 DEF OpenSets
  <2> QED BY <2>1 DEF Qualified, QName
<1>4. /\ event'.op = "qualified" /\ event'.recv = r /\ event'.name = n
      /\ event'.found = IF m = <<>> THEN "none" ELSE m[1].r
      /\ event'.word = IF m # <<>> /\ m[1].r = "field" THEN m[1].at ELSE NoSym
      /\ event'.fn = IF m # <<>> /\ m[1].r = "slot" THEN call_virtual(image, r, m[1].at) ELSE <<>>
  BY <1>1 DEF Running
<1> HIDE DEF n
<1>5. /\ m = <<>> => \A kind \in {"method", "field"} : Declarers(r, n, kind) = {}
      /\ m # <<>> => \/ m[1].r = "field" /\ m[1].at = field_ptr(find_field(registry, r, n)[1].slot)
                     \/ m[1].r = "slot" /\ call_virtual(image, r, m[1].at) = MostDerived(r, n, "method")
  BY <1>2, <1>3, QualifiedIs
<1> HIDE DEF m
<1>6. CASE m = <<>>
  <2>1. event'.found = "none" BY <1>4, <1>6
  <2> QED BY <1>4, <1>5, <1>6, <2>1 DEF DispatchedRight
<1>7. CASE m # <<>> /\ m[1].r = "field" /\ m[1].at = field_ptr(find_field(registry, r, n)[1].slot)
  <2>1. event'.found = "field" /\ event'.word = field_ptr(find_field(registry, r, n)[1].slot)
    BY <1>4, <1>7
  <2> QED BY <1>4, <2>1 DEF DispatchedRight
<1>8. CASE m # <<>> /\ m[1].r = "slot" /\ call_virtual(image, r, m[1].at) = MostDerived(r, n, "method")
  <2>1. event'.found = "slot" /\ event'.fn = MostDerived(r, n, "method") BY <1>4, <1>8
  <2> QED BY <1>4, <2>1 DEF DispatchedRight
<1> QED BY <1>5, <1>6, <1>7, <1>8

(* Each operation of the running program, and the passes before.            *)
LEMMA OperationsDispatched ==
  ASSUME IInv, Operates
  PROVE  DispatchedRight(event')
<1>0. Tabled BY OperatesIs, RunningIsTabled DEF Ready
<1>1. CASE AccessMember BY <1>0, <1>1, AccessDispatched
<1>2. CASE StaticAccess
  <2>1. event'.op = "static" BY <1>2 DEF StaticAccess, Running
  <2> QED BY <2>1 DEF DispatchedRight
<1>3. CASE CallInterface BY <1>0, <1>3, InterfaceDispatched
<1>4. CASE super_call BY <1>0, <1>4, SuperDispatched
<1>5. CASE QualifiedAccess BY <1>0, <1>5, QualifiedDispatched
<1>6. CASE TypeTest
  <2>1. event'.op = "is" BY <1>6 DEF TypeTest, Running
  <2> QED BY <2>1 DEF DispatchedRight
<1>7. CASE Widen
  <2>1. event'.op = "widen" BY <1>7 DEF Widen, Running
  <2> QED BY <2>1 DEF DispatchedRight
<1>8. CASE new_object
  <2>1. event'.op = "new" BY <1>8 DEF new_object, Running
  <2> QED BY <2>1 DEF DispatchedRight
<1> QED BY <1>1, <1>2, <1>3, <1>4, <1>5, <1>6, <1>7, <1>8 DEF Operates

(* Whatever the static type a method is called through (a class, an         *)
(* interface, super, or a namespace known at run time) and the order of the *)
(* declarations, the function that runs is the declaration nearest to the   *)
(* class of the receiver.                                                   *)
THEOREM DispatchIsThroughout == Spec => []DispatchIsMostDerived
<1>1. DispatchedRight(event) => DispatchIsMostDerived
  <2> SUFFICES ASSUME DispatchedRight(event) PROVE DispatchIsMostDerived OBVIOUS
  <2>1. CASE event.op = "qualified"
    <3>1. CASE event.found = "slot" BY <2>1, <3>1 DEF DispatchedRight, DispatchIsMostDerived
    <3>2. CASE event.found = "field" BY <2>1, <3>2 DEF DispatchedRight, DispatchIsMostDerived
    <3>3. CASE event.found = "none" BY <2>1, <3>3 DEF DispatchedRight, DispatchIsMostDerived
    <3> QED BY <2>1, <3>1, <3>2, <3>3 DEF DispatchedRight
  <2>2. CASE event.op # "qualified" BY <2>2 DEF DispatchedRight, DispatchIsMostDerived
  <2> QED BY <2>1, <2>2
<1>2. Init => DispatchedRight(event) BY DEF Init, DispatchedRight
<1>3. ASSUME IInv, DispatchedRight(event), [Next]_vars PROVE DispatchedRight(event)'
  <2>0. ASSUME UNCHANGED <<program, registry>>
        PROVE  DispatchedRight(event)' <=> DispatchedRight(event')
    <3>1. \A k, n, kind : MostDerived(k, n, kind)' = MostDerived(k, n, kind)
      BY <2>0, SameDeclarations DEF MostDerived
    <3> QED BY <2>0, <3>1, SameDeclarations DEF DispatchedRight
  <2>1. CASE Operates
    <3>1. DispatchedRight(event') BY <1>3, <2>1, OperationsDispatched
    <3>2. UNCHANGED <<program, registry, image>> BY <2>1, OperatesIs
    <3> QED BY <2>0, <3>1, <3>2
  <2>2. CASE Next /\ ~ Operates
    <3>1. event' = [op |-> "none"] BY <1>3, <2>2, PassesAreSilent
    <3> QED BY <3>1 DEF DispatchedRight
  <2>3. CASE UNCHANGED vars
    <3>1. UNCHANGED <<program, registry>> /\ event' = event BY <2>3 DEF vars
    <3>2. DispatchedRight(event') BY <1>3, <3>1
    <3> QED BY <2>0, <3>1, <3>2
  <2> QED BY <1>3, <2>1, <2>2, <2>3
<1> QED BY <1>1, <1>2, <1>3, TablesAreRightThroughout, PTL DEF Spec


-----------------------------------------------------------------------------
(* ---- a new instance ---------------------------------------------------------------------- *)

(* A constructor that starts with the instance's base part.                 *)
Constructed(turns, base, k) ==
  (IF tast_has_super(program, registry, k) THEN Initializers(registry, k) \o Repeat(base, turns[k])
   ELSE base \o Initializers(registry, k)) \o <<<<"body", k>>>>

ByParent(turns, log, k) ==
  IF k = OBJECT THEN <<>> ELSE Constructed(turns, log[registry[k].parent], k)
SolvesOn(turns, log, S) == \A a \in S : log[a] = ByParent(turns, log, a)

(* A sequence once is that sequence.                                        *)
LEMMA RepeatOnce ==
  ASSUME NEW S, NEW s \in Seq(S)
  PROVE  Repeat(s, 1) = s
<1>1. Len(s) \in Nat /\ 1 * Len(s) = Len(s) OBVIOUS
<1>2. \A i \in 1 .. Len(s) : ((i - 1) % Len(s)) + 1 = i
  <2> SUFFICES ASSUME NEW n \in Nat, NEW i \in 1 .. n PROVE ((i - 1) % n) + 1 = i BY <1>1
  <2>1. i - 1 \in 0 .. (n - 1) /\ n > 0 OBVIOUS
  <2>2. (i - 1) % n = i - 1 BY <2>1
  <2> QED BY <2>2
<1>3. Repeat(s, 1) = [i \in 1 .. Len(s) |-> s[i]] BY <1>1, <1>2 DEF Repeat
<1> QED BY <1>3

(* Only the root has no parent.                                             *)
LEMMA OnlyTheRoot ==
  ASSUME Tabled, NEW a \in DOMAIN registry
  PROVE  a = OBJECT <=> registry[a].parent = NoSym
<1>1. /\ DOMAIN registry = {OBJECT} \cup Classes \cup Ifaces /\ NoSym \notin DOMAIN registry
      /\ registry[OBJECT].parent = NoSym /\ \A k \in Classes : registry[k].parent \in Classes \cup {OBJECT}
  BY TabledIs
<1>2. \A i \in Ifaces : registry[i].parent = OBJECT BY DEF Tabled, Registered
<1> QED BY <1>1, <1>2

(* Two logs that follow the definition along a chain are one.               *)
LEMMA LogsAgree ==
  ASSUME Tabled, NEW turns, NEW k \in DOMAIN registry, NEW f, NEW g, SolvesOn(turns, f, Chain(registry, k)), SolvesOn(turns, g, Chain(registry, k))
  PROVE  \A a \in Chain(registry, k) : f[a] = g[a]
<1> DEFINE S == {a \in DOMAIN registry : a \in Chain(registry, k) => f[a] = g[a]}
<1>1. Tree(registry) /\ registry[OBJECT].parent = NoSym BY TabledIs
<1>2. ASSUME NEW a \in DOMAIN registry, registry[a].parent \in (S \cap DOMAIN registry) \cup {NoSym}
      PROVE  a \in S
  <2> SUFFICES ASSUME a \in Chain(registry, k) PROVE f[a] = g[a] OBVIOUS
  <2>1. f[a] = ByParent(turns, f, a) /\ g[a] = ByParent(turns, g, a) BY DEF SolvesOn
  <2>2. CASE a = OBJECT BY <2>1, <2>2 DEF ByParent
  <2>3. CASE a # OBJECT
    <3>1. registry[a].parent # NoSym /\ registry[a].parent \in S BY <1>2, <2>3, OnlyTheRoot
    <3>2. registry[a].parent \in Chain(registry, a) /\ Chain(registry, a) \subseteq Chain(registry, k)
      <4>1. registry[a].parent \in DOMAIN registry BY <3>1
      <4> QED BY <1>1, <3>1, <4>1, ChainIs
    <3>3. f[registry[a].parent] = g[registry[a].parent] BY <3>1, <3>2
    <3> QED BY <2>1, <2>3, <3>3 DEF ByParent
  <2> QED BY <2>2, <2>3
<1>3. DOMAIN registry \subseteq S
  <2> HIDE DEF S
  <2> QED BY <1>1, <1>2, ChainInduction
<1>4. Chain(registry, k) \subseteq DOMAIN registry BY <1>1, ChainIs
<1> QED BY <1>3, <1>4

(* There is one along every chain ...                                       *)
LEMMA LogOnChain ==
  ASSUME Tabled, NEW turns, NEW k \in DOMAIN registry
  PROVE  \E f : SolvesOn(turns, f, Chain(registry, k))
<1> DEFINE S == {a \in DOMAIN registry : \E f : SolvesOn(turns, f, Chain(registry, a))}
<1>1. Tree(registry) /\ registry[OBJECT].parent = NoSym BY TabledIs
<1>2. ASSUME NEW a \in DOMAIN registry, registry[a].parent \in (S \cap DOMAIN registry) \cup {NoSym}
      PROVE  a \in S
  <2> DEFINE up == registry[a].parent
  <2>1. CASE up = NoSym
    <3>1. a = OBJECT BY <2>1, OnlyTheRoot
    <3>2. Chain(registry, a) = {a} BY <1>1, <2>1, ChainIs
    <3> DEFINE f == [c \in {a} |-> <<>>]
    <3>3. SolvesOn(turns, f, Chain(registry, a)) BY <3>1, <3>2 DEF SolvesOn, ByParent
    <3> HIDE DEF f
    <3> QED BY <3>3
  <2>2. CASE up # NoSym
    <3>1. up \in S /\ up \in DOMAIN registry BY <1>2, <2>2
    <3>2. PICK f : SolvesOn(turns, f, Chain(registry, up)) BY <3>1
    <3>3. Chain(registry, a) = {a} \cup Chain(registry, up) /\ up \in Chain(registry, up)
          /\ a \notin Chain(registry, up)
      BY <1>1, <2>2, <3>1, ChainIs, NotAbove
    <3>4. a # OBJECT BY <1>1, <2>2
    <3> DEFINE g == [c \in Chain(registry, a) |-> IF c = a THEN Constructed(turns, f[up], a) ELSE f[c]]
    <3>5. g[a] = Constructed(turns, f[up], a) /\ \A c \in Chain(registry, up) : g[c] = f[c] BY <3>3
    <3> HIDE DEF g, up
    <3>6. g[a] = ByParent(turns, g, a)
      <4>1. g[up] = f[up] BY <3>3, <3>5
      <4> QED BY <3>4, <3>5, <4>1 DEF ByParent, up
    <3>7. ASSUME NEW c \in Chain(registry, up) PROVE g[c] = ByParent(turns, g, c)
      <4>1. f[c] = ByParent(turns, f, c) /\ g[c] = f[c] BY <3>2, <3>5 DEF SolvesOn
      <4>2. CASE c = OBJECT BY <4>1, <4>2 DEF ByParent
      <4>3. CASE c # OBJECT
        <5>1. c \in DOMAIN registry BY <1>1, <3>1, ChainIs
        <5>2. registry[c].parent # NoSym /\ registry[c].parent \in DOMAIN registry
          BY <1>1, <4>3, <5>1, OnlyTheRoot DEF Tree
        <5>3. registry[c].parent \in Chain(registry, c) BY <1>1, <5>1, <5>2, ChainIs
        <5>4. registry[c].parent \in Chain(registry, up) BY <1>1, <3>1, <5>3, ChainIs
        <5>5. g[registry[c].parent] = f[registry[c].parent] BY <3>5, <5>4
        <5> QED BY <4>1, <4>3, <5>5 DEF ByParent
      <4> QED BY <4>2, <4>3
    <3>8. SolvesOn(turns, g, Chain(registry, a)) BY <3>3, <3>6, <3>7 DEF SolvesOn
    <3> QED BY <3>8
  <2> QED BY <2>1, <2>2
<1>3. DOMAIN registry \subseteq S
  <2> HIDE DEF S
  <2> QED BY <1>1, <1>2, ChainInduction
<1> QED BY <1>3

(* ... and so the definition by recursion along the chain defines one.      *)
LEMMA ConstructIs ==
  ASSUME Tabled, NEW turns
  PROVE  /\ Construct(program, registry, OBJECT, turns) = <<>>
         /\ \A k \in Classes : Construct(program, registry, k, turns)
                                 = Constructed(turns, Construct(program, registry, registry[k].parent, turns), k)
<1> DEFINE On(a) == CHOOSE f : SolvesOn(turns, f, Chain(registry, a))
           log   == [a \in DOMAIN registry |-> On(a)[a]]
           Is(l) == l = [a \in DOMAIN registry |-> ByParent(turns, l, a)]
           best  == CHOOSE l : Is(l)
<1>1. Tree(registry) /\ registry[OBJECT].parent = NoSym BY TabledIs
<1>2. \A a \in DOMAIN registry : SolvesOn(turns, On(a), Chain(registry, a)) BY LogOnChain
<1> HIDE DEF On
<1>3. ASSUME NEW a \in DOMAIN registry PROVE log[a] = ByParent(turns, log, a)
  <2>1. a \in Chain(registry, a) BY <1>1, ChainIs
  <2>2. log[a] = ByParent(turns, On(a), a) BY <1>2, <2>1 DEF SolvesOn
  <2>3. CASE a = OBJECT BY <2>2, <2>3 DEF ByParent
  <2>4. CASE a # OBJECT
    <3> DEFINE up == registry[a].parent
    <3>1. up # NoSym /\ up \in DOMAIN registry BY <1>1, <2>4, OnlyTheRoot DEF Tree
    <3>2. up \in Chain(registry, up) /\ Chain(registry, up) \subseteq Chain(registry, a) BY <1>1, <3>1, ChainIs
    <3>3. SolvesOn(turns, On(a), Chain(registry, up)) BY <1>2, <3>2 DEF SolvesOn
    <3>4. SolvesOn(turns, On(up), Chain(registry, up)) BY <1>2, <3>1
    <3> HIDE DEF up
    <3>5. On(a)[up] = On(up)[up] BY <3>1, <3>2, <3>3, <3>4, LogsAgree
    <3>6. log[up] = On(up)[up] BY <3>1
    <3> HIDE DEF log
    <3> QED BY <2>2, <2>4, <3>5, <3>6 DEF ByParent, up
  <2> QED BY <2>3, <2>4
<1>4. Is(log)
  <2>1. log = [a \in DOMAIN registry |-> log[a]] OBVIOUS
  <2> HIDE DEF log
  <2> QED BY <1>3, <2>1
<1>5. Is(best)
  <2> HIDE DEF log
  <2> QED BY <1>4
<1>6. \A k \in DOMAIN registry : Construct(program, registry, k, turns) = best[k]
  BY DEF Construct, ByParent, Constructed
<1> HIDE DEF best
<1>7. \A a \in DOMAIN registry : best[a] = ByParent(turns, best, a) BY <1>5
<1>8. DOMAIN registry = {OBJECT} \cup Classes \cup Ifaces /\ OBJECT \notin Classes
      /\ \A k \in Classes : registry[k].parent \in Classes \cup {OBJECT}
  BY TabledIs
<1> QED BY <1>6, <1>7, <1>8 DEF ByParent


(* What a class has to run when it is constructed.                          *)
InitOf(a, n) == <<"init", a, n>>
BodyOf(a)    == <<"body", a>>
Marks        == {InitOf(a, n) : a \in Classes, n \in QNames} \cup {BodyOf(a) : a \in Classes}
OwnClasses(k) == Chain(registry, k) \ {OBJECT}
InitsOf(k)   == {InitOf(k, f.name) : f \in Fields(k)}
ToRun(as)    == (UNION {InitsOf(a) : a \in as}) \cup {BodyOf(a) : a \in as}

Complete(turns, k) ==
  LET log == Construct(program, registry, k, turns)
      as  == OwnClasses(k)
  IN  /\ log \in Seq(Marks) /\ Range(log) = ToRun(as) /\ Once(log)
      /\ \A a \in as : \A n : Before(log, InitOf(a, n), BodyOf(a))
      /\ \A a \in as : \A b \in OwnClasses(a) : a # b => Before(log, BodyOf(b), BodyOf(a))

(* The marks of initializers and bodies tell them apart. *)
LEMMA MarksDiffer ==
  /\ \A a, b, n : InitOf(a, n) # BodyOf(b)
  /\ \A a, b, n, o : InitOf(a, n) = InitOf(b, o) => a = b /\ n = o
  /\ \A a, b : BodyOf(a) = BodyOf(b) => a = b
<1>1. \A a, b, n : InitOf(a, n)[1] = "init" /\ BodyOf(b)[1] = "body" BY DEF InitOf, BodyOf
<1>2. \A a, n : InitOf(a, n)[2] = a /\ InitOf(a, n)[3] = n /\ BodyOf(a)[2] = a BY DEF InitOf, BodyOf
<1>3. \A a, b, n : InitOf(a, n) # BodyOf(b)
  <2>1. "init" # "body" OBVIOUS
  <2> QED BY <1>1, <2>1
<1>4. \A a, b, n, o : InitOf(a, n) = InitOf(b, o) => a = b /\ n = o
  BY DEF InitOf
<1>5. \A a, b : BodyOf(a) = BodyOf(b) => a = b
  BY DEF BodyOf
<1> QED BY <1>3, <1>4, <1>5, Zenon

(* What a construction has to run: the initializers and the body of every class of the chain. *)
LEMMA ToRunIs ==
  ASSUME NEW as, NEW x
  PROVE  x \in ToRun(as) <=> \E a \in as : x \in InitsOf(a) \/ x = BodyOf(a)
BY DEF ToRun

(* The initializers of a class: one of each field.                          *)
LEMMA InitializersAre ==
  ASSUME Tabled, NEW k \in Classes
  PROVE  LET own == Initializers(registry, k)
         IN  own \in Seq(Marks) /\ Range(own) = InitsOf(k) /\ Once(own)
<1> DEFINE fs  == registry[k].fields
           own == Initializers(registry, k)
<1>1. fs \in Seq(FieldInfos)
  <2>1. k \in DOMAIN registry /\ registry[k] \in Infos BY TabledIs
  <2> QED BY <2>1 DEF Infos
<1>2. \A i, h \in 1 .. Len(fs) : fs[i].name = fs[h].name => i = h
  <2>1. Assembled(program, registry, k, registry[k], Len(program[k].members)) BY TabledIs
  <2> QED BY <2>1 DEF Assembled, FieldsLaid
<1>3. Fields(k) = Range(fs) BY DEF Fields
<1> HIDE DEF fs
<1>4. own = [i \in 1 .. Len(fs) |-> InitOf(k, fs[i].name)] BY <1>1 DEF Initializers, InitOf, fs
<1>5. \A i \in 1 .. Len(fs) : InitOf(k, fs[i].name) \in Marks
  <2>1. \A i \in 1 .. Len(fs) : fs[i].name \in QNames
    <3>1. \A f \in FieldInfos : f.name \in QNames BY DEF FieldInfos
    <3>2. \A i \in 1 .. Len(fs) : fs[i] \in FieldInfos BY <1>1
    <3> QED BY <3>1, <3>2
  <2> QED BY <2>1 DEF Marks
<1> HIDE DEF own
<1>6. own \in Seq(Marks) /\ Len(own) = Len(fs) /\ \A i \in 1 .. Len(fs) : own[i] = InitOf(k, fs[i].name)
  <2>1. Len(fs) \in Nat BY <1>1
  <2> QED BY <1>4, <1>5, <2>1
<1>7. Range(own) = InitsOf(k)
  <2>1. DOMAIN own = 1 .. Len(fs) /\ DOMAIN fs = 1 .. Len(fs) BY <1>1, <1>4
  <2> QED BY <1>3, <1>6, <2>1 DEF Range, InitsOf
<1>8. Once(own) BY <1>2, <1>6, MarksDiffer DEF Once
<1> QED BY <1>6, <1>7, <1>8 DEF own

(* What a construction adds to that of the base classes.                    *)
LEMMA ConstructedIs ==
  ASSUME Tabled, NEW turns, NEW k \in Classes, Complete(turns, registry[k].parent), turns[k] = 1
  PROVE  Complete(turns, k)
<1> DEFINE up   == registry[k].parent
           base == Construct(program, registry, up, turns)
           own  == Initializers(registry, k)
           mid  == IF tast_has_super(program, registry, k) THEN own \o base ELSE base \o own
           end  == <<BodyOf(k)>>
           log  == Construct(program, registry, k, turns)
           as   == OwnClasses(up)
<1>0. Repeat(base, 1) = base
  <2>1. base \in Seq(Marks) BY DEF Complete
  <2> HIDE DEF base
  <2> QED BY <2>1, RepeatOnce
<1>1. log = mid \o end BY <1>0, ConstructIs DEF Constructed, BodyOf
<1>2. /\ OwnClasses(k) = {k} \cup as /\ k \notin as /\ as \subseteq Classes
      /\ \A a \in as : OwnClasses(a) \subseteq as
  <2>1. /\ up \in Classes \cup {OBJECT} /\ OBJECT \notin Classes
        /\ Tree(registry) /\ up \in DOMAIN registry
    BY TabledIs
  <2>2. Chain(registry, k) = {k} \cup Chain(registry, up) /\ k \notin Chain(registry, up)
        /\ Chain(registry, up) \subseteq Classes \cup {OBJECT}
    BY <2>1, ClassChainIs
  <2>3. \A a \in Chain(registry, up) : Chain(registry, a) \subseteq Chain(registry, up) BY <2>1, ChainIs
  <2> QED BY <2>1, <2>2, <2>3 DEF OwnClasses
<1>3. own \in Seq(Marks) /\ Range(own) = InitsOf(k) /\ Once(own) BY InitializersAre
<1>4. /\ base \in Seq(Marks) /\ Range(base) = ToRun(as) /\ Once(base)
      /\ \A a \in as : \A n : Before(base, InitOf(a, n), BodyOf(a))
      /\ \A a \in as : \A b \in OwnClasses(a) : a # b => Before(base, BodyOf(b), BodyOf(a))
  BY DEF Complete
<1>5. end \in Seq(Marks) /\ Range(end) = {BodyOf(k)} /\ Once(end)
  <2>1. BodyOf(k) \in Marks BY DEF Marks
  <2>2. end \in Seq(Marks) /\ Len(end) = 1 /\ end[1] = BodyOf(k) /\ DOMAIN end = 1 .. 1 BY <2>1
  <2> HIDE DEF end
  <2> QED BY <2>2 DEF Range, Once
<1>6. \A a, n : InitOf(a, n) \in Range(own) => a = k BY <1>3, MarksDiffer DEF InitsOf
<1>7. \A a : BodyOf(a) \notin Range(own) BY <1>3, MarksDiffer DEF InitsOf
<1>8. \A n : InitOf(k, n) \notin Range(base)
  <2>1. \A n : InitOf(k, n) \notin ToRun(as)
    <3>1. \A n : \A a \in as : InitOf(k, n) \notin InitsOf(a) BY <1>2, MarksDiffer DEF InitsOf
    <3>2. \A n, a : InitOf(k, n) # BodyOf(a) BY MarksDiffer
    <3> QED BY <3>1, <3>2, ToRunIs
  <2> QED BY <1>4, <2>1
<1>9. BodyOf(k) \notin Range(base)
  <2>1. BodyOf(k) \notin ToRun(as)
    <3>1. \A a \in as : BodyOf(k) \notin InitsOf(a) BY MarksDiffer DEF InitsOf
    <3>2. \A a \in as : BodyOf(k) # BodyOf(a) BY <1>2, MarksDiffer
    <3> QED BY <3>1, <3>2, ToRunIs
  <2> QED BY <1>4, <2>1
<1>10. Range(own) \cap Range(base) = {} BY <1>3, <1>8 DEF InitsOf
<1> HIDE DEF up, base, own, end, log, as
<1>11. mid \in Seq(Marks) /\ Range(mid) = Range(own) \cup Range(base) /\ Once(mid)
  <2>1. CASE tast_has_super(program, registry, k)
    <3>1. mid = own \o base BY <2>1
    <3>2. own \o base \in Seq(Marks) /\ Range(own \o base) = Range(own) \cup Range(base)
      <4>1. own \in Seq(Marks) /\ base \in Seq(Marks) BY <1>3, <1>4, Zenon
      <4> QED BY <4>1, RangeConcat, Zenon
    <3>3. Once(own \o base) BY <1>3, <1>4, <1>10, OnceConcat
    <3> QED BY <3>1, <3>2, <3>3, Zenon
  <2>2. CASE ~ tast_has_super(program, registry, k)
    <3>1. mid = base \o own BY <2>2
    <3>2. base \o own \in Seq(Marks) /\ Range(base \o own) = Range(base) \cup Range(own)
      <4>1. own \in Seq(Marks) /\ base \in Seq(Marks) BY <1>3, <1>4, Zenon
      <4> QED BY <4>1, RangeConcat, Zenon
    <3>3. Range(base) \cup Range(own) = Range(own) \cup Range(base) /\ Range(base) \cap Range(own) = {} BY <1>10
    <3>4. Once(base \o own) BY <1>3, <1>4, <3>3, OnceConcat
    <3> QED BY <3>1, <3>2, <3>3, <3>4, Zenon
  <2> QED BY <2>1, <2>2
<1>12. ASSUME NEW x, NEW y, Before(base, x, y), x \notin Range(own), y \notin Range(own)
       PROVE  Before(mid, x, y)
  <2>1. Before(own, x, y) BY <1>3, <1>12, BeforeAbsent
  <2>2. CASE tast_has_super(program, registry, k)
    <3>1. mid = own \o base BY <2>2
    <3> QED BY <1>3, <1>4, <1>12, <2>1, <3>1, BeforeConcat
  <2>3. CASE ~ tast_has_super(program, registry, k)
    <3>1. mid = base \o own BY <2>3
    <3> QED BY <1>3, <1>4, <1>12, <2>1, <3>1, BeforeConcat
  <2> QED BY <2>2, <2>3
<1>13. ASSUME NEW a \in as, NEW n PROVE Before(mid, InitOf(a, n), BodyOf(a))
  <2>1. InitOf(a, n) \notin Range(own) /\ BodyOf(a) \notin Range(own) BY <1>2, <1>6, <1>7
  <2> QED BY <1>4, <1>12, <2>1
<1>14. ASSUME NEW a \in as, NEW b \in OwnClasses(a), a # b PROVE Before(mid, BodyOf(b), BodyOf(a))
  <2>1. BodyOf(b) \notin Range(own) /\ BodyOf(a) \notin Range(own) BY <1>7
  <2> QED BY <1>4, <1>12, <1>14, <2>1
<1>15. BodyOf(k) \notin Range(mid) BY <1>7, <1>9, <1>11
<1> HIDE DEF mid
<1>16. ASSUME NEW x, NEW y, Before(mid, x, y), x # BodyOf(k) PROVE Before(log, x, y)
  <2>1. x \notin Range(end) BY <1>5, <1>16
  <2>2. Before(end, x, y) BY <1>5, <2>1, BeforeAbsent
  <2> QED BY <1>1, <1>5, <1>11, <1>16, <2>1, <2>2, BeforeConcat
<1>17. ASSUME NEW x, x # BodyOf(k) PROVE Before(log, x, BodyOf(k))
  <2>1. Before(mid, x, BodyOf(k)) BY <1>11, <1>15, BeforeAbsent
  <2> QED BY <1>16, <1>17, <2>1
<1>18. log \in Seq(Marks) /\ Range(log) = Range(mid) \cup {BodyOf(k)} /\ Once(log)
  <2>1. Range(mid) \cap Range(end) = {} BY <1>5, <1>15
  <2> QED BY <1>1, <1>5, <1>11, <2>1, RangeConcat, OnceConcat
<1>19. Range(log) = ToRun({k} \cup as)
  <2>1. ToRun({k} \cup as) = InitsOf(k) \cup ToRun(as) \cup {BodyOf(k)}
    <3>1. \A x : x \in ToRun({k} \cup as) <=> x \in InitsOf(k) \/ x = BodyOf(k) \/ x \in ToRun(as)
      <4> SUFFICES ASSUME NEW x
                   PROVE  x \in ToRun({k} \cup as) <=> x \in InitsOf(k) \/ x = BodyOf(k) \/ x \in ToRun(as)
        OBVIOUS
      <4>1. x \in ToRun({k} \cup as) <=> \E a \in {k} \cup as : x \in InitsOf(a) \/ x = BodyOf(a) BY ToRunIs
      <4>2. x \in ToRun(as) <=> \E a \in as : x \in InitsOf(a) \/ x = BodyOf(a) BY ToRunIs
      <4> QED BY <4>1, <4>2
    <3> QED BY <3>1
  <2> QED BY <1>3, <1>4, <1>11, <1>18, <2>1
<1>20. ASSUME NEW a \in {k} \cup as, NEW n PROVE Before(log, InitOf(a, n), BodyOf(a))
  <2>1. InitOf(a, n) # BodyOf(k) BY MarksDiffer
  <2>2. CASE a = k BY <1>17, <2>1, <2>2
  <2>3. CASE a \in as BY <1>13, <1>16, <2>1, <2>3
  <2> QED BY <2>2, <2>3
<1>21. ASSUME NEW a \in {k} \cup as, NEW b \in OwnClasses(a), a # b PROVE Before(log, BodyOf(b), BodyOf(a))
  <2>1. BodyOf(b) # BodyOf(k)
    <3>1. b # k BY <1>2, <1>21
    <3> QED BY <3>1, MarksDiffer
  <2>2. CASE a = k BY <1>17, <2>1, <2>2
  <2>3. CASE a \in as BY <1>14, <1>16, <1>21, <2>1, <2>3
  <2> QED BY <2>2, <2>3
<1> QED BY <1>2, <1>18, <1>19, <1>20, <1>21 DEF Complete, log

(* Where every super(...) runs once, a class is constructed completely.     *)
LEMMA AllComplete ==
  ASSUME Tabled, NEW turns, NEW k \in Classes, \A a \in OwnClasses(k) : turns[a] = 1
  PROVE  Complete(turns, k)
<1> DEFINE Calls(c) == \A a \in OwnClasses(c) : turns[a] = 1
           S == {a \in Classes \cup {OBJECT} : Calls(a) => Complete(turns, a)}
<1>1. OBJECT \in S
  <2>1. Construct(program, registry, OBJECT, turns) = <<>> BY ConstructIs
  <2>2. OwnClasses(OBJECT) = {} BY ClassChainIs DEF OwnClasses
  <2>3. <<>> \in Seq(Marks) /\ Range(<<>>) = {} /\ Once(<<>>) BY DEF Range, Once
  <2>4. ToRun({}) = {} BY DEF ToRun
  <2> QED BY <2>1, <2>2, <2>3, <2>4 DEF Complete
<1>2. ASSUME NEW a \in Classes, registry[a].parent \in S PROVE a \in S
  <2> SUFFICES ASSUME Calls(a) PROVE Complete(turns, a) OBVIOUS
  <2> DEFINE up == registry[a].parent
  <2>1. OwnClasses(a) = {a} \cup OwnClasses(up)
    <3>1. up \in Classes \cup {OBJECT} /\ OBJECT \notin Classes /\ up \in DOMAIN registry BY TabledIs
    <3>2. Chain(registry, a) = {a} \cup Chain(registry, up) BY <3>1, ClassChainIs
    <3> QED BY <3>1, <3>2 DEF OwnClasses
  <2>2. turns[a] = 1 /\ Calls(up) BY <2>1
  <2>3. Complete(turns, up) BY <1>2, <2>2
  <2> QED BY <2>2, <2>3, ConstructedIs
<1>3. Classes \subseteq S
  <2> HIDE DEF S
  <2> QED BY <1>1, <1>2, ClassInduction
<1> QED BY <1>3


(* The constructor of a program without rest parameters has none.           *)
NoRestParameters == \A p \in Programs : \A k \in DOMAIN p : \A j \in DOMAIN p[k].members : ~ p[k].members[j].rest

(* Without rest parameters no constructor is variadic. *)
LEMMA NotVariadic ==
  ASSUME NoRestParameters, Tabled, NEW k \in Classes
  PROVE  registry[k].ctor_sig \in Sigs /\ ~ registry[k].ctor_sig.variadic
<1>1. /\ k \in DOMAIN registry /\ registry[k] \in Infos /\ k \in DOMAIN program
      /\ Assembled(program, registry, k, registry[k], Len(program[k].members))
      /\ program \in Programs /\ program \in Seq(Declarations)
  BY TabledIs DEF Tabled
<1>2. registry[k].ctor_sig \in Sigs BY <1>1 DEF Infos
<1>3. registry[k].ctor_sig.variadic => \E l \in 1 .. Len(program[k].members) : program[k].members[l].rest
  BY <1>1 DEF Assembled, FunctionsNamed
<1>4. DOMAIN program[k].members = 1 .. Len(program[k].members)
  <2>1. program[k].members \in Seq(Members) BY <1>1, DeclarationIs
  <2> QED BY <2>1
<1> QED BY <1>1, <1>2, <1>3, <1>4 DEF NoRestParameters

(* The fields of a class are those it declares.                             *)
DeclaredInits(a) ==
  {<<"init", a, n>> : n \in {member_name(m) : m \in {m \in Range(program[a].members) :
                                                        m.m = "field" /\ ~m.static}}}

(* The initializers the declarations of a class ask for are those the lowering collects. *)
LEMMA InitsAreDeclared ==
  ASSUME Tabled, NEW a \in Classes
  PROVE  DeclaredInits(a) = InitsOf(a)
<1> DEFINE ms == program[a].members
           fs == {m \in Range(ms) : m.m = "field" /\ ~m.static}
<1>1. ms \in Seq(Members) /\ DOMAIN ms = 1 .. Len(ms)
  <2>1. a \in DOMAIN program /\ program \in Seq(Declarations) BY TabledIs
  <2>2. ms \in Seq(Members) BY <2>1, DeclarationIs
  <2> QED BY <2>2
<1>2. ASSUME NEW n PROVE (\E m \in fs : member_name(m) = n) <=> Declared(a, n, "field") # {}
  <2>1. ASSUME NEW m \in fs, member_name(m) = n PROVE Declared(a, n, "field") # {}
    <3>1. PICK j \in DOMAIN ms : ms[j] = m BY DEF Range
    <3>2. ms[j].m = "field" /\ ~ms[j].static /\ member_name(ms[j]) = n /\ ~ IsCtor(program[a], ms[j])
      BY <2>1, <3>1 DEF IsCtor
    <3>3. j \in Declared(a, n, "field") BY <3>1, <3>2 DEF Declared
    <3> QED BY <3>3
  <2>2. ASSUME NEW j \in Declared(a, n, "field") PROVE \E m \in fs : member_name(m) = n
    <3>1. j \in DOMAIN ms /\ ms[j].m = "field" /\ ~ms[j].static /\ member_name(ms[j]) = n BY <2>2 DEF Declared
    <3>2. ms[j] \in fs BY <3>1 DEF Range
    <3> QED BY <3>1, <3>2
  <2> QED BY <2>1, <2>2
<1>3. ASSUME NEW n PROVE Declared(a, n, "field") # {} <=> \E f \in Fields(a) : f.name = n
  <2>1. \A f \in Fields(a) : Declared(a, f.name, "field") # {} BY ClassFieldsAre
  <2>2. Declared(a, n, "field") # {} => \E f \in Fields(a) : f.name = n BY ClassFieldsAre
  <2> QED BY <2>1, <2>2
<1> HIDE DEF fs
<1>4. \A x : x \in DeclaredInits(a) <=> \E m \in fs : x = InitOf(a, member_name(m)) BY DEF DeclaredInits, InitOf, fs
<1>5. \A x : x \in InitsOf(a) <=> \E f \in Fields(a) : x = InitOf(a, f.name) BY DEF InitsOf
<1>6. \A m \in fs : \E f \in Fields(a) : f.name = member_name(m) BY <1>2, <1>3
<1>7. \A f \in Fields(a) : \E m \in fs : member_name(m) = f.name BY <1>2, <1>3
<1>8. \A x : x \in DeclaredInits(a) => x \in InitsOf(a)
  <2> SUFFICES ASSUME NEW x \in DeclaredInits(a) PROVE x \in InitsOf(a) OBVIOUS
  <2>1. PICK m \in fs : x = InitOf(a, member_name(m)) BY <1>4
  <2>2. PICK f \in Fields(a) : f.name = member_name(m) BY <1>6
  <2> QED BY <1>5, <2>1, <2>2
<1>9. \A x : x \in InitsOf(a) => x \in DeclaredInits(a)
  <2> SUFFICES ASSUME NEW x \in InitsOf(a) PROVE x \in DeclaredInits(a) OBVIOUS
  <2>1. PICK f \in Fields(a) : x = InitOf(a, f.name) BY <1>5
  <2>2. PICK m \in fs : member_name(m) = f.name BY <1>7
  <2> QED BY <1>4, <2>1, <2>2
<1> QED BY <1>8, <1>9

ConstructedRight(e) ==
  e.op = "new" /\ (\A a \in Ancestors(e.recv) : e.turns[a] = 1) =>
    /\ Range(e.log) = (UNION {DeclaredInits(a) : a \in Ancestors(e.recv)}) \cup {<<"body", a>> : a \in Ancestors(e.recv)}
    /\ \A i, j \in DOMAIN e.log : e.log[i] = e.log[j] => i = j
    /\ \A i, j \in DOMAIN e.log :
          /\ e.log[i][1] = "init" /\ e.log[j] = <<"body", e.log[i][2]>> => i < j
          /\ e.log[i][1] = "body" /\ e.log[j][1] = "body" /\ e.log[j][2] \in Ancestors(e.log[i][2])
                => j <= i
    /\ e.passed = e.takes

(* What a new instance has run is what its classes declare.                 *)
LEMMA ConstructionDone ==
  ASSUME NoRestParameters, Tabled, new_object
  PROVE  ConstructedRight(event')
<1>1. PICK k \in Concrete, given \in 0 .. 2, turns \in Turns :
           LET sig == registry[k].ctor_sig
           IN  /\ sig.required <= given /\ (sig.variadic \/ given <= sig.params)
               /\ Running([op |-> "new", recv |-> k, turns |-> turns,
                           log |-> Construct(program, registry, k, turns),
                           passed |-> fill_method_defaults(sig, given), takes |-> ParamCount(sig)])
  BY DEF new_object
<1> DEFINE log == Construct(program, registry, k, turns)
           sig == registry[k].ctor_sig
<1>2. k \in Classes BY <1>1 DEF Concrete, Classes
<1>3. /\ event'.recv = k /\ event'.turns = turns /\ event'.log = log
      /\ event'.passed = fill_method_defaults(sig, given) /\ event'.takes = ParamCount(sig)
      /\ sig.variadic \/ given <= sig.params
  BY <1>1 DEF Running
<1>4. event'.passed = event'.takes
  <2>1. sig \in Sigs /\ ~ sig.variadic BY <1>2, NotVariadic
  <2>2. sig.params \in Nat /\ given \in Nat BY <2>1 DEF Sigs
  <2> HIDE DEF sig
  <2> QED BY <1>3, <2>1, <2>2 DEF fill_method_defaults, ParamCount
<1>6. \A a \in Classes : OwnClasses(a) = Ancestors(a) /\ Ancestors(a) \subseteq Classes
  <2>1. OBJECT \notin Classes BY TabledIs
  <2> QED BY <2>1, ClassChainIs DEF OwnClasses
<1> SUFFICES ASSUME \A a \in Ancestors(k) : turns[a] = 1 PROVE ConstructedRight(event')
  BY <1>3 DEF ConstructedRight
<1>5. /\ log \in Seq(Marks) /\ Range(log) = ToRun(OwnClasses(k)) /\ Once(log)
      /\ \A a \in OwnClasses(k) : \A n : Before(log, InitOf(a, n), BodyOf(a))
      /\ \A a \in OwnClasses(k) : \A b \in OwnClasses(a) : a # b => Before(log, BodyOf(b), BodyOf(a))
  BY <1>2, <1>6, AllComplete DEF Complete
<1>7. DOMAIN log = 1 .. Len(log) /\ \A i \in DOMAIN log : log[i] \in Range(log) BY <1>5 DEF Range
<1> HIDE DEF log
<1> DEFINE as == Ancestors(k)
<1>8. as \subseteq Classes /\ OwnClasses(k) = as BY <1>2, <1>6
<1>9. Range(log) = (UNION {DeclaredInits(a) : a \in as}) \cup {<<"body", a>> : a \in as}
  <2>1. \A a \in as : DeclaredInits(a) = InitsOf(a) BY <1>8, InitsAreDeclared
  <2>2. ToRun(as) = (UNION {DeclaredInits(a) : a \in as}) \cup {<<"body", a>> : a \in as}
    <3> HIDE DEF as
    <3> QED BY <2>1 DEF ToRun, BodyOf
  <2> QED BY <1>5, <1>8, <2>2
<1> HIDE DEF as
<1>10. ASSUME NEW i \in DOMAIN log
       PROVE  \/ \E a \in as, n \in QNames : log[i] = InitOf(a, n)
              \/ \E a \in as : log[i] = BodyOf(a)
  <2>0. log[i] \in ToRun(as) BY <1>5, <1>7, <1>8
  <2>1. PICK a \in as : log[i] \in InitsOf(a) \/ log[i] = BodyOf(a) BY <2>0, ToRunIs
  <2>2. CASE log[i] \in InitsOf(a)
    <3>1. PICK f \in Fields(a) : log[i] = InitOf(a, f.name) BY <2>2 DEF InitsOf
    <3>2. log[i] \in Marks BY <1>5, <1>7
    <3>3. \A b : log[i] # BodyOf(b) BY <3>1, MarksDiffer
    <3>4. PICK b \in Classes, n \in QNames : log[i] = InitOf(b, n) BY <3>2, <3>3 DEF Marks
    <3>5. b = a BY <3>1, <3>4, MarksDiffer
    <3> QED BY <3>4, <3>5
  <2> QED BY <2>1, <2>2
<1>11. \A a, n : InitOf(a, n)[1] = "init" /\ InitOf(a, n)[2] = a /\ BodyOf(a)[1] = "body" /\ BodyOf(a)[2] = a
  BY DEF InitOf, BodyOf
<1>12. ASSUME NEW i \in DOMAIN log, NEW j \in DOMAIN log, log[i][1] = "init", log[j] = BodyOf(log[i][2])
       PROVE  i < j
  <2>1. "init" # "body" OBVIOUS
  <2>2. PICK a \in as, n \in QNames : log[i] = InitOf(a, n) BY <1>10, <1>11, <1>12, <2>1
  <2>3. log[j] = BodyOf(a) BY <1>11, <1>12, <2>2
  <2>4. Before(log, InitOf(a, n), BodyOf(a)) BY <1>5, <1>8
  <2> QED BY <1>7, <2>2, <2>3, <2>4 DEF Before
<1>13. ASSUME NEW i \in DOMAIN log, NEW j \in DOMAIN log, log[i][1] = "body", log[j][1] = "body",
              log[j][2] \in Ancestors(log[i][2])
       PROVE  j <= i
  <2>1. "init" # "body" OBVIOUS
  <2>2. PICK a \in as : log[i] = BodyOf(a)
    <3>0. log[i][1] # "init" BY <1>13, <2>1
    <3>1. ~ \E a \in as, n \in QNames : log[i] = InitOf(a, n)
      <4> SUFFICES ASSUME NEW a \in as, NEW n \in QNames, log[i] = InitOf(a, n) PROVE FALSE OBVIOUS
      <4>1. log[i][1] = InitOf(a, n)[1] OBVIOUS
      <4>2. InitOf(a, n)[1] = "init" BY <1>11
      <4> QED BY <3>0, <4>1, <4>2
    <3> QED BY <1>10, <3>1
  <2>3. PICK b \in as : log[j] = BodyOf(b)
    <3>0. log[j][1] # "init" BY <1>13, <2>1
    <3>1. ~ \E b \in as, n \in QNames : log[j] = InitOf(b, n)
      <4> SUFFICES ASSUME NEW b \in as, NEW n \in QNames, log[j] = InitOf(b, n) PROVE FALSE OBVIOUS
      <4>1. log[j][1] = InitOf(b, n)[1] OBVIOUS
      <4>2. InitOf(b, n)[1] = "init" BY <1>11
      <4> QED BY <3>0, <4>1, <4>2
    <3> QED BY <1>10, <3>1
  <2>4. b \in Ancestors(a) BY <1>11, <1>13, <2>2, <2>3
  <2>5. i \in Int /\ j \in Int BY <1>7
  <2>6. CASE a = b
    <3>1. i = j BY <1>5, <1>7, <2>2, <2>3, <2>6 DEF Once
    <3> QED BY <2>5, <3>1
  <2>7. CASE a # b
    <3>1. b \in OwnClasses(a) BY <1>6, <1>8, <2>4
    <3>2. Before(log, BodyOf(b), BodyOf(a)) BY <1>5, <1>8, <2>7, <3>1
    <3>3. j < i BY <1>7, <2>2, <2>3, <3>2 DEF Before
    <3> QED BY <2>5, <3>3
  <2> QED BY <2>6, <2>7
<1>14. \A i, j \in DOMAIN log : log[i] = log[j] => i = j BY <1>5, <1>7 DEF Once
<1>15. \A i, j \in DOMAIN log :
          /\ log[i][1] = "init" /\ log[j] = <<"body", log[i][2]>> => i < j
          /\ log[i][1] = "body" /\ log[j][1] = "body" /\ log[j][2] \in Ancestors(log[i][2]) => j <= i
  BY <1>12, <1>13, Zenon DEF BodyOf
<1> QED BY <1>3, <1>4, <1>9, <1>14, <1>15, Zenon DEF ConstructedRight, as

(* Each operation of the running program, and the passes before.            *)
LEMMA OperationsConstruct ==
  ASSUME NoRestParameters, IInv, Operates
  PROVE  ConstructedRight(event')
<1>0. Tabled BY OperatesIs, RunningIsTabled DEF Ready
<1>1. CASE new_object BY <1>0, <1>1, ConstructionDone
<1>2. CASE AccessMember
  <2>1. event'.op \in {"field", "method"} BY <1>2, AccessOps
  <2> QED BY <2>1 DEF ConstructedRight
<1>3. CASE StaticAccess
  <2>1. event'.op = "static" BY <1>3 DEF StaticAccess, Running
  <2> QED BY <2>1 DEF ConstructedRight
<1>4. CASE CallInterface
  <2>1. event'.op = "iface" BY <1>4 DEF CallInterface, Running
  <2> QED BY <2>1 DEF ConstructedRight
<1>5. CASE super_call
  <2>1. event'.op = "super" BY <1>5 DEF super_call, Running
  <2> QED BY <2>1 DEF ConstructedRight
<1>6. CASE QualifiedAccess
  <2>1. event'.op = "qualified" BY <1>6 DEF QualifiedAccess, Running
  <2> QED BY <2>1 DEF ConstructedRight
<1>7. CASE TypeTest
  <2>1. event'.op = "is" BY <1>7 DEF TypeTest, Running
  <2> QED BY <2>1 DEF ConstructedRight
<1>8. CASE Widen
  <2>1. event'.op = "widen" BY <1>8 DEF Widen, Running
  <2> QED BY <2>1 DEF ConstructedRight
<1> QED BY <1>1, <1>2, <1>3, <1>4, <1>5, <1>6, <1>7, <1>8 DEF Operates

(* In a program without rest parameters, a new instance whose constructors  *)
(* each ran their super(...) once, if they have one, has every field        *)
(* initializer and every constructor of its classes run once, base          *)
(* constructors first and the initializers of a class before its            *)
(* constructor, which gets as many arguments as it has parameters.          *)
THEOREM ConstructionIsThroughout ==
  ASSUME NoRestParameters
  PROVE  Spec => []ConstructionIsComplete
<1>1. ConstructedRight(event) => ConstructionIsComplete
  BY Zenon DEF ConstructedRight, ConstructionIsComplete, CallsSuperOnce, DeclaredInits
<1>2. Init => ConstructedRight(event) BY DEF Init, ConstructedRight
<1>3. ASSUME IInv, ConstructedRight(event), [Next]_vars PROVE ConstructedRight(event)'
  <2>0. ASSUME UNCHANGED <<program, registry>>
        PROVE  ConstructedRight(event)' <=> ConstructedRight(event')
    <3>1. \A a : DeclaredInits(a)' = DeclaredInits(a) BY <2>0 DEF DeclaredInits
    <3>2. \A a : Ancestors(a)' = Ancestors(a) BY <2>0, SameDeclarations
    <3> QED BY <2>0, <3>1, <3>2 DEF ConstructedRight
  <2>1. CASE Operates
    <3>1. ConstructedRight(event') BY <1>3, <2>1, OperationsConstruct
    <3>2. UNCHANGED <<program, registry, image>> BY <2>1, OperatesIs
    <3> QED BY <2>0, <3>1, <3>2
  <2>2. CASE Next /\ ~ Operates
    <3>1. event' = [op |-> "none"] BY <1>3, <2>2, PassesAreSilent
    <3> QED BY <3>1 DEF ConstructedRight
  <2>3. CASE UNCHANGED vars
    <3>1. UNCHANGED <<program, registry>> /\ event' = event BY <2>3 DEF vars
    <3>2. ConstructedRight(event') BY <1>3, <3>1
    <3> QED BY <2>0, <3>1, <3>2
  <2> QED BY <1>3, <2>1, <2>2, <2>3
<1> QED BY <1>1, <1>2, <1>3, TablesAreRightThroughout, PTL DEF Spec
=============================================================================
