---------------------------- MODULE EditorProofs ----------------------------
(***************************************************************************)
(* The theorem of WorkspaceEditor, for any documents, profiles, history    *)
(* entries and panels, and any number of steps: no tab, panel or reference *)
(* leads nowhere.                                                          *)
(***************************************************************************)
EXTENDS WorkspaceEditor, NaturalsInduction, FiniteSetTheorems, WellFoundedInduction, TLAPS

-----------------------------------------------------------------------------
(* Numbers, sets and folds.                                                *)

\* The order of the numbers, as a set of pairs.
Before == {p \in Nat \X Nat : p[1] < p[2]}

\* Some numbers have a smallest one.
LEMMA Smallest ==
  ASSUME NEW S \in SUBSET Nat, S # {}
  PROVE  \E n \in S : \A m \in S : n <= m
<1>1. IsWellFoundedOn(Before, Nat)
  BY NatLessThanWellFounded, Zenon DEF OpToRel, Before
<1>2. PICK n \in S : \A m \in S : <<m, n>> \notin Before
  BY <1>1, WFMin
<1>3. \A m \in S : ~(m < n)
  <2> SUFFICES ASSUME NEW m \in S, m < n PROVE FALSE
    OBVIOUS
  <2>1. <<m, n>> \in Nat \X Nat /\ <<m, n>>[1] = m /\ <<m, n>>[2] = n
    OBVIOUS
  <2>2. <<m, n>> \in Before
    BY <2>1, Zenon DEF Before
  <2> QED
    BY <1>2, <2>2
<1>4. \A m \in S : n <= m
  BY <1>3
<1> QED
  BY <1>4

\* Induction for a set of numbers.
LEMMA AllNumbers ==
  ASSUME NEW T, 0 \in T, \A n \in Nat : n \in T => n + 1 \in T
  PROVE  Nat \subseteq T
<1> DEFINE Bad == Nat \ T
<1> SUFFICES ASSUME Bad # {} PROVE FALSE
  OBVIOUS
<1>1. PICK n \in Bad : \A m \in Bad : n <= m
  BY Smallest
<1>2. n - 1 \in Nat
  OBVIOUS
<1>3. n - 1 \in T
  BY <1>1, <1>2
<1>4. (n - 1) + 1 \in T
  BY <1>2, <1>3
<1> QED
  BY <1>4

\* The smallest of some numbers is one of them.
LEMMA SmallestOf ==
  ASSUME NEW S \in SUBSET Nat, S # {}
  PROVE  Min(S) \in S /\ \A m \in S : Min(S) <= m
  BY Smallest DEF Min

\* And so is the largest, if there is a bound.
LEMMA LargestOf ==
  ASSUME NEW n \in Nat, NEW S \in SUBSET (1..n), S # {}
  PROVE  Max(S) \in S /\ \A m \in S : m <= Max(S)
<1> DEFINE D == {n - m : m \in S}
<1>1. D \in SUBSET Nat /\ D # {}
  <2>1. \A m \in S : m \in 1..n /\ n - m \in Nat
    OBVIOUS
  <2> QED
    BY <2>1
<1>2. PICK k \in D : \A j \in D : k <= j
  BY <1>1, Smallest
<1>3. PICK m \in S : k = n - m
  OBVIOUS
<1>4. \A j \in S : j <= m
  <2> SUFFICES ASSUME NEW j \in S PROVE j <= m
    OBVIOUS
  <2>1. n - j \in D /\ j \in 1..n /\ m \in 1..n
    OBVIOUS
  <2>2. k <= n - j
    BY <1>2, <2>1
  <2> QED
    BY <1>3, <2>1, <2>2
<1>5. \E x \in S : \A y \in S : x >= y
  BY <1>4
<1>6. Max(S) \in S /\ \A y \in S : Max(S) >= y
  BY <1>5 DEF Max
<1> QED
  BY <1>6

\* Induction for the subsets of a finite set.
LEMMA AllSubsets ==
  ASSUME NEW S, IsFiniteSet(S), NEW T, {} \in T,
         \A s \in SUBSET S : s # {} /\ (\A x \in s : s \ {x} \in T) => s \in T
  PROVE  SUBSET S \subseteq T
<1> DEFINE Good == {n \in Nat : \A s \in SUBSET S : Cardinality(s) = n => s \in T}
<1>1. 0 \in Good
  BY FS_Subset, FS_EmptySet
<1>2. ASSUME NEW n \in Nat, n \in Good PROVE n + 1 \in Good
  <2> SUFFICES ASSUME NEW s \in SUBSET S, Cardinality(s) = n + 1 PROVE s \in T
    OBVIOUS
  <2>1. IsFiniteSet(s) /\ s # {}
    BY FS_Subset, FS_EmptySet
  <2>2. ASSUME NEW x \in s PROVE s \ {x} \in T
    <3>1. Cardinality(s \ {x}) = Cardinality(s) - 1
      BY <2>1, FS_RemoveElement
    <3>2. Cardinality(s \ {x}) = n /\ s \ {x} \in SUBSET S
      BY <3>1
    <3> QED
      BY <1>2, <3>2
  <2> QED
    BY <2>1, <2>2
<1>3. Nat \subseteq Good
  <2> HIDE DEF Good
  <2> QED
    BY <1>1, <1>2, AllNumbers
<1> QED
  <2> SUFFICES ASSUME NEW s \in SUBSET S PROVE s \in T
    OBVIOUS
  <2>1. Cardinality(s) \in Nat
    BY FS_Subset, FS_CardinalityType
  <2> QED
    BY <1>3, <2>1

\* The equation of a fold, and that there is a function that satisfies it.
Folds(f, S, base, g, c) ==
  \A s \in SUBSET S : f[s] = IF s = {} THEN base ELSE g[<<c[s], f[s \ {c[s]}]>>]

\* A function that satisfies the equation exists, for any finite set.
LEMMA FoldExists ==
  ASSUME NEW S, IsFiniteSet(S), NEW W, NEW base \in W, NEW g \in [S \X W -> W],
         NEW c, \A s \in SUBSET S : s # {} => c[s] \in s
  PROVE  \E f \in [SUBSET S -> W] : Folds(f, S, base, g, c)
<1> DEFINE Sub(n) == {s \in SUBSET S : Cardinality(s) <= n}
           Good == {n \in Nat : \E f \in [Sub(n) -> W] : \A s \in Sub(n) :
                       f[s] = IF s = {} THEN base ELSE g[<<c[s], f[s \ {c[s]}]>>]}
<1>0. \A s \in SUBSET S : IsFiniteSet(s) /\ Cardinality(s) \in Nat
  BY FS_Subset, FS_CardinalityType
<1>1. 0 \in Good
  <2>1. \A s \in Sub(0) : s = {}
    BY <1>0, FS_EmptySet
  <2>2. [s \in Sub(0) |-> base] \in [Sub(0) -> W]
    OBVIOUS
  <2> QED
    BY <2>1, <2>2
<1>2. ASSUME NEW n \in Nat, n \in Good PROVE n + 1 \in Good
  <2>1. PICK f \in [Sub(n) -> W] : \A s \in Sub(n) :
                       f[s] = IF s = {} THEN base ELSE g[<<c[s], f[s \ {c[s]}]>>]
    BY <1>2
  <2> DEFINE h == [s \in Sub(n + 1) |-> IF s = {} THEN base ELSE g[<<c[s], f[s \ {c[s]}]>>]]
  <2>2. ASSUME NEW s \in Sub(n + 1), s # {}
        PROVE  c[s] \in S /\ s \ {c[s]} \in Sub(n)
    <3>1. c[s] \in s /\ s \in SUBSET S
      BY <2>2
    <3>2. Cardinality(s \ {c[s]}) = Cardinality(s) - 1
      BY <1>0, <3>1, FS_RemoveElement
    <3> QED
      BY <1>0, <3>1, <3>2
  <2>3. h \in [Sub(n + 1) -> W]
    BY <2>2
  <2>4. \A s \in Sub(n) : s \in Sub(n + 1) /\ h[s] = f[s]
    <3> SUFFICES ASSUME NEW s \in Sub(n) PROVE s \in Sub(n + 1) /\ h[s] = f[s]
      OBVIOUS
    <3>1. s \in Sub(n + 1)
      BY <1>0
    <3> QED
      BY <2>1, <3>1
  <2>5. \A s \in Sub(n + 1) : h[s] = IF s = {} THEN base ELSE g[<<c[s], h[s \ {c[s]}]>>]
    BY <2>2, <2>4
  <2>6. \E k \in [Sub(n + 1) -> W] : \A s \in Sub(n + 1) :
                       k[s] = IF s = {} THEN base ELSE g[<<c[s], k[s \ {c[s]}]>>]
    <3> HIDE DEF h, Sub
    <3> QED
      BY <2>3, <2>5
  <2>7. n + 1 \in Nat
    OBVIOUS
  <2> HIDE DEF h, Sub
  <2> QED
    BY <2>6, <2>7, Zenon
<1>3. Nat \subseteq Good
  <2> HIDE DEF Good
  <2> QED
    BY <1>1, <1>2, AllNumbers
<1>4. Cardinality(S) \in Nat /\ Sub(Cardinality(S)) = SUBSET S
  BY <1>0, FS_Subset
<1>5. Cardinality(S) \in Good
  BY <1>3, <1>4
<1>6. PICK f \in [Sub(Cardinality(S)) -> W] : \A s \in Sub(Cardinality(S)) :
                       f[s] = IF s = {} THEN base ELSE g[<<c[s], f[s \ {c[s]}]>>]
  BY <1>5
<1>7. f \in [SUBSET S -> W] /\ Folds(f, S, base, g, c)
  BY <1>4, <1>6, Zenon DEF Folds
<1> QED
  BY <1>7

\* The same for the numbers up to n, the largest first.
FoldsUp(f, n, base, g) ==
  \A s \in SUBSET (1..n) :
      f[s] = IF s = {} THEN base ELSE g[<<Max(s), f[s \ {Max(s)}]>>]

\* One exists for every number.
LEMMA FoldUpExists ==
  ASSUME NEW n \in Nat, NEW W, NEW base \in W, NEW g \in [(1..n) \X W -> W]
  PROVE  \E f \in [SUBSET (1..n) -> W] : FoldsUp(f, n, base, g)
<1> DEFINE c == [s \in SUBSET (1..n) |-> Max(s)]
<1>1. \A s \in SUBSET (1..n) : s # {} => c[s] \in s
  <2> SUFFICES ASSUME NEW s \in SUBSET (1..n), s # {} PROVE Max(s) \in s
    OBVIOUS
  <2> QED
    BY LargestOf, Zenon
<1>2. IsFiniteSet(1..n)
  BY FS_Interval
<1>3. PICK f \in [SUBSET (1..n) -> W] : Folds(f, 1..n, base, g, c)
  <2> HIDE DEF c
  <2> QED
    BY <1>1, <1>2, FoldExists
<1>4. FoldsUp(f, n, base, g)
  BY <1>3, Zenon DEF Folds, FoldsUp
<1> QED
  BY <1>4

\* What such a fold visits are the numbers up to k, for each k.
LEMMA UpTo ==
  ASSUME NEW k \in Nat, k # 0
  PROVE  Max(1..k) = k /\ (1..k) \ {Max(1..k)} = 1..(k - 1)
<1>1. Max(1..k) \in 1..k /\ \A m \in 1..k : m <= Max(1..k)
  <2>1. k \in 1..k /\ 1..k \in SUBSET (1..k)
    OBVIOUS
  <2> QED
    BY <2>1, LargestOf, Zenon
<1>2. Max(1..k) = k
  BY <1>1
<1> QED
  BY <1>2

-----------------------------------------------------------------------------
(* Sequences of tabs.                                                      *)

\* No tab stands twice.
Distinct(q) == \A i, j \in 1..Len(q) : q[i] = q[j] => i = j

\* A tab at the end of others.
LEMMA AppendIs ==
  ASSUME NEW S, NEW q \in Seq(S), NEW e \in S
  PROVE  /\ Append(q, e) \in Seq(S)
         /\ Range(Append(q, e)) = Range(q) \cup {e}
         /\ Distinct(q) /\ e \notin Range(q) => Distinct(Append(q, e))
<1> DEFINE r == Append(q, e)
<1>1. /\ r \in Seq(S) /\ Len(r) = Len(q) + 1 /\ DOMAIN r = 1..(Len(q) + 1)
      /\ \A i \in 1..Len(q) : r[i] = q[i]
      /\ r[Len(q) + 1] = e /\ DOMAIN q = 1..Len(q)
  OBVIOUS
<1> HIDE DEF r
<1>2. Range(r) = Range(q) \cup {e}
  BY <1>1 DEF Range
<1>3. ASSUME Distinct(q), e \notin Range(q) PROVE Distinct(r)
  BY <1>1, <1>3 DEF Distinct, Range
<1> QED
  BY <1>1, <1>2, <1>3 DEF r

\* The tabs without one of them, in their order.
LEMMA WithoutIs ==
  ASSUME NEW S, NEW q \in Seq(S), NEW id
  PROVE  /\ Without(q, id) \in Seq(S)
         /\ Range(Without(q, id)) = Range(q) \ {id}
         /\ Distinct(q) => Distinct(Without(q, id))
<1> DEFINE n == Len(q)
           W == Seq(S)
           Kept(x, w) == IF q[x] = id THEN w ELSE Append(w, q[x])
           g == [p \in (1..n) \X W |-> Kept(p[1], p[2])]
           Eq(f) == f = [s \in SUBSET (1..n) |->
                           IF s = {} THEN <<>> ELSE Kept(Max(s), f[s \ {Max(s)}])]
<1>1. n \in Nat /\ DOMAIN q = 1..n /\ \A i \in 1..n : q[i] \in S
  OBVIOUS
<1>2. <<>> \in W /\ \A x \in 1..n, w \in W : Kept(x, w) \in W
  BY <1>1
<1>3. g \in [(1..n) \X W -> W] /\ \A x \in 1..n, w \in W : g[<<x, w>>] = Kept(x, w)
  BY <1>2
<1>4. \E f : Eq(f) /\ f \in [SUBSET (1..n) -> W]
  <2>1. PICK f \in [SUBSET (1..n) -> W] : \A s \in SUBSET (1..n) :
            f[s] = IF s = {} THEN <<>> ELSE g[<<Max(s), f[s \ {Max(s)}]>>]
    <3> DEFINE none == <<>>
    <3>1. n \in Nat /\ none \in W /\ g \in [(1..n) \X W -> W]
      BY <1>1, <1>2, <1>3
    <3> HIDE DEF g, W, n, none
    <3>2. PICK f \in [SUBSET (1..n) -> W] : FoldsUp(f, n, none, g)
      BY <3>1, FoldUpExists
    <3> QED
      BY <3>2, Zenon DEF none, FoldsUp
  <2>2. ASSUME NEW s \in SUBSET (1..n)
        PROVE  f[s] = IF s = {} THEN <<>> ELSE Kept(Max(s), f[s \ {Max(s)}])
    <3>1. CASE s = {}
      BY <2>1, <3>1
    <3>2. CASE s # {}
      <4>1. Max(s) \in 1..n /\ f[s \ {Max(s)}] \in W
        BY <1>1, <3>2, LargestOf
      <4> HIDE DEF Kept, g, W
      <4> QED
        BY <1>3, <2>1, <3>2, <4>1
    <3> QED
      BY <3>1, <3>2
  <2>3. Eq(f)
    <3> HIDE DEF Kept, W
    <3> QED
      BY <2>2
  <2> QED
    BY <2>3
<1> DEFINE iter == CHOOSE f : Eq(f)
<1>5. Without(q, id) = iter[1..n]
  BY <1>1, Zenon DEF Without, FoldLeft, MapThenFoldSet
<1>6. Eq(iter)
  <2> HIDE DEF Eq
  <2> QED
    BY <1>4
<1>7. iter[1..0] = <<>>
  <2>1. 1..0 = {} /\ 1..0 \in SUBSET (1..n)
    OBVIOUS
  <2> HIDE DEF Kept, iter
  <2> QED
    BY <1>6, <2>1
<1>8. ASSUME NEW k \in 1..n PROVE iter[1..k] = Kept(k, iter[1..(k - 1)])
  <2>1. 1..k # {} /\ 1..k \in SUBSET (1..n) /\ k \in Nat /\ k # 0
    <3> HIDE DEF n
    <3> QED
      BY <1>1
  <2>2. Max(1..k) = k /\ (1..k) \ {Max(1..k)} = 1..(k - 1)
    BY <2>1, UpTo
  <2> HIDE DEF Kept, iter
  <2>3. iter[1..k] = Kept(Max(1..k), iter[(1..k) \ {Max(1..k)}])
    BY <1>6, <2>1
  <2> QED
    BY <2>2, <2>3
<1> HIDE DEF iter, Eq, g
<1> DEFINE First(k) == {q[i] : i \in 1..k}
           OK(k) == /\ iter[1..k] \in Seq(S)
                    /\ Range(iter[1..k]) = First(k) \ {id}
                    /\ Distinct(q) => Distinct(iter[1..k])
           T == {k \in Nat : k <= n => OK(k)}
<1>9. 0 \in T
  <2>1. Range(<<>>) = {} /\ Distinct(<<>>) /\ First(0) = {} /\ <<>> \in Seq(S)
    BY DEF Range, Distinct
  <2> QED
    BY <1>7, <2>1
<1>10. ASSUME NEW k \in Nat, k \in T PROVE k + 1 \in T
  <2> SUFFICES ASSUME k + 1 <= n PROVE OK(k + 1)
    OBVIOUS
  <2>1. k + 1 \in 1..n /\ (k + 1) - 1 = k /\ OK(k)
    BY <1>1, <1>10
  <2> DEFINE r == iter[1..k]
  <2>2. iter[1..(k + 1)] = Kept(k + 1, r)
    BY <1>8, <2>1
  <2>3. First(k + 1) = First(k) \cup {q[k + 1]} /\ q[k + 1] \in S
    BY <1>1, <2>1
  <2>4. Distinct(q) => q[k + 1] \notin First(k)
    BY <1>1, <2>1 DEF Distinct
  <2> HIDE DEF First, r
  <2>5. CASE q[k + 1] = id
    BY <2>1, <2>2, <2>3, <2>5 DEF r
  <2>6. CASE q[k + 1] # id
    <3>1. iter[1..(k + 1)] = Append(r, q[k + 1]) /\ r \in Seq(S)
      BY <2>1, <2>2, <2>6 DEF r
    <3>2. /\ Append(r, q[k + 1]) \in Seq(S)
          /\ Range(Append(r, q[k + 1])) = Range(r) \cup {q[k + 1]}
          /\ Distinct(r) /\ q[k + 1] \notin Range(r) => Distinct(Append(r, q[k + 1]))
      BY <2>3, <3>1, AppendIs
    <3> QED
      BY <2>1, <2>3, <2>4, <2>6, <3>1, <3>2 DEF r
  <2> QED
    BY <2>5, <2>6
<1>11. n \in T
  <2> HIDE DEF T
  <2> QED
    BY <1>1, <1>9, <1>10, AllNumbers
<1>12. First(n) = Range(q)
  BY <1>1 DEF Range
<1>13. OK(n)
  <2> HIDE DEF OK
  <2> QED
    BY <1>1, <1>11
<1> QED
  BY <1>5, <1>12, <1>13

-----------------------------------------------------------------------------
(* What a workspace is made of, and when nothing in it dangles.            *)

Sound == {doc \in Documents : doc.saved <=> doc.savedRequest # None}
Historical ==
    {doc \in Sound : doc.saved /\ doc.request.schema = None /\ doc.savedRequest.schema = None}
DocumentMaps == {docs \in UNION {[D -> Sound] : D \in SUBSET Ids} : IsFiniteSet(DOMAIN docs)}

Workspaces ==
    [documents : DocumentMaps, tabs : Seq(Ids), active : Ids \cup {None},
     preview : Ids \cup {None}, panels : SUBSET Range(Panels),
     panel : Range(Panels) \cup {None}, last : Schemas \cup {None},
     default : Schemas \cup {None}, profiles : SUBSET Profiles,
     variable : Requests \cup {None}]

\* The schemas a document names are in D.
NamesIn(doc, D) ==
    /\ doc.request.schema \in D \cup {None}
    /\ doc.saved => doc.savedRequest.schema \in D \cup {None}

\* A document is bound to connections that exist, connections are saved, and
\* a history tab shows a record.
Bound(docs) ==
    \A id \in DOMAIN docs :
        /\ NamesIn(docs[id], DOMAIN docs)
        /\ id \in Schemas => docs[id].saved
        /\ id \in HistoryTabs => docs[id] \in Historical

\* The references beside the documents; a variable reads a saved request.
Referred(w) ==
    /\ w.last \in DOMAIN w.documents \cup {None}
    /\ w.default \in DOMAIN w.documents \cup {None}
    /\ w.variable # None => w.variable \in DOMAIN w.documents /\ w.documents[w.variable].saved

\* The tabs apart from the one shown; history is never only previewed.
Tabbed(w) ==
    /\ Distinct(w.tabs) /\ Range(w.tabs) \subseteq DOMAIN w.documents
    /\ w.preview \in (Range(w.tabs) \ HistoryTabs) \cup {None}
    /\ w.panel \in w.panels \cup {None}

\* History documents disappear with their tab.
Held(w, more) == DOMAIN w.documents \cap HistoryTabs \subseteq Range(w.tabs) \cup more

\* While there are tabs, one is active, even under a panel.
Shown(w) ==
    /\ w.active \in Range(w.tabs) \cup {None}
    /\ w.active = None => w.tabs = <<>>
    /\ w.tabs = <<>> /\ w.panels # {} => w.panel # None

Sane(w) == w \in Workspaces /\ Bound(w.documents) /\ Referred(w) /\ Tabbed(w)
Fine(w) == Sane(w) /\ Held(w, {}) /\ Shown(w)

\* The kinds of identifiers.
LEMMA Kinds ==
    /\ None \notin Ids /\ None \notin Range(Panels) /\ None \notin Drafts /\ None \notin Documents
    /\ None \notin Requests /\ None \notin Schemas /\ None \notin HistoryTabs
    /\ Requests \subseteq Ids /\ Schemas \subseteq Ids /\ HistoryTabs \subseteq Ids
    /\ Requests \cap Schemas = {} /\ Requests \cap HistoryTabs = {}
    /\ Schemas \cap HistoryTabs = {} /\ Ids = Requests \cup Schemas \cup HistoryTabs
  BY EditorAssumption DEF EditorAssumption, Ids

\* The fields of a workspace.
LEMMA FieldsOf ==
  ASSUME NEW w \in Workspaces
  PROVE  /\ w.documents \in DocumentMaps /\ w.tabs \in Seq(Ids)
         /\ w.active \in Ids \cup {None} /\ w.preview \in Ids \cup {None}
         /\ w.panels \in SUBSET Range(Panels) /\ w.panel \in Range(Panels) \cup {None}
         /\ w.last \in Schemas \cup {None} /\ w.default \in Schemas \cup {None}
         /\ w.profiles \in SUBSET Profiles /\ w.variable \in Requests \cup {None}
         /\ w = [documents |-> w.documents, tabs |-> w.tabs, active |-> w.active,
                 preview |-> w.preview, panels |-> w.panels, panel |-> w.panel,
                 last |-> w.last, default |-> w.default, profiles |-> w.profiles,
                 variable |-> w.variable]
  BY DEF Workspaces

\* A map of documents.
LEMMA MapIs ==
  ASSUME NEW docs
  PROVE  docs \in DocumentMaps <=>
             /\ docs = [id \in DOMAIN docs |-> docs[id]]
             /\ DOMAIN docs \subseteq Ids /\ IsFiniteSet(DOMAIN docs)
             /\ \A id \in DOMAIN docs : docs[id] \in Sound
<1>1. ASSUME docs \in DocumentMaps
      PROVE  /\ docs = [id \in DOMAIN docs |-> docs[id]]
             /\ DOMAIN docs \subseteq Ids /\ IsFiniteSet(DOMAIN docs)
             /\ \A id \in DOMAIN docs : docs[id] \in Sound
  <2>1. PICK D \in SUBSET Ids : docs \in [D -> Sound]
    BY <1>1 DEF DocumentMaps
  <2>2. IsFiniteSet(DOMAIN docs)
    BY <1>1 DEF DocumentMaps
  <2> QED
    BY <2>1, <2>2
<1>2. ASSUME /\ docs = [id \in DOMAIN docs |-> docs[id]]
             /\ DOMAIN docs \subseteq Ids /\ IsFiniteSet(DOMAIN docs)
             /\ \A id \in DOMAIN docs : docs[id] \in Sound
      PROVE  docs \in DocumentMaps
  <2>1. docs \in [DOMAIN docs -> Sound]
    BY <1>2
  <2>2. docs \in UNION {[D -> Sound] : D \in SUBSET Ids}
    BY <1>2, <2>1, Zenon
  <2> QED
    BY <1>2, <2>2, Zenon DEF DocumentMaps
<1> QED
  BY <1>1, <1>2

\* A document put among others, or in the place of an earlier version.
LEMMA PutIs ==
  ASSUME NEW docs \in DocumentMaps, NEW id \in Ids, NEW doc \in Sound
  PROVE  LET m == WithDocument(docs, id, doc) IN
         /\ m \in DocumentMaps /\ DOMAIN m = DOMAIN docs \cup {id} /\ m[id] = doc
         /\ \A other \in DOMAIN docs : other # id => m[other] = docs[other]
<1> DEFINE m == WithDocument(docs, id, doc)
<1>1. m = [x \in DOMAIN docs \cup {id} |-> IF x = id THEN doc ELSE docs[x]]
  BY DEF WithDocument
<1> HIDE DEF m
<1>2. /\ DOMAIN docs \subseteq Ids /\ IsFiniteSet(DOMAIN docs)
      /\ \A other \in DOMAIN docs : docs[other] \in Sound
  BY MapIs
<1>3. DOMAIN m = DOMAIN docs \cup {id} /\ m = [x \in DOMAIN m |-> m[x]]
  BY <1>1
<1>4. m[id] = doc /\ \A other \in DOMAIN docs : other # id => m[other] = docs[other]
  BY <1>1
<1>5. IsFiniteSet(DOMAIN m)
  BY <1>2, <1>3, FS_AddElement
<1>6. \A x \in DOMAIN m : m[x] \in Sound
  BY <1>2, <1>3, <1>4
<1>7. m \in DocumentMaps
  BY <1>2, <1>3, <1>5, <1>6, MapIs
<1> QED
  BY <1>3, <1>4, <1>7 DEF m

\* Documents that stay when others go.
LEMMA RestrictIs ==
  ASSUME NEW docs \in DocumentMaps, NEW ids
  PROVE  LET m == Restrict(docs, DOMAIN docs \ ids) IN
         /\ m \in DocumentMaps /\ DOMAIN m = DOMAIN docs \ ids
         /\ \A other \in DOMAIN m : m[other] = docs[other]
<1> DEFINE m == Restrict(docs, DOMAIN docs \ ids)
<1>1. m = [x \in DOMAIN docs \ ids |-> docs[x]]
  BY DEF Restrict
<1> HIDE DEF m
<1>2. /\ DOMAIN docs \subseteq Ids /\ IsFiniteSet(DOMAIN docs)
      /\ \A other \in DOMAIN docs : docs[other] \in Sound
  BY MapIs
<1>3. DOMAIN m = DOMAIN docs \ ids /\ m = [x \in DOMAIN m |-> m[x]]
      /\ \A other \in DOMAIN m : m[other] = docs[other]
  BY <1>1
<1>4. IsFiniteSet(DOMAIN m)
  BY <1>2, <1>3, FS_Subset
<1>5. m \in DocumentMaps
  BY <1>2, <1>3, <1>4, MapIs
<1> QED
  BY <1>3, <1>5 DEF m

\* Documents that all go on, changed or not.
LEMMA ChangedIs ==
  ASSUME NEW docs \in DocumentMaps, NEW m, DOMAIN m = DOMAIN docs,
         m = [x \in DOMAIN docs |-> m[x]], \A x \in DOMAIN docs : m[x] \in Sound
  PROVE  m \in DocumentMaps
  BY MapIs

-----------------------------------------------------------------------------
(* What the operators on a workspace keep.                                 *)

\* The range of a sequence of tabs.
LEMMA RangeIs ==
  ASSUME NEW S, NEW q \in Seq(S)
  PROVE  /\ DOMAIN q = 1..Len(q) /\ Len(q) \in Nat /\ Range(q) = {q[i] : i \in 1..Len(q)}
         /\ Range(q) \subseteq S /\ (q = <<>> <=> Range(q) = {}) /\ (q = <<>> <=> Len(q) = 0)
         /\ q # <<>> => Head(q) \in Range(q) /\ Head(q) = q[1]
<1>1. DOMAIN q = 1..Len(q) /\ Len(q) \in Nat /\ \A i \in 1..Len(q) : q[i] \in S
  OBVIOUS
<1>2. Range(q) = {q[i] : i \in 1..Len(q)}
  BY <1>1 DEF Range
<1>3. q = <<>> <=> Len(q) = 0
  OBVIOUS
<1>4. q # <<>> => Head(q) = q[1] /\ 1 \in 1..Len(q)
  BY <1>1, <1>3
<1> QED
  BY <1>1, <1>2, <1>3, <1>4

\* No tab at all.
LEMMA NoTabs == <<>> \in Seq(Ids) /\ Range(<<>>) = {} /\ Distinct(<<>>)
  BY DEF Range, Distinct

\* A tab is added unless there is one.
LEMMA WithTabIs ==
  ASSUME NEW S, NEW q \in Seq(S), NEW id \in S
  PROVE  /\ WithTab(q, id) \in Seq(S)
         /\ Range(WithTab(q, id)) = Range(q) \cup {id}
         /\ Distinct(q) => Distinct(WithTab(q, id))
<1>1. CASE id \in Range(q)
  BY <1>1 DEF WithTab
<1>2. CASE id \notin Range(q)
  <2>1. /\ Append(q, id) \in Seq(S)
        /\ Range(Append(q, id)) = Range(q) \cup {id}
        /\ Distinct(q) => Distinct(Append(q, id))
    BY <1>2, AppendIs
  <2> QED
    BY <1>2, <2>1, Zenon DEF WithTab
<1> QED
  BY <1>1, <1>2

\* One tab takes the place of another.
LEMMA ReplacedIs ==
  ASSUME NEW S, NEW q \in Seq(S), NEW id, NEW by \in S
  PROVE  /\ Replaced(q, id, by) \in Seq(S)
         /\ Range(Replaced(q, id, by))
            = (Range(q) \ {id}) \cup (IF id \in Range(q) THEN {by} ELSE {})
         /\ Distinct(q) /\ (by \in Range(q) => by = id) => Distinct(Replaced(q, id, by))
<1> DEFINE r == Replaced(q, id, by)
<1>1. DOMAIN q = 1..Len(q) /\ Len(q) \in Nat /\ \A i \in 1..Len(q) : q[i] \in S
  OBVIOUS
<1>2. r = [i \in 1..Len(q) |-> IF q[i] = id THEN by ELSE q[i]]
  BY <1>1 DEF Replaced
<1>3. \A i \in 1..Len(q) : (IF q[i] = id THEN by ELSE q[i]) \in S
  BY <1>1
<1>4. r \in Seq(S) /\ Len(r) = Len(q) /\ DOMAIN r = 1..Len(q)
  BY <1>1, <1>2, <1>3
<1>5. \A i \in 1..Len(q) : r[i] = IF q[i] = id THEN by ELSE q[i]
  BY <1>2
<1> HIDE DEF r
<1>6. Range(r) = (Range(q) \ {id}) \cup (IF id \in Range(q) THEN {by} ELSE {})
  BY <1>1, <1>4, <1>5 DEF Range
<1>7. ASSUME Distinct(q), by \in Range(q) => by = id PROVE Distinct(r)
  <2> SUFFICES ASSUME NEW i \in 1..Len(q), NEW j \in 1..Len(q), r[i] = r[j] PROVE i = j
    BY <1>4 DEF Distinct
  <2>1. q[i] \in Range(q) /\ q[j] \in Range(q)
    BY <1>1 DEF Range
  <2>2. q[i] = q[j]
    BY <1>5, <1>7, <2>1
  <2> QED
    BY <1>7, <2>2 DEF Distinct
<1> QED
  BY <1>4, <1>6, <1>7 DEF r

\* A document is brought on screen, in its tab or in a new one.
LEMMA OpenKeeps ==
  ASSUME NEW w, Sane(w), NEW id \in DOMAIN w.documents, Held(w, {id})
  PROVE  LET v == OpenDocument(w, id) IN
         Fine(v) /\ v.documents = w.documents /\ v.active = id
<1> DEFINE v == OpenDocument(w, id)
           tabs == WithTab(w.tabs, id)
           last == LastUsed(w, id)
<1>1. /\ w.documents \in DocumentMaps /\ w.tabs \in Seq(Ids) /\ DOMAIN w.documents \subseteq Ids
      /\ w.last \in Schemas \cup {None} /\ None \notin Ids /\ id \in Ids
  BY FieldsOf, MapIs, Kinds DEF Sane
<1>2. tabs \in Seq(Ids) /\ Range(tabs) = Range(w.tabs) \cup {id} /\ Distinct(tabs)
  BY <1>1, WithTabIs DEF Sane, Tabbed
<1>3. last \in Schemas \cup {None} /\ last \in DOMAIN w.documents \cup {None}
  <2>1. w.documents[id] \in Documents /\ w.documents[id].request \in Drafts
    BY <1>1, MapIs DEF Sound, Documents
  <2>2. w.documents[id].request.schema \in Schemas \cup {None}
    BY <2>1 DEF Drafts
  <2>3. w.documents[id].request.schema \in DOMAIN w.documents \cup {None}
    BY DEF Sane, Bound, NamesIn
  <2> QED
    BY <1>1, <2>2, <2>3 DEF LastUsed, Sane, Referred
<1>4. v = [w EXCEPT !.tabs = tabs, !.active = id, !.panel = None, !.last = last]
  BY DEF OpenDocument
<1> HIDE DEF v, tabs, last
<1>5. /\ v \in Workspaces
      /\ v.documents = w.documents /\ v.tabs = tabs /\ v.active = id /\ v.panel = None
      /\ v.last = last /\ v.preview = w.preview /\ v.panels = w.panels
      /\ v.default = w.default /\ v.variable = w.variable
  <2>1. w \in Workspaces
    BY DEF Sane
  <2> QED
    BY <1>1, <1>2, <1>3, <1>4, <2>1 DEF Workspaces
<1>6. Tabbed(v) /\ Held(v, {})
  BY <1>1, <1>2, <1>5 DEF Sane, Tabbed, Held
<1>7. Bound(v.documents) /\ Referred(v)
  BY <1>3, <1>5 DEF Sane, Referred
<1>8. Shown(v)
  BY <1>1, <1>2, <1>5, NoTabs DEF Shown
<1> QED
  BY <1>5, <1>6, <1>7, <1>8 DEF Fine, Sane, v

\* The parts of a document.
LEMMA DocumentIs ==
  ASSUME NEW doc \in Sound
  PROVE  /\ doc.request \in Drafts /\ doc.saved \in BOOLEAN /\ doc.sent \in BOOLEAN
         /\ doc.source \in Requests \cup {None} /\ doc.savedRequest \in Drafts \cup {None}
         /\ doc.saved <=> doc.savedRequest # None
         /\ doc.saved => doc.savedRequest \in Drafts
         /\ doc.request.schema \in Schemas \cup {None} /\ doc.request.auth \in Auths
         /\ doc.request.text \in {"blank", "typed"}
         /\ doc.saved => doc.savedRequest.schema \in Schemas \cup {None}
         /\ doc = [saved |-> doc.saved, sent |-> doc.sent, request |-> doc.request,
                   savedRequest |-> doc.savedRequest, source |-> doc.source]
<1>1. doc \in Documents /\ (doc.saved <=> doc.savedRequest # None)
  BY DEF Sound
<1>2. /\ doc.request \in Drafts /\ doc.saved \in BOOLEAN /\ doc.sent \in BOOLEAN
      /\ doc.source \in Requests \cup {None} /\ doc.savedRequest \in Drafts \cup {None}
      /\ doc = [saved |-> doc.saved, sent |-> doc.sent, request |-> doc.request,
                savedRequest |-> doc.savedRequest, source |-> doc.source]
  BY <1>1 DEF Documents
<1>3. doc.saved => doc.savedRequest \in Drafts
  BY <1>1, <1>2
<1>4. \A d \in Drafts : d.schema \in Schemas \cup {None} /\ d.auth \in Auths
                        /\ d.text \in {"blank", "typed"}
  BY DEF Drafts
<1> QED
  BY <1>1, <1>2, <1>3, <1>4

\* A saved document goes back to what was saved.
LEMMA RevertedIs ==
  ASSUME NEW doc \in Sound, doc.saved, NEW D, NamesIn(doc, D)
  PROVE  /\ Reverted(doc) \in Sound /\ Reverted(doc).saved /\ NamesIn(Reverted(doc), D)
         /\ doc \in Historical => Reverted(doc) \in Historical
<1> DEFINE r == Reverted(doc)
<1>1. doc \in Documents /\ doc.savedRequest \in Drafts
  BY DocumentIs DEF Sound
<1>2. /\ r \in Documents /\ r.saved = doc.saved /\ r.request = doc.savedRequest
      /\ r.savedRequest = doc.savedRequest
  BY <1>1 DEF Reverted, Documents
<1>3. r \in Sound
  BY <1>2, DocumentIs DEF Sound
<1> QED
  BY <1>2, <1>3 DEF NamesIn, Historical

\* Documents stay bound when one is put among them.
LEMMA PutBound ==
  ASSUME NEW docs \in DocumentMaps, Bound(docs), NEW id \in Ids, NEW doc \in Sound,
         NamesIn(doc, DOMAIN docs \cup {id}), id \in Schemas => doc.saved,
         id \in HistoryTabs => doc \in Historical
  PROVE  Bound(WithDocument(docs, id, doc))
<1> DEFINE m == WithDocument(docs, id, doc)
<1>1. /\ DOMAIN m = DOMAIN docs \cup {id} /\ m[id] = doc
      /\ \A other \in DOMAIN docs : other # id => m[other] = docs[other]
  BY DEF WithDocument
<1> HIDE DEF m
<1>2. \A x \in DOMAIN m : /\ NamesIn(m[x], DOMAIN m)
                          /\ x \in Schemas => m[x].saved
                          /\ x \in HistoryTabs => m[x] \in Historical
  BY <1>1 DEF Bound, NamesIn
<1> QED
  BY <1>2 DEF Bound, m

\* And when those go that no document names.
LEMMA RestrictBound ==
  ASSUME NEW docs \in DocumentMaps, Bound(docs), NEW ids,
         \A x \in DOMAIN docs \ ids : NamesIn(docs[x], DOMAIN docs \ ids)
  PROVE  Bound(Restrict(docs, DOMAIN docs \ ids))
<1> DEFINE m == Restrict(docs, DOMAIN docs \ ids)
<1>1. DOMAIN m = DOMAIN docs \ ids /\ \A other \in DOMAIN m : m[other] = docs[other]
  BY DEF Restrict
<1> HIDE DEF m
<1>2. \A x \in DOMAIN m : /\ NamesIn(m[x], DOMAIN m)
                          /\ x \in Schemas => m[x].saved
                          /\ x \in HistoryTabs => m[x] \in Historical
  BY <1>1 DEF Bound
<1> QED
  BY <1>2 DEF Bound, m

\* Nothing names a request or a history tab.
LEMMA OnlySchemasNamed ==
  ASSUME NEW docs \in DocumentMaps, Bound(docs), NEW ids, ids \cap Schemas = {}
  PROVE  \A x \in DOMAIN docs : NamesIn(docs[x], DOMAIN docs \ ids)
<1> SUFFICES ASSUME NEW x \in DOMAIN docs PROVE NamesIn(docs[x], DOMAIN docs \ ids)
  OBVIOUS
<1>1. docs[x] \in Sound /\ NamesIn(docs[x], DOMAIN docs)
  BY MapIs DEF Bound
<1>2. /\ docs[x].request.schema \in Schemas \cup {None}
      /\ docs[x].saved => docs[x].savedRequest.schema \in Schemas \cup {None}
  BY <1>1, DocumentIs
<1> QED
  BY <1>1, <1>2 DEF NamesIn

\* When nothing on screen is open any more, something else is shown.
LEMMA ActivateKeeps ==
  ASSUME NEW w, Sane(w), Held(w, {}),
         w.active \in Range(w.tabs) \cup {None}, w.active = None => w.tabs = <<>>
  PROVE  LET v == ActivateRemainingTab(w) IN
         Fine(v) /\ v.documents = w.documents /\ v.tabs = w.tabs
<1> DEFINE v == ActivateRemainingTab(w)
           I == {i \in 1..Len(Panels) : Panels[i] \in w.panels}
<1>1. /\ w \in Workspaces /\ w.tabs \in Seq(Ids) /\ None \notin Ids
      /\ Range(w.tabs) \subseteq Ids /\ w.panels \subseteq Range(Panels)
      /\ None \notin Range(Panels)
  BY FieldsOf, RangeIs, Kinds DEF Sane
<1>2. CASE w.panel # None \/ w.active \in Range(w.tabs)
  <2>1. v = w
    BY <1>2 DEF ActivateRemainingTab
  <2>2. Shown(v)
    BY <1>2, <2>1, NoTabs DEF Shown
  <2> QED
    BY <2>1, <2>2 DEF Fine
<1>3. CASE w.panel = None /\ w.active = None /\ w.tabs = <<>>
  <2> DEFINE shown == IF w.panels = {} THEN None
                      ELSE Panels[SelectInSeq(Panels, LAMBDA p : p \in w.panels)]
  <2>1. v = [w EXCEPT !.active = None, !.panel = shown]
    BY <1>1, <1>3, NoTabs DEF ActivateRemainingTab
  <2>2. w.panels # {} => shown \in w.panels
    <3> SUFFICES ASSUME w.panels # {} PROVE shown \in w.panels
      OBVIOUS
    <3>1. SelectInSeq(Panels, LAMBDA p : p \in w.panels) = IF I # {} THEN Min(I) ELSE 0
      BY DEF SelectInSeq
    <3>2. Panels \in Seq(Range(Panels))
      BY EditorAssumption DEF EditorAssumption
    <3>3. Range(Panels) = {Panels[i] : i \in 1..Len(Panels)} /\ Len(Panels) \in Nat
      BY <3>2, RangeIs
    <3>5. I \in SUBSET Nat /\ I # {}
      BY <1>1, <3>3
    <3>4. Min(I) \in I
      BY <3>5, SmallestOf
    <3> QED
      BY <3>1, <3>4, <3>5
  <2> HIDE DEF shown
  <2>3. w.panels = {} => shown = None
    BY DEF shown
  <2>4. /\ v.documents = w.documents /\ v.tabs = w.tabs /\ v.active = None /\ v.panel = shown
        /\ v.last = w.last /\ v.preview = w.preview /\ v.panels = w.panels
        /\ v.default = w.default /\ v.variable = w.variable /\ v \in Workspaces
    BY <1>1, <2>1, <2>2, <2>3 DEF Workspaces
  <2>5. Sane(v) /\ Held(v, {})
    BY <2>2, <2>3, <2>4 DEF Sane, Tabbed, Held, Referred
  <2>6. Shown(v)
    BY <1>1, <1>3, <2>2, <2>4 DEF Shown
  <2> QED
    BY <2>4, <2>5, <2>6 DEF Fine
<1> QED
  BY <1>1, <1>2, <1>3 

\* The tab that is active after another is closed.
LEMMA NextActiveIs ==
  ASSUME NEW w \in Workspaces, NEW id \in Ids, Shown(w)
  PROVE  LET rest == Without(w.tabs, id)
             next == NextActive(w, id)
         IN  next \in Range(rest) \cup {None} /\ (next = None => rest = <<>>)
<1> DEFINE rest == Without(w.tabs, id)
           next == NextActive(w, id)
           I == {i \in 1..Len(w.tabs) : w.tabs[i] = id}
           at == SelectInSeq(w.tabs, LAMBDA t : t = id)
<1>1. w.tabs \in Seq(Ids) /\ None \notin Ids
  BY FieldsOf, Kinds
<1>2. rest \in Seq(Ids) /\ Range(rest) = Range(w.tabs) \ {id}
  BY <1>1, WithoutIs
<1>3. /\ Len(rest) \in Nat /\ (rest = <<>> <=> Len(rest) = 0) /\ (rest = <<>> <=> Range(rest) = {})
      /\ Range(rest) = {rest[i] : i \in 1..Len(rest)}
  BY <1>2, RangeIs
<1>4. CASE w.active # id
  <2>1. next = w.active
    BY <1>4 DEF NextActive
  <2> QED
    BY <1>2, <1>3, <1>4, <2>1, NoTabs DEF Shown
<1>5. CASE w.active = id /\ rest = <<>>
  BY <1>5 DEF NextActive
<1>6. CASE w.active = id /\ rest # <<>>
  <2>1. next = rest[Min({at, Len(rest)})]
    BY <1>6 DEF NextActive
  <2>2. at = IF I # {} THEN Min(I) ELSE 0
    BY DEF SelectInSeq
  <2>3. I \in SUBSET Nat /\ I # {}
    BY <1>1, <1>6, RangeIs DEF Shown
  <2>4. Min(I) \in I
    BY <2>3, SmallestOf
  <2>5. at \in Nat /\ at > 0
    BY <2>2, <2>3, <2>4
  <2> HIDE DEF at, rest, next
  <2> DEFINE two == {at, Len(rest)}
  <2>6. two \in SUBSET Nat /\ two # {}
    BY <1>3, <2>5
  <2>7. Min(two) \in two /\ Min(two) <= at /\ Min(two) <= Len(rest)
    BY <2>6, SmallestOf
  <2>8. Min(two) \in 1..Len(rest)
    BY <1>3, <1>6, <2>5, <2>7
  <2>9. next \in Range(rest)
    BY <1>3, <2>1, <2>8
  <2>10. Range(rest) \subseteq Ids
    BY <1>2, RangeIs
  <2> QED
    BY <1>1, <2>9, <2>10 DEF rest, next
<1> QED
  BY <1>4, <1>5, <1>6

\* What else is in a workspace than its documents.
SameButDocuments(v, w) ==
    /\ v.tabs = w.tabs /\ v.active = w.active /\ v.preview = w.preview
    /\ v.panels = w.panels /\ v.panel = w.panel /\ v.last = w.last
    /\ v.default = w.default /\ v.profiles = w.profiles /\ v.variable = w.variable

\* Other documents in the same workspace.
LEMMA WithDocuments ==
  ASSUME NEW w \in Workspaces, NEW m \in DocumentMaps
  PROVE  LET v == [w EXCEPT !.documents = m] IN
         v \in Workspaces /\ v.documents = m /\ SameButDocuments(v, w)
  BY DEF Workspaces, SameButDocuments

\* A document is put into a workspace.
LEMMA PutKeeps ==
  ASSUME NEW w \in Workspaces, Bound(w.documents), NEW id \in Ids, NEW doc \in Sound,
         NamesIn(doc, DOMAIN w.documents \cup {id}), id \in Schemas => doc.saved,
         id \in HistoryTabs => doc \in Historical
  PROVE  LET v == Put(w, id, doc) IN
         /\ v \in Workspaces /\ Bound(v.documents) /\ SameButDocuments(v, w)
         /\ DOMAIN v.documents = DOMAIN w.documents \cup {id} /\ v.documents[id] = doc
         /\ \A other \in DOMAIN w.documents : other # id => v.documents[other] = w.documents[other]
<1> DEFINE docs == w.documents
           m == WithDocument(docs, id, doc)
           v == Put(w, id, doc)
<1>1. docs \in DocumentMaps
  BY FieldsOf
<1>2. Bound(docs) /\ NamesIn(doc, DOMAIN docs \cup {id})
  OBVIOUS
<1>3. v = [w EXCEPT !.documents = m]
  BY DEF Put
<1> HIDE DEF docs
<1>4. /\ m \in DocumentMaps /\ DOMAIN m = DOMAIN docs \cup {id} /\ m[id] = doc
      /\ \A other \in DOMAIN docs : other # id => m[other] = docs[other]
  BY <1>1, PutIs
<1>5. Bound(m)
  BY <1>1, <1>2, PutBound
<1> HIDE DEF m, v
<1>6. v \in Workspaces /\ v.documents = m /\ SameButDocuments(v, w)
  BY <1>3, <1>4, WithDocuments
<1> QED
  BY <1>4, <1>5, <1>6 DEF docs, v

\* Documents that no other names leave a workspace.
LEMMA DropKeeps ==
  ASSUME NEW w \in Workspaces, Bound(w.documents), NEW ids,
         \A x \in DOMAIN w.documents \ ids : NamesIn(w.documents[x], DOMAIN w.documents \ ids)
  PROVE  LET v == Drop(w, ids) IN
         /\ v \in Workspaces /\ Bound(v.documents) /\ SameButDocuments(v, w)
         /\ DOMAIN v.documents = DOMAIN w.documents \ ids
         /\ \A other \in DOMAIN v.documents : v.documents[other] = w.documents[other]
<1> DEFINE docs == w.documents
           m == Restrict(docs, DOMAIN docs \ ids)
           v == Drop(w, ids)
<1>1. docs \in DocumentMaps
  BY FieldsOf
<1>2. Bound(docs) /\ \A x \in DOMAIN docs \ ids : NamesIn(docs[x], DOMAIN docs \ ids)
  OBVIOUS
<1>3. v = [w EXCEPT !.documents = m]
  BY DEF Drop
<1> HIDE DEF docs
<1>4. /\ m \in DocumentMaps /\ DOMAIN m = DOMAIN docs \ ids
      /\ \A other \in DOMAIN m : m[other] = docs[other]
  BY <1>1, RestrictIs
<1>5. Bound(m)
  BY <1>1, <1>2, RestrictBound
<1> HIDE DEF m, v
<1>6. v \in Workspaces /\ v.documents = m /\ SameButDocuments(v, w)
  BY <1>3, <1>4, WithDocuments
<1> QED
  BY <1>4, <1>5, <1>6 DEF docs, v

\* Requests and history tabs always can.
LEMMA DropRequests ==
  ASSUME NEW w \in Workspaces, Bound(w.documents), NEW ids, ids \cap Schemas = {}
  PROVE  LET v == Drop(w, ids) IN
         /\ v \in Workspaces /\ Bound(v.documents) /\ SameButDocuments(v, w)
         /\ DOMAIN v.documents = DOMAIN w.documents \ ids
         /\ \A other \in DOMAIN v.documents : v.documents[other] = w.documents[other]
<1> DEFINE docs == w.documents
<1>1. docs \in DocumentMaps /\ Bound(docs)
  BY FieldsOf
<1> HIDE DEF docs
<1>2. \A x \in DOMAIN docs : NamesIn(docs[x], DOMAIN docs \ ids)
  BY <1>1, OnlySchemasNamed
<1>3. \A x \in DOMAIN w.documents \ ids : NamesIn(w.documents[x], DOMAIN w.documents \ ids)
  BY <1>2 DEF docs
<1> QED
  BY <1>3, DropKeeps

\* A tab is closed: history and blank drafts go with it, a saved request goes
\* back to what was saved.
LEMMA CloseKeeps ==
  ASSUME NEW w, Fine(w), NEW id \in Ids, NEW keep \in BOOLEAN, keep => id \notin HistoryTabs
  PROVE  LET v == CloseDocument(w, id, keep) IN
         /\ Fine(v) /\ id \notin Range(v.tabs)
         /\ DOMAIN v.documents \subseteq DOMAIN w.documents
         /\ DOMAIN w.documents \ (IF keep THEN {} ELSE {id}) \subseteq DOMAIN v.documents
         /\ v.variable = w.variable
         /\ \A x \in DOMAIN v.documents \ {id} : v.documents[x] = w.documents[x]
         /\ id \in DOMAIN v.documents => v.documents[id].saved = w.documents[id].saved
<1> DEFINE known == id \in DOMAIN w.documents
           doc == w.documents[id]
           remove == ~keep /\ known
                     /\ (IsHistorical(id) \/ ~(doc.saved \/ IsMeaningfulDraft(id, doc)))
           closed == IF remove THEN Drop(w, {id})
                     ELSE IF known /\ doc.saved /\ IsRequest(id) THEN Put(w, id, Reverted(doc))
                     ELSE w
           tabs == Without(w.tabs, id)
           active == NextActive(w, id)
           preview == IF w.preview = id THEN None ELSE w.preview
           next == [closed EXCEPT !.tabs = Without(@, id),
                                  !.preview = IF @ = id THEN None ELSE @, !.active = active]
<1>1. /\ w \in Workspaces /\ w.documents \in DocumentMaps /\ Bound(w.documents) /\ Referred(w)
      /\ w.tabs \in Seq(Ids) /\ None \notin Ids /\ w.preview \in Ids \cup {None}
      /\ w.last \in Schemas \cup {None} /\ w.default \in Schemas \cup {None}
      /\ w.variable \in Requests \cup {None} /\ Schemas \cap HistoryTabs = {}
      /\ Requests \cap HistoryTabs = {} /\ None \notin HistoryTabs
  BY FieldsOf, Kinds DEF Fine, Sane
<1>2. known => doc \in Sound /\ NamesIn(doc, DOMAIN w.documents)
               /\ (id \in Schemas => doc.saved) /\ (id \in HistoryTabs => doc \in Historical)
  BY <1>1, MapIs DEF Bound
<1>3. tabs \in Seq(Ids) /\ Range(tabs) = Range(w.tabs) \ {id} /\ Distinct(tabs)
  BY <1>1, WithoutIs DEF Fine, Sane, Tabbed
<1>4. active \in Range(tabs) \cup {None} /\ (active = None => tabs = <<>>)
  BY <1>1, NextActiveIs DEF Fine
<1>5. Range(tabs) \subseteq Ids
  BY <1>3, RangeIs
<1> DEFINE docs == closed.documents
<1>6. /\ closed \in Workspaces /\ Bound(docs) /\ SameButDocuments(closed, w)
      /\ DOMAIN docs \subseteq DOMAIN w.documents
      /\ DOMAIN w.documents \ {id} \subseteq DOMAIN docs
      /\ id \in HistoryTabs => id \notin DOMAIN docs
      /\ keep => DOMAIN w.documents \subseteq DOMAIN docs
      /\ \A x \in DOMAIN docs \ {id} : docs[x] = w.documents[x]
      /\ known /\ doc.saved /\ ~IsHistorical(id) => id \in DOMAIN docs /\ docs[id].saved
      /\ id \in DOMAIN docs => docs[id].saved = doc.saved
  <2>1. CASE remove
    <3> DEFINE c == Drop(w, {id})
    <3>1. id \notin Schemas /\ ~(doc.saved /\ ~IsHistorical(id))
      BY <1>1, <1>2, <2>1 DEF IsHistorical
    <3>2. /\ c \in Workspaces /\ Bound(c.documents) /\ SameButDocuments(c, w)
          /\ DOMAIN c.documents = DOMAIN w.documents \ {id}
          /\ \A other \in DOMAIN c.documents : c.documents[other] = w.documents[other]
      <4>1. {id} \cap Schemas = {}
        BY <3>1
      <4> QED
        BY <1>1, <4>1, DropRequests
    <3>3. closed = c
      BY <2>1
    <3> HIDE DEF c, closed
    <3> QED
      BY <2>1, <3>1, <3>2, <3>3
  <2>2. CASE ~remove /\ known /\ doc.saved /\ IsRequest(id)
    <3> DEFINE back == Reverted(doc)
               c == Put(w, id, back)
    <3>1. id \notin HistoryTabs
      BY <2>2 DEF IsHistorical
    <3>2. /\ back \in Sound /\ back.saved /\ NamesIn(back, DOMAIN w.documents \cup {id})
      BY <1>2, <2>2, RevertedIs DEF NamesIn
    <3>3. closed = c
      BY <2>2
    <3> HIDE DEF back, closed
    <3>4. /\ c \in Workspaces /\ Bound(c.documents) /\ SameButDocuments(c, w)
          /\ DOMAIN c.documents = DOMAIN w.documents \cup {id} /\ c.documents[id] = back
          /\ \A other \in DOMAIN w.documents : other # id => c.documents[other] = w.documents[other]
      <4>1. w \in Workspaces /\ Bound(w.documents)
        BY <1>1
      <4>2. back \in Sound /\ NamesIn(back, DOMAIN w.documents \cup {id})
            /\ (id \in Schemas => back.saved)
        BY <3>2
      <4>3. id \in HistoryTabs => back \in Historical
        BY <3>1
      <4> QED
        BY <4>1, <4>2, <4>3, PutKeeps
    <3> HIDE DEF c
    <3> QED
      BY <2>2, <3>1, <3>2, <3>3, <3>4
  <2>3. CASE ~remove /\ ~(known /\ doc.saved /\ IsRequest(id))
    <3>1. closed = w
      BY <2>3
    <3>2. id \in HistoryTabs => ~known
      BY <2>3 DEF IsHistorical
    <3> QED
      BY <1>1, <2>3, <3>1, <3>2 DEF SameButDocuments
  <2> QED
    BY <2>1, <2>2, <2>3
<1> HIDE DEF closed, docs
<1>7. preview \in Ids \cup {None} /\ preview \in (Range(tabs) \ HistoryTabs) \cup {None}
  BY <1>1, <1>3 DEF Fine, Sane, Tabbed
<1>15. next = [closed EXCEPT !.tabs = tabs, !.preview = preview, !.active = active]
  <2>1. closed.tabs = w.tabs /\ closed.preview = w.preview
    BY <1>6 DEF SameButDocuments
  <2> QED
    BY <2>1
<1> HIDE DEF preview, tabs, active, next
<1>8. /\ next.documents = docs /\ next.tabs = tabs /\ next.active = active /\ next.panel = w.panel
      /\ next.last = w.last /\ next.preview = preview /\ next.panels = w.panels
      /\ next.default = w.default /\ next.variable = w.variable /\ next \in Workspaces
  BY <1>3, <1>4, <1>5, <1>6, <1>7, <1>15 DEF Workspaces, SameButDocuments, docs
<1>9. Tabbed(next) /\ Held(next, {})
  <2>1. Range(tabs) \subseteq DOMAIN docs
    BY <1>3, <1>6 DEF Fine, Sane, Tabbed
  <2> QED
    BY <1>3, <1>6, <1>7, <1>8, <2>1 DEF Fine, Sane, Tabbed, Held
<1>10. Referred(next)
  <2>1. \A s \in Schemas : s \in DOMAIN w.documents => s \in DOMAIN docs
    BY <1>1, <1>2, <1>6 DEF IsHistorical
  <2>2. w.variable # None => w.variable \in DOMAIN docs /\ docs[w.variable].saved
    BY <1>1, <1>6 DEF IsHistorical, Referred
  <2> QED
    BY <1>1, <1>8, <2>1, <2>2 DEF Referred
<1>11. Sane(next)
  BY <1>6, <1>8, <1>9, <1>10 DEF Sane
<1> DEFINE v == ActivateRemainingTab(next)
<1>12. Fine(v) /\ v.documents = docs /\ v.tabs = tabs
  BY <1>4, <1>8, <1>9, <1>11, ActivateKeeps
<1>13. CloseDocument(w, id, keep) = v
  BY Zenon DEF CloseDocument, next, closed, active
<1>14. v.variable = w.variable
  <2>1. v = next \/ v = [next EXCEPT !.active = v.active, !.panel = v.panel]
    BY <1>8 DEF ActivateRemainingTab, Workspaces
  <2> QED
    BY <1>8, <2>1 DEF Workspaces
<1> HIDE DEF v
<1>16. keep => DOMAIN w.documents \subseteq DOMAIN docs
  BY <1>6
<1> QED
  BY <1>3, <1>6, <1>12, <1>13, <1>14, <1>16

\* Tabs are closed one after another; documents whose tabs are not among them
\* stay.
LEMMA ClosedAllKeeps ==
  ASSUME NEW w, Fine(w), NEW tabs \in Seq(Ids),
         NEW stay \in SUBSET DOMAIN w.documents, stay \cap Range(tabs) = {}
  PROVE  LET v == ClosedAll(w, tabs) IN
         /\ Fine(v) /\ stay \subseteq DOMAIN v.documents
         /\ DOMAIN v.documents \subseteq DOMAIN w.documents
<1> DEFINE n == Len(tabs)
           W == {v \in Workspaces : /\ Fine(v) /\ stay \subseteq DOMAIN v.documents
                                    /\ DOMAIN v.documents \subseteq DOMAIN w.documents}
           Closed(x, v) == CloseDocument(v, tabs[x], FALSE)
           g == [p \in (1..n) \X W |-> Closed(p[1], p[2])]
           Eq(f) == f = [s \in SUBSET (1..n) |->
                           IF s = {} THEN w ELSE Closed(Max(s), f[s \ {Max(s)}])]
<1>1. n \in Nat /\ DOMAIN tabs = 1..n /\ \A i \in 1..n : tabs[i] \in Ids /\ tabs[i] \notin stay
  BY RangeIs
<1>2. w \in W
  BY DEF Fine, Sane
<1>3. ASSUME NEW x \in 1..n, NEW v \in W PROVE Closed(x, v) \in W
  <2>1. Fine(v) /\ tabs[x] \in Ids /\ tabs[x] \notin stay
    BY <1>1
  <2> DEFINE u == Closed(x, v)
  <2>2. /\ Fine(u) /\ DOMAIN u.documents \subseteq DOMAIN v.documents
        /\ DOMAIN v.documents \ {tabs[x]} \subseteq DOMAIN u.documents
    BY <2>1, CloseKeeps
  <2> HIDE DEF u
  <2>3. u \in W
    BY <2>1, <2>2 DEF Fine, Sane
  <2> QED
    BY <2>3 DEF u
<1>4. g \in [(1..n) \X W -> W] /\ \A x \in 1..n, v \in W : g[<<x, v>>] = Closed(x, v)
  <2> HIDE DEF Closed, W
  <2> QED
    BY <1>3
<1>5. \E f : Eq(f)
  <2>1. PICK f \in [SUBSET (1..n) -> W] : FoldsUp(f, n, w, g)
    <3>1. n \in Nat /\ w \in W /\ g \in [(1..n) \X W -> W]
      BY <1>1, <1>2, <1>4
    <3> HIDE DEF g, W, n
    <3> QED
      BY <3>1, FoldUpExists
  <2>2. ASSUME NEW s \in SUBSET (1..n)
        PROVE  f[s] = IF s = {} THEN w ELSE Closed(Max(s), f[s \ {Max(s)}])
    <3>1. f[s] = IF s = {} THEN w ELSE g[<<Max(s), f[s \ {Max(s)}]>>]
      BY <2>1 DEF FoldsUp
    <3>2. CASE s = {}
      BY <3>1, <3>2
    <3>3. CASE s # {}
      <4>1. Max(s) \in 1..n /\ f[s \ {Max(s)}] \in W
        BY <1>1, <2>1, <3>3, LargestOf
      <4> HIDE DEF Closed, g, W
      <4> QED
        BY <1>4, <3>1, <3>3, <4>1
    <3> QED
      BY <3>2, <3>3
  <2>3. Eq(f)
    <3> HIDE DEF Closed, W
    <3> QED
      BY <2>1, <2>2
  <2> QED
    BY <2>3
<1> DEFINE iter == CHOOSE f : Eq(f)
<1>6. ClosedAll(w, tabs) = iter[1..n]
  BY <1>1, Zenon DEF ClosedAll, FoldLeft, MapThenFoldSet
<1>7. Eq(iter)
  <2> HIDE DEF Eq
  <2> QED
    BY <1>5
<1> HIDE DEF iter
<1> DEFINE T == {s \in SUBSET (1..n) : iter[s] \in W}
<1>8. \A s \in SUBSET (1..n) : s # {} => iter[s] = Closed(Max(s), iter[s \ {Max(s)}])
  <2> HIDE DEF Closed
  <2> QED
    BY <1>7
<1>9. {} \in T
  <2>1. iter[{}] = w
    <3> HIDE DEF Closed
    <3> QED
      BY <1>7
  <2> QED
    BY <1>2, <2>1
<1>10. ASSUME NEW s \in SUBSET (1..n), s # {}, \A x \in s : s \ {x} \in T PROVE s \in T
  <2>1. Max(s) \in s /\ Max(s) \in 1..n
    BY <1>1, <1>10, LargestOf
  <2>2. iter[s \ {Max(s)}] \in W
    BY <1>10, <2>1
  <2> HIDE DEF Closed, W
  <2> QED
    BY <1>3, <1>8, <1>10, <2>1, <2>2
<1>11. 1..n \in T
  <2>1. IsFiniteSet(1..n)
    BY <1>1, FS_Interval
  <2>2. \A s \in SUBSET (1..n) : s # {} /\ (\A x \in s : s \ {x} \in T) => s \in T
    BY <1>10
  <2> HIDE DEF T, n
  <2>3. SUBSET (1..n) \subseteq T
    BY <1>9, <2>1, <2>2, AllSubsets
  <2> QED
    BY <2>3
<1> QED
  BY <1>6, <1>11

\* Another version of a document there is.
LEMMA PutFine ==
  ASSUME NEW w, Fine(w), NEW id \in DOMAIN w.documents, NEW doc \in Sound,
         NamesIn(doc, DOMAIN w.documents), w.documents[id].saved => doc.saved,
         id \in HistoryTabs => doc \in Historical
  PROVE  LET v == Put(w, id, doc) IN
         /\ Fine(v) /\ DOMAIN v.documents = DOMAIN w.documents
         /\ v = [w EXCEPT !.documents[id] = doc]
         /\ SameButDocuments(v, w) /\ v.documents[id] = doc
         /\ \A other \in DOMAIN w.documents : other # id => v.documents[other] = w.documents[other]
<1> DEFINE v == Put(w, id, doc)
<1>1. w \in Workspaces /\ Bound(w.documents) /\ w.documents \in DocumentMaps /\ id \in Ids
  BY FieldsOf, MapIs DEF Fine, Sane
<1>2. doc \in Sound /\ NamesIn(doc, DOMAIN w.documents \cup {id}) /\ (id \in Schemas => doc.saved)
  BY <1>1 DEF NamesIn, Bound
<1>3. id \in HistoryTabs => doc \in Historical
  OBVIOUS
<1>4. /\ v \in Workspaces /\ Bound(v.documents) /\ SameButDocuments(v, w)
      /\ DOMAIN v.documents = DOMAIN w.documents \cup {id} /\ v.documents[id] = doc
      /\ \A other \in DOMAIN w.documents : other # id => v.documents[other] = w.documents[other]
  BY <1>1, <1>2, <1>3, PutKeeps
<1>5. v = [w EXCEPT !.documents[id] = doc]
  <2> DEFINE docs == w.documents
  <2>1. docs = [x \in DOMAIN docs |-> docs[x]] /\ id \in DOMAIN docs
    BY <1>1, MapIs
  <2> HIDE DEF docs
  <2>2. WithDocument(docs, id, doc) = [docs EXCEPT ![id] = doc]
    BY <2>1 DEF WithDocument
  <2> QED
    BY <2>2 DEF Put, docs
<1> HIDE DEF v
<1>6. DOMAIN v.documents = DOMAIN w.documents
  BY <1>4
<1>7. Referred(v) /\ Tabbed(v) /\ Held(v, {}) /\ Shown(v)
  BY <1>4, <1>6 DEF Fine, Sane, Referred, Tabbed, Held, Shown, SameButDocuments
<1>8. Fine(v)
  BY <1>4, <1>7 DEF Fine, Sane
<1> QED
  BY <1>4, <1>5, <1>6, <1>8 DEF v

\* A draft without its connection.
LEMMA DetachedIs ==
  ASSUME NEW draft \in Drafts, NEW auth \in Auths
  PROVE  LET d == DetachGraphqlSchema(draft, auth) IN d \in Drafts /\ d.schema = None
  BY DEF DetachGraphqlSchema, Drafts

\* Every document without one connection.
LEMMA UnboundIs ==
  ASSUME NEW w \in Workspaces, Bound(w.documents), NEW id \in Schemas \cap DOMAIN w.documents
  PROVE  LET m == Unbound(w, id) IN
         /\ m \in DocumentMaps /\ DOMAIN m = DOMAIN w.documents /\ Bound(m)
         /\ \A x \in DOMAIN m : /\ NamesIn(m[x], DOMAIN m \ {id})
                                /\ m[x].saved = w.documents[x].saved
<1> DEFINE docs == w.documents
           auth == w.documents[id].request.auth
           detach(draft) == IF draft # None /\ draft.schema = id
                            THEN DetachGraphqlSchema(draft, auth) ELSE draft
           m == Unbound(w, id)
           other(x) == [docs[x] EXCEPT !.request = detach(@), !.savedRequest = detach(@)]
<1>1. docs \in DocumentMaps /\ Bound(docs) /\ docs[id] \in Sound /\ auth \in Auths
      /\ DOMAIN docs \subseteq Ids /\ \A x \in DOMAIN docs : docs[x] \in Sound
  BY FieldsOf, MapIs, DocumentIs
<1>2. m = [x \in DOMAIN docs |-> IF IsHistorical(x) THEN docs[x] ELSE other(x)]
  BY Zenon DEF Unbound
<1> HIDE DEF docs, m, auth
<1>3. \A draft \in Drafts : detach(draft) \in Drafts /\ detach(draft).schema # id
                            /\ (detach(draft).schema = draft.schema \/ detach(draft).schema = None)
  <2> SUFFICES ASSUME NEW draft \in Drafts
               PROVE  detach(draft) \in Drafts /\ detach(draft).schema # id
                      /\ (detach(draft).schema = draft.schema \/ detach(draft).schema = None)
    OBVIOUS
  <2>1. id # None
    BY Kinds
  <2> DEFINE d == DetachGraphqlSchema(draft, auth)
  <2>2. d \in Drafts /\ d.schema = None
    BY <1>1, DetachedIs
  <2> HIDE DEF d
  <2>3. detach(draft) = IF draft # None /\ draft.schema = id THEN d ELSE draft
    BY DEF d
  <2>4. draft # None
    BY Kinds
  <2> HIDE DEF detach
  <2> QED
    BY <2>1, <2>2, <2>3, <2>4
<1>4. detach(None) = None
  OBVIOUS
<1> HIDE DEF detach
<1>5. ASSUME NEW x \in DOMAIN docs, ~IsHistorical(x)
      PROVE  /\ other(x) \in Sound /\ other(x).saved = docs[x].saved
             /\ NamesIn(other(x), DOMAIN docs \ {id})
  <2> DEFINE doc == docs[x]
             o == other(x)
  <2>1. doc \in Sound /\ NamesIn(doc, DOMAIN docs)
    BY <1>1 DEF Bound
  <2> HIDE DEF doc
  <2>2. doc \in Documents /\ (doc.saved <=> doc.savedRequest # None) /\ doc.request \in Drafts
        /\ doc.savedRequest \in Drafts \cup {None} /\ (doc.saved => doc.savedRequest \in Drafts)
    BY <2>1, DocumentIs DEF Sound
  <2>3. /\ o = [doc EXCEPT !.request = detach(@), !.savedRequest = detach(@)]
    BY DEF doc
  <2> HIDE DEF o
  <2>4. detach(doc.request) \in Drafts /\ detach(doc.savedRequest) \in Drafts \cup {None}
        /\ (detach(doc.savedRequest) = None <=> doc.savedRequest = None)
    BY <1>3, <1>4, <2>2, Kinds
  <2>5. /\ o \in Documents /\ o.saved = doc.saved /\ o.request = detach(doc.request)
        /\ o.savedRequest = detach(doc.savedRequest)
    BY <2>2, <2>3, <2>4 DEF Documents
  <2>6. o \in Sound
    BY <2>2, <2>4, <2>5 DEF Sound
  <2>7. NamesIn(o, DOMAIN docs \ {id})
    BY <1>3, <2>1, <2>2, <2>5 DEF NamesIn
  <2> QED
    BY <2>5, <2>6, <2>7 DEF o, doc
<1> HIDE DEF other
<1>6. ASSUME NEW x \in DOMAIN docs, IsHistorical(x)
      PROVE  docs[x] \in Historical /\ NamesIn(docs[x], DOMAIN docs \ {id})
  BY <1>1, <1>6 DEF Bound, IsHistorical, Historical, NamesIn
<1>7. DOMAIN m = DOMAIN docs /\ m = [x \in DOMAIN docs |-> m[x]]
      /\ \A x \in DOMAIN docs : m[x] = IF IsHistorical(x) THEN docs[x] ELSE other(x)
  BY <1>2
<1>8. \A x \in DOMAIN docs : /\ m[x] \in Sound /\ m[x].saved = docs[x].saved
                             /\ NamesIn(m[x], DOMAIN docs \ {id})
                             /\ IsHistorical(x) => m[x] \in Historical
  BY <1>1, <1>5, <1>6, <1>7
<1>9. m \in DocumentMaps
  BY <1>1, <1>7, <1>8, ChangedIs
<1>10. Bound(m)
  <2>1. \A x \in DOMAIN m : /\ NamesIn(m[x], DOMAIN m) /\ (x \in Schemas => m[x].saved)
                            /\ (x \in HistoryTabs => m[x] \in Historical)
    BY <1>1, <1>7, <1>8 DEF Bound, NamesIn, IsHistorical
  <2> QED
    BY <2>1 DEF Bound
<1> QED
  BY <1>7, <1>8, <1>9, <1>10 DEF m, docs

\* A document is deleted, and nothing leads to it any more.
LEMMA DeleteKeeps ==
  ASSUME NEW w, Fine(w), NEW id \in Requests \cup Schemas
  PROVE  LET u == DeleteDocument(w, id)
             v == [u EXCEPT !.variable = IF @ = id THEN None ELSE @]
         IN  /\ Fine(v) /\ DOMAIN v.documents = DOMAIN w.documents \ {id}
             /\ \A x \in DOMAIN v.documents : v.documents[x].saved = w.documents[x].saved
             /\ u.variable = w.variable /\ u \in Workspaces
<1> DEFINE u == DeleteDocument(w, id)
           v == [u EXCEPT !.variable = IF @ = id THEN None ELSE @]
           c == CloseDocument(w, id, TRUE)
           docs == IF id \in Schemas THEN Unbound(c, id) ELSE c.documents
           default == IF c.default = id THEN None ELSE c.default
           last == IF c.last = id THEN None ELSE c.last
           variable == IF c.variable = id THEN None ELSE c.variable
           b == [c EXCEPT !.documents = docs, !.default = default, !.last = last]
<1>1. id \in Ids /\ id \notin HistoryTabs /\ id # None /\ Fine(w)
      /\ w \in Workspaces
  BY Kinds DEF Fine, Sane
<1>2. CASE id \notin DOMAIN w.documents
  <2>1. u = w
    BY <1>2 DEF DeleteDocument
  <2>2. w.variable # id
    BY <1>1, <1>2 DEF Fine, Sane, Referred
  <2>3. v = w
    BY <1>1, <2>1, <2>2 DEF Workspaces
  <2> QED
    BY <1>1, <1>2, <2>1, <2>3
<1>3. CASE id \in DOMAIN w.documents
  <2>1. /\ Fine(c) /\ id \notin Range(c.tabs)
        /\ DOMAIN c.documents \subseteq DOMAIN w.documents
        /\ DOMAIN w.documents \subseteq DOMAIN c.documents
        /\ c.variable = w.variable
        /\ \A x \in DOMAIN c.documents : c.documents[x].saved = w.documents[x].saved
    <3>1. TRUE \in BOOLEAN /\ (TRUE => id \notin HistoryTabs)
      BY <1>1
    <3>2. /\ Fine(c) /\ id \notin Range(c.tabs)
          /\ DOMAIN c.documents \subseteq DOMAIN w.documents
          /\ DOMAIN w.documents \ (IF TRUE THEN {} ELSE {id}) \subseteq DOMAIN c.documents
          /\ c.variable = w.variable
          /\ \A x \in DOMAIN c.documents \ {id} : c.documents[x] = w.documents[x]
          /\ id \in DOMAIN c.documents => c.documents[id].saved = w.documents[id].saved
      BY <1>1, <3>1, CloseKeeps
    <3> HIDE DEF c
    <3> QED
      BY <3>2
  <2> HIDE DEF c
  <2>2. /\ c \in Workspaces /\ Bound(c.documents) /\ c.documents \in DocumentMaps
        /\ c.default \in Schemas \cup {None} /\ c.last \in Schemas \cup {None}
        /\ c.variable \in Requests \cup {None} /\ id \in DOMAIN c.documents
    BY <1>3, <2>1, FieldsOf DEF Fine, Sane
  <2>3. /\ docs \in DocumentMaps /\ DOMAIN docs = DOMAIN c.documents /\ Bound(docs)
        /\ \A x \in DOMAIN docs : /\ NamesIn(docs[x], DOMAIN docs \ {id})
                                  /\ docs[x].saved = c.documents[x].saved
    <3>1. CASE id \in Schemas
      <4>1. id \in Schemas \cap DOMAIN c.documents
        BY <2>2, <3>1
      <4> DEFINE m == Unbound(c, id)
      <4>2. /\ m \in DocumentMaps /\ DOMAIN m = DOMAIN c.documents /\ Bound(m)
            /\ \A x \in DOMAIN m : /\ NamesIn(m[x], DOMAIN m \ {id})
                                   /\ m[x].saved = c.documents[x].saved
        BY <2>2, <4>1, UnboundIs
      <4> HIDE DEF m
      <4>3. docs = m
        BY <3>1 DEF m
      <4> HIDE DEF docs
      <4> QED
        BY <4>2, <4>3
    <3>2. CASE id \notin Schemas
      <4> DEFINE d == c.documents
      <4>1. d \in DocumentMaps /\ Bound(d) /\ {id} \cap Schemas = {}
        BY <2>2, <3>2
      <4> HIDE DEF d
      <4>2. \A x \in DOMAIN d : NamesIn(d[x], DOMAIN d \ {id})
        BY <4>1, OnlySchemasNamed
      <4>3. docs = d
        BY <3>2 DEF d
      <4> HIDE DEF docs
      <4> QED
        BY <4>1, <4>2, <4>3 DEF d
    <3> QED
      BY <3>1, <3>2
  <2> HIDE DEF docs
  <2>4. default \in Schemas \cup {None} /\ last \in Schemas \cup {None}
        /\ variable \in Requests \cup {None}
    BY <2>2
  <2>5. /\ b \in Workspaces /\ b.documents = docs /\ b.default = default /\ b.last = last
        /\ b.tabs = c.tabs /\ b.active = c.active /\ b.preview = c.preview
        /\ b.panels = c.panels /\ b.panel = c.panel /\ b.variable = c.variable
    BY <2>2, <2>3, <2>4 DEF Workspaces
  <2>6. u = Drop(b, {id})
    BY <1>3 DEF DeleteDocument, docs, c
  <2> HIDE DEF b, default, last, variable, u
  <2>7. /\ u \in Workspaces /\ Bound(u.documents) /\ SameButDocuments(u, b)
        /\ DOMAIN u.documents = DOMAIN docs \ {id}
        /\ \A x \in DOMAIN u.documents : u.documents[x] = docs[x]
    <3>1. \A x \in DOMAIN b.documents \ {id} : NamesIn(b.documents[x], DOMAIN b.documents \ {id})
      BY <2>3, <2>5
    <3>2. b \in Workspaces /\ Bound(b.documents)
      BY <2>3, <2>5
    <3> DEFINE e == Drop(b, {id})
    <3>3. /\ e \in Workspaces /\ Bound(e.documents) /\ SameButDocuments(e, b)
          /\ DOMAIN e.documents = DOMAIN b.documents \ {id}
          /\ \A x \in DOMAIN e.documents : e.documents[x] = b.documents[x]
      BY <3>1, <3>2, DropKeeps
    <3> HIDE DEF e
    <3> QED
      BY <2>5, <2>6, <3>3 DEF e
  <2>8. u.variable = c.variable
    BY <2>5, <2>7 DEF SameButDocuments
  <2>9. /\ v \in Workspaces /\ v.documents = u.documents /\ v.default = default
        /\ v.last = last /\ v.variable = variable
        /\ v.tabs = c.tabs /\ v.active = c.active /\ v.preview = c.preview
        /\ v.panels = c.panels /\ v.panel = c.panel
    BY <2>4, <2>5, <2>7, <2>8 DEF Workspaces, SameButDocuments, variable
  <2> HIDE DEF v
  <2>10. Referred(v)
    BY <1>1, <2>1, <2>3, <2>7, <2>9 DEF Fine, Sane, Referred, default, last, variable
  <2>11. Tabbed(v) /\ Held(v, {}) /\ Shown(v)
    BY <1>1, <2>1, <2>3, <2>7, <2>9 DEF Fine, Sane, Tabbed, Held, Shown
  <2>12. Fine(v)
    BY <2>7, <2>9, <2>10, <2>11 DEF Fine, Sane
  <2>13. DOMAIN v.documents = DOMAIN w.documents \ {id}
         /\ \A x \in DOMAIN v.documents : v.documents[x].saved = w.documents[x].saved
    BY <2>1, <2>3, <2>7, <2>9
  <2> QED
    BY <2>1, <2>7, <2>8, <2>12, <2>13 DEF u, v
<1> QED
  BY <1>2, <1>3

\* A request goes back to what was saved of it, or it is discarded.
LEMMA DiscardKeeps ==
  ASSUME NEW w, Fine(w), NEW id \in Requests
  PROVE  LET v == DiscardDocument(w, id) IN
         /\ Fine(v) /\ DOMAIN v.documents \subseteq DOMAIN w.documents
         /\ \A x \in DOMAIN v.documents : v.documents[x].saved = w.documents[x].saved
<1> DEFINE v == DiscardDocument(w, id)
           doc == w.documents[id]
<1>1. /\ w \in Workspaces /\ Bound(w.documents) /\ Referred(w) /\ id \notin HistoryTabs
      /\ id \notin Schemas /\ id # None
  BY Kinds DEF Fine, Sane
<1>2. CASE id \notin DOMAIN w.documents
  BY <1>2 DEF DiscardDocument
<1>3. CASE id \in DOMAIN w.documents /\ doc.saved
  <2> DEFINE back == Reverted(doc)
             p == Put(w, id, back)
  <2>1. doc \in Sound /\ NamesIn(doc, DOMAIN w.documents) /\ doc.saved
    BY <1>1, <1>3, FieldsOf, MapIs DEF Bound
  <2>2. back \in Sound /\ NamesIn(back, DOMAIN w.documents)
        /\ (w.documents[id].saved => back.saved) /\ back.saved = w.documents[id].saved
    BY <2>1, RevertedIs, DocumentIs
  <2> HIDE DEF back
  <2>3. /\ Fine(p) /\ DOMAIN p.documents = DOMAIN w.documents /\ p.documents[id] = back
        /\ \A other \in DOMAIN w.documents : other # id => p.documents[other] = w.documents[other]
    <3>1. id \in HistoryTabs => back \in Historical
      BY <1>1
    <3>2. id \in DOMAIN w.documents
      BY <1>3
    <3> QED
      BY <2>2, <3>1, <3>2, PutFine
  <2>4. v = p
    BY <1>3 DEF DiscardDocument, IsRequest, back
  <2> HIDE DEF p, v
  <2> QED
    BY <1>3, <2>2, <2>3, <2>4 DEF v
<1>4. CASE id \in DOMAIN w.documents /\ ~doc.saved
  <2> DEFINE u == DeleteDocument(w, id)
             x1 == [u EXCEPT !.variable = IF @ = id THEN None ELSE @]
  <2>1. id \in Requests \cup Schemas
    OBVIOUS
  <2>2. /\ Fine(x1) /\ DOMAIN x1.documents = DOMAIN w.documents \ {id}
        /\ \A x \in DOMAIN x1.documents : x1.documents[x].saved = w.documents[x].saved
        /\ u.variable = w.variable /\ u \in Workspaces
    BY <2>1, DeleteKeeps
  <2>3. v = u
    BY <1>4 DEF DiscardDocument
  <2>4. w.variable # id
    BY <1>1, <1>4 DEF Referred
  <2> HIDE DEF u
  <2>5. x1 = u
    BY <2>2, <2>4 DEF Workspaces
  <2> HIDE DEF v, x1
  <2> QED
    BY <2>2, <2>3, <2>5 DEF v
<1> QED
  BY <1>2, <1>3, <1>4


\* All drafts are discarded.
LEMMA DiscardAllKeeps ==
  ASSUME NEW w, Fine(w)
  PROVE  LET v == DiscardAllDrafts(w) IN
         Fine(v) /\ DOMAIN v.documents \subseteq DOMAIN w.documents
<1> DEFINE S == {id \in DOMAIN w.documents :
                     ~w.documents[id].saved /\ IsMeaningfulDraft(id, w.documents[id])}
           W == {v \in Workspaces : Fine(v) /\ DOMAIN v.documents \subseteq DOMAIN w.documents}
           After(x, v) == DiscardDocument(v, x)
           c == [s \in SUBSET S |-> CHOOSE x \in s : TRUE]
           g == [p \in S \X W |-> After(p[1], p[2])]
           Eq(f) == f = [s \in SUBSET S |->
                           IF s = {} THEN w
                           ELSE After(CHOOSE x \in s : TRUE, f[s \ {CHOOSE x \in s : TRUE}])]
<1>1. IsFiniteSet(S) /\ S \subseteq Requests
  <2>1. w.documents \in DocumentMaps /\ Bound(w.documents)
    BY FieldsOf DEF Fine, Sane
  <2>2. S \subseteq DOMAIN w.documents /\ IsFiniteSet(DOMAIN w.documents)
        /\ DOMAIN w.documents \subseteq Ids
    BY <2>1, MapIs
  <2>3. IsFiniteSet(S)
    BY <2>2, FS_Subset
  <2>4. \A id \in S : id \notin Schemas /\ id \notin HistoryTabs
    BY <2>1 DEF Bound, Historical
  <2> QED
    BY <2>2, <2>3, <2>4 DEF Ids
<1>2. w \in W
  BY DEF Fine, Sane
<1>3. ASSUME NEW x \in S, NEW v \in W PROVE After(x, v) \in W
  <2>1. Fine(v) /\ x \in Requests
    BY <1>1
  <2> DEFINE u == After(x, v)
  <2>2. Fine(u) /\ DOMAIN u.documents \subseteq DOMAIN v.documents
    BY <2>1, DiscardKeeps
  <2> HIDE DEF u, S
  <2>3. u \in W
    BY <2>1, <2>2 DEF Fine, Sane
  <2> QED
    BY <2>3 DEF u
<1>4. g \in [S \X W -> W] /\ \A x \in S, v \in W : g[<<x, v>>] = After(x, v)
  <2> HIDE DEF After, W, S
  <2> QED
    BY <1>3
<1> HIDE DEF S
<1>5. \A s \in SUBSET S : s # {} =>
          c[s] \in s /\ c[s] \in S /\ c[s] = CHOOSE x \in s : TRUE
  OBVIOUS
<1>6. \E f : Eq(f)
  <2>1. PICK f \in [SUBSET S -> W] : Folds(f, S, w, g, c)
    <3>1. \A s \in SUBSET S : s # {} => c[s] \in s
      BY <1>5
    <3> HIDE DEF g, W, c
    <3> QED
      BY <1>1, <1>2, <1>4, <3>1, FoldExists
  <2>2. ASSUME NEW s \in SUBSET S
        PROVE  f[s] = IF s = {} THEN w
                      ELSE After(CHOOSE x \in s : TRUE, f[s \ {CHOOSE x \in s : TRUE}])
    <3>1. f[s] = IF s = {} THEN w ELSE g[<<c[s], f[s \ {c[s]}]>>]
      BY <2>1 DEF Folds
    <3>2. CASE s = {}
      BY <3>1, <3>2
    <3>3. CASE s # {}
      <4>1. c[s] \in S /\ f[s \ {c[s]}] \in W /\ c[s] = CHOOSE x \in s : TRUE
        <5> HIDE DEF c, W
        <5> QED
          BY <1>5, <2>1, <3>3
      <4> HIDE DEF After, g, W, c
      <4> QED
        BY <1>4, <3>1, <3>3, <4>1
    <3> QED
      BY <3>2, <3>3
  <2>3. Eq(f)
    <3> HIDE DEF After, W
    <3> QED
      BY <2>1, <2>2
  <2> QED
    BY <2>3
<1> DEFINE iter == CHOOSE f : Eq(f)
<1>7. DiscardAllDrafts(w) = iter[S]
  BY Zenon DEF DiscardAllDrafts, FoldSet, MapThenFoldSet, S
<1>8. Eq(iter)
  <2> HIDE DEF Eq
  <2> QED
    BY <1>6
<1> HIDE DEF iter
<1> DEFINE T == {s \in SUBSET S : iter[s] \in W}
<1>9. \A s \in SUBSET S : s # {} => iter[s] = After(c[s], iter[s \ {c[s]}])
  <2> HIDE DEF After
  <2> QED
    BY <1>8
<1>10. {} \in T
  <2>1. iter[{}] = w
    <3> HIDE DEF After
    <3> QED
      BY <1>8
  <2> QED
    BY <1>2, <2>1
<1>11. ASSUME NEW s \in SUBSET S, s # {}, \A x \in s : s \ {x} \in T PROVE s \in T
  <2>1. c[s] \in s /\ c[s] \in S
    BY <1>5, <1>11
  <2> HIDE DEF c
  <2>2. iter[s \ {c[s]}] \in W
    BY <1>11, <2>1
  <2> HIDE DEF After, W
  <2> QED
    BY <1>3, <1>9, <1>11, <2>1, <2>2
<1>12. S \in T
  <2>1. \A s \in SUBSET S : s # {} /\ (\A x \in s : s \ {x} \in T) => s \in T
    BY <1>11
  <2> HIDE DEF T
  <2>2. SUBSET S \subseteq T
    BY <1>1, <1>10, <2>1, AllSubsets
  <2> QED
    BY <2>2
<1> QED
  BY <1>7, <1>12

\* The tabs of entries that were removed are closed.
LEMMA CloseRemovedKeeps ==
  ASSUME NEW w, Fine(w), NEW gone \in SUBSET Entries
  PROVE  LET v == ClosedTabsOf(w, gone) IN
         Fine(v) /\ DOMAIN v.documents \subseteq DOMAIN w.documents
<1> DEFINE S == DOMAIN w.documents \cap (gone \X BOOLEAN)
           W == {v \in Workspaces : Fine(v) /\ DOMAIN v.documents \subseteq DOMAIN w.documents}
           After(x, v) == CloseDocument(v, x, FALSE)
           c == [s \in SUBSET S |-> CHOOSE x \in s : TRUE]
           g == [p \in S \X W |-> After(p[1], p[2])]
           Eq(f) == f = [s \in SUBSET S |->
                           IF s = {} THEN w
                           ELSE After(CHOOSE x \in s : TRUE, f[s \ {CHOOSE x \in s : TRUE}])]
<1>1. IsFiniteSet(S) /\ S \subseteq Ids
  <2>1. IsFiniteSet(DOMAIN w.documents) /\ DOMAIN w.documents \subseteq Ids
    BY FieldsOf, MapIs DEF Fine, Sane
  <2> QED
    BY <2>1, FS_Subset
<1>2. w \in W
  BY DEF Fine, Sane
<1>3. ASSUME NEW x \in S, NEW v \in W PROVE After(x, v) \in W
  <2>1. Fine(v) /\ x \in Ids /\ FALSE \in BOOLEAN /\ (FALSE => x \notin HistoryTabs)
    BY <1>1
  <2> DEFINE u == After(x, v)
  <2>2. Fine(u) /\ DOMAIN u.documents \subseteq DOMAIN v.documents
    BY <2>1, CloseKeeps
  <2> HIDE DEF u, S
  <2>3. u \in W
    BY <2>1, <2>2 DEF Fine, Sane
  <2> QED
    BY <2>3 DEF u
<1>4. g \in [S \X W -> W] /\ \A x \in S, v \in W : g[<<x, v>>] = After(x, v)
  <2> HIDE DEF After, W, S
  <2> QED
    BY <1>3
<1> HIDE DEF S
<1>5. \A s \in SUBSET S : s # {} =>
          c[s] \in s /\ c[s] \in S /\ c[s] = CHOOSE x \in s : TRUE
  OBVIOUS
<1>6. \E f : Eq(f)
  <2>1. PICK f \in [SUBSET S -> W] : Folds(f, S, w, g, c)
    <3>1. \A s \in SUBSET S : s # {} => c[s] \in s
      BY <1>5
    <3> HIDE DEF g, W, c
    <3> QED
      BY <1>1, <1>2, <1>4, <3>1, FoldExists
  <2>2. ASSUME NEW s \in SUBSET S
        PROVE  f[s] = IF s = {} THEN w
                      ELSE After(CHOOSE x \in s : TRUE, f[s \ {CHOOSE x \in s : TRUE}])
    <3>1. f[s] = IF s = {} THEN w ELSE g[<<c[s], f[s \ {c[s]}]>>]
      BY <2>1 DEF Folds
    <3>2. CASE s = {}
      BY <3>1, <3>2
    <3>3. CASE s # {}
      <4>1. c[s] \in S /\ f[s \ {c[s]}] \in W /\ c[s] = CHOOSE x \in s : TRUE
        <5> HIDE DEF c, W
        <5> QED
          BY <1>5, <2>1, <3>3
      <4> HIDE DEF After, g, W, c
      <4> QED
        BY <1>4, <3>1, <3>3, <4>1
    <3> QED
      BY <3>2, <3>3
  <2>3. Eq(f)
    <3> HIDE DEF After, W
    <3> QED
      BY <2>1, <2>2
  <2> QED
    BY <2>3
<1> DEFINE iter == CHOOSE f : Eq(f)
<1>7. ClosedTabsOf(w, gone) = iter[S]
  BY Zenon DEF ClosedTabsOf, FoldSet, MapThenFoldSet, S
<1>8. Eq(iter)
  <2> HIDE DEF Eq
  <2> QED
    BY <1>6
<1> HIDE DEF iter
<1> DEFINE T == {s \in SUBSET S : iter[s] \in W}
<1>9. \A s \in SUBSET S : s # {} => iter[s] = After(c[s], iter[s \ {c[s]}])
  <2> HIDE DEF After
  <2> QED
    BY <1>8
<1>10. {} \in T
  <2>1. iter[{}] = w
    <3> HIDE DEF After
    <3> QED
      BY <1>8
  <2> QED
    BY <1>2, <2>1
<1>11. ASSUME NEW s \in SUBSET S, s # {}, \A x \in s : s \ {x} \in T PROVE s \in T
  <2>1. c[s] \in s /\ c[s] \in S
    BY <1>5, <1>11
  <2> HIDE DEF c
  <2>2. iter[s \ {c[s]}] \in W
    BY <1>11, <2>1
  <2> HIDE DEF After, W
  <2> QED
    BY <1>3, <1>9, <1>11, <2>1, <2>2
<1>12. S \in T
  <2>1. \A s \in SUBSET S : s # {} /\ (\A x \in s : s \ {x} \in T) => s \in T
    BY <1>11
  <2> HIDE DEF T
  <2>2. SUBSET S \subseteq T
    BY <1>1, <1>10, <2>1, AllSubsets
  <2> QED
    BY <2>2
<1> QED
  BY <1>7, <1>12


\* A document is looked at: in its tab, in the place of the last one that was
\* only looked at, or in a new tab.
LEMMA PreviewKeeps ==
  ASSUME NEW w, Fine(w), NEW id \in DOMAIN w.documents, id \notin HistoryTabs
  PROVE  LET v == PreviewDocument(w, id) IN Fine(v) /\ v.documents = w.documents
<1> DEFINE v == PreviewDocument(w, id)
           direct == id \in Range(w.tabs) \/ ~w.documents[id].saved \/ Dirty(w, id)
           tabs == IF CanReplacePreview(w) THEN Replaced(w.tabs, w.preview, id)
                   ELSE Append(w.tabs, id)
<1>1. /\ w \in Workspaces /\ w.tabs \in Seq(Ids) /\ id \in Ids /\ None \notin Ids
      /\ Sane(w) /\ Held(w, {}) /\ Tabbed(w)
  BY FieldsOf, MapIs, Kinds DEF Fine, Sane
<1>2. CASE direct
  <2>1. v = OpenDocument(w, id)
    BY <1>2 DEF PreviewDocument
  <2>2. Held(w, {id})
    BY <1>1 DEF Held
  <2> QED
    BY <1>1, <2>1, <2>2, OpenKeeps
<1>3. CASE ~direct
  <2>1. id \notin Range(w.tabs)
    BY <1>3
  <2>2. /\ tabs \in Seq(Ids) /\ Distinct(tabs) /\ id \in Range(tabs)
        /\ Range(tabs) \subseteq Range(w.tabs) \cup {id}
        /\ Range(w.tabs) \cap HistoryTabs \subseteq Range(tabs)
    <3>1. CASE CanReplacePreview(w)
      <4> DEFINE r == Replaced(w.tabs, w.preview, id)
      <4>1. w.preview \in Range(w.tabs) /\ w.preview \notin HistoryTabs
        BY <1>1, <3>1, RangeIs DEF CanReplacePreview, Tabbed
      <4>2. id \in Range(w.tabs) => id = w.preview
        BY <2>1
      <4>3. /\ r \in Seq(Ids) /\ Distinct(r)
            /\ Range(r) = (Range(w.tabs) \ {w.preview})
                          \cup (IF w.preview \in Range(w.tabs) THEN {id} ELSE {})
        BY <1>1, <4>2, ReplacedIs DEF Tabbed
      <4>4. tabs = r
        BY <3>1
      <4> HIDE DEF tabs, r
      <4> QED
        BY <4>1, <4>3, <4>4
    <3>2. CASE ~CanReplacePreview(w)
      <4> DEFINE r == Append(w.tabs, id)
      <4>1. r \in Seq(Ids) /\ Range(r) = Range(w.tabs) \cup {id} /\ Distinct(r)
        BY <1>1, <2>1, AppendIs DEF Tabbed
      <4>2. tabs = r
        BY <3>2
      <4> HIDE DEF tabs, r
      <4> QED
        BY <4>1, <4>2
    <3> QED
      BY <3>1, <3>2
  <2>3. v = [w EXCEPT !.tabs = tabs, !.active = id, !.preview = id, !.panel = None]
    BY <1>3 DEF PreviewDocument
  <2> HIDE DEF v, tabs
  <2>4. /\ v \in Workspaces /\ v.documents = w.documents /\ v.tabs = tabs /\ v.active = id
        /\ v.preview = id /\ v.panel = None /\ v.panels = w.panels /\ v.last = w.last
        /\ v.default = w.default /\ v.variable = w.variable
    BY <1>1, <2>2, <2>3 DEF Workspaces
  <2>5. Bound(v.documents) /\ Referred(v)
    BY <1>1, <2>4 DEF Sane, Referred
  <2>6. Tabbed(v) /\ Held(v, {})
    BY <1>1, <2>2, <2>4 DEF Tabbed, Held
  <2>7. Shown(v)
    BY <1>1, <2>2, <2>4, NoTabs DEF Shown
  <2> QED
    BY <2>4, <2>5, <2>6, <2>7 DEF Fine, Sane, v
<1> QED
  BY <1>2, <1>3

\* A tab that is no preview any more.
LEMMA PinKeeps ==
  ASSUME NEW w, Fine(w), NEW id
  PROVE  LET v == PinDocument(w, id) IN Fine(v) /\ v.documents = w.documents
<1> DEFINE v == PinDocument(w, id)
           preview == IF w.preview = id THEN None ELSE w.preview
<1>1. w \in Workspaces /\ preview \in Ids \cup {None}
      /\ preview \in (Range(w.tabs) \ HistoryTabs) \cup {None}
  BY FieldsOf DEF Fine, Sane, Tabbed
<1>2. v = [w EXCEPT !.preview = preview]
  BY DEF PinDocument
<1> HIDE DEF v, preview
<1>3. /\ v \in Workspaces /\ v.documents = w.documents /\ v.tabs = w.tabs /\ v.active = w.active
      /\ v.preview = preview /\ v.panel = w.panel /\ v.panels = w.panels /\ v.last = w.last
      /\ v.default = w.default /\ v.variable = w.variable
  BY <1>1, <1>2 DEF Workspaces
<1>4. Fine(v)
  BY <1>1, <1>3 DEF Fine, Sane, Tabbed, Referred, Held, Shown
<1> QED
  BY <1>3, <1>4 DEF v

\* Sequences one after the other, and a part of one.
LEMMA ConcatIs ==
  ASSUME NEW S, NEW a \in Seq(S), NEW b \in Seq(S)
  PROVE  /\ a \o b \in Seq(S) /\ Len(a \o b) = Len(a) + Len(b)
         /\ \A k \in 1..(Len(a) + Len(b)) :
               (a \o b)[k] = IF k <= Len(a) THEN a[k] ELSE b[k - Len(a)]
  OBVIOUS

\* The part from one place to another.
LEMMA SliceIs ==
  ASSUME NEW S, NEW q \in Seq(S), NEW m \in Nat, NEW n \in Nat,
         1 <= m, m <= n + 1, n <= Len(q)
  PROVE  /\ SubSeq(q, m, n) \in Seq(S) /\ Len(SubSeq(q, m, n)) = (n + 1) - m
         /\ \A k \in 1..((n + 1) - m) : SubSeq(q, m, n)[k] = q[(m - 1) + k]
  OBVIOUS

\* One tab goes to the place of another.
LEMMA MovedIs ==
  ASSUME NEW S, NEW q \in Seq(S), NEW i \in 1..Len(q), NEW j \in 1..Len(q)
  PROVE  LET r == InsertAt(RemoveAt(q, i), j, q[i]) IN
         r \in Seq(S) /\ Range(r) = Range(q) /\ (Distinct(q) => Distinct(r))
<1> DEFINE n == Len(q)
           s == RemoveAt(q, i)
           r == InsertAt(s, j, q[i])
           from(k) == IF k = j THEN i
                      ELSE IF k < j THEN IF k < i THEN k ELSE k + 1
                      ELSE IF k - 1 < i THEN k - 1 ELSE k
<1>1. n \in Nat /\ i \in 1..n /\ j \in 1..n /\ DOMAIN q = 1..n /\ \A k \in 1..n : q[k] \in S
  OBVIOUS
<1>2. /\ s \in Seq(S) /\ Len(s) = n - 1
      /\ \A k \in 1..(n - 1) : s[k] = IF k < i THEN q[k] ELSE q[k + 1]
  <2> DEFINE a == SubSeq(q, 1, i - 1)
             b == SubSeq(q, i + 1, Len(q))
  <2>1. a \in Seq(S) /\ Len(a) = i - 1 /\ \A k \in 1..(i - 1) : a[k] = q[k]
    <3>1. 1 \in Nat /\ i - 1 \in Nat /\ 1 <= 1 /\ 1 <= (i - 1) + 1 /\ i - 1 <= Len(q)
          /\ ((i - 1) + 1) - 1 = i - 1
      BY <1>1
    <3>2. /\ a \in Seq(S) /\ Len(a) = ((i - 1) + 1) - 1
          /\ \A k \in 1..(((i - 1) + 1) - 1) : a[k] = q[(1 - 1) + k]
      BY <3>1, SliceIs
    <3>3. \A k \in 1..(i - 1) : (1 - 1) + k = k
      BY <1>1
    <3> HIDE DEF a
    <3> QED
      BY <3>1, <3>2, <3>3
  <2>2. b \in Seq(S) /\ Len(b) = n - i /\ \A k \in 1..(n - i) : b[k] = q[i + k]
    <3>1. i + 1 \in Nat /\ Len(q) \in Nat /\ 1 <= i + 1 /\ i + 1 <= Len(q) + 1
          /\ Len(q) <= Len(q)
      BY <1>1
    <3>2. /\ b \in Seq(S) /\ Len(b) = (Len(q) + 1) - (i + 1)
          /\ \A k \in 1..((Len(q) + 1) - (i + 1)) : b[k] = q[((i + 1) - 1) + k]
      BY <3>1, SliceIs
    <3>3. (Len(q) + 1) - (i + 1) = n - i /\ (i + 1) - 1 = i
      BY <1>1
    <3> HIDE DEF b
    <3> QED
      BY <3>2, <3>3
  <2>3. s = a \o b
    BY DEF RemoveAt
  <2> HIDE DEF a, b, s
  <2>7. /\ s \in Seq(S) /\ Len(s) = Len(a) + Len(b)
        /\ \A k \in 1..(Len(a) + Len(b)) : s[k] = IF k <= Len(a) THEN a[k] ELSE b[k - Len(a)]
    BY <2>1, <2>2, <2>3, ConcatIs
  <2> HIDE DEF n
  <2>8. (i - 1) + (n - i) = n - 1
    BY <1>1
  <2>4. s \in Seq(S) /\ Len(s) = n - 1
    BY <2>1, <2>2, <2>7, <2>8
  <2>5. \A k \in 1..(n - 1) : s[k] = IF k <= i - 1 THEN a[k] ELSE b[k - (i - 1)]
    BY <2>1, <2>2, <2>7, <2>8
  <2>6. ASSUME NEW k \in 1..(n - 1) PROVE s[k] = IF k < i THEN q[k] ELSE q[k + 1]
    <3>1. CASE k < i
      BY <1>1, <2>1, <2>5, <3>1
    <3>2. CASE ~(k < i)
      <4>1. k - (i - 1) \in 1..(n - i) /\ i + (k - (i - 1)) = k + 1
        BY <1>1, <3>2
      <4> QED
        BY <1>1, <2>2, <2>5, <3>2, <4>1
    <3> QED
      BY <3>1, <3>2
  <2> QED
    BY <2>4, <2>6
<1>3. /\ r \in Seq(S) /\ Len(r) = n
      /\ \A k \in 1..n : r[k] = IF k < j THEN s[k] ELSE IF k = j THEN q[i] ELSE s[k - 1]
  <2> DEFINE a == SubSeq(s, 1, j - 1)
             e == <<q[i]>>
             b == SubSeq(s, j, Len(s))
             ab == a \o e
  <2> HIDE DEF s
  <2>1. a \in Seq(S) /\ Len(a) = j - 1 /\ \A k \in 1..(j - 1) : a[k] = s[k]
    <3>1. 1 \in Nat /\ j - 1 \in Nat /\ 1 <= 1 /\ 1 <= (j - 1) + 1 /\ j - 1 <= Len(s)
          /\ ((j - 1) + 1) - 1 = j - 1
      BY <1>1, <1>2
    <3>2. /\ a \in Seq(S) /\ Len(a) = ((j - 1) + 1) - 1
          /\ \A k \in 1..(((j - 1) + 1) - 1) : a[k] = s[(1 - 1) + k]
      BY <1>2, <3>1, SliceIs
    <3>3. \A k \in 1..(j - 1) : (1 - 1) + k = k
      BY <1>1
    <3> HIDE DEF a
    <3> QED
      BY <3>1, <3>2, <3>3
  <2>2. b \in Seq(S) /\ Len(b) = n - j /\ \A k \in 1..(n - j) : b[k] = s[(j - 1) + k]
    <3>1. j \in Nat /\ Len(s) \in Nat /\ 1 <= j /\ j <= Len(s) + 1 /\ Len(s) <= Len(s)
      BY <1>1, <1>2
    <3>2. /\ b \in Seq(S) /\ Len(b) = (Len(s) + 1) - j
          /\ \A k \in 1..((Len(s) + 1) - j) : b[k] = s[(j - 1) + k]
      BY <1>2, <3>1, SliceIs
    <3>3. (Len(s) + 1) - j = n - j
      BY <1>1, <1>2
    <3> HIDE DEF b
    <3> QED
      BY <3>2, <3>3
  <2>3. e \in Seq(S) /\ Len(e) = 1 /\ e[1] = q[i]
    BY <1>1
  <2>4. r = ab \o b
    BY DEF InsertAt
  <2> HIDE DEF a, b, e, r
  <2>5. ab \in Seq(S) /\ Len(ab) = j /\ \A k \in 1..j : ab[k] = IF k < j THEN a[k] ELSE q[i]
    <3>1. /\ ab \in Seq(S) /\ Len(ab) = Len(a) + Len(e)
          /\ \A k \in 1..(Len(a) + Len(e)) :
                ab[k] = IF k <= Len(a) THEN a[k] ELSE e[k - Len(a)]
      BY <2>1, <2>3, ConcatIs
    <3>2. (j - 1) + 1 = j /\ j - (j - 1) = 1
      BY <1>1
    <3> HIDE DEF ab
    <3>3. \A k \in 1..j : (k <= j - 1 <=> k < j) /\ (~(k < j) => k = j)
      BY <1>1
    <3> QED
      BY <2>1, <2>3, <3>1, <3>2, <3>3
  <2> HIDE DEF ab
  <2>9. /\ r \in Seq(S) /\ Len(r) = Len(ab) + Len(b)
        /\ \A k \in 1..(Len(ab) + Len(b)) : r[k] = IF k <= Len(ab) THEN ab[k] ELSE b[k - Len(ab)]
    BY <2>2, <2>4, <2>5, ConcatIs
  <2> HIDE DEF n
  <2>10. j + (n - j) = n
    BY <1>1
  <2>6. r \in Seq(S) /\ Len(r) = n
    BY <2>2, <2>5, <2>9, <2>10
  <2>7. \A k \in 1..n : r[k] = IF k <= j THEN ab[k] ELSE b[k - j]
    BY <2>2, <2>5, <2>9, <2>10
  <2>8. ASSUME NEW k \in 1..n
        PROVE  r[k] = IF k < j THEN s[k] ELSE IF k = j THEN q[i] ELSE s[k - 1]
    <3>1. CASE k <= j
      BY <1>1, <2>1, <2>5, <2>7, <3>1
    <3>2. CASE ~(k <= j)
      <4>1. k - j \in 1..(n - j) /\ (j - 1) + (k - j) = k - 1
        BY <1>1, <3>2
      <4> QED
        BY <1>1, <2>2, <2>7, <3>2, <4>1
    <3> QED
      BY <3>1, <3>2
  <2> QED
    BY <2>6, <2>8
<1> HIDE DEF n, s, r
<1>4. \A k \in 1..n : from(k) \in 1..n /\ r[k] = q[from(k)]
  <2> SUFFICES ASSUME NEW k \in 1..n PROVE from(k) \in 1..n /\ r[k] = q[from(k)]
    OBVIOUS
  <2>1. CASE k = j
    BY <1>1, <1>3, <2>1
  <2>2. CASE k < j
    <3>1. r[k] = s[k] /\ k \in 1..(n - 1)
      BY <1>1, <1>3, <2>2
    <3> QED
      BY <1>1, <1>2, <2>2, <3>1
  <2>3. CASE k > j
    <3>1. r[k] = s[k - 1] /\ k - 1 \in 1..(n - 1)
      BY <1>1, <1>3, <2>3
    <3>2. s[k - 1] = IF k - 1 < i THEN q[k - 1] ELSE q[(k - 1) + 1]
      BY <1>2, <3>1
    <3> QED
      BY <1>1, <2>3, <3>1, <3>2
  <2> QED
    BY <1>1, <2>1, <2>2, <2>3
<1>5. \A k, l \in 1..n : from(k) = from(l) => k = l
  BY <1>1
<1>6. \A m \in 1..n : \E k \in 1..n : from(k) = m
  <2> SUFFICES ASSUME NEW m \in 1..n PROVE \E k \in 1..n : from(k) = m
    OBVIOUS
  <2> DEFINE to == IF m = i THEN j ELSE IF m < i THEN IF m < j THEN m ELSE m + 1
                   ELSE IF m - 1 < j THEN m - 1 ELSE m
  <2>1. to \in 1..n /\ from(to) = m
    BY <1>1
  <2> QED
    BY <2>1
<1> HIDE DEF from
<1>7. Range(r) = Range(q)
  <2>1. Range(r) = {r[k] : k \in 1..n} /\ Range(q) = {q[k] : k \in 1..n}
    BY <1>3, RangeIs DEF n
  <2>2. ASSUME NEW m \in 1..n PROVE q[m] \in {r[k] : k \in 1..n}
    <3>1. PICK k \in 1..n : from(k) = m
      BY <1>6
    <3> QED
      BY <1>4, <3>1
  <2>3. ASSUME NEW k \in 1..n PROVE r[k] \in {q[m] : m \in 1..n}
    BY <1>4
  <2> QED
    BY <2>1, <2>2, <2>3
<1>8. ASSUME Distinct(q) PROVE Distinct(r)
  <2> SUFFICES ASSUME NEW k \in 1..n, NEW l \in 1..n, r[k] = r[l] PROVE k = l
    BY <1>3 DEF Distinct
  <2>1. from(k) = from(l)
    BY <1>4, <1>8 DEF Distinct, n
  <2> QED
    BY <1>5, <2>1
<1> QED
  BY <1>3, <1>7, <1>8 DEF r, s, n

\* The tabs in another order.
LEMMA ReorderKeeps ==
  ASSUME NEW w, Fine(w), NEW i \in DOMAIN w.tabs, NEW j \in DOMAIN w.tabs
  PROVE  LET v == ReorderOpenDocuments(w, i, j) IN Fine(v) /\ v.documents = w.documents
<1> DEFINE v == ReorderOpenDocuments(w, i, j)
           tabs == InsertAt(RemoveAt(w.tabs, i), j, w.tabs[i])
           preview == IF w.preview = w.tabs[i] THEN None ELSE w.preview
<1>1. /\ w \in Workspaces /\ w.tabs \in Seq(Ids) /\ preview \in Ids \cup {None}
      /\ preview \in (Range(w.tabs) \ HistoryTabs) \cup {None}
  BY FieldsOf DEF Fine, Sane, Tabbed
<1>2. tabs \in Seq(Ids) /\ Range(tabs) = Range(w.tabs) /\ Distinct(tabs)
  <2>1. i \in 1..Len(w.tabs) /\ j \in 1..Len(w.tabs)
    BY <1>1, RangeIs
  <2>2. tabs \in Seq(Ids) /\ Range(tabs) = Range(w.tabs) /\ (Distinct(w.tabs) => Distinct(tabs))
    BY <1>1, <2>1, MovedIs
  <2> QED
    BY <2>2 DEF Fine, Sane, Tabbed
<1>3. v = [w EXCEPT !.tabs = tabs, !.preview = preview]
  BY DEF ReorderOpenDocuments
<1> HIDE DEF v, preview, tabs
<1>4. /\ v \in Workspaces /\ v.documents = w.documents /\ v.tabs = tabs /\ v.active = w.active
      /\ v.preview = preview /\ v.panel = w.panel /\ v.panels = w.panels /\ v.last = w.last
      /\ v.default = w.default /\ v.variable = w.variable
  BY <1>1, <1>2, <1>3 DEF Workspaces
<1>5. tabs = <<>> <=> w.tabs = <<>>
  BY <1>1, <1>2, RangeIs
<1>6. Sane(v) /\ Held(v, {})
  BY <1>1, <1>2, <1>4 DEF Fine, Sane, Tabbed, Referred, Held
<1>7. Shown(v)
  BY <1>2, <1>4, <1>5 DEF Fine, Shown
<1> QED
  BY <1>4, <1>6, <1>7 DEF v, Fine

-----------------------------------------------------------------------------
(* What the operators on history tabs keep.                                *)

\* A history tab's document goes; its tab is yet to be replaced.
LEMMA HistoryDropped ==
  ASSUME NEW w, Sane(w), NEW tab \in HistoryTabs
  PROVE  LET v == Drop(w, {tab}) IN
         /\ v \in Workspaces /\ Bound(v.documents) /\ Referred(v) /\ SameButDocuments(v, w)
         /\ DOMAIN v.documents = DOMAIN w.documents \ {tab}
         /\ \A other \in DOMAIN v.documents : v.documents[other] = w.documents[other]
<1> DEFINE v == Drop(w, {tab})
<1>1. /\ w \in Workspaces /\ Bound(w.documents) /\ Referred(w) /\ {tab} \cap Schemas = {}
      /\ tab \notin Requests /\ tab \notin Schemas
      /\ w.last \in Schemas \cup {None} /\ w.default \in Schemas \cup {None}
      /\ w.variable \in Requests \cup {None}
  BY Kinds, FieldsOf DEF Sane
<1>2. /\ v \in Workspaces /\ Bound(v.documents) /\ SameButDocuments(v, w)
      /\ DOMAIN v.documents = DOMAIN w.documents \ {tab}
      /\ \A other \in DOMAIN v.documents : v.documents[other] = w.documents[other]
  BY <1>1, DropRequests
<1> HIDE DEF v
<1>3. Referred(v)
  BY <1>1, <1>2 DEF Referred, SameButDocuments
<1> QED
  BY <1>2, <1>3 DEF v

\* A document takes the place of a history tab, if that is still open.
LEMMA TakesPlace ==
  ASSUME NEW w, Sane(w), Held(w, {}), NEW tab \in HistoryTabs,
         NEW id \in DOMAIN w.documents, id \in Requests
  PROVE  LET x == [Drop(w, {tab}) EXCEPT !.tabs = Replaced(Without(@, id), tab, id),
                                         !.preview = None]
             v == OpenDocument(x, id)
         IN  Fine(v) /\ DOMAIN v.documents = DOMAIN w.documents \ {tab}
<1> DEFINE d == Drop(w, {tab})
           once == Without(w.tabs, id)
           tabs == Replaced(once, tab, id)
           x == [d EXCEPT !.tabs = Replaced(Without(@, id), tab, id), !.preview = None]
<1>1. /\ d \in Workspaces /\ Bound(d.documents) /\ Referred(d) /\ SameButDocuments(d, w)
      /\ DOMAIN d.documents = DOMAIN w.documents \ {tab}
      /\ \A other \in DOMAIN d.documents : d.documents[other] = w.documents[other]
  BY HistoryDropped
<1>2. w.tabs \in Seq(Ids) /\ id \in Ids /\ id # tab /\ Tabbed(w)
  BY FieldsOf, Kinds DEF Sane
<1>3. once \in Seq(Ids) /\ Range(once) = Range(w.tabs) \ {id} /\ Distinct(once)
  BY <1>2, WithoutIs DEF Tabbed
<1>4. /\ tabs \in Seq(Ids) /\ Distinct(tabs)
      /\ Range(tabs) = (Range(once) \ {tab}) \cup (IF tab \in Range(once) THEN {id} ELSE {})
  <2>1. id \in Range(once) => id = tab
    BY <1>3
  <2> HIDE DEF once
  <2> QED
    BY <1>2, <1>3, <2>1, ReplacedIs
<1> HIDE DEF d
<1>5. x = [d EXCEPT !.tabs = tabs, !.preview = None]
  BY <1>1 DEF SameButDocuments
<1> HIDE DEF tabs, once, x
<1>6. /\ x \in Workspaces /\ x.documents = d.documents /\ x.tabs = tabs /\ x.active = d.active
      /\ x.preview = None /\ x.panel = d.panel /\ x.panels = d.panels /\ x.last = d.last
      /\ x.default = d.default /\ x.variable = d.variable
  BY <1>1, <1>4, <1>5 DEF Workspaces
<1>7. Sane(x)
  BY <1>1, <1>2, <1>3, <1>4, <1>6 DEF Sane, Tabbed, Referred, SameButDocuments
<1>8. Held(x, {id})
  BY <1>1, <1>3, <1>4, <1>6 DEF Held
<1>9. id \in DOMAIN x.documents
  BY <1>1, <1>2, <1>6
<1> DEFINE v == OpenDocument(x, id)
<1>10. Fine(v) /\ v.documents = x.documents
  BY <1>7, <1>8, <1>9, OpenKeeps
<1> HIDE DEF v
<1>11. DOMAIN v.documents = DOMAIN w.documents \ {tab}
  BY <1>1, <1>6, <1>10
<1> QED
  BY <1>10, <1>11 DEF v, x, d

\* Back to the document that was executed.
LEMMA ReturnKeeps ==
  ASSUME NEW w, Fine(w), NEW tab \in DOMAIN w.documents \cap HistoryTabs,
         HistorySource(w, w.documents[tab]) # None
  PROVE  LET v == ReturnFromHistory(w, tab) IN
         Fine(v) /\ DOMAIN v.documents \subseteq DOMAIN w.documents
<1> DEFINE source == HistorySource(w, w.documents[tab])
           v == ReturnFromHistory(w, tab)
<1>1. Sane(w) /\ Held(w, {}) /\ w \in Workspaces
  BY DEF Fine, Sane
<1>2. source \in DOMAIN w.documents /\ source \in Requests
  <2>1. w.documents[tab] \in Sound
    BY <1>1, FieldsOf, MapIs
  <2>2. w.documents[tab].source \in Requests \cup {None}
    BY <2>1, DocumentIs
  <2> QED
    BY <2>2 DEF HistorySource
<1>3. CASE ~tab[2]
  <2>1. v = OpenDocument(w, source)
    BY <1>3 DEF ReturnFromHistory
  <2>2. Held(w, {source})
    BY <1>1 DEF Held
  <2> HIDE DEF source, v
  <2>3. Fine(v) /\ v.documents = w.documents
    BY <1>1, <1>2, <2>1, <2>2, OpenKeeps
  <2> QED
    BY <2>3 DEF v
<1>4. CASE tab[2]
  <2> DEFINE x == [Drop(w, {tab}) EXCEPT !.tabs = Replaced(Without(@, source), tab, source),
                                         !.preview = None]
             u == OpenDocument(x, source)
  <2>1. v = u
    BY <1>4, Zenon DEF ReturnFromHistory
  <2>2. tab \in HistoryTabs
    OBVIOUS
  <2> HIDE DEF source, v
  <2>3. Fine(u) /\ DOMAIN u.documents = DOMAIN w.documents \ {tab}
    BY <1>1, <1>2, <2>2, TakesPlace
  <2> HIDE DEF u
  <2> QED
    BY <2>1, <2>3 DEF v
<1> QED
  BY <1>3, <1>4

\* The tab of a history entry, in the place of another or beside the others.
LEMMA HistoricalKeeps ==
  ASSUME NEW w, Fine(w), NEW tab \in HistoryTabs, NEW doc \in Historical, NEW replace
  PROVE  LET v == OpenHistoricalTab(w, tab, doc, replace) IN
         Fine(v) /\ DOMAIN v.documents \ HistoryTabs \subseteq DOMAIN w.documents
<1> DEFINE v == OpenHistoricalTab(w, tab, doc, replace)
           previous == replace \in DOMAIN w.documents
           goes == previous /\ IsHistorical(replace) /\ replace # tab
           left == IF goes THEN Drop(w, {replace}) ELSE w
           next == IF tab \in DOMAIN left.documents THEN left ELSE Put(left, tab, doc)
           once == IF replace = tab THEN w.tabs ELSE Without(w.tabs, tab)
           tabs == Replaced(once, replace, tab)
           x == [next EXCEPT !.tabs = tabs, !.preview = None]
<1>1. /\ Sane(w) /\ Held(w, {}) /\ w \in Workspaces /\ Bound(w.documents) /\ Referred(w)
      /\ Tabbed(w) /\ w.tabs \in Seq(Ids) /\ tab \in Ids /\ doc \in Sound
      /\ tab \notin Schemas /\ tab \notin Requests
      /\ w.variable \in Requests \cup {None}
  BY FieldsOf, Kinds DEF Fine, Sane, Historical
<1>2. /\ left \in Workspaces /\ Bound(left.documents) /\ Referred(left) /\ SameButDocuments(left, w)
      /\ DOMAIN left.documents = DOMAIN w.documents \ (IF goes THEN {replace} ELSE {})
  <2>1. CASE goes
    <3> DEFINE d == Drop(w, {replace})
    <3>1. replace \in HistoryTabs
      BY <2>1 DEF IsHistorical
    <3>2. /\ d \in Workspaces /\ Bound(d.documents) /\ Referred(d) /\ SameButDocuments(d, w)
          /\ DOMAIN d.documents = DOMAIN w.documents \ {replace}
      BY <1>1, <3>1, HistoryDropped
    <3>3. left = d
      BY <2>1
    <3> HIDE DEF d, left
    <3> QED
      BY <2>1, <3>2, <3>3
  <2>2. CASE ~goes
    <3>1. left = w
      BY <2>2
    <3> HIDE DEF left
    <3> QED
      BY <1>1, <2>2, <3>1 DEF SameButDocuments
  <2> QED
    BY <2>1, <2>2
<1> HIDE DEF left
<1>3. /\ next \in Workspaces /\ Bound(next.documents) /\ Referred(next)
      /\ SameButDocuments(next, w)
      /\ DOMAIN next.documents = DOMAIN left.documents \cup {tab}
  <2>1. CASE tab \in DOMAIN left.documents
    <3>1. next = left
      BY <2>1
    <3> HIDE DEF next
    <3> QED
      BY <1>2, <2>1, <3>1
  <2>2. CASE tab \notin DOMAIN left.documents
    <3> DEFINE p == Put(left, tab, doc)
    <3>1. left \in Workspaces /\ Bound(left.documents)
      BY <1>2
    <3>2. NamesIn(doc, DOMAIN left.documents \cup {tab}) /\ (tab \in Schemas => doc.saved)
      BY <1>1 DEF NamesIn, Historical
    <3>3. tab \in HistoryTabs => doc \in Historical
      OBVIOUS
    <3>4. /\ p \in Workspaces /\ Bound(p.documents) /\ SameButDocuments(p, left)
          /\ DOMAIN p.documents = DOMAIN left.documents \cup {tab} /\ p.documents[tab] = doc
          /\ \A other \in DOMAIN left.documents :
                other # tab => p.documents[other] = left.documents[other]
      BY <1>1, <3>1, <3>2, <3>3, PutKeeps
    <3>5. next = p
      BY <2>2
    <3> HIDE DEF next, p
    <3>6. Referred(p)
      BY <1>2, <2>2, <3>4 DEF Referred, SameButDocuments
    <3> QED
      BY <1>2, <3>4, <3>5, <3>6 DEF SameButDocuments
  <2> QED
    BY <2>1, <2>2
<1> HIDE DEF next
<1>4. tab \in DOMAIN next.documents
  BY <1>3
<1>5. DOMAIN next.documents \ HistoryTabs \subseteq DOMAIN w.documents
  BY <1>2, <1>3
<1>6. CASE previous
  <2>1. /\ once \in Seq(Ids) /\ Distinct(once)
        /\ Range(once) = IF replace = tab THEN Range(w.tabs) ELSE Range(w.tabs) \ {tab}
    BY <1>1, WithoutIs DEF Tabbed
  <2> HIDE DEF once
  <2>2. /\ tabs \in Seq(Ids) /\ Distinct(tabs)
        /\ Range(tabs) = (Range(once) \ {replace})
                         \cup (IF replace \in Range(once) THEN {tab} ELSE {})
    <3>1. tab \in Range(once) => tab = replace
      BY <2>1
    <3> QED
      BY <1>1, <2>1, <3>1, ReplacedIs
  <2> HIDE DEF tabs, x
  <2>3. /\ x \in Workspaces /\ x.documents = next.documents /\ x.tabs = tabs
        /\ x.preview = None /\ x.panel = next.panel /\ x.panels = next.panels
        /\ x.last = next.last /\ x.default = next.default /\ x.variable = next.variable
    BY <1>3, <2>2 DEF Workspaces, x
  <2>4. Tabbed(x)
    <3>1. Range(tabs) \subseteq DOMAIN next.documents
      BY <1>1, <1>2, <1>3, <2>1, <2>2 DEF Tabbed
    <3> QED
      BY <1>1, <1>3, <2>2, <2>3, <3>1 DEF Tabbed, SameButDocuments
  <2>5. Sane(x)
    BY <1>3, <2>3, <2>4 DEF Sane, Referred
  <2>6. Held(x, {tab})
    <3> SUFFICES ASSUME NEW h \in DOMAIN next.documents \cap HistoryTabs, h # tab
                 PROVE h \in Range(tabs)
      BY <2>3 DEF Held
    <3>1. h \in DOMAIN w.documents /\ h \in Range(w.tabs)
      BY <1>1, <1>2, <1>3 DEF Held
    <3>2. h # replace
      BY <1>2, <1>3, <1>6 DEF IsHistorical
    <3> QED
      BY <2>1, <2>2, <3>1, <3>2
  <2>7. v = OpenDocument(x, tab)
    BY <1>6, Zenon DEF OpenHistoricalTab, x, tabs, once, next, left
  <2>8. tab \in DOMAIN x.documents
    BY <1>4, <2>3
  <2> HIDE DEF v
  <2>9. Fine(v) /\ v.documents = x.documents
    BY <2>5, <2>6, <2>7, <2>8, OpenKeeps
  <2> QED
    BY <1>5, <2>3, <2>9 DEF v
<1>7. CASE ~previous
  <2>1. v = OpenDocument(next, tab)
    BY <1>7, Zenon DEF OpenHistoricalTab, next, left
  <2>2. Sane(next)
    <3>1. Range(w.tabs) \subseteq DOMAIN next.documents
      BY <1>1, <1>2, <1>3, <1>7 DEF Tabbed
    <3> QED
      BY <1>1, <1>3, <3>1 DEF Sane, Tabbed, SameButDocuments
  <2>3. Held(next, {tab})
    BY <1>1, <1>2, <1>3 DEF Held, SameButDocuments
  <2> HIDE DEF v
  <2>4. Fine(v) /\ v.documents = next.documents
    BY <1>4, <2>1, <2>2, <2>3, OpenKeeps
  <2> QED
    BY <1>5, <2>4 DEF v
<1> QED
  BY <1>6, <1>7

\* What a history tab shows becomes a draft of no connection.
LEMMA PromotedIs ==
  ASSUME NEW w \in Workspaces, NEW doc \in Historical
  PROVE  Promoted(w, doc) \in Drafts /\ Promoted(w, doc).schema = None
<1> DEFINE source == HistorySource(w, doc)
<1>1. doc.request \in Drafts /\ doc.request.schema = None
  BY DocumentIs DEF Historical
<1>2. source # None => w.documents[source].request.auth \in Auths
  <2>1. source # None => source \in DOMAIN w.documents
    BY DEF HistorySource
  <2>2. \A x \in DOMAIN w.documents : w.documents[x] \in Sound
    BY FieldsOf, MapIs
  <2> HIDE DEF source
  <2> QED
    BY <2>1, <2>2, DocumentIs
<1>3. CASE doc.request.auth = doc.savedRequest.auth /\ source # None
  <2> DEFINE auth == w.documents[source].request.auth
  <2>1. Promoted(w, doc) = [doc.request EXCEPT !.auth = auth]
    BY <1>3, Zenon DEF Promoted
  <2>2. auth \in Auths
    BY <1>2, <1>3
  <2> HIDE DEF auth
  <2> QED
    BY <1>1, <2>1, <2>2 DEF Drafts
<1>4. CASE ~(doc.request.auth = doc.savedRequest.auth /\ source # None)
  <2>1. Promoted(w, doc) = doc.request
    BY <1>4, Zenon DEF Promoted
  <2> QED
    BY <1>1, <2>1
<1> QED
  BY <1>3, <1>4

\* A new document, saved or not.
LEMMA NewIs ==
  ASSUME NEW draft \in Drafts, NEW saved \in BOOLEAN
  PROVE  LET d == NewDocument(draft, saved) IN
         d \in Sound /\ d.request = draft /\ d.saved = saved /\ (saved => d.savedRequest = draft)
  BY Kinds DEF NewDocument, Sound, Documents

\* A document among others, known or new.
LEMMA PutSane ==
  ASSUME NEW w, Fine(w), NEW id \in Ids \ HistoryTabs, NEW doc \in Sound,
         NamesIn(doc, DOMAIN w.documents \cup {id}), id \in Schemas => doc.saved,
         id \in DOMAIN w.documents => (w.documents[id].saved => doc.saved)
  PROVE  LET v == Put(w, id, doc) IN
         /\ Sane(v) /\ Held(v, {}) /\ DOMAIN v.documents = DOMAIN w.documents \cup {id}
         /\ SameButDocuments(v, w) /\ v.documents[id] = doc
<1> DEFINE v == Put(w, id, doc)
<1>1. w \in Workspaces /\ Bound(w.documents)
  BY DEF Fine, Sane
<1>2. NamesIn(doc, DOMAIN w.documents \cup {id}) /\ (id \in Schemas => doc.saved)
  OBVIOUS
<1>3. id \in HistoryTabs => doc \in Historical
  OBVIOUS
<1>4. /\ v \in Workspaces /\ Bound(v.documents) /\ SameButDocuments(v, w)
      /\ DOMAIN v.documents = DOMAIN w.documents \cup {id} /\ v.documents[id] = doc
      /\ \A other \in DOMAIN w.documents : other # id => v.documents[other] = w.documents[other]
  BY <1>1, <1>2, <1>3, PutKeeps
<1> HIDE DEF v
<1>5. Referred(v) /\ Tabbed(v) /\ Held(v, {})
  BY <1>4 DEF Fine, Sane, Referred, Tabbed, Held, SameButDocuments
<1> QED
  BY <1>4, <1>5 DEF Sane, v

\* A document is put among the others and opened.
LEMMA AddKeeps ==
  ASSUME NEW w, Fine(w), NEW id \in Ids \ HistoryTabs, NEW doc \in Sound,
         NamesIn(doc, DOMAIN w.documents \cup {id}), id \in Schemas => doc.saved,
         id \in DOMAIN w.documents => (w.documents[id].saved => doc.saved)
  PROVE  LET v == OpenDocument(Put(w, id, doc), id) IN
         Fine(v) /\ DOMAIN v.documents = DOMAIN w.documents \cup {id}
<1> DEFINE p == Put(w, id, doc)
           v == OpenDocument(p, id)
<1>1. /\ NamesIn(doc, DOMAIN w.documents \cup {id}) /\ (id \in Schemas => doc.saved)
      /\ id \in DOMAIN w.documents => (w.documents[id].saved => doc.saved)
  OBVIOUS
<1>2. /\ Sane(p) /\ Held(p, {}) /\ DOMAIN p.documents = DOMAIN w.documents \cup {id}
      /\ SameButDocuments(p, w) /\ p.documents[id] = doc
  BY <1>1, PutSane
<1> HIDE DEF p
<1>3. Held(p, {id}) /\ id \in DOMAIN p.documents
  BY <1>2 DEF Held
<1> HIDE DEF v
<1>4. Fine(v) /\ v.documents = p.documents
  BY <1>2, <1>3, OpenKeeps DEF v
<1> QED
  BY <1>2, <1>4 DEF v, p

\* Sending from a history tab, or duplicating it: the source or a new draft.
LEMMA WorkingCopyKeeps ==
  ASSUME NEW w, Fine(w), NEW tab \in HistoryTabs, NEW doc \in Historical, NEW mode,
         NEW replaceTab \in BOOLEAN, NEW new,
         ~(mode = "replace" /\ HistorySource(w, doc) # None)
             => new \in Requests \ DOMAIN w.documents
  PROVE  LET v == HistoryWorkingCopy(w, tab, doc, mode, replaceTab, new)
             reuse == mode = "replace" /\ HistorySource(w, doc) # None
         IN  Fine(v) /\ DOMAIN v.documents \subseteq
                           DOMAIN w.documents \cup (IF reuse THEN {} ELSE {new})
<1> DEFINE source == HistorySource(w, doc)
           reuse == mode = "replace" /\ source # None
           id == IF reuse THEN source ELSE new
           draft == Promoted(w, doc)
           put == IF reuse THEN [w.documents[source] EXCEPT !.request = draft]
                  ELSE NewDocument(draft, FALSE)
           next == Put(w, id, put)
           v == HistoryWorkingCopy(w, tab, doc, mode, replaceTab, new)
<1>1. w \in Workspaces /\ Sane(w) /\ Bound(w.documents)
      /\ \A x \in DOMAIN w.documents : w.documents[x] \in Sound
  BY FieldsOf, MapIs DEF Fine, Sane
<1>2. draft \in Drafts /\ draft.schema = None
  BY <1>1, PromotedIs
<1>3. reuse => source \in DOMAIN w.documents /\ source \in Requests
  <2>1. doc.source \in Requests \cup {None}
    BY DocumentIs DEF Historical
  <2> QED
    BY <2>1 DEF HistorySource
<1>4. id \in Requests /\ (id \in DOMAIN w.documents => reuse /\ id = source)
  BY <1>3
<1>5. /\ put \in Sound /\ NamesIn(put, DOMAIN w.documents)
      /\ reuse => put.saved = w.documents[source].saved
  <2>1. CASE reuse
    <3> DEFINE d == w.documents[source]
               e == [d EXCEPT !.request = draft]
    <3>1. d \in Sound /\ NamesIn(d, DOMAIN w.documents)
      BY <1>1, <1>3, <2>1 DEF Bound
    <3>2. put = e
      BY <2>1
    <3> HIDE DEF d, draft, put
    <3>3. d \in Documents /\ (d.saved <=> d.savedRequest # None)
      BY <3>1 DEF Sound
    <3>4. /\ e \in Documents /\ e.saved = d.saved /\ e.savedRequest = d.savedRequest
          /\ e.request = draft
      BY <1>2, <3>3 DEF Documents
    <3> HIDE DEF e
    <3>5. e \in Sound /\ NamesIn(e, DOMAIN w.documents)
      BY <1>2, <3>1, <3>3, <3>4 DEF Sound, NamesIn
    <3> QED
      BY <3>2, <3>4, <3>5 DEF d
  <2>2. CASE ~reuse
    <3> DEFINE e == NewDocument(draft, FALSE)
    <3>1. put = e
      BY <2>2
    <3> HIDE DEF draft, put
    <3>2. e \in Sound /\ e.request = draft /\ e.saved = FALSE
      BY <1>2, NewIs
    <3> HIDE DEF e
    <3> QED
      BY <1>2, <2>2, <3>1, <3>2 DEF NamesIn
  <2> QED
    BY <2>1, <2>2
<1> HIDE DEF put, draft
<1>6. /\ id \in Ids \ HistoryTabs /\ NamesIn(put, DOMAIN w.documents \cup {id})
      /\ id \in Schemas => put.saved
      /\ id \in DOMAIN w.documents => (w.documents[id].saved => put.saved)
  BY <1>4, <1>5, Kinds DEF NamesIn
<1>7. CASE ~replaceTab
  <2> DEFINE u == OpenDocument(next, id)
  <2>1. v = u
    BY <1>7, Zenon DEF HistoryWorkingCopy, put, draft
  <2> HIDE DEF source, id, v
  <2>2. Fine(u) /\ DOMAIN u.documents = DOMAIN w.documents \cup {id}
    BY <1>5, <1>6, AddKeeps
  <2> HIDE DEF u
  <2>3. {id} \subseteq DOMAIN w.documents \cup (IF reuse THEN {} ELSE {new})
    BY <1>3 DEF id
  <2> QED
    BY <2>1, <2>2, <2>3 DEF v, source
<1>8. CASE replaceTab
  <2> DEFINE x == [Drop(next, {tab}) EXCEPT !.tabs = Replaced(Without(@, id), tab, id),
                                            !.preview = None]
             u == OpenDocument(x, id)
  <2>1. v = u
    BY <1>8, Zenon DEF HistoryWorkingCopy, put, draft
  <2> HIDE DEF source, id, v
  <2>2. /\ Sane(next) /\ Held(next, {}) /\ DOMAIN next.documents = DOMAIN w.documents \cup {id}
    BY <1>5, <1>6, PutSane
  <2> HIDE DEF next
  <2>3. id \in DOMAIN next.documents /\ id \in Requests
    BY <1>4, <2>2
  <2>4. Fine(u) /\ DOMAIN u.documents = DOMAIN next.documents \ {tab}
    BY <2>2, <2>3, TakesPlace
  <2> HIDE DEF u
  <2>5. {id} \subseteq DOMAIN w.documents \cup (IF reuse THEN {} ELSE {new})
    BY <1>3 DEF id
  <2> QED
    BY <2>1, <2>2, <2>4, <2>5 DEF v, source
<1> QED
  BY <1>7, <1>8

\* The tabs that are saved, each once.
LEMMA DistinctlyIs ==
  ASSUME NEW kept \in SUBSET Ids, NEW n \in Nat, NEW q, DOMAIN q = 1..n
  PROVE  LET r == Distinctly(kept, q) IN
         r \in Seq(Ids) /\ Distinct(r) /\ Range(r) \subseteq kept
<1> DEFINE W == {t \in Seq(Ids) : Distinct(t) /\ Range(t) \subseteq kept}
           After(x, t) == IF q[x] \in kept THEN WithTab(t, q[x]) ELSE t
           none == <<>>
           g == [p \in (1..n) \X W |-> After(p[1], p[2])]
           Eq(f) == f = [s \in SUBSET (1..n) |->
                           IF s = {} THEN none ELSE After(Max(s), f[s \ {Max(s)}])]
<1>1. none \in W
  BY NoTabs
<1>2. ASSUME NEW x \in 1..n, NEW t \in W PROVE After(x, t) \in W
  <2>1. CASE q[x] \in kept
    <3> DEFINE u == WithTab(t, q[x])
    <3>1. t \in Seq(Ids) /\ Distinct(t) /\ Range(t) \subseteq kept /\ q[x] \in Ids
      BY <2>1
    <3>2. u \in Seq(Ids) /\ Range(u) = Range(t) \cup {q[x]} /\ Distinct(u)
      BY <3>1, WithTabIs
    <3>3. After(x, t) = u
      BY <2>1
    <3> HIDE DEF u, After
    <3> QED
      BY <2>1, <3>1, <3>2, <3>3
  <2>2. CASE q[x] \notin kept
    BY <2>2
  <2> QED
    BY <2>1, <2>2
<1>3. g \in [(1..n) \X W -> W] /\ \A x \in 1..n, t \in W : g[<<x, t>>] = After(x, t)
  <2> HIDE DEF After, W
  <2> QED
    BY <1>2
<1> HIDE DEF none
<1>4. \E f : Eq(f)
  <2>1. PICK f \in [SUBSET (1..n) -> W] : FoldsUp(f, n, none, g)
    <3> HIDE DEF g, W
    <3> QED
      BY <1>1, <1>3, FoldUpExists
  <2>2. ASSUME NEW s \in SUBSET (1..n)
        PROVE  f[s] = IF s = {} THEN none ELSE After(Max(s), f[s \ {Max(s)}])
    <3>1. f[s] = IF s = {} THEN none ELSE g[<<Max(s), f[s \ {Max(s)}]>>]
      BY <2>1 DEF FoldsUp
    <3>2. CASE s = {}
      BY <3>1, <3>2
    <3>3. CASE s # {}
      <4>1. Max(s) \in 1..n /\ f[s \ {Max(s)}] \in W
        BY <2>1, <3>3, LargestOf
      <4> HIDE DEF After, g, W
      <4> QED
        BY <1>3, <3>1, <3>3, <4>1
    <3> QED
      BY <3>2, <3>3
  <2>3. Eq(f)
    <3> HIDE DEF After, W
    <3> QED
      BY <2>1, <2>2
  <2> QED
    BY <2>3
<1> DEFINE iter == CHOOSE f : Eq(f)
<1>5. Distinctly(kept, q) = iter[1..n]
  BY Zenon DEF Distinctly, FoldLeft, MapThenFoldSet, none
<1>6. Eq(iter)
  <2> HIDE DEF Eq
  <2> QED
    BY <1>4
<1> HIDE DEF iter
<1> DEFINE T == {s \in SUBSET (1..n) : iter[s] \in W}
<1>7. \A s \in SUBSET (1..n) : s # {} => iter[s] = After(Max(s), iter[s \ {Max(s)}])
  <2> HIDE DEF After
  <2> QED
    BY <1>6
<1>8. {} \in T
  <2>1. iter[{}] = none
    <3> HIDE DEF After
    <3> QED
      BY <1>6
  <2> HIDE DEF W
  <2> QED
    BY <1>1, <2>1
<1>9. ASSUME NEW s \in SUBSET (1..n), s # {}, \A x \in s : s \ {x} \in T PROVE s \in T
  <2>1. Max(s) \in s /\ Max(s) \in 1..n
    BY <1>9, LargestOf
  <2>2. iter[s \ {Max(s)}] \in W
    BY <1>9, <2>1
  <2> HIDE DEF After, W
  <2> QED
    BY <1>2, <1>7, <1>9, <2>1, <2>2
<1>10. 1..n \in T
  <2>1. IsFiniteSet(1..n)
    BY FS_Interval
  <2>2. \A s \in SUBSET (1..n) : s # {} /\ (\A x \in s : s \ {x} \in T) => s \in T
    BY <1>9
  <2> HIDE DEF T
  <2>3. SUBSET (1..n) \subseteq T
    BY <1>8, <2>1, <2>2, AllSubsets
  <2> QED
    BY <2>3
<1> QED
  BY <1>5, <1>10

\* What is left of a workspace when it is opened again.
LEMMA RestartKeeps ==
  ASSUME NEW w, Fine(w)
  PROVE  LET v == ActivateRemainingTab(Projected(w)) IN
         Fine(v) /\ DOMAIN v.documents \subseteq DOMAIN w.documents
<1> DEFINE kept == DOMAIN w.documents \ HistoryTabs
           tabs == Distinctly(kept, [i \in DOMAIN w.tabs |-> CurrentTab(w, w.tabs[i])])
           shown == CurrentTab(w, w.active)
           active == IF shown \in Range(tabs) THEN shown
                     ELSE IF tabs = <<>> THEN None ELSE Head(tabs)
           d == Drop(w, HistoryTabs)
           preview == IF w.preview \in Range(tabs) /\ w.documents[w.preview].saved
                         /\ ~Dirty(w, w.preview) THEN w.preview ELSE None
           p == Projected(w)
<1>1. /\ w \in Workspaces /\ Bound(w.documents) /\ Referred(w) /\ Tabbed(w) /\ w.tabs \in Seq(Ids)
      /\ HistoryTabs \cap Schemas = {} /\ DOMAIN w.documents \subseteq Ids
      /\ Requests \cap HistoryTabs = {}
      /\ w.last \in Schemas \cup {None} /\ w.default \in Schemas \cup {None}
      /\ w.variable \in Requests \cup {None}
  BY FieldsOf, MapIs, Kinds DEF Fine, Sane
<1>2. /\ d \in Workspaces /\ Bound(d.documents) /\ SameButDocuments(d, w)
      /\ DOMAIN d.documents = DOMAIN w.documents \ HistoryTabs
      /\ \A other \in DOMAIN d.documents : d.documents[other] = w.documents[other]
  BY <1>1, DropRequests
<1>3. tabs \in Seq(Ids) /\ Distinct(tabs) /\ Range(tabs) \subseteq kept
  <2> DEFINE q == [i \in DOMAIN w.tabs |-> CurrentTab(w, w.tabs[i])]
  <2>1. kept \in SUBSET Ids /\ Len(w.tabs) \in Nat /\ DOMAIN q = 1..Len(w.tabs)
    BY <1>1
  <2> HIDE DEF kept, q
  <2> QED
    BY <2>1, DistinctlyIs DEF q
<1> HIDE DEF tabs, shown
<1>4. active \in Range(tabs) \cup {None} /\ (active = None => tabs = <<>>)
      /\ Range(tabs) \subseteq Ids /\ None \notin Ids
  BY <1>3, RangeIs, Kinds
<1>5. preview \in (Range(tabs) \ HistoryTabs) \cup {None}
  BY <1>3
<1> HIDE DEF active, preview, d
<1>6. p = [d EXCEPT !.tabs = tabs, !.active = active, !.preview = preview]
  <2>1. d.preview = w.preview
    BY <1>2 DEF SameButDocuments
  <2> QED
    BY <2>1, Zenon DEF Projected, d, active, preview, tabs, shown
<1> HIDE DEF p
<1>7. /\ p \in Workspaces /\ p.documents = d.documents /\ p.tabs = tabs /\ p.active = active
      /\ p.preview = preview /\ p.panel = d.panel /\ p.panels = d.panels /\ p.last = d.last
      /\ p.default = d.default /\ p.variable = d.variable
  BY <1>2, <1>3, <1>4, <1>5, <1>6 DEF Workspaces
<1>8. Referred(p)
  BY <1>1, <1>2, <1>7 DEF Referred, SameButDocuments
<1>9. Tabbed(p) /\ Held(p, {})
  BY <1>1, <1>2, <1>3, <1>5, <1>7 DEF Tabbed, Held, SameButDocuments
<1> DEFINE v == ActivateRemainingTab(p)
<1>10. Sane(p) /\ p.active \in Range(p.tabs) \cup {None} /\ (p.active = None => p.tabs = <<>>)
  BY <1>2, <1>4, <1>7, <1>8, <1>9 DEF Sane
<1>11. Fine(v) /\ v.documents = p.documents
  BY <1>9, <1>10, ActivateKeeps
<1> HIDE DEF v
<1> QED
  BY <1>2, <1>7, <1>11 DEF v, p

-----------------------------------------------------------------------------
(* The inductive invariant.                                                *)

Openings == [tab : HistoryTabs, doc : Historical, replace : Ids \cup {None}]
Conflicts == [tab : HistoryTabs, doc : Historical]

\* What is kept beside the workspace.
Remembered ==
    /\ entries \in [Entries -> Historical \cup {None}] /\ removed \subseteq Entries
    /\ opening \in Openings \cup {None} /\ conflict \in Conflicts \cup {None}

\* Every document but those of history was given an identifier of its own.
Named ==
    /\ made \subseteq Requests \cup Schemas \cup Entries
    /\ DOMAIN workspace.documents \ HistoryTabs \subseteq made

IInv == Fine(workspace) /\ Remembered /\ Named /\ steps \in 0..MaxSteps

\* The parts of a workspace in which nothing dangles.
LEMMA FineIs ==
  ASSUME NEW w, Fine(w)
  PROVE  /\ w \in Workspaces /\ w.documents \in DocumentMaps /\ Bound(w.documents)
         /\ Sane(w) /\ Held(w, {}) /\ Shown(w) /\ Referred(w) /\ Tabbed(w)
         /\ DOMAIN w.documents \subseteq Ids /\ w.profiles \in SUBSET Profiles
         /\ \A id \in DOMAIN w.documents :
               /\ w.documents[id] \in Sound /\ NamesIn(w.documents[id], DOMAIN w.documents)
               /\ id \in Schemas => w.documents[id].saved
               /\ id \in HistoryTabs => w.documents[id] \in Historical
<1>1. w \in Workspaces /\ Bound(w.documents)
  BY DEF Fine, Sane
<1>2. w.documents \in DocumentMaps /\ w.profiles \in SUBSET Profiles
  BY <1>1, FieldsOf
<1> QED
  BY <1>1, <1>2, MapIs DEF Fine, Sane, Bound

\* A step of the user.
LEMMA Acted ==
  ASSUME IInv, Acts
  PROVE  steps' \in 0..MaxSteps
  BY EditorAssumption DEF IInv, Acts, EditorAssumption

\* A step that leaves history alone.
LEMMA Worked ==
  ASSUME IInv, Acts, UNCHANGED History, Fine(workspace'), Named'
  PROVE  IInv'
<1>1. Remembered'
  BY DEF IInv, Remembered, History
<1>2. steps' \in 0..MaxSteps
  BY Acted
<1> QED
  BY <1>1, <1>2 DEF IInv

\* A step that gives no identifier and adds no document.
LEMMA Moved ==
  ASSUME IInv, Acts, UNCHANGED <<History, made>>, NEW w, Update(w), Fine(w),
         DOMAIN w.documents \ HistoryTabs \subseteq DOMAIN workspace.documents
  PROVE  IInv'
<1>1. workspace' = w /\ UNCHANGED History /\ made' = made
  BY DEF Update
<1>2. DOMAIN w.documents \ HistoryTabs \subseteq DOMAIN workspace.documents \ HistoryTabs
  OBVIOUS
<1>3. Named'
  BY <1>1, <1>2 DEF IInv, Named
<1>4. Fine(workspace')
  BY <1>1
<1> QED
  BY <1>1, <1>3, <1>4, Worked

\* An identifier that was not handed out is no document's.
LEMMA NotKnown ==
  ASSUME IInv, NEW id \in (Requests \cup Schemas) \ made
  PROVE  id \notin DOMAIN workspace.documents /\ id \in Ids \ HistoryTabs
  BY Kinds DEF IInv, Named

\* A step that adds a document.
LEMMA Added ==
  ASSUME IInv, Acts, UNCHANGED History, NEW id \in (Requests \cup Schemas) \ made,
         NEW doc \in Sound, NamesIn(doc, DOMAIN workspace.documents),
         id \in Schemas => doc.saved, AddedAs(id, doc)
  PROVE  IInv'
<1> DEFINE w == workspace
           D == DOMAIN w.documents
           v == OpenDocument(Put(w, id, doc), id)
<1>1. Fine(w) /\ Named
  BY DEF IInv
<1>2. id \notin D /\ id \in Ids \ HistoryTabs
  BY NotKnown
<1>3. NamesIn(doc, D \cup {id})
  BY DEF NamesIn
<1>4. id \in DOMAIN w.documents => (w.documents[id].saved => doc.saved)
  BY <1>2
<1>5. workspace' = v /\ made' = made \cup {id}
  BY DEF AddedAs, Update
<1>6. Fine(v) /\ DOMAIN v.documents = D \cup {id}
  <2> HIDE DEF w, v
  <2> QED
    BY <1>1, <1>2, <1>3, <1>4, AddKeeps DEF v
<1> HIDE DEF v
<1>7. Named'
  BY <1>1, <1>5, <1>6 DEF Named
<1>8. Fine(workspace')
  BY <1>5, <1>6
<1> QED
  BY <1>7, <1>8, Worked

\* A blank draft, and a draft that takes the shared profile.
LEMMA BlankIs == BlankDraft \in Drafts /\ BlankDraft.schema = None
  BY DEF BlankDraft, Drafts, Auths

\* The shared profile changes the authentication only (withWorkspaceAuthDefault).
LEMMA DefaultIs ==
  ASSUME NEW draft \in Drafts, NEW profiles \in SUBSET Profiles
  PROVE  LET d == WithWorkspaceAuthDefault(draft, profiles) IN
         d \in Drafts /\ d.schema = draft.schema /\ d.auth \in Auths
<1> DEFINE p == CHOOSE p \in profiles : TRUE
           d == WithWorkspaceAuthDefault(draft, profiles)
<1>1. profiles # {} => p \in profiles
  OBVIOUS
<1>2. profiles # {} => p \in Auths
  BY <1>1 DEF Auths
<1>3. d = [draft EXCEPT !.auth = IF draft.auth = "none" /\ profiles # {} THEN p ELSE draft.auth]
  BY DEF WithWorkspaceAuthDefault
<1> HIDE DEF p, d
<1>4. d \in Drafts /\ d.schema = draft.schema /\ d.auth \in Auths
  BY <1>2, <1>3 DEF Drafts
<1> QED
  BY <1>4 DEF d

\* A draft that is bound to a connection.
LEMMA BoundIs ==
  ASSUME NEW draft \in Drafts, NEW id \in Schemas, NEW inherit \in BOOLEAN
  PROVE  LET d == BindGraphqlSchema(draft, id, inherit) IN d \in Drafts /\ d.schema = id
  BY DEF BindGraphqlSchema, Drafts, Auths

\* A new document names the schema of its draft.
LEMMA NewNames ==
  ASSUME NEW draft \in Drafts, NEW saved \in BOOLEAN, NEW D, draft.schema \in D \cup {None}
  PROVE  LET d == NewDocument(draft, saved) IN
         d \in Sound /\ NamesIn(d, D) /\ d.saved = saved
  BY NewIs DEF NamesIn

-----------------------------------------------------------------------------
(* Each step keeps it: documents.                                          *)

\* A new request is bound to a connection that exists, or to none.
LEMMA AddRequestKeeps ==
  ASSUME IInv, NEW id \in Requests, NEW bound \in BOOLEAN, AddRequest(id, bound)
  PROVE  IInv'
<1> DEFINE w == workspace
           schema == DefaultGraphqlSchema(w)
           draft == WithWorkspaceAuthDefault(BlankDraft, w.profiles)
           chosen == IF bound /\ schema # None THEN BindGraphqlSchema(draft, schema, TRUE)
                     ELSE draft
<1>1. Fine(w) /\ w \in Workspaces /\ Referred(w) /\ w.profiles \in SUBSET Profiles
  BY FineIs DEF IInv
<1>2. draft \in Drafts /\ draft.schema = None
  BY <1>1, BlankIs, DefaultIs
<1>3. schema \in (Schemas \cap DOMAIN w.documents) \cup {None}
  BY <1>1, FieldsOf, Kinds DEF DefaultGraphqlSchema, Referred
<1>4. chosen \in Drafts /\ chosen.schema \in DOMAIN w.documents \cup {None}
  <2> HIDE DEF draft, schema
  <2> QED
    BY <1>2, <1>3, BoundIs
<1>5. Acts /\ UNCHANGED History /\ id \in Requests \ made /\ AddedAs(id, NewDocument(chosen, FALSE))
  BY DEF AddRequest
<1> HIDE DEF chosen
<1>6. /\ NewDocument(chosen, FALSE) \in Sound
      /\ NamesIn(NewDocument(chosen, FALSE), DOMAIN workspace.documents)
  BY <1>4, NewNames
<1>7. id \in Schemas => NewDocument(chosen, FALSE).saved
  BY Kinds
<1> QED
  BY <1>5, <1>6, <1>7, Added

\* A new connection is saved and names no other.
LEMMA AddSchemaKeeps ==
  ASSUME IInv, NEW id \in Schemas, AddSchema(id)
  PROVE  IInv'
<1>1. /\ Acts /\ UNCHANGED History /\ id \in Schemas \ made
      /\ AddedAs(id, NewDocument(BlankDraft, TRUE))
  BY DEF AddSchema
<1>2. /\ NewDocument(BlankDraft, TRUE) \in Sound /\ NewDocument(BlankDraft, TRUE).saved
      /\ NamesIn(NewDocument(BlankDraft, TRUE), DOMAIN workspace.documents)
  BY BlankIs, NewNames
<1> QED
  BY <1>1, <1>2, Added

\* A request imported from a command names no connection.
LEMMA ImportKeeps ==
  ASSUME IInv, NEW id \in Requests, NEW auth \in {"none", "own"}, ImportCurlAsDocument(id, auth)
  PROVE  IInv'
<1> DEFINE typed == [BlankDraft EXCEPT !.text = "typed", !.auth = auth]
           draft == WithWorkspaceAuthDefault(typed, workspace.profiles)
<1>1. workspace.profiles \in SUBSET Profiles
  BY FineIs DEF IInv
<1>2. typed \in Drafts /\ typed.schema = None
  BY DEF BlankDraft, Drafts, Auths
<1>3. draft \in Drafts /\ draft.schema = None
  <2> HIDE DEF typed
  <2> QED
    BY <1>1, <1>2, DefaultIs
<1>4. Acts /\ UNCHANGED History /\ id \in Requests \ made /\ AddedAs(id, NewDocument(draft, FALSE))
  BY DEF ImportCurlAsDocument
<1> HIDE DEF draft
<1>5. /\ NewDocument(draft, FALSE) \in Sound
      /\ NamesIn(NewDocument(draft, FALSE), DOMAIN workspace.documents)
  BY <1>3, NewNames
<1>6. id \in Schemas => NewDocument(draft, FALSE).saved
  BY Kinds
<1> QED
  BY <1>4, <1>5, <1>6, Added

\* A request made from a connection is bound to the one on screen.
LEMMA CreateRequestKeeps ==
  ASSUME IInv, NEW id \in Requests, CreateRequestFromSchema(id)
  PROVE  IInv'
<1> DEFINE typed == [BlankDraft EXCEPT !.text = "typed"]
           draft == BindGraphqlSchema(typed, Current, TRUE)
<1>1. Current \in Schemas
  BY DEF CreateRequestFromSchema
<1>2. typed \in Drafts
  BY DEF BlankDraft, Drafts, Auths
<1>3. Current \in DOMAIN workspace.documents
  <2>1. Tabbed(workspace) /\ Shown(workspace)
    BY FineIs DEF IInv
  <2> QED
    BY <1>1, <2>1, Kinds DEF Tabbed, Shown, Current
<1>4. draft \in Drafts /\ draft.schema \in DOMAIN workspace.documents \cup {None}
  <2> HIDE DEF typed
  <2> QED
    BY <1>1, <1>2, <1>3, BoundIs
<1>5. Acts /\ UNCHANGED History /\ id \in Requests \ made /\ AddedAs(id, NewDocument(draft, FALSE))
  BY DEF CreateRequestFromSchema
<1> HIDE DEF draft
<1>6. /\ NewDocument(draft, FALSE) \in Sound
      /\ NamesIn(NewDocument(draft, FALSE), DOMAIN workspace.documents)
  BY <1>4, NewNames
<1>7. id \in Schemas => NewDocument(draft, FALSE).saved
  BY Kinds
<1> QED
  BY <1>5, <1>6, <1>7, Added

\* The document on screen is one there is.
LEMMA CurrentIs ==
  ASSUME IInv, Current # None
  PROVE  Current \in DOMAIN workspace.documents /\ Current \in Range(workspace.tabs)
<1>1. Tabbed(workspace) /\ Shown(workspace)
  BY FineIs DEF IInv
<1> QED
  BY <1>1 DEF Tabbed, Shown, Current

\* Other references in the same tabs.
LEMMA ReferencesKeep ==
  ASSUME NEW w, Fine(w), NEW v \in Workspaces, Referred(v), v.documents = w.documents,
         v.tabs = w.tabs, v.active = w.active, v.preview = w.preview,
         v.panels = w.panels, v.panel = w.panel
  PROVE  Fine(v)
  BY DEF Fine, Sane, Held, Shown, Tabbed

\* The connection used last, the default one and the source of a variable.
LEMMA ReferredKeeps ==
  ASSUME NEW w, Fine(w), NEW id \in DOMAIN w.documents \cup {None}
  PROVE  /\ id \in Schemas \cup {None} =>
                /\ Fine([w EXCEPT !.last = id]) /\ [w EXCEPT !.last = id].documents = w.documents
                /\ Fine([w EXCEPT !.default = id])
                /\ [w EXCEPT !.default = id].documents = w.documents
         /\ id \in Requests /\ w.documents[id].saved =>
                /\ Fine([w EXCEPT !.variable = id])
                /\ [w EXCEPT !.variable = id].documents = w.documents
<1>1. w \in Workspaces /\ Referred(w)
  BY FineIs
<1>2. ASSUME id \in Schemas \cup {None}
      PROVE  /\ Fine([w EXCEPT !.last = id]) /\ [w EXCEPT !.last = id].documents = w.documents
             /\ Fine([w EXCEPT !.default = id])
             /\ [w EXCEPT !.default = id].documents = w.documents
  <2> DEFINE l == [w EXCEPT !.last = id]
             d == [w EXCEPT !.default = id]
  <2>1. /\ l \in Workspaces /\ l.documents = w.documents /\ l.tabs = w.tabs
        /\ l.active = w.active /\ l.preview = w.preview /\ l.panels = w.panels
        /\ l.panel = w.panel /\ l.last = id /\ l.default = w.default /\ l.variable = w.variable
    BY <1>1, <1>2 DEF Workspaces
  <2>2. /\ d \in Workspaces /\ d.documents = w.documents /\ d.tabs = w.tabs
        /\ d.active = w.active /\ d.preview = w.preview /\ d.panels = w.panels
        /\ d.panel = w.panel /\ d.last = w.last /\ d.default = id /\ d.variable = w.variable
    BY <1>1, <1>2 DEF Workspaces
  <2> HIDE DEF l, d
  <2>3. Referred(l) /\ Referred(d)
    BY <1>1, <2>1, <2>2 DEF Referred
  <2>4. Fine(l) /\ Fine(d)
    BY <2>1, <2>2, <2>3, ReferencesKeep
  <2> QED
    BY <2>1, <2>2, <2>4 DEF l, d
<1>3. ASSUME id \in Requests, w.documents[id].saved
      PROVE  /\ Fine([w EXCEPT !.variable = id])
             /\ [w EXCEPT !.variable = id].documents = w.documents
  <2> DEFINE v == [w EXCEPT !.variable = id]
  <2>1. /\ v \in Workspaces /\ v.documents = w.documents /\ v.tabs = w.tabs
        /\ v.active = w.active /\ v.preview = w.preview /\ v.panels = w.panels
        /\ v.panel = w.panel /\ v.last = w.last /\ v.default = w.default /\ v.variable = id
    BY <1>1, <1>3 DEF Workspaces
  <2> HIDE DEF v
  <2>2. id # None
    BY <1>3, Kinds
  <2>3. Referred(v)
    BY <1>1, <1>3, <2>1, <2>2 DEF Referred
  <2>4. Fine(v)
    BY <2>1, <2>3, ReferencesKeep
  <2> QED
    BY <2>1, <2>4 DEF v
<1> QED
  BY <1>2, <1>3

\* The working copy of a document changes, but not to name other schemas.
LEMMA EditedIs ==
  ASSUME NEW doc \in Sound, NEW draft \in Drafts, NEW D,
         NamesIn(doc, D), draft.schema \in D \cup {None}
  PROVE  LET e == [doc EXCEPT !.request = draft] IN
         /\ e \in Sound /\ NamesIn(e, D) /\ e.saved = doc.saved
         /\ doc \in Historical /\ draft.schema = None => e \in Historical
<1> DEFINE e == [doc EXCEPT !.request = draft]
<1>1. /\ e \in Documents /\ e.request = draft /\ e.saved = doc.saved
      /\ e.savedRequest = doc.savedRequest
  BY DEF Sound, Documents
<1> HIDE DEF e
<1> QED
  BY <1>1 DEF Sound, NamesIn, Historical, e

\* So the document on screen can be edited.
LEMMA EditKeeps ==
  ASSUME NEW w, Fine(w), NEW id \in DOMAIN w.documents, NEW draft \in Drafts,
         draft.schema \in DOMAIN w.documents \cup {None},
         id \in HistoryTabs => draft.schema = None
  PROVE  LET e == [w.documents[id] EXCEPT !.request = draft]
             v == Put(w, id, e)
         IN  /\ Fine(v) /\ DOMAIN v.documents = DOMAIN w.documents
             /\ v = [w EXCEPT !.documents[id].request = draft]
<1> DEFINE docs == w.documents
           doc == docs[id]
           e == [doc EXCEPT !.request = draft]
<1>1. doc \in Sound /\ NamesIn(doc, DOMAIN docs) /\ (id \in HistoryTabs => doc \in Historical)
  BY FineIs
<1>2. /\ e \in Sound /\ NamesIn(e, DOMAIN docs) /\ e.saved = doc.saved
      /\ id \in HistoryTabs => e \in Historical
  <2> HIDE DEF docs, doc
  <2>1. draft.schema \in DOMAIN docs \cup {None}
    BY DEF docs
  <2>2. /\ e \in Sound /\ NamesIn(e, DOMAIN docs) /\ e.saved = doc.saved
        /\ doc \in Historical /\ draft.schema = None => e \in Historical
    BY <1>1, <2>1, EditedIs
  <2> QED
    BY <1>1, <2>2
<1>3. [w EXCEPT !.documents[id].request = draft] = [w EXCEPT !.documents[id] = e]
  OBVIOUS
<1> HIDE DEF e
<1>4. /\ NamesIn(e, DOMAIN w.documents) /\ (w.documents[id].saved => e.saved)
      /\ (id \in HistoryTabs => e \in Historical)
  BY <1>2
<1>5. /\ Fine(Put(w, id, e)) /\ DOMAIN Put(w, id, e).documents = DOMAIN w.documents
      /\ Put(w, id, e) = [w EXCEPT !.documents[id] = e]
  BY <1>2, <1>4, PutFine
<1> QED
  BY <1>3, <1>5 DEF e

\* Typing into a request or a history tab does not bind it anew.
LEMMA SetRequestDraftKeeps ==
  ASSUME IInv, NEW draft \in Drafts, SetRequestDraft(draft)
  PROVE  IInv'
<1> DEFINE w == workspace
           doc == w.documents[Current]
           edited == [doc EXCEPT !.request = draft]
           next == Put(w, Current, edited)
           v == IF IsDocumentDirty(Current, edited) THEN PinDocument(next, Current) ELSE next
<1>1. /\ Acts /\ Current \in DOMAIN w.documents /\ draft.schema = doc.request.schema
      /\ Update(v) /\ UNCHANGED <<History, made>>
  BY DEF SetRequestDraft, Known
<1>2. Fine(w)
  BY DEF IInv
<1>3. /\ draft.schema \in DOMAIN w.documents \cup {None}
      /\ Current \in HistoryTabs => draft.schema = None
  BY <1>1, <1>2, FineIs DEF NamesIn, Historical
<1>4. Fine(next) /\ DOMAIN next.documents = DOMAIN w.documents
  <2> HIDE DEF w
  <2> QED
    BY <1>1, <1>2, <1>3, EditKeeps
<1> HIDE DEF next
<1>5. Fine(v) /\ DOMAIN v.documents = DOMAIN w.documents
  BY <1>4, PinKeeps
<1> HIDE DEF v
<1>6. DOMAIN v.documents \ HistoryTabs \subseteq DOMAIN workspace.documents
  BY <1>5
<1> QED
  BY <1>1, <1>5, <1>6, Moved

\* The authentication of a connection is no reference.
LEMMA SetSchemaAuthKeeps ==
  ASSUME IInv, NEW auth \in Auths, SetSchemaAuth(auth)
  PROVE  IInv'
<1> DEFINE w == workspace
           draft == [w.documents[Current].request EXCEPT !.auth = auth]
           v == Put(w, Current, [w.documents[Current] EXCEPT !.request = draft])
<1>1. /\ Acts /\ Current \in Schemas /\ UNCHANGED <<History, made>>
      /\ Update([workspace EXCEPT !.documents[Current].request.auth = auth])
  BY DEF SetSchemaAuth
<1>2. Current \in DOMAIN w.documents
  BY <1>1, CurrentIs, Kinds
<1>3. Fine(w)
  BY DEF IInv
<1>4. w.documents[Current] \in Sound /\ NamesIn(w.documents[Current], DOMAIN w.documents)
  BY <1>2, <1>3, FineIs
<1>5. draft \in Drafts /\ draft.schema \in DOMAIN w.documents \cup {None}
  BY <1>4 DEF Sound, Documents, Drafts, NamesIn
<1>6. [w EXCEPT !.documents[Current].request.auth = auth]
      = [w EXCEPT !.documents[Current].request = draft]
  OBVIOUS
<1>7. Current \in HistoryTabs => draft.schema = None
  BY <1>1, Kinds
<1> HIDE DEF draft
<1>8. /\ Fine(v) /\ DOMAIN v.documents = DOMAIN w.documents
      /\ v = [w EXCEPT !.documents[Current].request = draft]
  <2> HIDE DEF w
  <2> QED
    BY <1>2, <1>3, <1>5, <1>7, EditKeeps
<1> HIDE DEF v
<1>9. Update(v) /\ DOMAIN v.documents \ HistoryTabs \subseteq DOMAIN workspace.documents
  BY <1>1, <1>6, <1>8
<1> QED
  BY <1>1, <1>8, <1>9, Moved

\* The connection chosen for a request exists and is the one used last.
LEMMA SelectSchemaKeeps ==
  ASSUME IInv, NEW id \in Schemas \cup {None}, SelectSchema(id)
  PROVE  IInv'
<1> DEFINE w == workspace
           draft == w.documents[Current].request
           next == IF id = None THEN w ELSE [w EXCEPT !.last = id]
           chosen == IF id # None THEN BindGraphqlSchema(draft, id, FALSE)
                     ELSE DetachGraphqlSchema(draft, w.documents[draft.schema].request.auth)
           v == Put(next, Current, [next.documents[Current] EXCEPT !.request = chosen])
<1>1. /\ Acts /\ Current \in Requests /\ id \in (Schemas \cap DOMAIN w.documents) \cup {None}
      /\ UNCHANGED <<History, made>> /\ id # draft.schema
      /\ Update([next EXCEPT !.documents[Current].request = chosen])
  BY DEF SelectSchema, Known
<1>2. Current \in DOMAIN w.documents
  BY <1>1, CurrentIs, Kinds
<1>3. Fine(w)
  BY DEF IInv
<1>4. draft \in Drafts /\ draft.schema \in DOMAIN w.documents \cup {None}
  BY <1>2, <1>3, FineIs DEF Sound, Documents, NamesIn
<1>5. chosen \in Drafts /\ chosen.schema \in DOMAIN w.documents \cup {None}
  <2>1. CASE id # None
    <3>1. id \in Schemas /\ id \in DOMAIN w.documents
      BY <1>1, <2>1
    <3> HIDE DEF draft
    <3>2. /\ BindGraphqlSchema(draft, id, FALSE) \in Drafts
          /\ BindGraphqlSchema(draft, id, FALSE).schema = id
      BY <1>4, <3>1, BoundIs
    <3> QED
      BY <2>1, <3>1, <3>2
  <2>2. CASE id = None
    <3>1. draft.schema \in DOMAIN w.documents
      BY <1>1, <1>4, <2>2
    <3>2. w.documents[draft.schema] \in Sound
      BY <1>3, <3>1, FineIs
    <3>3. w.documents[draft.schema].request.auth \in Auths
      BY <3>2 DEF Sound, Documents, Drafts
    <3> DEFINE a == w.documents[draft.schema].request.auth
    <3> HIDE DEF draft, a
    <3>4. DetachGraphqlSchema(draft, a) \in Drafts /\ DetachGraphqlSchema(draft, a).schema = None
      BY <1>4, <3>3, DetachedIs DEF a
    <3> QED
      BY <2>2, <3>4 DEF a
  <2> QED
    BY <2>1, <2>2
<1>6. Fine(next) /\ next.documents = w.documents
  <2> HIDE DEF w
  <2>1. id \in DOMAIN w.documents \cup {None} /\ id \in Schemas \cup {None}
    BY <1>1
  <2>2. Fine([w EXCEPT !.last = id]) /\ [w EXCEPT !.last = id].documents = w.documents
    BY <1>3, <2>1, ReferredKeeps
  <2> QED
    BY <1>3, <2>2
<1> HIDE DEF next, chosen
<1>7. /\ Current \in DOMAIN next.documents /\ chosen.schema \in DOMAIN next.documents \cup {None}
      /\ Current \in HistoryTabs => chosen.schema = None
  BY <1>1, <1>2, <1>5, <1>6, Kinds
<1>8. /\ Fine(v) /\ DOMAIN v.documents = DOMAIN next.documents
      /\ v = [next EXCEPT !.documents[Current].request = chosen]
  BY <1>5, <1>6, <1>7, EditKeeps
<1> HIDE DEF v
<1>9. Update(v) /\ DOMAIN v.documents \ HistoryTabs \subseteq DOMAIN workspace.documents
  BY <1>1, <1>6, <1>8
<1> QED
  BY <1>1, <1>8, <1>9, Moved

\* A document put in and another replaced, in either order.
LEMMA PutTwice ==
  ASSUME NEW docs, NEW c \in DOMAIN docs, NEW id, id # c, NEW e, NEW doc
  PROVE  WithDocument([docs EXCEPT ![c] = e], id, doc)
         = WithDocument(WithDocument(docs, id, doc), c, e)
<1> DEFINE a == [docs EXCEPT ![c] = e]
           b == WithDocument(docs, id, doc)
<1>1. DOMAIN a = DOMAIN docs /\ \A x \in DOMAIN docs : a[x] = IF x = c THEN e ELSE docs[x]
  OBVIOUS
<1>2. /\ DOMAIN b = DOMAIN docs \cup {id}
      /\ \A x \in DOMAIN docs \cup {id} : b[x] = IF x = id THEN doc ELSE docs[x]
  BY DEF WithDocument
<1> HIDE DEF a, b
<1>3. DOMAIN a \cup {id} = DOMAIN b \cup {c}
  BY <1>1, <1>2
<1>4. \A x \in DOMAIN b \cup {c} :
          (IF x = id THEN doc ELSE a[x]) = (IF x = c THEN e ELSE b[x])
  BY <1>1, <1>2
<1>5. [x \in DOMAIN a \cup {id} |-> IF x = id THEN doc ELSE a[x]]
      = [x \in DOMAIN b \cup {c} |-> IF x = c THEN e ELSE b[x]]
  BY <1>3, <1>4
<1> QED
  BY <1>5, Zenon DEF WithDocument, a, b

\* The request is bound to the connection in the step that adds it.
LEMMA NewConnectionKeeps ==
  ASSUME IInv, NEW id \in Schemas, NewSchemaConnection(id)
  PROVE  IInv'
<1> DEFINE w == workspace
           draft == w.documents[Current].request
           own == [BlankDraft EXCEPT !.auth = draft.auth]
           connection == NewDocument(own, TRUE)
           linked == BindGraphqlSchema(draft, id, TRUE)
           bound == [w EXCEPT !.documents[Current].request = linked]
           u == Put(w, id, connection)
           x == Put(u, Current, [u.documents[Current] EXCEPT !.request = linked])
           v == OpenDocument(Put(bound, id, connection), id)
<1>1. /\ Acts /\ Current \in Requests /\ id \in Schemas \ made /\ made' = made \cup {id}
      /\ Update(v) /\ UNCHANGED History
  BY DEF NewSchemaConnection
<1>2. Current \in DOMAIN w.documents /\ id \notin DOMAIN w.documents /\ id \in Ids \ HistoryTabs
  BY <1>1, CurrentIs, NotKnown, Kinds
<1>3. Fine(w) /\ w \in Workspaces /\ Named
  BY FineIs DEF IInv
<1>4. draft \in Drafts /\ draft.auth \in Auths
  BY <1>2, <1>3, FineIs DEF Sound, Documents, Drafts
<1>5. /\ connection \in Sound /\ connection.saved
      /\ NamesIn(connection, DOMAIN w.documents \cup {id})
  <2>1. own \in Drafts /\ own.schema = None
    BY <1>4 DEF BlankDraft, Drafts
  <2> HIDE DEF own
  <2> QED
    BY <2>1, NewNames
<1>6. linked \in Drafts /\ linked.schema = id
  <2> HIDE DEF draft
  <2> QED
    BY <1>4, BoundIs
<1> HIDE DEF connection, linked
<1>7. /\ Fine(u) /\ DOMAIN u.documents = DOMAIN w.documents \cup {id}
      /\ SameButDocuments(u, w) /\ u \in Workspaces
  <2> HIDE DEF w
  <2>1. id \in DOMAIN w.documents => (w.documents[id].saved => connection.saved)
    BY <1>2
  <2>2. /\ Sane(Put(w, id, connection)) /\ Held(Put(w, id, connection), {})
        /\ DOMAIN Put(w, id, connection).documents = DOMAIN w.documents \cup {id}
        /\ SameButDocuments(Put(w, id, connection), w)
    BY <1>2, <1>3, <1>5, <2>1, PutSane
  <2>3. Shown(u)
    BY <1>3, <2>2 DEF Shown, Fine, SameButDocuments
  <2> QED
    BY <2>2, <2>3 DEF Fine, Sane
<1>8. /\ Fine(x) /\ DOMAIN x.documents = DOMAIN u.documents
      /\ x = [u EXCEPT !.documents[Current].request = linked]
  <2> HIDE DEF u
  <2>1. /\ Current \in DOMAIN u.documents /\ linked.schema \in DOMAIN u.documents \cup {None}
        /\ Current \in HistoryTabs => linked.schema = None
    BY <1>1, <1>2, <1>6, <1>7, Kinds
  <2> QED
    BY <1>6, <1>7, <2>1, EditKeeps
<1>9. x = Put(bound, id, connection)
  <2> DEFINE docs == w.documents
             e == [docs[Current] EXCEPT !.request = linked]
  <2>1. u = [w EXCEPT !.documents = WithDocument(docs, id, connection)]
    BY DEF Put
  <2>2. bound = [w EXCEPT !.documents = [docs EXCEPT ![Current] = e]]
    BY DEF Workspaces
  <2>3. /\ u.documents = WithDocument(docs, id, connection)
        /\ bound.documents = [docs EXCEPT ![Current] = e]
    BY <1>3, <2>1, <2>2 DEF Workspaces
  <2>4. u.documents[Current] = docs[Current]
    BY <1>1, <1>2, <2>3 DEF WithDocument
  <2>5. x = [u EXCEPT !.documents = WithDocument(WithDocument(docs, id, connection), Current, e)]
    BY <2>3, <2>4 DEF Put
  <2>6. Put(bound, id, connection)
        = [bound EXCEPT !.documents = WithDocument([docs EXCEPT ![Current] = e], id, connection)]
    BY <2>3 DEF Put
  <2>7. WithDocument([docs EXCEPT ![Current] = e], id, connection)
        = WithDocument(WithDocument(docs, id, connection), Current, e)
    <3>1. Current \in DOMAIN docs /\ id # Current
      BY <1>2
    <3> HIDE DEF docs, e
    <3> QED
      BY <3>1, PutTwice
  <2> DEFINE m == WithDocument(WithDocument(docs, id, connection), Current, e)
             n == WithDocument(docs, id, connection)
             o == [docs EXCEPT ![Current] = e]
  <2> HIDE DEF docs, e
  <2>8. x = [[w EXCEPT !.documents = n] EXCEPT !.documents = m]
    BY <2>1, <2>5
  <2>9. Put(bound, id, connection) = [[w EXCEPT !.documents = o] EXCEPT !.documents = m]
    BY <2>2, <2>6, <2>7
  <2> HIDE DEF m, n, o, x, bound
  <2>10. [[w EXCEPT !.documents = n] EXCEPT !.documents = m] = [w EXCEPT !.documents = m]
    OBVIOUS
  <2>11. [[w EXCEPT !.documents = o] EXCEPT !.documents = m] = [w EXCEPT !.documents = m]
    OBVIOUS
  <2> QED
    BY <2>8, <2>9, <2>10, <2>11
<1>10. Fine(v) /\ v.documents = x.documents
  <2>1. v = OpenDocument(x, id)
    BY <1>9
  <2>2. Sane(x) /\ Held(x, {id}) /\ id \in DOMAIN x.documents
    BY <1>7, <1>8 DEF Fine, Held
  <2> HIDE DEF x, v
  <2> QED
    BY <2>1, <2>2, OpenKeeps
<1> HIDE DEF v, x, u
<1>11. Named'
  BY <1>1, <1>3, <1>7, <1>8, <1>10 DEF Named, Update
<1>12. Fine(workspace')
  BY <1>1, <1>10 DEF Update
<1> QED
  BY <1>1, <1>11, <1>12, Worked

\* The default connection is one that exists.
LEMMA SetDefaultKeeps ==
  ASSUME IInv, NEW id \in Schemas \cup {None}, SetDefaultSchema(id)
  PROVE  IInv'
<1> DEFINE w == workspace
           v == [w EXCEPT !.default = id]
<1>1. /\ Acts /\ UNCHANGED <<History, made>> /\ Update(v)
      /\ id \in (Schemas \cap DOMAIN w.documents) \cup {None}
  BY DEF SetDefaultSchema, Known
<1>2. Fine(v) /\ v.documents = w.documents
  <2>1. Fine(w) /\ id \in DOMAIN w.documents \cup {None} /\ id \in Schemas \cup {None}
    BY <1>1 DEF IInv
  <2> HIDE DEF w
  <2> QED
    BY <2>1, ReferredKeeps
<1> HIDE DEF v
<1>3. DOMAIN v.documents \ HistoryTabs \subseteq DOMAIN workspace.documents
  BY <1>2
<1> QED
  BY <1>1, <1>2, <1>3, Moved

\* The source of a variable is a saved request that exists.
LEMMA SetVariableKeeps ==
  ASSUME IInv, NEW id \in Requests, SetVariableSource(id)
  PROVE  IInv'
<1> DEFINE w == workspace
           v == [w EXCEPT !.variable = id]
<1>1. /\ Acts /\ UNCHANGED <<History, made>> /\ Update(v)
      /\ id \in Requests /\ id \in DOMAIN w.documents /\ w.documents[id].saved
  BY DEF SetVariableSource, Known
<1>2. Fine(v) /\ v.documents = w.documents
  <2>1. Fine(w) /\ id \in DOMAIN w.documents \cup {None}
    BY <1>1 DEF IInv
  <2> HIDE DEF w
  <2> QED
    BY <1>1, <2>1, ReferredKeeps
<1> HIDE DEF v
<1>3. DOMAIN v.documents \ HistoryTabs \subseteq DOMAIN workspace.documents
  BY <1>2
<1> QED
  BY <1>1, <1>2, <1>3, Moved

\* A request that is discarded leaves no tab, or goes back to its snapshot.
LEMMA DiscardStep ==
  ASSUME IInv, NEW id \in Requests \cup Schemas, Discard(id)
  PROVE  IInv'
<1> DEFINE v == DiscardDocument(workspace, id)
<1>1. /\ Acts /\ UNCHANGED <<History, made>> /\ Update(v) /\ id \in Requests
  BY DEF Discard, Dirty, IsDocumentDirty
<1>2. Fine(v) /\ DOMAIN v.documents \subseteq DOMAIN workspace.documents
  BY <1>1, DiscardKeeps DEF IInv
<1> HIDE DEF v
<1>3. DOMAIN v.documents \ HistoryTabs \subseteq DOMAIN workspace.documents
  BY <1>2
<1> QED
  BY <1>1, <1>2, <1>3, Moved

\* So do all drafts at once.
LEMMA DiscardAllStep ==
  ASSUME IInv, DiscardAll
  PROVE  IInv'
<1> DEFINE v == DiscardAllDrafts(workspace)
<1>1. /\ Acts /\ UNCHANGED <<History, made>> /\ Update(v)
  BY DEF DiscardAll
<1>2. Fine(v) /\ DOMAIN v.documents \subseteq DOMAIN workspace.documents
  BY <1>1, DiscardAllKeeps DEF IInv
<1> HIDE DEF v
<1>3. DOMAIN v.documents \ HistoryTabs \subseteq DOMAIN workspace.documents
  BY <1>2
<1> QED
  BY <1>1, <1>2, <1>3, Moved

\* A document that is deleted takes its tab and every reference to it along.
LEMMA DeleteStep ==
  ASSUME IInv, NEW id \in Requests \cup Schemas, Delete(id)
  PROVE  IInv'
<1> DEFINE u == DeleteDocument(workspace, id)
           v == [u EXCEPT !.variable = IF @ = id THEN None ELSE @]
<1>1. /\ Acts /\ UNCHANGED <<History, made>> /\ Update(v)
  BY DEF Delete
<1>2. Fine(v) /\ DOMAIN v.documents = DOMAIN workspace.documents \ {id}
  BY <1>1, DeleteKeeps DEF IInv
<1> HIDE DEF v
<1>3. DOMAIN v.documents \ HistoryTabs \subseteq DOMAIN workspace.documents
  BY <1>2
<1> QED
  BY <1>1, <1>2, <1>3, Moved

\* A copy is bound to the connection of the original, which exists.
LEMMA DuplicateStep ==
  ASSUME IInv, NEW id \in Requests \cup Schemas, NEW copy \in Requests \cup Schemas,
         Duplicate(id, copy)
  PROVE  IInv'
<1> DEFINE doc == NewDocument(workspace.documents[id].request, ~IsRequest(id))
<1>1. /\ Acts /\ id \in DOMAIN workspace.documents /\ copy \in (Requests \cup Schemas) \ made
      /\ copy \in IF IsRequest(id) THEN Requests ELSE Schemas
      /\ AddedAs(copy, doc) /\ UNCHANGED History
  BY DEF Duplicate, Known
<1>2. /\ workspace.documents[id].request \in Drafts
      /\ workspace.documents[id].request.schema \in DOMAIN workspace.documents \cup {None}
  <2>1. Fine(workspace)
    BY DEF IInv
  <2> QED
    BY <1>1, <2>1, FineIs DEF Sound, Documents, NamesIn
<1>3. (~IsRequest(id)) \in BOOLEAN
  BY DEF IsRequest
<1>4. doc \in Sound /\ NamesIn(doc, DOMAIN workspace.documents) /\ doc.saved = ~IsRequest(id)
  BY <1>2, <1>3, NewNames
<1>5. copy \in Schemas => doc.saved
  BY <1>1, <1>4, Kinds
<1> HIDE DEF doc
<1> QED
  BY <1>1, <1>4, <1>5, Added

\* The snapshot names the connection the draft names.
LEMMA SaveStep ==
  ASSUME IInv, Save
  PROVE  IInv'
<1> DEFINE w == workspace
           doc == w.documents[Current]
           e == [doc EXCEPT !.saved = TRUE, !.savedRequest = doc.request]
           v == Put(w, Current, e)
<1>1. /\ Acts /\ UNCHANGED <<History, made>> /\ Update([w EXCEPT !.documents[Current] = e])
      /\ Current \in Requests
  BY DEF Save
<1>2. Fine(w) /\ Current \in DOMAIN w.documents
  BY <1>1, CurrentIs, Kinds DEF IInv
<1>3. doc \in Sound /\ NamesIn(doc, DOMAIN w.documents)
  BY <1>2, FineIs
<1>4. e \in Sound /\ NamesIn(e, DOMAIN w.documents) /\ e.saved
  <2> DEFINE D == DOMAIN w.documents
  <2> HIDE DEF doc, D
  <2>1. NamesIn(doc, D)
    BY <1>3 DEF D
  <2>2. /\ e \in Documents /\ e.saved = TRUE /\ e.savedRequest = doc.request
        /\ e.request = doc.request /\ doc.request \in Drafts
    BY <1>3 DEF Sound, Documents
  <2> HIDE DEF e
  <2>3. e \in Sound /\ NamesIn(e, D) /\ e.saved
    BY <2>1, <2>2, Kinds DEF Sound, NamesIn
  <2> QED
    BY <2>3 DEF D
<1>5. Current \in HistoryTabs => e \in Historical
  BY <1>1, Kinds
<1> HIDE DEF e
<1>6. Fine(v) /\ DOMAIN v.documents = DOMAIN w.documents /\ v = [w EXCEPT !.documents[Current] = e]
  <2> HIDE DEF w
  <2> QED
    BY <1>2, <1>4, <1>5, PutFine
<1> HIDE DEF v
<1>7. Update(v) /\ DOMAIN v.documents \ HistoryTabs \subseteq DOMAIN workspace.documents
  BY <1>1, <1>6
<1> QED
  BY <1>1, <1>6, <1>7, Moved

\* A document whose authentication is looked up again.
LEMMA ReconciledIs ==
  ASSUME NEW doc \in Sound, NEW profiles \in SUBSET Profiles, NEW D, NamesIn(doc, D)
  PROVE  LET fallback(draft) ==
                 IF draft # None /\ draft.auth \in Profiles \ profiles
                 THEN [draft EXCEPT !.auth = WithWorkspaceAuthDefault(BlankDraft, profiles).auth]
                 ELSE draft
             e == [doc EXCEPT !.savedRequest = fallback(@),
                              !.request = fallback(IF doc.saved THEN @
                                                   ELSE WithWorkspaceAuthDefault(@, profiles))]
         IN  e \in Sound /\ NamesIn(e, D) /\ e.saved = doc.saved
<1> DEFINE auth == WithWorkspaceAuthDefault(BlankDraft, profiles).auth
           fallback(draft) ==
               IF draft # None /\ draft.auth \in Profiles \ profiles
               THEN [draft EXCEPT !.auth = auth] ELSE draft
           now == IF doc.saved THEN doc.request ELSE WithWorkspaceAuthDefault(doc.request, profiles)
           e == [doc EXCEPT !.savedRequest = fallback(@), !.request = fallback(now)]
<1>1. /\ doc \in Documents /\ doc.request \in Drafts /\ doc.savedRequest \in Drafts \cup {None}
      /\ doc.saved <=> doc.savedRequest # None
  BY DocumentIs DEF Sound
<1>2. auth \in Auths
  BY BlankIs, DefaultIs
<1>3. now \in Drafts /\ now.schema = doc.request.schema
  BY <1>1, DefaultIs
<1> HIDE DEF auth, now
<1>4. ASSUME NEW draft \in Drafts
      PROVE  fallback(draft) \in Drafts /\ fallback(draft).schema = draft.schema
  BY <1>2 DEF Drafts
<1>5. fallback(None) = None
  OBVIOUS
<1>6. /\ fallback(doc.savedRequest) \in Drafts \cup {None}
      /\ fallback(doc.savedRequest) # None <=> doc.savedRequest # None
      /\ doc.savedRequest # None => fallback(doc.savedRequest).schema = doc.savedRequest.schema
  <2> HIDE DEF fallback
  <2> QED
    BY <1>1, <1>4, <1>5, Kinds
<1>7. fallback(now) \in Drafts /\ fallback(now).schema = doc.request.schema
  <2> HIDE DEF fallback
  <2> QED
    BY <1>3, <1>4
<1>8. /\ e \in Documents /\ e.request = fallback(now) /\ e.saved = doc.saved
      /\ e.savedRequest = fallback(doc.savedRequest)
  <2> HIDE DEF fallback
  <2> QED
    BY <1>1, <1>6, <1>7 DEF Documents
<1> HIDE DEF e, fallback
<1>9. e \in Sound /\ NamesIn(e, D) /\ e.saved = doc.saved
  BY <1>1, <1>6, <1>7, <1>8 DEF Sound, NamesIn
<1> QED
  BY <1>9 DEF e, fallback, now, auth

\* Other shared profiles leave connections, tabs and snapshots as they are.
LEMMA RequestConfigStep ==
  ASSUME IInv, NEW profiles \in SUBSET Profiles, WithRequestConfig(profiles)
  PROVE  IInv'
<1> DEFINE w == workspace
           docs == w.documents
           fallback(draft) ==
               IF draft # None /\ draft.auth \in Profiles \ profiles
               THEN [draft EXCEPT !.auth = WithWorkspaceAuthDefault(BlankDraft, profiles).auth]
               ELSE draft
           reconcile(doc) ==
               [doc EXCEPT !.savedRequest = fallback(@),
                           !.request = fallback(IF doc.saved THEN @
                                                ELSE WithWorkspaceAuthDefault(@, profiles))]
           m == [id \in DOMAIN docs |-> IF id \in Requests THEN reconcile(docs[id]) ELSE docs[id]]
           v == [w EXCEPT !.profiles = profiles, !.documents = m]
<1>1. Acts /\ UNCHANGED <<History, made>> /\ Update(v)
  BY DEF WithRequestConfig, Known
<1>2. /\ Fine(w) /\ w \in Workspaces /\ docs \in DocumentMaps /\ Bound(docs)
      /\ Sane(w) /\ Held(w, {}) /\ Shown(w) /\ Referred(w) /\ Tabbed(w)
  BY FineIs DEF IInv
<1>3. \A id \in DOMAIN docs :
          /\ reconcile(docs[id]) \in Sound /\ NamesIn(reconcile(docs[id]), DOMAIN docs)
          /\ reconcile(docs[id]).saved = docs[id].saved
  <2> SUFFICES ASSUME NEW id \in DOMAIN docs
               PROVE  /\ reconcile(docs[id]) \in Sound /\ NamesIn(reconcile(docs[id]), DOMAIN docs)
                      /\ reconcile(docs[id]).saved = docs[id].saved
    OBVIOUS
  <2> DEFINE doc == docs[id]
             D == DOMAIN docs
  <2>1. doc \in Sound /\ NamesIn(doc, D)
    BY <1>2, FineIs
  <2> HIDE DEF docs, doc, D
  <2>2. reconcile(doc) \in Sound /\ NamesIn(reconcile(doc), D) /\ reconcile(doc).saved = doc.saved
    BY <2>1, ReconciledIs
  <2> QED
    BY <2>2 DEF doc, D
<1> HIDE DEF reconcile
<1>4. /\ DOMAIN m = DOMAIN docs /\ m = [id \in DOMAIN docs |-> m[id]]
      /\ \A id \in DOMAIN docs : m[id] = IF id \in Requests THEN reconcile(docs[id]) ELSE docs[id]
  <2> HIDE DEF docs
  <2> QED
    OBVIOUS
<1> HIDE DEF m
<1>5. \A id \in DOMAIN docs :
          /\ m[id] \in Sound /\ NamesIn(m[id], DOMAIN m) /\ m[id].saved = docs[id].saved
          /\ id \in Schemas => m[id].saved
          /\ id \in HistoryTabs => m[id] \in Historical
  <2>1. \A id \in DOMAIN docs :
          /\ docs[id] \in Sound /\ NamesIn(docs[id], DOMAIN docs)
          /\ id \in Schemas => docs[id].saved
          /\ id \in HistoryTabs => docs[id] \in Historical
    BY <1>2, FineIs
  <2> HIDE DEF docs
  <2> QED
    BY <1>3, <1>4, <2>1, Kinds
<1>6. m \in DocumentMaps /\ Bound(m)
  <2> HIDE DEF docs
  <2> QED
    BY <1>2, <1>4, <1>5, ChangedIs DEF Bound
<1>7. /\ v \in Workspaces /\ v.documents = m /\ v.tabs = w.tabs
      /\ v.active = w.active /\ v.preview = w.preview /\ v.panels = w.panels
      /\ v.panel = w.panel /\ v.last = w.last /\ v.default = w.default
      /\ v.variable = w.variable
  BY <1>2, <1>6 DEF Workspaces
<1> HIDE DEF v
<1>8. Referred(v)
  <2>1. w.variable # None => m[w.variable].saved = docs[w.variable].saved
    BY <1>2, <1>5 DEF Referred
  <2> QED
    BY <1>2, <1>4, <1>7, <2>1 DEF Referred
<1>9. Fine(v)
  BY <1>2, <1>4, <1>6, <1>7, <1>8 DEF Fine, Sane, Held, Shown, Tabbed
<1>10. DOMAIN v.documents \ HistoryTabs \subseteq DOMAIN workspace.documents
  BY <1>4, <1>7
<1> QED
  BY <1>1, <1>9, <1>10, Moved

-----------------------------------------------------------------------------
(* Each step keeps it: tabs and panels.                                    *)

\* Other panels beside the same tabs.
LEMMA PanelsKeep ==
  ASSUME NEW w, Fine(w), NEW panels \in SUBSET Range(Panels), NEW panel \in panels \cup {None},
         panels # {} => panel # None
  PROVE  LET v == [w EXCEPT !.panels = panels, !.panel = panel] IN
         Fine(v) /\ v.documents = w.documents
<1> DEFINE v == [w EXCEPT !.panels = panels, !.panel = panel]
<1>1. /\ w \in Workspaces /\ Bound(w.documents)
      /\ Held(w, {}) /\ Shown(w) /\ Referred(w) /\ Tabbed(w)
  BY FineIs
<1>2. /\ v \in Workspaces /\ v.documents = w.documents /\ v.tabs = w.tabs
      /\ v.active = w.active /\ v.preview = w.preview /\ v.panels = panels
      /\ v.panel = panel /\ v.last = w.last /\ v.default = w.default
      /\ v.variable = w.variable
  BY <1>1 DEF Workspaces
<1> HIDE DEF v
<1>3. Fine(v)
  BY <1>1, <1>2 DEF Fine, Sane, Held, Shown, Tabbed, Referred
<1> QED
  BY <1>2, <1>3 DEF v

\* The tab that is selected becomes the active one.
LEMMA OpenStep ==
  ASSUME IInv, NEW id, Open(id)
  PROVE  IInv'
<1> DEFINE w == workspace
           v == OpenDocument(w, id)
<1>1. Acts /\ UNCHANGED <<History, made>> /\ Update(v) /\ id \in Range(w.tabs)
  BY DEF Open
<1>2. Fine(v) /\ v.documents = w.documents
  <2>1. Sane(w) /\ Held(w, {id}) /\ id \in DOMAIN w.documents
    BY <1>1 DEF IInv, Fine, Held, Sane, Tabbed
  <2> HIDE DEF w
  <2> QED
    BY <2>1, OpenKeeps
<1> HIDE DEF v
<1>3. DOMAIN v.documents \ HistoryTabs \subseteq DOMAIN workspace.documents
  BY <1>2
<1> QED
  BY <1>1, <1>2, <1>3, Moved

\* A document selected in the sidebar has a tab, in the place of the last preview or its own.
LEMMA PreviewStep ==
  ASSUME IInv, NEW id, Preview(id)
  PROVE  IInv'
<1> DEFINE w == workspace
           v == PreviewDocument(w, id)
<1>1. /\ Acts /\ UNCHANGED <<History, made>> /\ Update(v) /\ id \in DOMAIN w.documents
      /\ id \notin HistoryTabs
  BY DEF Preview, Known
<1>2. Fine(v) /\ v.documents = w.documents
  <2>1. Fine(w)
    BY DEF IInv
  <2> HIDE DEF w
  <2> QED
    BY <1>1, <2>1, PreviewKeeps
<1> HIDE DEF v
<1>3. DOMAIN v.documents \ HistoryTabs \subseteq DOMAIN workspace.documents
  BY <1>2
<1> QED
  BY <1>1, <1>2, <1>3, Moved

\* A pinned tab is no preview any more.
LEMMA PinStep ==
  ASSUME IInv, Pin
  PROVE  IInv'
<1> DEFINE v == PinDocument(workspace, workspace.preview)
<1>1. Acts /\ UNCHANGED <<History, made>> /\ Update(v)
  BY DEF Pin
<1>2. Fine(v) /\ v.documents = workspace.documents
  BY PinKeeps DEF IInv
<1> HIDE DEF v
<1>3. DOMAIN v.documents \ HistoryTabs \subseteq DOMAIN workspace.documents
  BY <1>2
<1> QED
  BY <1>1, <1>2, <1>3, Moved

\* Tabs that are moved are the same tabs.
LEMMA ReorderStep ==
  ASSUME IInv, NEW i, NEW j, Reorder(i, j)
  PROVE  IInv'
<1> DEFINE w == workspace
           v == ReorderOpenDocuments(w, i, j)
<1>1. /\ Acts /\ UNCHANGED <<History, made>> /\ Update(v)
      /\ i \in DOMAIN w.tabs /\ j \in DOMAIN w.tabs
  BY DEF Reorder
<1>2. Fine(v) /\ v.documents = w.documents
  <2>1. Fine(w)
    BY DEF IInv
  <2> HIDE DEF w
  <2> QED
    BY <1>1, <2>1, ReorderKeeps
<1> HIDE DEF v
<1>3. DOMAIN v.documents \ HistoryTabs \subseteq DOMAIN workspace.documents
  BY <1>2
<1> QED
  BY <1>1, <1>2, <1>3, Moved

\* When a tab is closed another is shown, if there is one.
LEMMA CloseStep ==
  ASSUME IInv, NEW id \in Ids, Close(id)
  PROVE  IInv'
<1> DEFINE w == workspace
           v == CloseDocument(w, id, FALSE)
<1>1. Acts /\ UNCHANGED <<History, made>> /\ Update(v)
  BY DEF Close
<1>2. Fine(v) /\ DOMAIN v.documents \subseteq DOMAIN w.documents
  <2>1. Fine(w)
    BY DEF IInv
  <2> HIDE DEF w
  <2> QED
    BY <2>1, CloseKeeps
<1> HIDE DEF v
<1>3. DOMAIN v.documents \ HistoryTabs \subseteq DOMAIN workspace.documents
  BY <1>2
<1> QED
  BY <1>1, <1>2, <1>3, Moved

\* The document whose tab stays survives the others and is shown.
LEMMA CloseOthersStep ==
  ASSUME IInv, NEW id \in Ids, CloseOthers(id)
  PROVE  IInv'
<1> DEFINE w == workspace
           others == Without(w.tabs, id)
           closed == ClosedAll(w, others)
           opened == OpenDocument(closed, id)
           v == [opened EXCEPT !.panels = {}, !.panel = None]
<1>1. Acts /\ UNCHANGED <<History, made>> /\ Update(v) /\ id \in Range(w.tabs)
  BY DEF CloseOthers
<1>2. Fine(w) /\ w \in Workspaces /\ id \in DOMAIN w.documents
  BY <1>1, FineIs DEF IInv, Tabbed
<1>3. others \in Seq(Ids) /\ Range(others) = Range(w.tabs) \ {id}
  <2>1. w.tabs \in Seq(Ids)
    BY <1>2, FieldsOf
  <2> QED
    BY <2>1, WithoutIs
<1>4. /\ Fine(closed) /\ {id} \subseteq DOMAIN closed.documents
      /\ DOMAIN closed.documents \subseteq DOMAIN w.documents
  <2> HIDE DEF w, others
  <2>1. {id} \in SUBSET DOMAIN w.documents /\ {id} \cap Range(others) = {}
    BY <1>2, <1>3
  <2> QED
    BY <1>2, <1>3, <2>1, ClosedAllKeeps
<1> HIDE DEF closed
<1>5. Fine(opened) /\ opened.documents = closed.documents
  <2>1. Sane(closed) /\ Held(closed, {id}) /\ id \in DOMAIN closed.documents
    BY <1>4 DEF Fine, Held
  <2> QED
    BY <2>1, OpenKeeps
<1> HIDE DEF opened
<1>6. Fine(v) /\ v.documents = opened.documents
  <2> DEFINE panels == {}
  <2>1. /\ panels \in SUBSET Range(Panels) /\ None \in panels \cup {None}
        /\ panels # {} => None # None
    OBVIOUS
  <2>2. v = [opened EXCEPT !.panels = panels, !.panel = None]
    OBVIOUS
  <2> HIDE DEF panels, v
  <2> QED
    BY <1>5, <2>1, <2>2, PanelsKeep
<1> HIDE DEF v
<1>7. DOMAIN v.documents \ HistoryTabs \subseteq DOMAIN workspace.documents
  BY <1>4, <1>5, <1>6
<1> QED
  BY <1>1, <1>6, <1>7, Moved

\* Without tabs and panels nothing is shown.
LEMMA CloseAllStep ==
  ASSUME IInv, CloseAll
  PROVE  IInv'
<1> DEFINE w == workspace
           closed == ClosedAll(w, w.tabs)
           v == [closed EXCEPT !.panels = {}, !.panel = None]
<1>1. Acts /\ UNCHANGED <<History, made>> /\ Update(v)
  BY DEF CloseAll
<1>2. Fine(w) /\ w.tabs \in Seq(Ids)
  BY FineIs, FieldsOf DEF IInv
<1>3. Fine(closed) /\ DOMAIN closed.documents \subseteq DOMAIN w.documents
  <2> DEFINE stay == {}
             tabs == w.tabs
  <2>1. stay \in SUBSET DOMAIN w.documents /\ stay \cap Range(tabs) = {} /\ tabs \in Seq(Ids)
    BY <1>2
  <2> HIDE DEF w, stay, tabs
  <2>2. Fine(ClosedAll(w, tabs)) /\ DOMAIN ClosedAll(w, tabs).documents \subseteq DOMAIN w.documents
    BY <1>2, <2>1, ClosedAllKeeps
  <2> QED
    BY <2>2 DEF tabs
<1> HIDE DEF closed
<1>4. Fine(v) /\ v.documents = closed.documents
  <2> DEFINE panels == {}
  <2>1. /\ panels \in SUBSET Range(Panels) /\ None \in panels \cup {None}
        /\ panels # {} => None # None
    OBVIOUS
  <2>2. v = [closed EXCEPT !.panels = panels, !.panel = None]
    OBVIOUS
  <2> HIDE DEF panels, v
  <2> QED
    BY <1>3, <2>1, <2>2, PanelsKeep
<1> HIDE DEF v
<1>5. DOMAIN v.documents \ HistoryTabs \subseteq DOMAIN workspace.documents
  BY <1>3, <1>4
<1> QED
  BY <1>1, <1>4, <1>5, Moved

\* A panel that is opened is shown.
LEMMA OpenPanelStep ==
  ASSUME IInv, NEW p, OpenPanel(p)
  PROVE  IInv'
<1> DEFINE w == workspace
           panels == w.panels \cup {p}
           v == [w EXCEPT !.panels = panels, !.panel = p]
<1>1. Acts /\ UNCHANGED <<History, made>> /\ Update(v) /\ p \in Range(Panels)
  BY DEF OpenPanel
<1>2. Fine(w) /\ panels \in SUBSET Range(Panels)
  BY <1>1, FineIs, FieldsOf DEF IInv
<1>3. p \in panels \cup {None} /\ (panels # {} => p # None)
  BY <1>1, Kinds
<1>4. Fine(v) /\ v.documents = w.documents
  <2> HIDE DEF w, panels
  <2> QED
    BY <1>2, <1>3, PanelsKeep
<1> HIDE DEF v
<1>5. DOMAIN v.documents \ HistoryTabs \subseteq DOMAIN workspace.documents
  BY <1>4
<1> QED
  BY <1>1, <1>4, <1>5, Moved

\* When a panel is closed, a tab or another panel is shown.
LEMMA CloseTabStep ==
  ASSUME IInv, NEW p, CloseWorkspaceTab(p)
  PROVE  IInv'
<1> DEFINE w == workspace
           u == [w EXCEPT !.panels = @ \ {p}, !.panel = IF @ = p THEN None ELSE @]
           v == ActivateRemainingTab(u)
<1>1. Acts /\ UNCHANGED <<History, made>> /\ Update(v)
  BY DEF CloseWorkspaceTab
<1>2. /\ w \in Workspaces /\ Bound(w.documents)
      /\ Held(w, {}) /\ Shown(w) /\ Referred(w) /\ Tabbed(w)
  BY FineIs DEF IInv
<1>3. /\ u \in Workspaces /\ u.documents = w.documents /\ u.tabs = w.tabs
      /\ u.active = w.active /\ u.preview = w.preview /\ u.panels = w.panels \ {p}
      /\ u.panel = (IF w.panel = p THEN None ELSE w.panel) /\ u.last = w.last
      /\ u.default = w.default /\ u.variable = w.variable
  BY <1>2 DEF Workspaces
<1> HIDE DEF u
<1>4. /\ Sane(u) /\ Held(u, {})
      /\ u.active \in Range(u.tabs) \cup {None} /\ (u.active = None => u.tabs = <<>>)
  BY <1>2, <1>3 DEF Sane, Held, Shown, Tabbed, Referred
<1>5. Fine(v) /\ v.documents = u.documents
  BY <1>4, ActivateKeeps
<1> HIDE DEF v
<1>6. DOMAIN v.documents \ HistoryTabs \subseteq DOMAIN workspace.documents
  BY <1>3, <1>5
<1> QED
  BY <1>1, <1>5, <1>6, Moved

-----------------------------------------------------------------------------
(* Each step keeps it: executions and history.                             *)

\* What history keeps of a request names no connection.
LEMMA RecordedIs ==
  ASSUME NEW id \in Requests, workspace.documents[id].request \in Drafts
  PROVE  Recorded(id) \in Historical
<1> DEFINE draft == workspace.documents[id].request
           sent == [draft EXCEPT !.schema = None, !.auth = IF @ = "none" THEN "none" ELSE "own"]
           r == [saved |-> TRUE, sent |-> TRUE, request |-> sent, savedRequest |-> sent,
                 source |-> id]
<1>1. sent \in Drafts /\ sent.schema = None
  BY DEF Drafts, Auths
<1>2. Recorded(id) = r
  BY DEF Recorded
<1> HIDE DEF sent
<1>3. r \in Documents /\ r.saved /\ r.savedRequest = sent /\ r.request = sent
  BY <1>1 DEF Documents
<1> HIDE DEF r
<1>4. r \in Historical
  BY <1>1, <1>3, Kinds DEF Historical, Sound
<1> QED
  BY <1>2, <1>4

\* A record is made of a request without its connection.
LEMMA SendStep ==
  ASSUME IInv, NEW entry \in Entries, Send(entry)
  PROVE  IInv'
<1> DEFINE w == workspace
           doc == w.documents[Current]
           e == [doc EXCEPT !.sent = TRUE]
           v == Put(w, Current, e)
<1>1. /\ Acts /\ Current \in Requests /\ made' = made \cup {entry}
      /\ entries' = [entries EXCEPT ![entry] = Recorded(Current)]
      /\ Update([w EXCEPT !.documents[Current] = e])
      /\ UNCHANGED <<removed, opening, conflict>>
  BY DEF Send
<1>2. Fine(w) /\ Current \in DOMAIN w.documents
  BY <1>1, CurrentIs, Kinds DEF IInv
<1>3. doc \in Sound /\ NamesIn(doc, DOMAIN w.documents)
  BY <1>2, FineIs
<1>4. e \in Sound /\ NamesIn(e, DOMAIN w.documents) /\ e.saved = doc.saved
  <2> DEFINE D == DOMAIN w.documents
  <2>1. NamesIn(doc, D) /\ doc \in Sound
    BY <1>3
  <2> HIDE DEF doc, D
  <2>2. /\ e \in Documents /\ e.saved = doc.saved /\ e.savedRequest = doc.savedRequest
        /\ e.request = doc.request
    BY <2>1 DEF Sound, Documents
  <2> HIDE DEF e
  <2>3. e \in Sound /\ NamesIn(e, D) /\ e.saved = doc.saved
    BY <2>1, <2>2 DEF Sound, NamesIn
  <2> QED
    BY <2>3 DEF D
<1>5. (Current \in HistoryTabs => e \in Historical) /\ (w.documents[Current].saved => e.saved)
  BY <1>1, <1>4, Kinds
<1>6. Recorded(Current) \in Historical
  BY <1>1, <1>3, RecordedIs, DocumentIs
<1> HIDE DEF e
<1>7. Fine(v) /\ DOMAIN v.documents = DOMAIN w.documents /\ v = [w EXCEPT !.documents[Current] = e]
  <2> HIDE DEF w
  <2> QED
    BY <1>2, <1>4, <1>5, PutFine
<1> HIDE DEF v
<1>8. Fine(workspace')
  BY <1>1, <1>7 DEF Update
<1>9. Named'
  BY <1>1, <1>7 DEF IInv, Named, Update
<1>10. entries' \in [Entries -> Historical \cup {None}]
  BY <1>1, <1>6 DEF IInv, Remembered
<1>11. Remembered'
  BY <1>1, <1>10 DEF IInv, Remembered
<1> QED
  BY <1>1, <1>8, <1>9, <1>11, Acted DEF IInv

\* What is being read is a record.
LEMMA OpenHistoryStep ==
  ASSUME IInv, NEW entry \in Entries, NEW inPlace \in BOOLEAN, OpenHistory(entry, inPlace)
  PROVE  IInv'
<1>1. /\ Acts /\ entries[entry] # None
      /\ opening' = [tab |-> <<entry, inPlace>>, doc |-> entries[entry],
                     replace |-> IF inPlace THEN Current ELSE None]
      /\ UNCHANGED <<workspace, entries, removed, conflict, made>>
  BY DEF OpenHistory
<1>2. Current \in Ids \cup {None}
  <2>1. workspace \in Workspaces
    BY FineIs DEF IInv
  <2> QED
    BY <2>1, FieldsOf DEF Current
<1>3. entries[entry] \in Historical /\ <<entry, inPlace>> \in HistoryTabs
  BY <1>1 DEF IInv, Remembered, HistoryTabs
<1>4. opening' \in Openings
  BY <1>1, <1>2, <1>3 DEF Openings
<1>5. Remembered'
  BY <1>1, <1>4 DEF IInv, Remembered
<1>6. Fine(workspace') /\ Named'
  BY <1>1 DEF IInv, Named
<1> QED
  BY <1>1, <1>5, <1>6, Acted DEF IInv

\* A record that was read finds the tabs of now, not those of its request.
LEMMA HistoryReadStep ==
  ASSUME IInv, HistoryRead
  PROVE  IInv'
<1> DEFINE v == OpenHistoricalTab(workspace, opening.tab, opening.doc, opening.replace)
<1>1. /\ opening # None /\ opening' = None /\ workspace' \in {workspace, v}
      /\ UNCHANGED <<entries, removed, conflict, made, steps>>
  BY DEF HistoryRead, Update
<1>2. opening.tab \in HistoryTabs /\ opening.doc \in Historical
  BY <1>1 DEF IInv, Remembered, Openings
<1>3. Fine(v) /\ DOMAIN v.documents \ HistoryTabs \subseteq DOMAIN workspace.documents
  BY <1>2, HistoricalKeeps DEF IInv
<1> HIDE DEF v
<1>4. /\ Fine(workspace')
      /\ DOMAIN workspace'.documents \ HistoryTabs \subseteq DOMAIN workspace.documents
  BY <1>1, <1>3 DEF IInv
<1>5. Named'
  BY <1>1, <1>4 DEF IInv, Named
<1>6. Remembered'
  BY <1>1 DEF IInv, Remembered
<1> QED
  BY <1>1, <1>4, <1>5, <1>6 DEF IInv

\* A removed entry leaves its tabs for later.
LEMMA RemoveEntryStep ==
  ASSUME IInv, NEW entry \in Entries, RemoveEntry(entry)
  PROVE  IInv'
<1>1. /\ Acts /\ entries' = [entries EXCEPT ![entry] = None]
      /\ removed' \subseteq removed \cup {entry}
      /\ UNCHANGED <<workspace, opening, conflict, made>>
  BY DEF RemoveEntry
<1>2. Remembered'
  BY <1>1 DEF IInv, Remembered
<1>3. Fine(workspace') /\ Named'
  BY <1>1 DEF IInv, Named
<1> QED
  BY <1>1, <1>2, <1>3, Acted DEF IInv

\* And then they are closed.
LEMMA CloseRemovedStep ==
  ASSUME IInv, CloseRemoved
  PROVE  IInv'
<1> DEFINE v == ClosedTabsOf(workspace, removed)
<1>1. /\ removed' = {} /\ workspace' = v
      /\ UNCHANGED <<entries, opening, conflict, made, steps>>
  BY DEF CloseRemoved, Update
<1>2. Fine(workspace) /\ removed \in SUBSET Entries
  BY DEF IInv, Remembered
<1>3. Fine(v) /\ DOMAIN v.documents \subseteq DOMAIN workspace.documents
  BY <1>2, CloseRemovedKeeps
<1> HIDE DEF v
<1>4. Named'
  BY <1>1, <1>3 DEF IInv, Named
<1>5. Remembered'
  BY <1>1 DEF IInv, Remembered
<1>6. Fine(workspace')
  BY <1>1, <1>3
<1> QED
  BY <1>1, <1>4, <1>5, <1>6 DEF IInv

\* The document a history tab returns to takes its place.
LEMMA ReturnStep ==
  ASSUME IInv, Return
  PROVE  IInv'
<1> DEFINE w == workspace
           v == ReturnFromHistory(w, Current)
<1>1. /\ Acts /\ UNCHANGED <<History, made>> /\ Update(v)
      /\ Current \in DOMAIN w.documents \cap HistoryTabs
      /\ HistorySource(w, w.documents[Current]) # None
  BY DEF Return, Known
<1>2. Fine(v) /\ DOMAIN v.documents \subseteq DOMAIN w.documents
  <2>1. Fine(w)
    BY DEF IInv
  <2> HIDE DEF w
  <2> QED
    BY <1>1, <2>1, ReturnKeeps
<1> HIDE DEF v
<1>3. DOMAIN v.documents \ HistoryTabs \subseteq DOMAIN workspace.documents
  BY <1>2
<1> QED
  BY <1>1, <1>2, <1>3, Moved

\* A history tab that becomes a working copy, for each of the three handlers.
LEMMA PromoteKeeps ==
  ASSUME IInv, NEW tab \in HistoryTabs, NEW doc \in Historical, NEW mode,
         NEW replaceTab \in BOOLEAN, NEW new, Promote(tab, doc, mode, replaceTab, new)
  PROVE  Fine(workspace') /\ Named'
<1> DEFINE w == workspace
           v == HistoryWorkingCopy(w, tab, doc, mode, replaceTab, new)
           reuse == mode = "replace" /\ HistorySource(w, doc) # None
<1>1. Update(v) /\ IF reuse THEN UNCHANGED made
                   ELSE new \in Requests \ made /\ made' = made \cup {new}
  BY DEF Promote
<1>2. Fine(w) /\ Named
  BY DEF IInv
<1>3. ~reuse => new \in Requests \ DOMAIN w.documents
  BY <1>1, NotKnown
<1>4. /\ Fine(v)
      /\ DOMAIN v.documents \subseteq DOMAIN w.documents \cup (IF reuse THEN {} ELSE {new})
  <2>1. ~(mode = "replace" /\ HistorySource(w, doc) # None) => new \in Requests \ DOMAIN w.documents
    BY <1>3
  <2> HIDE DEF w
  <2> QED
    BY <1>2, <2>1, WorkingCopyKeeps
<1> HIDE DEF v, reuse
<1>5. Named'
  BY <1>1, <1>2, <1>4 DEF Named, Update
<1>6. Fine(workspace')
  BY <1>1, <1>4 DEF Update
<1> QED
  BY <1>5, <1>6

\* The history tab on screen shows a record.
LEMMA RecordShown ==
  ASSUME IInv, Current \in Known \cap HistoryTabs
  PROVE  workspace.documents[Current] \in Historical
  BY FineIs DEF IInv, Known

\* Replaying asks, or works on the source or a new draft.
LEMMA ReplayStep ==
  ASSUME IInv, NEW new, Replay(new)
  PROVE  IInv'
<1> DEFINE doc == workspace.documents[Current]
<1>1. Acts /\ Current \in Known \cap HistoryTabs /\ UNCHANGED <<entries, removed, opening>>
  BY DEF Replay
<1>2. doc \in Historical
  BY <1>1, RecordShown
<1>3. CASE HistoryNeedsReplacement(workspace, doc)
  <2>1. conflict' = [tab |-> Current, doc |-> doc] /\ UNCHANGED <<workspace, made>>
    BY <1>3 DEF Replay
  <2> HIDE DEF doc
  <2>2. conflict' \in Conflicts
    BY <1>1, <1>2, <2>1 DEF Conflicts
  <2>3. Remembered'
    BY <1>1, <2>2 DEF IInv, Remembered
  <2>4. Fine(workspace') /\ Named'
    BY <2>1 DEF IInv, Named
  <2> QED
    BY <1>1, <2>3, <2>4, Acted DEF IInv
<1>4. CASE ~HistoryNeedsReplacement(workspace, doc)
  <2>1. Promote(Current, doc, "replace", TRUE, new) /\ UNCHANGED conflict
    BY <1>4 DEF Replay
  <2> HIDE DEF doc
  <2>2. Fine(workspace') /\ Named'
    BY <1>1, <1>2, <2>1, PromoteKeeps
  <2>3. UNCHANGED History
    BY <1>1, <2>1 DEF History
  <2> QED
    BY <1>1, <2>2, <2>3, Worked
<1> QED
  BY <1>3, <1>4

\* The copy of a record is a draft of its own.
LEMMA DuplicateHistoryStep ==
  ASSUME IInv, NEW new, DuplicateHistory(new)
  PROVE  IInv'
<1> DEFINE doc == workspace.documents[Current]
<1>1. /\ Acts /\ Current \in Known \cap HistoryTabs /\ UNCHANGED History
      /\ Promote(Current, doc, "draft", FALSE, new)
  BY DEF DuplicateHistory
<1>2. doc \in Historical
  BY <1>1, RecordShown
<1> HIDE DEF doc
<1>3. Fine(workspace') /\ Named'
  BY <1>1, <1>2, PromoteKeeps
<1> QED
  BY <1>1, <1>3, Worked

\* The answer may come when the source or the tab of the question is gone.
LEMMA DecideStep ==
  ASSUME IInv, NEW new, Decide(new)
  PROVE  IInv'
<1>1. conflict # None /\ conflict' = None /\ UNCHANGED <<entries, removed, opening, steps>>
  BY DEF Decide
<1>2. PICK mode \in {"replace", "draft"} : Promote(conflict.tab, conflict.doc, mode, TRUE, new)
  BY DEF Decide
<1>3. conflict.tab \in HistoryTabs /\ conflict.doc \in Historical
  BY <1>1 DEF IInv, Remembered, Conflicts
<1>4. Fine(workspace') /\ Named'
  BY <1>2, <1>3, PromoteKeeps
<1>5. Remembered'
  BY <1>1 DEF IInv, Remembered
<1> QED
  BY <1>1, <1>4, <1>5 DEF IInv

\* Nothing but the question is dropped.
LEMMA CancelStep ==
  ASSUME IInv, Cancel
  PROVE  IInv'
<1>1. conflict' = None /\ UNCHANGED <<workspace, entries, removed, opening, made, steps>>
  BY DEF Cancel
<1>2. Remembered' /\ Named' /\ Fine(workspace')
  BY <1>1 DEF IInv, Remembered, Named
<1> QED
  BY <1>1, <1>2 DEF IInv

\* What is read back is what was saved, without the tabs of history.
LEMMA RestartStep ==
  ASSUME IInv, Restart
  PROVE  IInv'
<1> DEFINE w == workspace
           v == ActivateRemainingTab(Projected(w))
<1>1. /\ Acts /\ workspace' = v /\ opening' = None /\ removed' = {}
      /\ UNCHANGED <<entries, conflict, made>>
  BY DEF Restart, Update
<1>2. Fine(v) /\ DOMAIN v.documents \subseteq DOMAIN w.documents
  <2>1. Fine(w)
    BY DEF IInv
  <2> HIDE DEF w
  <2> QED
    BY <2>1, RestartKeeps
<1> HIDE DEF v
<1>3. Named'
  BY <1>1, <1>2 DEF IInv, Named
<1>4. Remembered'
  BY <1>1 DEF IInv, Remembered
<1>5. Fine(workspace')
  BY <1>1, <1>2
<1> QED
  BY <1>1, <1>3, <1>4, <1>5, Acted DEF IInv

-----------------------------------------------------------------------------
(* The theorems.                                                           *)

\* At first there is a request in its tab, or with a connection beside it.
LEMMA InitHolds == Init => IInv
<1> SUFFICES ASSUME Init PROVE IInv
  OBVIOUS
<1>0. PICK auth \in {"schema"} \cup Profiles, first \in BOOLEAN, schema \in Schemas :
        LET id == CHOOSE id \in Requests : TRUE
            draft == IF first THEN BlankDraft
                     ELSE [text |-> "typed", auth |-> auth,
                           schema |-> IF auth = "schema" THEN schema ELSE None]
            connection == NewDocument([BlankDraft EXCEPT !.auth = "own"], TRUE)
        IN  /\ first => auth = "schema"
            /\ workspace =
                 [documents |-> [other \in IF first THEN {id} ELSE {id, schema} |->
                                    IF other = id THEN NewDocument(draft, ~first)
                                    ELSE connection],
                  tabs |-> <<id>>, active |-> id, preview |-> None,
                  panels |-> {}, panel |-> None, last |-> None, default |-> None,
                  profiles |-> IF first THEN {} ELSE Profiles, variable |-> None]
            /\ \E sent \in {{}} \cup (IF first THEN {} ELSE {{e} : e \in Entries}) :
                  /\ entries = [e \in Entries |-> IF e \in sent THEN Recorded(id) ELSE None]
                  /\ made = DOMAIN workspace.documents \cup sent
  BY DEF Init
<1> DEFINE id == CHOOSE id \in Requests : TRUE
           d == IF first THEN BlankDraft
                ELSE [text |-> "typed", auth |-> auth,
                      schema |-> IF auth = "schema" THEN schema ELSE None]
           own == [BlankDraft EXCEPT !.auth = "own"]
           connection == NewDocument(own, TRUE)
           doc == NewDocument(d, ~first)
           D == IF first THEN {id} ELSE {id, schema}
           m == [other \in D |-> IF other = id THEN doc ELSE connection]
<1>1. /\ workspace =
             [documents |-> m, tabs |-> <<id>>, active |-> id, preview |-> None,
              panels |-> {}, panel |-> None, last |-> None, default |-> None,
              profiles |-> IF first THEN {} ELSE Profiles, variable |-> None]
      /\ \E sent \in {{}} \cup (IF first THEN {} ELSE {{e} : e \in Entries}) :
              /\ entries = [e \in Entries |-> IF e \in sent THEN Recorded(id) ELSE None]
              /\ made = DOMAIN workspace.documents \cup sent
  BY <1>0
<1>2. id \in Requests
  BY EditorAssumption DEF EditorAssumption
<1> HIDE DEF id
<1>3. d \in Drafts /\ (first => d.schema = None) /\ d.schema \in {schema, None}
  BY BlankIs DEF Drafts, Auths
<1>4. /\ own \in Drafts /\ own.schema = None
  BY DEF BlankDraft, Drafts, Auths
<1>5. /\ D \subseteq Requests \cup Schemas /\ IsFiniteSet(D) /\ id \in D
      /\ d.schema \in D \cup {None}
  <2>1. IsFiniteSet({id})
    BY FS_Singleton
  <2>2. IsFiniteSet({id} \cup {schema})
    BY <2>1, FS_AddElement
  <2>3. {id, schema} = {id} \cup {schema}
    OBVIOUS
  <2> HIDE DEF d
  <2> QED
    BY <1>2, <1>3, <2>1, <2>2, <2>3
<1>6. (~first) \in BOOLEAN
  OBVIOUS
<1> HIDE DEF d, own
<1>7. doc \in Sound /\ NamesIn(doc, D)
  <2> HIDE DEF D
  <2> QED
    BY <1>3, <1>5, <1>6, NewNames
<1>8. connection \in Sound /\ NamesIn(connection, D) /\ connection.saved
  <2> HIDE DEF D
  <2>1. own.schema \in D \cup {None}
    BY <1>4
  <2> QED
    BY <1>4, <2>1, NewNames
<1>9. m = [other \in D |-> IF other = id THEN doc ELSE connection]
  OBVIOUS
<1> HIDE DEF m, doc, connection, D
<1>10. /\ DOMAIN m = D /\ m = [x \in D |-> m[x]]
       /\ \A x \in D : m[x] \in Sound /\ NamesIn(m[x], D) /\ (x # id => m[x].saved)
  BY <1>7, <1>8, <1>9
<1>11. m \in DocumentMaps
  BY <1>5, <1>10, MapIs, Kinds
<1>12. Bound(m)
  BY <1>2, <1>5, <1>10, Kinds DEF Bound
<1>13. <<id>> \in Seq(Ids) /\ Range(<<id>>) = {id} /\ Distinct(<<id>>) /\ <<id>> # <<>>
  <2>1. id \in Ids
    BY <1>2, Kinds
  <2>2. Range(<<id>>) = {id}
    BY DEF Range
  <2> QED
    BY <2>1, <2>2 DEF Distinct
<1> DEFINE tabs == <<id>>
           profiles == IF first THEN {} ELSE Profiles
           none == {}
<1>14. profiles \in SUBSET Profiles /\ none \in SUBSET Range(Panels)
  OBVIOUS
<1>15. workspace = [documents |-> m, tabs |-> tabs, active |-> id, preview |-> None,
                    panels |-> none, panel |-> None, last |-> None, default |-> None,
                    profiles |-> profiles, variable |-> None]
  BY <1>1 DEF tabs, profiles, none
<1> HIDE DEF tabs, profiles, none
<1>16. /\ workspace.documents = m /\ workspace.tabs = tabs /\ workspace.active = id
       /\ workspace.preview = None /\ workspace.panels = none /\ workspace.panel = None
       /\ workspace.last = None /\ workspace.default = None /\ workspace.variable = None
  BY <1>15
<1>17. workspace \in Workspaces
  <2>1. tabs \in Seq(Ids) /\ id \in Ids \cup {None}
    BY <1>2, <1>13, Kinds DEF tabs
  <2> QED
    BY <1>11, <1>14, <1>15, <2>1 DEF Workspaces
<1>18. /\ Range(tabs) = {id} /\ Distinct(tabs) /\ tabs # <<>> /\ none = {}
  BY <1>13 DEF tabs, none
<1>19. Fine(workspace)
  <2>1. DOMAIN m \cap HistoryTabs = {}
    BY <1>5, <1>10, Kinds
  <2>2. Tabbed(workspace) /\ Held(workspace, {}) /\ Shown(workspace) /\ Referred(workspace)
    BY <1>2, <1>5, <1>10, <1>16, <1>18, <2>1, Kinds DEF Tabbed, Held, Shown, Referred
  <2> QED
    BY <1>12, <1>16, <1>17, <2>2 DEF Fine, Sane
<1>20. PICK sent \in {{}} \cup (IF first THEN {} ELSE {{e} : e \in Entries}) :
           /\ entries = [e \in Entries |-> IF e \in sent THEN Recorded(id) ELSE None]
           /\ made = DOMAIN workspace.documents \cup sent
  BY <1>1
<1>21. Named
  <2>1. sent \subseteq Entries
    OBVIOUS
  <2>2. DOMAIN workspace.documents = D
    BY <1>10, <1>16
  <2> QED
    BY <1>5, <1>20, <2>1, <2>2 DEF Named
<1>22. Recorded(id) \in Historical
  <2>1. workspace.documents[id].request \in Drafts
    BY <1>5, <1>10, <1>16, DocumentIs
  <2> QED
    BY <1>2, <2>1, RecordedIs
<1>23. /\ removed = {} /\ opening = None /\ conflict = None /\ steps = 0
  BY DEF Init
<1>24. Remembered
  BY <1>20, <1>22, <1>23 DEF Remembered
<1>25. steps \in 0..MaxSteps
  BY <1>23, EditorAssumption DEF EditorAssumption
<1> QED
  BY <1>19, <1>21, <1>24, <1>25 DEF IInv

\* Every step keeps the inductive invariant.
LEMMA NextHolds == IInv /\ [Next]_vars => IInv'
<1> SUFFICES ASSUME IInv, [Next]_vars PROVE IInv'
  OBVIOUS
<1>1. CASE DocumentStep
  BY <1>1, AddRequestKeeps, ImportKeeps, CreateRequestKeeps, AddSchemaKeeps, NewConnectionKeeps,
     SetRequestDraftKeeps, SetSchemaAuthKeeps, SelectSchemaKeeps, SetDefaultKeeps,
     SetVariableKeeps, DiscardStep, DeleteStep, DuplicateStep, DiscardAllStep, SaveStep,
     RequestConfigStep, Zenon DEF DocumentStep
<1>2. CASE TabStep
  BY <1>2, OpenStep, PreviewStep, CloseStep, CloseOthersStep, PinStep, CloseAllStep,
     ReorderStep, OpenPanelStep, CloseTabStep, Zenon DEF TabStep
<1>3. CASE HistoryStep
  BY <1>3, SendStep, RemoveEntryStep, OpenHistoryStep, HistoryReadStep, CloseRemovedStep,
     ReturnStep, CancelStep, ReplayStep, DuplicateHistoryStep, DecideStep, Zenon DEF HistoryStep
<1>4. CASE Restart
  BY <1>4, RestartStep
<1>5. CASE UNCHANGED vars
  BY <1>5 DEF vars, IInv, Remembered, Named
<1> QED
  BY <1>1, <1>2, <1>3, <1>4, <1>5 DEF Next

\* Tabs that are all different are as many as the places they stand at.
LEMMA AsManyTabs ==
  ASSUME NEW S, NEW q \in Seq(S), Distinct(q)
  PROVE  Cardinality(Range(q)) = Len(q)
<1>1. DOMAIN q = 1..Len(q) /\ Len(q) \in Nat /\ Range(q) = {q[i] : i \in 1..Len(q)}
  BY RangeIs
<1>2. q \in [1..Len(q) -> Range(q)]
  BY <1>1
<1>3. q \in Bijection(1..Len(q), Range(q))
  <2>1. IsInjective(q)
    BY <1>1 DEF IsInjective, Distinct
  <2>2. \A t \in Range(q) : \E i \in 1..Len(q) : q[i] = t
    BY <1>1
  <2> QED
    BY <1>2, <2>1, <2>2, Zenon DEF Bijection, Injection, Surjection
<1>4. IsFiniteSet(1..Len(q)) /\ Cardinality(1..Len(q)) = Len(q)
  BY <1>1, FS_Interval
<1>5. ExistsBijection(1..Len(q), Range(q))
  BY <1>3 DEF ExistsBijection
<1> QED
  BY <1>4, <1>5, FS_Bijection

\* The invariant is what the properties ask for, and more.
LEMMA InvariantSuffices == IInv => TypeOK /\ NothingDangles
<1> SUFFICES ASSUME IInv PROVE TypeOK /\ NothingDangles
  OBVIOUS
<1> DEFINE w == workspace
<1>1. /\ Fine(w) /\ w \in Workspaces /\ w.documents \in DocumentMaps /\ Bound(w.documents)
      /\ Held(w, {}) /\ Shown(w) /\ Referred(w) /\ Tabbed(w) /\ DOMAIN w.documents \subseteq Ids
      /\ \A id \in DOMAIN w.documents :
            w.documents[id] \in Sound /\ NamesIn(w.documents[id], DOMAIN w.documents)
  BY FineIs DEF IInv
<1>2. /\ w.tabs \in Seq(Ids)
      /\ w.active \in Ids \cup {None} /\ w.preview \in Ids \cup {None}
      /\ w.panels \in SUBSET Range(Panels) /\ w.panel \in Range(Panels) \cup {None}
      /\ w.last \in Schemas \cup {None} /\ w.default \in Schemas \cup {None}
      /\ w.profiles \in SUBSET Profiles /\ w.variable \in Requests \cup {None}
  BY <1>1, FieldsOf
<1>3. TypeOK
  <2>1. \A id \in DOMAIN w.documents :
            /\ w.documents[id] \in Documents
            /\ w.documents[id].saved <=> w.documents[id].savedRequest # None
    BY <1>1 DEF Sound
  <2>2. entries \in [Entries -> Documents \cup {None}] /\ removed \subseteq Entries
    BY DEF IInv, Remembered, Historical, Sound
  <2>3. /\ opening # None => opening.tab \in HistoryTabs /\ opening.doc \in Documents
        /\ conflict # None => conflict.tab \in HistoryTabs /\ conflict.doc \in Documents
    BY DEF IInv, Remembered, Openings, Conflicts, Historical, Sound
  <2>4. made \subseteq Requests \cup Schemas \cup Entries /\ steps \in 0..MaxSteps
    BY DEF IInv, Named
  <2> QED
    BY <1>1, <1>2, <2>1, <2>2, <2>3, <2>4 DEF TypeOK
<1>4. OneTabShown
  <2>1. Cardinality(Range(w.tabs)) = Len(w.tabs)
    BY <1>1, <1>2, AsManyTabs DEF Tabbed
  <2>2. (w.tabs # <<>> \/ w.panels # {}) => (w.active # None \/ w.panel # None)
    BY <1>1 DEF Shown
  <2>3. Known \cap HistoryTabs \subseteq Range(w.tabs)
    BY <1>1 DEF Held, Known
  <2> QED
    BY <1>1, <2>1, <2>2, <2>3 DEF OneTabShown, Tabbed, Shown
<1>5. BindingsResolve
  <2>1. ASSUME NEW id \in Known \cap Requests,
               NEW draft \in {w.documents[id].request, w.documents[id].savedRequest} \ {None}
        PROVE  draft.schema \in Known \cup {None}
    <3>1. w.documents[id] \in Sound /\ NamesIn(w.documents[id], Known)
      BY <1>1 DEF Known
    <3>2. w.documents[id].savedRequest # None => w.documents[id].saved
      BY <3>1 DEF Sound
    <3> QED
      BY <2>1, <3>1, <3>2 DEF NamesIn
  <2>2. {w.default, w.last, w.variable} \subseteq Known \cup {None}
    BY <1>1 DEF Referred, Known
  <2> QED
    BY <2>1, <2>2 DEF BindingsResolve
<1> QED
  BY <1>3, <1>4, <1>5 DEF NothingDangles

\* The invariant of the workspace: whatever the user does and whenever history
\* is read and removed, the documents keep what IInv says of them.
THEOREM EditorInvariant == Spec => []IInv
  BY InitHolds, NextHolds, PTL DEF Spec

\* Types are kept, and a document is saved exactly when it has a snapshot.
THEOREM EditorTypes == Spec => []TypeOK
<1>1. IInv => TypeOK
  BY InvariantSuffices
<1> QED
  BY <1>1, EditorInvariant, PTL

\* No tab, panel, binding, default connection or source of a variable leads to
\* a document that is gone, and while anything is open one thing is shown
\* (workspace.ts, history-working-copy.ts).
THEOREM NothingDanglesHolds == Spec => []NothingDangles
<1>1. IInv => NothingDangles
  BY InvariantSuffices
<1> QED
  BY <1>1, EditorInvariant, PTL
=============================================================================
