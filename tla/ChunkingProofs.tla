--------------------------- MODULE ChunkingProofs ----------------------------
(***************************************************************************)
(* Theorems about the chunker, for windows and overlaps of any size and    *)
(* documents of any length.                                                *)
(*                                                                         *)
(* The loop of chunk_parent_section keeps one number, the start of the     *)
(* next window.  What makes the windows right is what that number says of  *)
(* the last one cut: its last sentence is the overlap behind the start,    *)
(* and it is not the last sentence of the section.                         *)
(*                                                                         *)
(* Where the pages begin is a fold over the pages before them.  That the   *)
(* fold is the sum it looks like, whichever page it picks first, is proved *)
(* from the well-foundedness of finite subsets (TotalsExist, TotalRemove); *)
(* that pages follow one another with one character in between, and the    *)
(* page ranges with it, follows.                                           *)
(***************************************************************************)
EXTENDS Chunking, FiniteSetTheorems, SequenceTheorems, WellFoundedInduction, TLAPS

-----------------------------------------------------------------------------
(* Sections *)

\* A section has a number of sentences, wherever it begins and ends.
LEMMA CountNat ==
  ASSUME doc \in Documents, NEW p
  PROVE  SentenceCount(doc, p) \in Nat
<1>1. StopsBetween(doc, p.begin, p.end - 1) \in SUBSET doc.stops
  BY DEF StopsBetween
<1>2. IsFiniteSet(StopsBetween(doc, p.begin, p.end - 1))
  BY <1>1, DocumentAssumption, FS_Subset
<1>3. Cardinality(StopsBetween(doc, p.begin, p.end - 1)) \in Nat
  BY <1>2, FS_CardinalityType
<1>. QED BY <1>3 DEF SentenceCount

\* The sections are numbered from 1.
Numbered(s) == Len(s) \in Nat /\ DOMAIN s = 1 .. Len(s)

\* The sections of a document are a sequence.
LEMMA ParentsNumbered ==
  ASSUME doc \in Documents
  PROVE  Numbered(Parents(doc))
<1>1. doc.at \in Seq(Nat \cup {NotFound})
  BY DocumentAssumption DEF Document
<1>2. PICK n \in Nat : DOMAIN Parents(doc) = 1 .. n /\ Parents(doc) = [i \in 1 .. n |-> Parents(doc)[i]]
  <2>1. CASE doc.at = <<>>
    BY <2>1 DEF Parents
  <2>2. CASE doc.at # <<>>
    BY <1>1, <2>2 DEF Parents
  <2>. QED BY <2>1, <2>2
<1>. DEFINE S == {Parents(doc)[i] : i \in 1 .. n}
<1>3. Parents(doc) \in [1 .. n -> S]
  BY <1>2
<1>4. Parents(doc) \in Seq(S)
  BY <1>3, SeqDef
<1>. QED BY <1>4, LenProperties DEF Numbered

-----------------------------------------------------------------------------
(* The invariant *)

\* A chunk is a window of a section.
Window == [parent : Nat, first : Nat, last : Nat]

ShapeOK ==
  /\ doc \in Documents
  /\ phase \in {"extract", "cut", "done", "failed"}
  /\ Numbered(parents)
  /\ children \in Seq(Window)
  /\ parent \in Nat \ {0}
  /\ start \in Nat

\* Before the sections are known nothing has been cut.
Untouched == phase = "extract" => children = <<>> /\ start = 0 /\ parent = 1

\* What start says of the last window.
LastOne == children[Len(children)]
StartOK ==
  IF start = 0
  THEN \A i \in DOMAIN children : children[i].parent < parent
  ELSE /\ Len(children) > 0
       /\ \A i \in DOMAIN children : children[i].parent <= parent
       /\ LastOne.parent = parent
       /\ LastOne.last = start + Overlap
       /\ LastOne.last < Count

\* Sections dealt with are covered, the present one up to the last window.
CoveredOK ==
  /\ \A p \in DOMAIN parents : p < parent => Covered(p, SentenceCount(doc, parents[p]))
  /\ Covered(parent, start)
  /\ phase = "done" => parent > Len(parents)

ChunkInv == ShapeOK /\ Untouched /\ StartOK /\ OverlapExact /\ CoveredOK

-----------------------------------------------------------------------------
(* Every step preserves it *)

\* Nothing has been cut.
LEMMA ChunkInvInit == Init => ChunkInv
<1>. SUFFICES ASSUME Init PROVE ChunkInv
  OBVIOUS
<1>1. Len(<<>>) = 0 /\ DOMAIN <<>> = {}
  OBVIOUS
<1>2. ShapeOK
  BY <1>1 DEF Init, ShapeOK, Numbered
<1>3. Untouched /\ StartOK
  BY <1>1 DEF Init, Untouched, StartOK
<1>4. OverlapExact /\ CoveredOK
  BY <1>1 DEF Init, OverlapExact, CoveredOK, Covered
<1>. QED BY <1>2, <1>3, <1>4 DEF ChunkInv

\* Finding the sections, or none, cuts nothing.
LEMMA ChunkInvExtract ==
  ASSUME ChunkInv, Reject \/ Sectionize
  PROVE  ChunkInv'
<1>1. /\ children = <<>> /\ start = 0 /\ parent = 1
      /\ UNCHANGED <<doc, children, parent, start>>
      /\ phase' \in {"cut", "failed"}
  BY DEF Reject, Sectionize, ChunkInv, Untouched
<1>2. DOMAIN children' = {} /\ Len(children') = 0
  BY <1>1
<1>3. Numbered(parents)'
  BY <1>1, ParentsNumbered DEF Reject, Sectionize, ChunkInv, ShapeOK, Numbered
<1>4. ShapeOK' /\ Untouched'
  BY <1>1, <1>3 DEF ChunkInv, ShapeOK, Untouched
<1>5. StartOK' /\ OverlapExact'
  BY <1>1, <1>2 DEF StartOK, OverlapExact
<1>6. CoveredOK'
  <2>1. \A p \in DOMAIN parents' : ~(p < parent')
    BY <1>1, <1>3 DEF Numbered
  <2>. QED BY <1>1, <2>1 DEF CoveredOK, Covered
<1>. QED BY <1>4, <1>5, <1>6 DEF ChunkInv

\* No chunk is of a section that is still to be cut.
LEMMA ParentsReached ==
  ASSUME ChunkInv
  PROVE  \A i \in DOMAIN children : children[i] \in Window /\ children[i].parent <= parent
<1>1. parent \in Nat /\ children \in Seq(Window)
  BY DEF ChunkInv, ShapeOK
<1>2. \A i \in DOMAIN children : children[i] \in Window
  BY <1>1, LenProperties, ElementOfSeq
<1>3. \A i \in DOMAIN children : children[i].parent \in Nat
  BY <1>2 DEF Window
<1>4. CASE start = 0
  BY <1>1, <1>2, <1>3, <1>4 DEF ChunkInv, StartOK
<1>5. CASE start # 0
  BY <1>2, <1>5 DEF ChunkInv, StartOK
<1>. QED BY <1>4, <1>5

\* A section that has been cut to its end, or has no text, is covered.
LEMMA SectionDone ==
  ASSUME ChunkInv, NextParent, UNCHANGED <<doc, phase, parents>>,
         phase = "cut", parent <= Len(parents),
         children' \in Seq(Window),
         \A i \in DOMAIN children' : children'[i].parent <= parent,
         NEW n \in Nat, n = Count,
         \A p \in Nat, m \in Nat : Covered(p, m) => Covered(p, m)',
         \A p \in Nat : p = parent => Covered(p, n)',
         OverlapExact'
  PROVE  ChunkInv'
<1>1. parent' = parent + 1 /\ start' = 0 /\ parent \in Nat \ {0}
  BY DEF NextParent, ChunkInv, ShapeOK
<1>2. ShapeOK' /\ Untouched'
  <2>1. Numbered(parents)'
    BY DEF ChunkInv, ShapeOK, Numbered
  <2>2. doc' \in Documents /\ phase' \in {"extract", "cut", "done", "failed"}
    BY DEF ChunkInv, ShapeOK
  <2>. QED BY <1>1, <2>1, <2>2 DEF ShapeOK, Untouched
<1>3. \A i \in DOMAIN children' : children'[i].parent \in Nat
  <2>1. \A i \in DOMAIN children' : children'[i] \in Window
    BY LenProperties, ElementOfSeq
  <2>. QED BY <2>1 DEF Window
<1>4. StartOK'
  BY <1>1, <1>3 DEF StartOK
<1>5. CoveredOK'
  <2>. SUFFICES ASSUME NEW p \in DOMAIN parents, p < parent + 1
                PROVE  Covered(p, SentenceCount(doc, parents[p]))'
    BY <1>1 DEF CoveredOK, Covered
  <2>1. p \in Nat
    BY DEF ChunkInv, ShapeOK, Numbered
  <2>2. doc \in Documents /\ SentenceCount(doc, parents[p]) \in Nat
    BY CountNat DEF ChunkInv, ShapeOK
  <2>3. PICK m \in Nat : m = SentenceCount(doc, parents[p])
    BY <2>2
  <2>4. Covered(p, m)'
    <3>1. CASE p = parent
      BY <2>1, <2>3, <3>1 DEF Count
    <3>2. CASE p # parent
      BY <1>1, <2>1, <2>3, <3>2 DEF ChunkInv, CoveredOK
    <3>. QED BY <3>1, <3>2
  <2>5. m = SentenceCount(doc, parents[p])'
    BY <2>3 DEF SentenceCount, StopsBetween
  <2>. QED BY <2>4, <2>5 DEF Covered
<1>. QED BY <1>2, <1>4, <1>5 DEF ChunkInv

\* A section that is done with is covered to its end.
LEMMA ChunkInvEndParent ==
  ASSUME ChunkInv, EndParent
  PROVE  ChunkInv'
<1>1. UNCHANGED <<doc, phase, parents, children>> /\ NextParent /\ phase = "cut" /\ parent <= Len(parents)
  BY DEF EndParent
<1>2. children \in Seq(Window) /\ start \in Nat /\ parent \in Nat \ {0} /\ doc \in Documents
  BY DEF ChunkInv, ShapeOK
<1>3. PICK n \in Nat : n = Count
  BY <1>2, CountNat DEF Count
<1>4. \A i \in DOMAIN children : children[i].parent <= parent
  BY ParentsReached
<1>5. \A p \in Nat, m \in Nat : Covered(p, m) => Covered(p, m)'
  BY <1>1 DEF Covered
<1>6. \A p \in Nat : p = parent => Covered(p, n)
  BY <1>2, <1>3 DEF EndParent, ChunkInv, CoveredOK, Covered
<1>7. OverlapExact'
  BY <1>1 DEF ChunkInv, OverlapExact
<1>. QED BY <1>1, <1>2, <1>3, <1>4, <1>5, <1>6, <1>7, SectionDone

\* A window is as long as it may be and starts the overlap before the end of the last.
LEMMA ChunkInvCut ==
  ASSUME ChunkInv, Cut
  PROVE  ChunkInv'
<1>. USE WindowAssumption
<1>1. PICK n \in Nat : n = Count
  BY CountNat DEF ChunkInv, ShapeOK, Count
<1>2. /\ UNCHANGED <<doc, phase, parents>> /\ phase = "cut" /\ parent <= Len(parents)
      /\ children \in Seq(Window) /\ start \in Nat /\ parent \in Nat \ {0} /\ doc \in Documents
      /\ start < n
  BY <1>1 DEF Cut, ChunkInv, ShapeOK
<1>. PICK last : last = IF start + MaxSentences < n THEN start + MaxSentences ELSE n
  OBVIOUS
<1>. DEFINE w == [parent |-> parent, first |-> start + 1, last |-> last]
<1>3. children' = Append(children, w) /\ w \in Window
  BY <1>1, <1>2 DEF Cut, Window
<1>4. /\ Len(children) \in Nat /\ Len(children') = Len(children) + 1
      /\ DOMAIN children = 1 .. Len(children) /\ DOMAIN children' = 1 .. Len(children')
      /\ \A i \in 1 .. Len(children) : children'[i] = children[i] /\ children[i] \in Window
      /\ children'[Len(children')] = w
      /\ children' \in Seq(Window)
  BY <1>2, <1>3, LenProperties, AppendProperties
<1>. HIDE DEF w
<1>5. \A i \in DOMAIN children : children[i].parent <= parent
  BY ParentsReached
<1>6. OverlapExact'
  <2>. SUFFICES ASSUME NEW i \in 1 .. Len(children') - 1,
                       children'[i].parent = children'[i + 1].parent
                PROVE  /\ children'[i + 1].first = children'[i].last - Overlap + 1
                       /\ children'[i + 1].last > children'[i].last
    BY DEF OverlapExact
  <2>1. CASE i < Len(children)
    BY <1>4, <2>1 DEF ChunkInv, OverlapExact
  <2>2. CASE i = Len(children)
    <3>1. Len(children) > 0 /\ children'[i] = LastOne /\ LastOne \in Window /\ LastOne.parent = parent
      BY <1>4, <2>2 DEF LastOne, w
    <3>2. start # 0 /\ LastOne.last = start + Overlap /\ LastOne.last < n
      BY <1>1, <1>2, <1>4, <3>1, <2>2 DEF ChunkInv, StartOK
    <3>3. children'[i + 1].first = start + 1 /\ children'[i + 1].last = last
      BY <1>4, <2>2 DEF w
    <3>. QED BY <1>2, <3>1, <3>2, <3>3 DEF Window
  <2>. QED BY <1>4, <2>1, <2>2
<1>7. \A p \in Nat, m \in Nat : Covered(p, m) => Covered(p, m)'
  BY <1>4 DEF Covered
<1>8. \A p \in Nat : p = parent => Covered(p, last)'
  <2>. SUFFICES ASSUME NEW p \in Nat, p = parent, NEW s \in 1 .. last
                PROVE  \E i \in DOMAIN children' :
                         children'[i].parent = p /\ children'[i].first <= s /\ s <= children'[i].last
    BY DEF Covered
  <2>1. CASE s <= start
    <3>1. \E i \in DOMAIN children :
            children[i].parent = p /\ children[i].first <= s /\ s <= children[i].last
      BY <1>1, <1>2, <2>1 DEF ChunkInv, CoveredOK, Covered
    <3>. QED BY <1>4, <3>1
  <2>2. CASE s > start
    <3>1. w.parent = p /\ w.first <= s /\ s <= w.last
      BY <1>1, <1>2, <2>2 DEF w
    <3>. QED BY <1>4, <3>1
  <2>. QED BY <1>1, <1>2, <2>1, <2>2
<1>9. CASE LastWindow
  <2>1. last = n
    BY <1>1, <1>2, <1>9 DEF LastWindow
  <2>2. NextParent
    BY <1>9 DEF Cut
  <2>3. \A i \in DOMAIN children' : children'[i].parent <= parent
    BY <1>2, <1>4, <1>5 DEF w
  <2>. QED BY <1>1, <1>2, <1>4, <1>6, <1>7, <1>8, <2>1, <2>2, <2>3, SectionDone
<1>10. CASE ~LastWindow
  <2>1. start' = start + Step /\ parent' = parent
    BY <1>10 DEF Cut
  <2>2. start + MaxSentences < n /\ last = start + MaxSentences
    BY <1>1, <1>2, <1>10 DEF LastWindow
  <2>3. start' \in Nat /\ start' # 0 /\ start' + Overlap = last /\ start' <= last
    BY <1>2, <2>1, <2>2 DEF Step
  <2>4. ShapeOK' /\ Untouched'
    <3>1. Numbered(parents)'
      BY <1>2 DEF ChunkInv, ShapeOK, Numbered
    <3>. QED BY <1>2, <1>4, <2>1, <2>3, <3>1 DEF ShapeOK, Untouched
  <2>5. Count' = n
    BY <1>1, <1>2, <2>1 DEF Count, SentenceCount, StopsBetween
  <2>6. StartOK'
    BY <1>1, <1>2, <1>4, <1>5, <2>1, <2>2, <2>3, <2>5 DEF StartOK, LastOne, w
  <2>7. CoveredOK'
    <3>1. ASSUME NEW p \in DOMAIN parents, p < parent
          PROVE  Covered(p, SentenceCount(doc, parents[p]))'
      <4>1. p \in Nat
        BY DEF ChunkInv, ShapeOK, Numbered
      <4>2. PICK m \in Nat : m = SentenceCount(doc, parents[p])
        BY <1>2, CountNat
      <4>3. Covered(p, m)'
        BY <1>7, <3>1, <4>1, <4>2 DEF ChunkInv, CoveredOK
      <4>4. m = SentenceCount(doc, parents[p])'
        BY <1>2, <4>2 DEF SentenceCount, StopsBetween
      <4>. QED BY <4>3, <4>4 DEF Covered
    <3>2. Covered(parent, start)'
      BY <1>2, <1>8, <2>1, <2>3 DEF Covered
    <3>. QED BY <1>2, <2>1, <3>1, <3>2 DEF CoveredOK
  <2>. QED BY <1>6, <2>4, <2>6, <2>7 DEF ChunkInv
<1>. QED BY <1>9, <1>10

\* Every action keeps the invariant.
LEMMA ChunkInvNext == ChunkInv /\ [Next]_vars => ChunkInv'
<1>. SUFFICES ASSUME ChunkInv, [Next]_vars PROVE ChunkInv'
  OBVIOUS
<1>1. CASE Finish
  BY <1>1 DEF Finish, ChunkInv, ShapeOK, Numbered, Untouched, StartOK, LastOne, Count, SentenceCount,
              StopsBetween, OverlapExact, CoveredOK, Covered
<1>2. CASE UNCHANGED vars
  BY <1>2 DEF vars, ChunkInv, ShapeOK, Numbered, Untouched, StartOK, LastOne, Count, SentenceCount,
              StopsBetween, OverlapExact, CoveredOK, Covered
<1>. QED BY <1>1, <1>2, ChunkInvExtract, ChunkInvEndParent, ChunkInvCut DEF Next

\* The invariant holds at all times.
LEMMA ChunkInvariant == Spec => []ChunkInv
<1>. QED BY ChunkInvInit, ChunkInvNext, PTL DEF Spec

-----------------------------------------------------------------------------
(* What it gives *)

\* Neighbouring windows of a section share exactly the configured overlap and
\* neither repeats only what the other has, whatever the section's length.
THEOREM WindowsOverlapExactly == Spec => []OverlapExact
<1>1. ChunkInv => OverlapExact
  BY DEF ChunkInv
<1>. QED BY ChunkInvariant, <1>1, PTL

\* No sentence of a section is left out of the windows.
THEOREM EverySentenceCovered == Spec => []SentencesCovered
<1>1. ChunkInv => SentencesCovered
  BY DEF ChunkInv, ShapeOK, Numbered, CoveredOK, SentencesCovered
<1>. QED BY ChunkInvariant, <1>1, PTL
-----------------------------------------------------------------------------
(* Sums over finite sets *)

\* Among finite sets there is one with no other below it.
LEMMA MinimalSet ==
  ASSUME NEW S, IsFiniteSet(S), NEW F \in SUBSET (SUBSET S), F # {}
  PROVE  \E X \in F : \A Y \in F : Y \subseteq X => Y = X
<1>1. PICK R : R = StrictSubsetOrdering(S)
  OBVIOUS
<1>2. PICK D : D = FiniteSubsetsOf(S)
  OBVIOUS
<1>3. IsWellFoundedOn(R, D)
  BY <1>1, <1>2, FS_StrictSubsetOrderingWellFounded
<1>4. F \subseteq D
  BY <1>2, FS_FiniteSubsetsOfFinite
<1>5. \E X \in F : \A Y \in F : ~(<<Y, X>> \in R)
  BY <1>3, <1>4, WFMin
<1>6. \A X, Y \in F : Y \subseteq X /\ Y # X => <<Y, X>> \in R
  BY <1>1 DEF StrictSubsetOrdering
<1>. QED BY <1>5, <1>6

\* The page that is added first.
Picked(s) == CHOOSE x \in s : TRUE

\* g sums up the lengths of the pages of every set of D.
IsTotal(d, D, g) ==
  g = [s \in D |-> IF s = {} THEN 0 ELSE (d.length[Picked(s)] + 1) + g[s \ {Picked(s)}]]

Total(d, S) == (CHOOSE g : IsTotal(d, SUBSET S, g))[S]

\* A page begins behind the pages before it.
LEMMA BeginsAreTotals ==
  ASSUME NEW d, NEW p
  PROVE  PageBegin(d, p) = Total(d, {q \in Pages(d) : q < p})
BY Zenon DEF PageBegin, MapThenSumSet, MapThenFoldSet, Total, IsTotal, Picked

\* What a sum says of one set.
LEMMA TotalAt ==
  ASSUME NEW d, NEW D, NEW g, IsTotal(d, D, g), NEW s \in D
  PROVE  /\ s = {} => g[s] = 0
         /\ s # {} => Picked(s) \in s /\ g[s] = (d.length[Picked(s)] + 1) + g[s \ {Picked(s)}]
<1>1. g = [t \in D |-> IF t = {} THEN 0 ELSE (d.length[Picked(t)] + 1) + g[t \ {Picked(t)}]]
  BY DEF IsTotal
<1>2. g[s] = IF s = {} THEN 0 ELSE (d.length[Picked(s)] + 1) + g[s \ {Picked(s)}]
  BY <1>1, Zenon
<1>3. s # {} => Picked(s) \in s
  BY DEF Picked
<1>. QED BY <1>2, <1>3

\* The pages of a finite set can be summed up: sums of smaller sets come first.
LEMMA TotalsExist ==
  ASSUME NEW d, NEW S, IsFiniteSet(S)
  PROVE  \E g : IsTotal(d, SUBSET S, g)
<1>. DEFINE Upto(k) == {s \in SUBSET S : Cardinality(s) <= k}
<1>1. PICK F : F = {T \in SUBSET S : ~ \E g : IsTotal(d, Upto(Cardinality(T)), g)}
  OBVIOUS
<1>2. \A T \in SUBSET S : IsFiniteSet(T) /\ Cardinality(T) \in Nat /\ (Cardinality(T) = 0 <=> T = {})
  BY FS_Subset, FS_CardinalityType, FS_EmptySet
<1>3. ASSUME F # {} PROVE FALSE
  <2>1. PICK T \in F : \A Y \in F : Y \subseteq T => Y = T
    <3>1. F \in SUBSET (SUBSET S)
      BY <1>1
    <3>. HIDE DEF Upto
    <3>. QED BY <1>3, <3>1, MinimalSet
  <2>2. T \in SUBSET S /\ ~ \E g : IsTotal(d, Upto(Cardinality(T)), g)
    BY <1>1, <2>1
  <2>3. PICK k \in Nat : k = Cardinality(T)
    BY <1>2, <2>2
  <2>4. CASE T = {}
    <3>1. Upto(k) = {{}}
      BY <1>2, <2>3, <2>4
    <3>2. PICK g : g = [s \in {{}} |-> 0]
      OBVIOUS
    <3>3. IsTotal(d, {{}}, g)
      BY <3>2 DEF IsTotal
    <3>. QED BY <2>2, <2>3, <3>1, <3>3
  <2>5. CASE T # {}
    <3>1. PICK y \in T : TRUE
      BY <2>5
    <3>2. PICK U : U = T \ {y}
      OBVIOUS
    <3>3. U \in SUBSET S /\ U \subseteq T /\ U # T
      BY <2>2, <3>1, <3>2
    <3>4. U \notin F
      BY <2>1, <3>3
    <3>5. Cardinality(U) = k - 1 /\ k # 0
      BY <1>2, <2>2, <2>3, <2>5, <3>1, <3>2, FS_RemoveElement
    <3>6. PICK g : IsTotal(d, Upto(k - 1), g)
      BY <1>1, <3>3, <3>4, <3>5
    <3>7. PICK h : h = [s \in Upto(k) |-> IF s = {} THEN 0 ELSE (d.length[Picked(s)] + 1) + g[s \ {Picked(s)}]]
      OBVIOUS
    <3>8. ASSUME NEW s \in Upto(k), s # {}
          PROVE  Picked(s) \in s /\ s \ {Picked(s)} \in Upto(k - 1)
      <4>1. Picked(s) \in s
        BY <3>8 DEF Picked
      <4>2. s \in SUBSET S /\ Cardinality(s) \in Nat /\ Cardinality(s) <= k /\ IsFiniteSet(s)
        BY <1>2
      <4>3. Cardinality(s \ {Picked(s)}) = Cardinality(s) - 1
        BY <4>1, <4>2, FS_RemoveElement
      <4>4. s \ {Picked(s)} \in SUBSET S
        BY <4>2
      <4>. QED BY <4>1, <4>2, <4>3, <4>4
    <3>9. ASSUME NEW s \in Upto(k - 1) PROVE s \in Upto(k) /\ h[s] = g[s]
      <4>1. s \in SUBSET S /\ Cardinality(s) \in Nat /\ Cardinality(s) <= k - 1
        BY <1>2
      <4>2. s \in Upto(k)
        BY <4>1
      <4>3. h[s] = IF s = {} THEN 0 ELSE (d.length[Picked(s)] + 1) + g[s \ {Picked(s)}]
        BY <3>7, <4>2
      <4>. HIDE DEF Upto
      <4>. QED BY <3>6, <4>2, <4>3, TotalAt
    <3>. HIDE DEF Upto
    <3>10. \A s \in Upto(k) : s # {} => h[s \ {Picked(s)}] = g[s \ {Picked(s)}]
      BY <3>8, <3>9
    <3>11. IsTotal(d, Upto(k), h)
      BY <3>7, <3>10 DEF IsTotal
    <3>. QED BY <2>2, <2>3, <3>11
  <2>. QED BY <2>4, <2>5
<1>4. PICK g : IsTotal(d, Upto(Cardinality(S)), g)
  BY <1>1, <1>3
<1>5. Upto(Cardinality(S)) = SUBSET S
  BY FS_Subset
<1>. QED BY <1>4, <1>5

\* The sum of a set does not depend on the set it was found in.
LEMMA TotalsAgree ==
  ASSUME NEW d, NEW S, IsFiniteSet(S), NEW g, IsTotal(d, SUBSET S, g), NEW T \in SUBSET S
  PROVE  g[T] = Total(d, T)
<1>1. IsFiniteSet(T)
  BY FS_Subset
<1>2. PICK h : h = CHOOSE f : IsTotal(d, SUBSET T, f)
  OBVIOUS
<1>3. IsTotal(d, SUBSET T, h)
  BY <1>1, <1>2, TotalsExist, Zenon
<1>4. PICK F : F = {U \in SUBSET T : g[U] # h[U]}
  OBVIOUS
<1>5. ASSUME F # {} PROVE FALSE
  <2>1. PICK U \in F : \A Y \in F : Y \subseteq U => Y = U
    BY <1>1, <1>4, <1>5, MinimalSet
  <2>2. U \in SUBSET T /\ U \in SUBSET S /\ g[U] # h[U]
    BY <1>4, <2>1
  <2>3. U # {}
    BY <1>3, <2>2, TotalAt
  <2>4. PICK x : x = Picked(U)
    OBVIOUS
  <2>5. /\ x \in U /\ g[U] = (d.length[x] + 1) + g[U \ {x}]
        /\ h[U] = (d.length[x] + 1) + h[U \ {x}]
    <3>1. PICK D, E : D = SUBSET S /\ E = SUBSET T
      OBVIOUS
    <3>2. IsTotal(d, D, g) /\ U \in D /\ IsTotal(d, E, h) /\ U \in E
      BY <1>3, <2>2, <3>1
    <3>3. Picked(U) \in U /\ g[U] = (d.length[Picked(U)] + 1) + g[U \ {Picked(U)}]
      BY <2>3, <3>2, TotalAt
    <3>4. Picked(U) \in U /\ h[U] = (d.length[Picked(U)] + 1) + h[U \ {Picked(U)}]
      BY <2>3, <3>2, TotalAt
    <3>. QED BY <2>4, <3>3, <3>4
  <2>6. U \ {x} \notin F
    BY <2>1, <2>5
  <2>7. g[U \ {x}] = h[U \ {x}]
    BY <1>4, <2>2, <2>6
  <2>. QED BY <2>2, <2>5, <2>7
<1>6. T \notin F
  BY <1>5
<1>7. g[T] = h[T]
  BY <1>4, <1>6
<1>. QED BY <1>2, <1>7 DEF Total

\* One page after the other is added.
LEMMA TotalStep ==
  ASSUME NEW d, NEW S, IsFiniteSet(S)
  PROVE  /\ S = {} => Total(d, S) = 0
         /\ S # {} => Picked(S) \in S /\ Total(d, S) = (d.length[Picked(S)] + 1) + Total(d, S \ {Picked(S)})
<1>1. PICK g : IsTotal(d, SUBSET S, g)
  BY TotalsExist
<1>2. \A T \in SUBSET S : g[T] = Total(d, T)
  BY <1>1, TotalsAgree
<1>3. S \in SUBSET S /\ S \ {Picked(S)} \in SUBSET S
  OBVIOUS
<1>4. g[S] = Total(d, S) /\ g[S \ {Picked(S)}] = Total(d, S \ {Picked(S)})
  BY <1>2, <1>3
<1>5. /\ S = {} => g[S] = 0
      /\ S # {} => Picked(S) \in S /\ g[S] = (d.length[Picked(S)] + 1) + g[S \ {Picked(S)}]
  BY <1>1, <1>3, TotalAt
<1>. QED BY <1>4, <1>5

\* The lengths are numbers, and so are their sums.
LEMMA TotalNat ==
  ASSUME NEW d, NEW S, IsFiniteSet(S), \A x \in S : d.length[x] \in Nat
  PROVE  Total(d, S) \in Nat
<1>1. PICK F : F = {T \in SUBSET S : Total(d, T) \notin Nat}
  OBVIOUS
<1>2. ASSUME F # {} PROVE FALSE
  <2>1. PICK T \in F : \A Y \in F : Y \subseteq T => Y = T
    BY <1>1, <1>2, MinimalSet
  <2>2. T \in SUBSET S /\ Total(d, T) \notin Nat
    BY <1>1, <2>1
  <2>3. IsFiniteSet(T)
    BY <2>2, FS_Subset
  <2>4. CASE T = {}
    <3>1. Total(d, T) = 0
      BY <2>3, <2>4, TotalStep
    <3>. QED BY <2>2, <3>1
  <2>5. CASE T # {}
    <3>1. PICK x : x = Picked(T)
      OBVIOUS
    <3>2. x \in T /\ Total(d, T) = (d.length[x] + 1) + Total(d, T \ {x})
      BY <2>3, <2>5, <3>1, TotalStep
    <3>3. T \ {x} \notin F
      BY <2>1, <3>2
    <3>4. Total(d, T \ {x}) \in Nat /\ d.length[x] \in Nat
      BY <1>1, <2>2, <3>2, <3>3
    <3>. QED BY <2>2, <3>2, <3>4
  <2>. QED BY <2>4, <2>5
<1>. QED BY <1>1, <1>2

\* Any page of a set may be added last.
LEMMA TotalRemove ==
  ASSUME NEW d, NEW S, IsFiniteSet(S), \A x \in S : d.length[x] \in Nat, NEW y \in S
  PROVE  Total(d, S) = (d.length[y] + 1) + Total(d, S \ {y})
<1>1. PICK F : F = {T \in SUBSET S : \E x \in T : Total(d, T) # (d.length[x] + 1) + Total(d, T \ {x})}
  OBVIOUS
<1>2. ASSUME F # {} PROVE FALSE
  <2>1. PICK T \in F : \A Y \in F : Y \subseteq T => Y = T
    <3>1. F \in SUBSET (SUBSET S)
      BY <1>1
    <3>. QED BY <1>2, <3>1, MinimalSet
  <2>2. T \in SUBSET S
    BY <1>1, <2>1
  <2>3. PICK x \in T : Total(d, T) # (d.length[x] + 1) + Total(d, T \ {x})
    BY <1>1, <2>1
  <2>4. IsFiniteSet(T) /\ T # {}
    BY <2>2, <2>3, FS_Subset
  <2>5. PICK z : z = Picked(T)
    OBVIOUS
  <2>6. z \in T /\ Total(d, T) = (d.length[z] + 1) + Total(d, T \ {z})
    BY <2>4, <2>5, TotalStep
  <2>7. z # x
    BY <2>3, <2>6
  <2>8. T \ {z} \notin F /\ T \ {x} \notin F
    BY <2>1, <2>3, <2>6
  <2>9. /\ Total(d, T \ {z}) = (d.length[x] + 1) + Total(d, (T \ {z}) \ {x})
        /\ Total(d, T \ {x}) = (d.length[z] + 1) + Total(d, (T \ {x}) \ {z})
    <3>1. T \ {z} \in SUBSET S /\ T \ {x} \in SUBSET S /\ x \in T \ {z} /\ z \in T \ {x}
      BY <2>2, <2>3, <2>6, <2>7
    <3>. QED BY <1>1, <2>8, <3>1
  <2>10. (T \ {z}) \ {x} = (T \ {x}) \ {z}
    OBVIOUS
  <2>11. PICK n : n = Total(d, (T \ {x}) \ {z})
    OBVIOUS
  <2>12. n \in Nat /\ d.length[x] \in Nat /\ d.length[z] \in Nat
    <3>1. PICK U : U = (T \ {x}) \ {z}
      OBVIOUS
    <3>2. U \in SUBSET S /\ IsFiniteSet(U)
      BY <2>2, <3>1, FS_Subset
    <3>3. \A u \in U : d.length[u] \in Nat
      BY <3>2
    <3>. QED BY <2>2, <2>6, <2>11, <3>1, <3>2, <3>3, TotalNat
  <2>13. /\ Total(d, T) = (d.length[z] + 1) + ((d.length[x] + 1) + n)
         /\ Total(d, T) # (d.length[x] + 1) + ((d.length[z] + 1) + n)
    BY <2>3, <2>6, <2>9, <2>10, <2>11
  <2>. QED BY <2>12, <2>13
<1>. QED BY <1>1, <1>2

\* More pages are not shorter.
LEMMA TotalMonotone ==
  ASSUME NEW d, NEW S, IsFiniteSet(S), \A x \in S : d.length[x] \in Nat, NEW A \in SUBSET S
  PROVE  Total(d, A) <= Total(d, S)
<1>1. PICK F : F = {T \in SUBSET S : A \subseteq T /\ ~(Total(d, A) <= Total(d, T))}
  OBVIOUS
<1>2. ASSUME F # {} PROVE FALSE
  <2>1. PICK T \in F : \A Y \in F : Y \subseteq T => Y = T
    BY <1>1, <1>2, MinimalSet
  <2>2. T \in SUBSET S /\ A \subseteq T /\ ~(Total(d, A) <= Total(d, T))
    BY <1>1, <2>1
  <2>3. IsFiniteSet(T) /\ IsFiniteSet(A) /\ \A x \in T : d.length[x] \in Nat
    BY <2>2, FS_Subset
  <2>4. Total(d, A) \in Nat
    BY <2>2, <2>3, TotalNat
  <2>5. T # A
    BY <2>2, <2>4
  <2>6. PICK x \in T : x \notin A
    BY <2>2, <2>5
  <2>7. Total(d, T) = (d.length[x] + 1) + Total(d, T \ {x})
    BY <2>3, TotalRemove
  <2>8. PICK U : U = T \ {x}
    OBVIOUS
  <2>9. U \in SUBSET S /\ A \subseteq U /\ U \notin F
    BY <2>1, <2>2, <2>6, <2>8
  <2>10. Total(d, A) <= Total(d, U)
    BY <1>1, <2>9
  <2>11. Total(d, U) \in Nat
    <3>1. IsFiniteSet(U) /\ \A u \in U : d.length[u] \in Nat
      BY <2>9, FS_Subset
    <3>. QED BY <3>1, TotalNat
  <2>12. d.length[x] \in Nat
    BY <2>3
  <2>. QED BY <2>2, <2>4, <2>7, <2>8, <2>10, <2>11, <2>12
<1>. QED BY <1>1, <1>2

-----------------------------------------------------------------------------
(* Pages *)

\* Pages have a length, and there are finitely many.
LEMMA PageFacts ==
  ASSUME NEW d \in Documents
  PROVE  /\ IsFiniteSet(Pages(d)) /\ Pages(d) \in SUBSET Nat
         /\ \A p \in Pages(d) : d.length[p] \in Nat \ {0}
<1>1. d.length \in Seq(Nat)
  BY DocumentAssumption DEF Document
<1>2. PICK n \in Nat : DOMAIN d.length = 1 .. n /\ \A p \in 1 .. n : d.length[p] \in Nat
  BY <1>1
<1>3. Pages(d) \in SUBSET (1 .. n)
  BY <1>2 DEF Pages
<1>4. IsFiniteSet(1 .. n)
  BY FS_Interval
<1>5. IsFiniteSet(Pages(d))
  BY <1>3, <1>4, FS_Subset
<1>6. \A p \in Pages(d) : d.length[p] \in Nat \ {0}
  BY <1>2 DEF Pages
<1>. QED BY <1>3, <1>5, <1>6

\* Pages follow one another, with one character in between.
LEMMA PagesApart ==
  ASSUME NEW d \in Documents, NEW p \in Pages(d)
  PROVE  /\ PageBegin(d, p) \in Nat /\ PageEnd(d, p) \in Nat /\ PageBegin(d, p) < PageEnd(d, p)
         /\ \A q \in Pages(d) : p < q => PageEnd(d, p) < PageBegin(d, q)
         /\ \A q \in Pages(d) : p < q /\ (\A r \in Pages(d) : ~(p < r /\ r < q)) =>
              PageBegin(d, q) = PageEnd(d, p) + 1
         /\ (\A q \in Pages(d) : q >= p) => PageBegin(d, p) = 0
<1>1. PICK P : P = Pages(d)
  OBVIOUS
<1>2. IsFiniteSet(P) /\ P \in SUBSET Nat /\ p \in P /\ \A q \in P : d.length[q] \in Nat \ {0}
  BY <1>1, PageFacts
<1>. DEFINE Before(q) == {r \in P : r < q}
<1>9. \A q \in P : q \in Int
  BY <1>2
<1>3. \A q \in P : PageBegin(d, q) = Total(d, Before(q))
  BY <1>1, BeginsAreTotals
<1>4. \A q \in P : Before(q) \in SUBSET P /\ IsFiniteSet(Before(q)) /\ \A r \in Before(q) : d.length[r] \in Nat
  BY <1>2, FS_Subset
<1>5. PageBegin(d, p) \in Nat
  <2>. HIDE DEF Before
  <2>. QED BY <1>2, <1>3, <1>4, TotalNat
<1>6. ASSUME NEW q \in P, p < q PROVE PageEnd(d, p) < PageBegin(d, q)
  <2>1. PICK A : A = Before(p) \cup {p}
    OBVIOUS
  <2>2. A \in SUBSET Before(q) /\ p \in A /\ A \ {p} = Before(p)
    <3>1. \A r \in A : r \in P /\ r < q
      <4>1. \A r \in A : r \in P /\ (r < p \/ r = p)
        BY <1>2, <2>1
      <4>2. \A r \in P : (r < p \/ r = p) => r < q
        BY <1>2, <1>6, <1>9
      <4>. QED BY <4>1, <4>2
    <3>2. p \notin Before(p)
      BY <1>2, <1>9
    <3>. QED BY <2>1, <3>1, <3>2
  <2>. HIDE DEF Before
  <2>3. Total(d, A) <= Total(d, Before(q))
    BY <1>4, <2>2, TotalMonotone
  <2>4. IsFiniteSet(A) /\ \A r \in A : d.length[r] \in Nat
    BY <1>4, <2>2, FS_Subset
  <2>5. Total(d, A) = (d.length[p] + 1) + Total(d, A \ {p})
    BY <2>2, <2>4, TotalRemove
  <2>6. PageBegin(d, q) \in Nat
    BY <1>3, <1>4, TotalNat
  <2>7. d.length[p] \in Nat
    BY <1>2
  <2>. QED BY <1>3, <1>2, <1>5, <2>2, <2>3, <2>5, <2>6, <2>7 DEF PageEnd
<1>10. ASSUME NEW q \in P, p < q, \A r \in P : ~(p < r /\ r < q) PROVE PageBegin(d, q) = PageEnd(d, p) + 1
  <2>1. Before(q) \ {p} = Before(p) /\ p \in Before(q)
    <3>1. \A r \in P : (r < q /\ r # p) <=> r < p
      BY <1>2, <1>9, <1>10
    <3>. QED BY <1>2, <1>10, <3>1
  <2>. HIDE DEF Before
  <2>2. Total(d, Before(q)) = (d.length[p] + 1) + Total(d, Before(q) \ {p})
    BY <1>4, <2>1, TotalRemove
  <2>3. d.length[p] \in Nat
    BY <1>2
  <2>. QED BY <1>2, <1>3, <1>5, <2>1, <2>2, <2>3 DEF PageEnd
<1>7. ASSUME \A q \in P : q >= p PROVE PageBegin(d, p) = 0
  <2>1. Before(p) = {}
    <3>1. \A r \in P : r \in Int /\ p \in Int /\ r >= p
      BY <1>2, <1>7, <1>9
    <3>. QED BY <3>1
  <2>. HIDE DEF Before
  <2>. QED BY <1>2, <1>3, <1>4, <2>1, TotalStep
<1>8. PageEnd(d, p) \in Nat /\ PageBegin(d, p) < PageEnd(d, p)
  BY <1>2, <1>5 DEF PageEnd
<1>. QED BY <1>1, <1>5, <1>6, <1>7, <1>8, <1>10

\* Finite sets of numbers have a least and a greatest member.
LEMMA Extremes ==
  ASSUME NEW S \in SUBSET Nat, IsFiniteSet(S), S # {}
  PROVE  /\ Max(S) \in S /\ \A n \in S : n <= Max(S)
         /\ Min(S) \in S /\ \A n \in S : Min(S) <= n
<1>. DEFINE Below(n) == {m \in S : m < n}
            Above(n) == {m \in S : m > n}
<1>5. \A n \in S : n \in Int
  OBVIOUS
<1>1. \E n \in S : \A m \in S : n <= m
  <2>1. PICK F : F = {Below(n) : n \in S}
    OBVIOUS
  <2>2. F \in SUBSET (SUBSET S) /\ F # {}
    <3>1. \A n \in S : Below(n) \in SUBSET S
      OBVIOUS
    <3>. HIDE DEF Below
    <3>. QED BY <2>1, <3>1
  <2>3. PICK X \in F : \A Y \in F : Y \subseteq X => Y = X
    <3>. HIDE DEF Below, Above
    <3>1. PICK T : T = S
      OBVIOUS
    <3>2. IsFiniteSet(T) /\ F \in SUBSET (SUBSET T) /\ F # {}
      BY <2>2, <3>1
    <3>. QED BY <3>2, MinimalSet
  <2>4. PICK n \in S : X = Below(n)
    BY <2>1
  <2>5. ASSUME NEW m \in S, m < n PROVE FALSE
    <3>1. m \in Below(n) /\ m \notin Below(m)
      BY <1>5, <2>5
    <3>2. \A k \in S : k < m => k < n
      BY <1>5, <2>5
    <3>3. Below(m) \subseteq Below(n)
      BY <3>2
    <3>. QED BY <2>1, <2>3, <2>4, <3>1, <3>3
  <2>. QED BY <1>5, <2>5
<1>2. \E n \in S : \A m \in S : n >= m
  <2>1. PICK F : F = {Above(n) : n \in S}
    OBVIOUS
  <2>2. F \in SUBSET (SUBSET S) /\ F # {}
    <3>1. \A n \in S : Above(n) \in SUBSET S
      OBVIOUS
    <3>. HIDE DEF Above
    <3>. QED BY <2>1, <3>1
  <2>3. PICK X \in F : \A Y \in F : Y \subseteq X => Y = X
    <3>. HIDE DEF Below, Above
    <3>1. PICK T : T = S
      OBVIOUS
    <3>2. IsFiniteSet(T) /\ F \in SUBSET (SUBSET T) /\ F # {}
      BY <2>2, <3>1
    <3>. QED BY <3>2, MinimalSet
  <2>4. PICK n \in S : X = Above(n)
    BY <2>1
  <2>5. ASSUME NEW m \in S, m > n PROVE FALSE
    <3>1. m \in Above(n) /\ m \notin Above(m)
      BY <1>5, <2>5
    <3>2. \A k \in S : k > m => k > n
      BY <1>5, <2>5
    <3>3. Above(m) \subseteq Above(n)
      BY <3>2
    <3>. QED BY <2>1, <2>3, <2>4, <3>1, <3>3
  <2>. QED BY <1>5, <2>5
<1>3. Max(S) \in S /\ \A n \in S : Max(S) >= n
  BY <1>2 DEF Max
<1>4. Min(S) \in S /\ \A n \in S : Min(S) <= n
  BY <1>1 DEF Min
<1>. QED BY <1>3, <1>4

\* A text ends with its last page, and every page has text before that.
LEMMA TextEnds ==
  ASSUME NEW d \in Documents, Pages(d) # {}
  PROVE  /\ Max(Pages(d)) \in Pages(d) /\ TextEnd(d) = PageEnd(d, Max(Pages(d))) /\ TextEnd(d) \in Nat
         /\ \A p \in Pages(d) : p <= Max(Pages(d)) /\ PageEnd(d, p) <= TextEnd(d)
         /\ \A p \in Pages(d) : PageBegin(d, p) \in Characters(d)
<1>1. PICK P, last : P = Pages(d) /\ last = Max(P)
  OBVIOUS
<1>2. last \in P /\ P \in SUBSET Nat /\ \A p \in P : p <= last
  BY <1>1, PageFacts, Extremes
<1>3. TextEnd(d) = PageEnd(d, last)
  BY <1>1 DEF TextEnd
<1>4. \A p \in P : /\ PageBegin(d, p) \in Nat /\ PageEnd(d, p) \in Nat /\ PageBegin(d, p) < PageEnd(d, p)
                   /\ p < last => PageEnd(d, p) < PageBegin(d, last)
  BY <1>1, <1>2, PagesApart
<1>5. ASSUME NEW p \in P PROVE PageEnd(d, p) <= TextEnd(d)
  <2>1. p < last \/ p = last
    BY <1>2
  <2>. QED BY <1>2, <1>3, <1>4, <2>1
<1>6. ASSUME NEW p \in P PROVE PageBegin(d, p) \in Characters(d)
  <2>1. PageBegin(d, p) \notin d.stops
    BY <1>1, TextAssumption
  <2>2. PageBegin(d, p) \in 0 .. TextEnd(d) - 1
    BY <1>2, <1>3, <1>4, <1>5
  <2>3. PageBegin(d, p) <= PageBegin(d, p) /\ PageBegin(d, p) < PageEnd(d, p)
    BY <1>4
  <2>. QED BY <1>1, <2>1, <2>2, <2>3 DEF Characters
<1>. QED BY <1>1, <1>2, <1>3, <1>4, <1>5, <1>6

\* An offset on a page, or at its end, is of that page alone.
LEMMA PageForIs ==
  ASSUME NEW d \in Documents, NEW p \in Pages(d), NEW x \in Nat, PageBegin(d, p) <= x, x <= PageEnd(d, p)
  PROVE  PageFor(d, x) = p
<1>1. PICK on : on = {q \in Pages(d) : PageBegin(d, q) <= x /\ x <= PageEnd(d, q)}
  OBVIOUS
<1>2. \A q \in Pages(d) :
        /\ q \in Nat /\ PageBegin(d, q) \in Nat /\ PageEnd(d, q) \in Nat
        /\ q < p => PageEnd(d, q) < PageBegin(d, p)
        /\ p < q => PageEnd(d, p) < PageBegin(d, q)
  BY PageFacts, PagesApart
<1>3. \A q \in on : q = p
  BY <1>1, <1>2
<1>4. on = {p}
  BY <1>1, <1>3
<1>5. p <= p
  BY <1>2
<1>6. Min({p}) = p
  BY <1>5 DEF Min
<1>. QED BY <1>1, <1>4, <1>6 DEF PageFor

\* The pages with text between two offsets.
Touched(d, b, e) ==
  {q \in Pages(d) : \E x \in Characters(d) :
     /\ b <= x /\ x < e
     /\ PageBegin(d, q) <= x /\ x < PageEnd(d, q)}

\* A section ends on the last page that begins before it ends.
LEMMA EndsOn ==
  ASSUME NEW d \in Documents, Pages(d) # {}, NEW b \in Nat, NEW e, e = TextEnd(d) \/ e \in Characters(d), b < e
  PROVE  \E r \in Pages(d) : /\ PageBegin(d, r) <= e - 1 /\ e - 1 <= PageEnd(d, r)
                             /\ \A q \in Pages(d) : PageBegin(d, q) < e => q <= r
<1>1. PICK P, last : P = Pages(d) /\ last = Max(P)
  OBVIOUS
<1>2. P \in SUBSET Nat /\ IsFiniteSet(P) /\ last \in P /\ \A p \in P : p \in Nat /\ p <= last
  BY <1>1, PageFacts, TextEnds
<1>3. \A p \in P : /\ PageBegin(d, p) \in Nat /\ PageEnd(d, p) \in Nat /\ PageBegin(d, p) < PageEnd(d, p)
                   /\ \A q \in P : p < q => PageEnd(d, p) < PageBegin(d, q)
                   /\ \A q \in P : p < q /\ (\A r \in P : ~(p < r /\ r < q)) => PageBegin(d, q) = PageEnd(d, p) + 1
                   /\ (\A q \in P : q >= p) => PageBegin(d, p) = 0
  BY <1>1, PagesApart
<1>4. CASE e = TextEnd(d)
  <2>1. e = PageEnd(d, last)
    BY <1>1, <1>4, TextEnds
  <2>2. PageBegin(d, last) <= e - 1 /\ e - 1 <= PageEnd(d, last)
    BY <1>2, <1>3, <2>1
  <2>. QED BY <1>1, <1>2, <2>2
<1>5. CASE e \in Characters(d)
  <2>1. PICK s \in P : PageBegin(d, s) <= e /\ e < PageEnd(d, s) /\ e \in Nat
    BY <1>1, <1>5, TextEnds DEF Characters
  <2>2. CASE e # PageBegin(d, s)
    <3>1. PageBegin(d, s) <= e - 1 /\ e - 1 <= PageEnd(d, s)
      <4>1. PageBegin(d, s) \in Nat /\ PageEnd(d, s) \in Nat
        BY <1>3
      <4>. QED BY <2>1, <2>2, <4>1
    <3>2. ASSUME NEW q \in P, PageBegin(d, q) < e PROVE q <= s
      <4>1. ~(PageEnd(d, s) < PageBegin(d, q))
        BY <1>3, <2>1, <3>2
      <4>2. ~(s < q)
        BY <1>3, <4>1
      <4>. QED BY <1>2, <4>2
    <3>. QED BY <1>1, <3>1, <3>2
  <2>3. CASE e = PageBegin(d, s)
    <3>1. PICK B : B = {q \in P : q < s}
      OBVIOUS
    <3>2. B # {}
      <4>1. PageBegin(d, s) # 0
        BY <2>1, <2>3
      <4>2. PICK q \in P : ~(q >= s)
        BY <1>3, <4>1
      <4>3. q \in Nat /\ s \in Nat
        BY <1>2
      <4>. QED BY <3>1, <4>2, <4>3
    <3>3. B \in SUBSET Nat /\ IsFiniteSet(B)
      BY <1>2, <3>1, FS_Subset
    <3>4. PICK r \in B : \A q \in B : q <= r
      BY <3>2, <3>3, Extremes
    <3>5. r \in P /\ r < s /\ \A q \in P : ~(r < q /\ q < s)
      BY <1>2, <3>1, <3>4
    <3>6. e = PageEnd(d, r) + 1
      BY <1>3, <2>3, <3>5
    <3>7. PageBegin(d, r) <= e - 1 /\ e - 1 <= PageEnd(d, r)
      BY <1>3, <3>5, <3>6
    <3>8. ASSUME NEW q \in P, PageBegin(d, q) < e PROVE q <= r
      <4>1. ~(PageEnd(d, r) < PageBegin(d, q))
        BY <1>3, <3>5, <3>6, <3>8
      <4>2. ~(r < q)
        BY <1>3, <3>5, <4>1
      <4>. QED BY <1>2, <3>5, <4>2
    <3>. QED BY <1>1, <3>5, <3>7, <3>8
  <2>. QED BY <2>2, <2>3
<1>. QED BY <1>4, <1>5

\* The range of a section is that of the pages it has text on.
LEMMA RangeExact ==
  ASSUME NEW d \in Documents, Pages(d) # {}, NEW b \in Characters(d), NEW e, e = TextEnd(d) \/ e \in Characters(d), b < e
  PROVE  PageFor(d, b) = Min(Touched(d, b, e)) /\ LastPage(d, b, e) = Max(Touched(d, b, e))
<1>1. PICK P, T : P = Pages(d) /\ T = Touched(d, b, e)
  OBVIOUS
<1>2. P \in SUBSET Nat /\ \A p \in P : p \in Nat
  BY <1>1, PageFacts
<1>3. \A p \in P : /\ PageBegin(d, p) \in Nat /\ PageEnd(d, p) \in Nat /\ PageBegin(d, p) < PageEnd(d, p)
                   /\ \A q \in P : p < q => PageEnd(d, p) < PageBegin(d, q)
  BY <1>1, PagesApart
<1>4. b \in Nat /\ e \in Nat
  BY TextEnds DEF Characters
<1>5. PICK p \in P : PageBegin(d, p) <= b /\ b < PageEnd(d, p)
  BY <1>1 DEF Characters
<1>6. PICK r \in P : /\ PageBegin(d, r) <= e - 1 /\ e - 1 <= PageEnd(d, r)
                    /\ \A q \in P : PageBegin(d, q) < e => q <= r
  BY <1>1, <1>4, EndsOn
<1>7. p \in T
  BY <1>1, <1>4, <1>5 DEF Touched
<1>8. r \in T
  <2>1. p <= r
    BY <1>3, <1>4, <1>5, <1>6
  <2>2. CASE p = r
    BY <1>7, <2>2
  <2>3. CASE p # r
    <3>1. p < r
      BY <1>2, <2>1, <2>3
    <3>2. PageEnd(d, p) < PageBegin(d, r)
      BY <1>3, <3>1
    <3>3. b <= PageBegin(d, r) /\ PageBegin(d, r) < e /\ PageBegin(d, r) <= PageBegin(d, r)
      BY <1>3, <1>4, <1>5, <1>6, <3>2
    <3>4. PageBegin(d, r) \in Characters(d) /\ PageBegin(d, r) < PageEnd(d, r)
      BY <1>1, <1>3, TextEnds
    <3>. QED BY <1>1, <3>3, <3>4 DEF Touched
  <2>. QED BY <2>2, <2>3
<1>9. ASSUME NEW q \in T PROVE p <= q /\ q <= r /\ q \in Nat
  <2>1. PICK x \in Characters(d) : b <= x /\ x < e /\ PageBegin(d, q) <= x /\ x < PageEnd(d, q)
    BY <1>1 DEF Touched
  <2>2. q \in P /\ x \in Nat
    <3>1. q \in P
      BY <1>1 DEF Touched
    <3>2. x \in Nat
      BY TextEnds DEF Characters
    <3>. QED BY <3>1, <3>2
  <2>3. ~(PageEnd(d, q) < PageBegin(d, p))
    BY <1>3, <1>4, <1>5, <2>1, <2>2
  <2>4. ~(q < p)
    BY <1>3, <2>2, <2>3
  <2>5. PageBegin(d, q) < e
    BY <1>3, <1>4, <2>1, <2>2
  <2>. QED BY <1>2, <1>6, <2>2, <2>4, <2>5
<1>10. Min(T) = p
  <2>1. \A q \in T : p <= q
    BY <1>9
  <2>2. \A q \in T : (\A y \in T : q <= y) => q = p
    BY <1>2, <1>7, <1>9
  <2>. QED BY <1>7, <2>1, <2>2 DEF Min
<1>11. Max(T) = r
  <2>1. \A q \in T : r >= q
    BY <1>2, <1>9
  <2>2. \A q \in T : (\A y \in T : q >= y) => q = r
    BY <1>2, <1>8, <1>9
  <2>. QED BY <1>8, <2>1, <2>2 DEF Max
<1>12. PageFor(d, b) = p
  <2>1. b <= PageEnd(d, p)
    BY <1>3, <1>4, <1>5
  <2>. QED BY <1>1, <1>4, <1>5, <2>1, PageForIs
<1>13. LastPage(d, b, e) = r
  <2>1. (IF e - 1 > b THEN e - 1 ELSE b) = e - 1 /\ e - 1 \in Nat
    BY <1>4
  <2>2. PageFor(d, e - 1) = r
    BY <1>1, <1>6, <2>1, PageForIs
  <2>. QED BY <2>1, <2>2 DEF LastPage
<1>. QED BY <1>1, <1>10, <1>11, <1>12, <1>13

-----------------------------------------------------------------------------
(* The sections of a text *)

\* A section begins at a character, and ends with the text or at a character:
\* at the next marker.  The sections of all markers leave no gap.
LEMMA SectionEnds ==
  ASSUME NEW d \in Documents, Pages(d) # {}, MarkersUsable(d), NEW i \in DOMAIN Parents(d)
  PROVE  \E b \in Characters(d), e \in Characters(d) \cup {TextEnd(d)} :
           Parents(d)[i] = MakeParent(d, b, e)
<1>1. d.at \in Seq(Nat \cup {NotFound})
  BY DocumentAssumption DEF Document
<1>2. CASE d.at = <<>>
  <2>1. Parents(d) = <<MakeParent(d, 0, TextEnd(d))>>
    BY <1>2 DEF Parents
  <2>2. Parents(d)[i] = MakeParent(d, 0, TextEnd(d))
    <3>1. PICK x : x = MakeParent(d, 0, TextEnd(d))
      OBVIOUS
    <3>2. Parents(d) = <<x>>
      BY <2>1, <3>1
    <3>3. Parents(d)[i] = x
      BY <3>2
    <3>. QED BY <3>1, <3>3
  <2>3. 0 \in Characters(d)
    <3>1. PICK P : P = Pages(d)
      OBVIOUS
    <3>2. P \in SUBSET Nat /\ IsFiniteSet(P) /\ P # {}
      BY <3>1, PageFacts
    <3>3. PICK p \in P : \A q \in P : p <= q
      BY <3>2, Extremes
    <3>4. \A q \in P : q >= p
      BY <3>2, <3>3
    <3>5. PageBegin(d, p) = 0
      BY <3>1, <3>4, PagesApart
    <3>. QED BY <3>1, <3>5, TextEnds
  <2>. QED BY <2>2, <2>3
<1>3. CASE d.at # <<>>
  <2>1. i \in DOMAIN d.at
    BY <1>3 DEF Parents
  <2>2. PICK e : e = IF i < Len(d.at) THEN d.at[i + 1] ELSE TextEnd(d)
    OBVIOUS
  <2>3. Parents(d)[i] = MakeParent(d, d.at[i], e)
    BY <1>3, <2>1, <2>2 DEF Parents
  <2>4. \A j \in DOMAIN d.at : d.at[j] \in Characters(d)
    BY TextAssumption DEF MarkersUsable
  <2>5. i < Len(d.at) => i + 1 \in DOMAIN d.at
    BY <1>1, <2>1
  <2>. QED BY <2>1, <2>2, <2>3, <2>4, <2>5
<1>. QED BY <1>2, <1>3

\* Every character behind the first marker is in a section, that of the last
\* marker before it.
LEMMA SectionOf ==
  ASSUME NEW d \in Documents, Pages(d) # {}, MarkersUsable(d),
         NEW x \in Characters(d), d.at = <<>> \/ d.at[1] <= x
  PROVE  \E i \in DOMAIN Parents(d) :
           /\ Parents(d)[i].begin <= x /\ x < Parents(d)[i].end
           /\ Parents(d)[i].begin \in Nat /\ Parents(d)[i].end \in Nat
           /\ \A j \in DOMAIN d.at : d.at[j] <= x => d.at[j] <= Parents(d)[i].begin
<1>1. d.at \in Seq(Nat \cup {NotFound})
  BY DocumentAssumption DEF Document
<1>2. TextEnd(d) \in Nat /\ x \in Nat /\ x < TextEnd(d)
  BY TextEnds DEF Characters
<1>3. \A b, e : MakeParent(d, b, e).begin = b /\ MakeParent(d, b, e).end = e
  BY DEF MakeParent
<1>4. CASE d.at = <<>>
  <2>1. PICK y : y = MakeParent(d, 0, TextEnd(d))
    OBVIOUS
  <2>2. Parents(d) = <<y>>
    BY <1>4, <2>1 DEF Parents
  <2>3. 1 \in DOMAIN Parents(d) /\ Parents(d)[1] = y
    BY <2>2
  <2>4. y.begin = 0 /\ y.end = TextEnd(d)
    BY <1>3, <2>1
  <2>5. DOMAIN d.at = {}
    BY <1>4
  <2>. QED BY <1>2, <2>3, <2>4, <2>5
<1>5. CASE d.at # <<>>
  <2>1. PICK n \in Nat \ {0} : DOMAIN d.at = 1 .. n /\ Len(d.at) = n
    BY <1>1, <1>5
  <2>2. \A j \in 1 .. n : d.at[j] \in Nat
    BY <1>1, <2>1 DEF MarkersUsable
  <2>3. PICK J : J = {j \in 1 .. n : d.at[j] <= x}
    OBVIOUS
  <2>4. J \in SUBSET Nat /\ IsFiniteSet(J) /\ J # {}
    <3>1. IsFiniteSet(1 .. n)
      BY FS_Interval
    <3>2. J \in SUBSET (1 .. n)
      BY <2>3
    <3>3. 1 \in J
      BY <1>5, <2>1, <2>3
    <3>4. IsFiniteSet(J)
      BY <3>1, <3>2, FS_Subset
    <3>. QED BY <3>2, <3>3, <3>4
  <2>5. PICK i \in J : \A j \in J : j <= i
    BY <2>4, Extremes
  <2>6. i \in 1 .. n /\ d.at[i] <= x
    BY <2>3, <2>5
  <2>7. PICK e : e = IF i < n THEN d.at[i + 1] ELSE TextEnd(d)
    OBVIOUS
  <2>8. i \in DOMAIN Parents(d) /\ Parents(d)[i] = MakeParent(d, d.at[i], e)
    BY <1>5, <2>1, <2>6, <2>7 DEF Parents
  <2>9. x < e /\ e \in Nat
    <3>1. CASE i < n
      <4>1. i + 1 \in 1 .. n /\ ~(i + 1 <= i)
        BY <2>6, <3>1
      <4>2. i + 1 \notin J
        BY <2>5, <4>1
      <4>. QED BY <1>2, <2>2, <2>3, <2>7, <3>1, <4>1, <4>2
    <3>2. CASE ~(i < n)
      BY <1>2, <2>7, <3>2
    <3>. QED BY <3>1, <3>2
  <2>10. ASSUME NEW j \in 1 .. n, d.at[j] <= x PROVE d.at[j] <= d.at[i]
    <3>1. j <= i
      BY <2>3, <2>5, <2>10
    <3>2. j = i \/ j < i
      BY <2>6, <3>1
    <3>3. j < i => d.at[j] <= d.at[i]
      BY <2>1, <2>6 DEF MarkersUsable
    <3>. QED BY <2>2, <2>6, <3>2, <3>3
  <2>. QED BY <1>3, <2>1, <2>2, <2>6, <2>8, <2>9, <2>10
<1>. QED BY <1>4, <1>5

\* Sections are found once and never changed.
SectionsInv ==
  /\ doc \in Documents
  /\ phase \in {"extract", "failed"} => parents = <<>>
  /\ phase \notin {"extract", "failed"} => parents = Parents(doc) /\ Pages(doc) # {} /\ MarkersUsable(doc)

\* The phases of a document leave its sections alone.
LEMMA SectionsInvHolds == Spec => []SectionsInv
<1>1. Init => SectionsInv
  BY DEF Init, SectionsInv
<1>2. ASSUME SectionsInv, [Next]_vars PROVE SectionsInv'
  <2>1. CASE Sectionize
    <3>1. /\ parents' = Parents(doc) /\ phase' = "cut" /\ doc' = doc
          /\ Pages(doc) # {} /\ MarkersUsable(doc)
      BY <2>1 DEF Sectionize
    <3>2. Pages(doc') # {} /\ MarkersUsable(doc') /\ parents' = Parents(doc')
      BY <3>1
    <3>. QED BY <1>2, <3>1, <3>2 DEF SectionsInv
  <2>2. CASE doc' = doc /\ parents' = parents /\ (phase' = phase \/ (phase = "extract" /\ phase' = "failed")
                                                 \/ (phase = "cut" /\ phase' = "done"))
    <3>1. /\ Pages(doc) # {} => Pages(doc') # {}
          /\ MarkersUsable(doc) => MarkersUsable(doc')
          /\ parents = Parents(doc) => parents' = Parents(doc')
      BY <2>2
    <3>. QED BY <1>2, <2>2, <3>1 DEF SectionsInv
  <2>. QED BY <1>2, <2>1, <2>2 DEF Next, vars, Reject, EndParent, Cut, Finish
<1>. QED BY <1>1, <1>2, PTL DEF Spec

\* The page range shown with a chunk is that of its section's text, for
\* documents of any number of pages with any empty ones between.
THEOREM PageRangesAreExact == Spec => []PagesExact
<1>1. SectionsInv => PagesExact
  <2>. SUFFICES ASSUME SectionsInv, NEW i \in DOMAIN parents, parents[i].begin < parents[i].end
                PROVE  LET p == parents[i]
                           touched == {q \in Pages(doc) : \E x \in Characters(doc) :
                                         /\ p.begin <= x /\ x < p.end
                                         /\ PageBegin(doc, q) <= x /\ x < PageEnd(doc, q)}
                       IN  p.pageStart = Min(touched) /\ p.pageEnd = Max(touched)
    BY DEF PagesExact
  <2>1. parents = Parents(doc) /\ Pages(doc) # {} /\ MarkersUsable(doc) /\ doc \in Documents
    BY DEF SectionsInv
  <2>2. PICK b \in Characters(doc), e \in Characters(doc) \cup {TextEnd(doc)} :
          Parents(doc)[i] = MakeParent(doc, b, e)
    BY <2>1, SectionEnds
  <2>3. /\ parents[i].begin = b /\ parents[i].end = e
        /\ parents[i].pageStart = PageFor(doc, b) /\ parents[i].pageEnd = LastPage(doc, b, e)
    BY <2>1, <2>2 DEF MakeParent
  <2>4. PageFor(doc, b) = Min(Touched(doc, b, e)) /\ LastPage(doc, b, e) = Max(Touched(doc, b, e))
    BY <2>1, <2>2, <2>3, RangeExact
  <2>. QED BY <2>3, <2>4 DEF Touched
<1>. QED BY SectionsInvHolds, <1>1, PTL

\* Nothing behind the first marker is lost to search, for any document, window
\* and overlap.
THEOREM NothingIsLost == Spec => []TextIndexed
<1>1. SectionsInv /\ ChunkInv => TextIndexed
  <2>. SUFFICES ASSUME SectionsInv, ChunkInv, phase = "done",
                       NEW x \in Characters(doc), doc.at = <<>> \/ doc.at[1] <= x
                PROVE  \E i \in DOMAIN children :
                         LET c == children[i]
                             p == parents[c.parent]
                         IN  /\ p.begin <= x /\ x < p.end
                             /\ \A j \in DOMAIN doc.at : doc.at[j] <= x => doc.at[j] <= p.begin
                             /\ SentenceAt(doc, p, x) \in c.first .. c.last
    BY DEF TextIndexed
  <2>1. parents = Parents(doc) /\ Pages(doc) # {} /\ MarkersUsable(doc) /\ doc \in Documents
    BY DEF SectionsInv
  <2>2. PICK k \in DOMAIN parents :
          /\ parents[k].begin <= x /\ x < parents[k].end
          /\ parents[k].begin \in Nat /\ parents[k].end \in Nat
          /\ \A j \in DOMAIN doc.at : doc.at[j] <= x => doc.at[j] <= parents[k].begin
    BY <2>1, SectionOf
  <2>3. PICK p, s, n : p = parents[k] /\ s = SentenceAt(doc, p, x) /\ n = SentenceCount(doc, p)
    OBVIOUS
  <2>4. x \in Nat
    BY <2>1, TextEnds DEF Characters
  <2>5. s \in 1 .. n
    <3>1. PICK A, B : A = StopsBetween(doc, p.begin, x) /\ B = StopsBetween(doc, p.begin, p.end - 1)
      OBVIOUS
    <3>2. p.begin \in Nat /\ p.end \in Nat /\ p.begin <= x /\ x <= p.end - 1
      BY <2>2, <2>3, <2>4
    <3>3. IsFiniteSet(doc.stops) /\ doc.stops \in SUBSET Nat
      BY <2>1, DocumentAssumption DEF Document
    <3>4. A \in SUBSET B /\ B \in SUBSET doc.stops
      BY <2>4, <3>1, <3>2, <3>3 DEF StopsBetween
    <3>5. IsFiniteSet(B) /\ IsFiniteSet(A) /\ Cardinality(A) <= Cardinality(B)
      BY <3>3, <3>4, FS_Subset
    <3>6. Cardinality(A) \in Nat /\ Cardinality(B) \in Nat
      BY <3>5, FS_CardinalityType
    <3>7. s = Cardinality(A) + 1
      BY <2>3, <3>1 DEF SentenceAt
    <3>8. n = Cardinality(B) + 1
      BY <2>3, <2>4, <3>1, <3>2 DEF SentenceCount
    <3>. QED BY <3>5, <3>6, <3>7, <3>8
  <2>6. Covered(k, n)
    <3>1. k < parent
      BY <2>2 DEF ChunkInv, CoveredOK, ShapeOK, Numbered
    <3>. QED BY <2>3, <3>1 DEF ChunkInv, CoveredOK
  <2>7. PICK i \in DOMAIN children : children[i].parent = k /\ children[i].first <= s /\ s <= children[i].last
    BY <2>5, <2>6 DEF Covered
  <2>8. children[i] \in Window
    BY ParentsReached
  <2>9. s \in children[i].first .. children[i].last
    <3>1. n \in Nat
      BY <2>1, CountNat, <2>3
    <3>. QED BY <2>5, <2>7, <2>8, <3>1 DEF Window
  <2>. QED BY <2>2, <2>3, <2>7, <2>9
<1>. QED BY SectionsInvHolds, ChunkInvariant, <1>1, PTL
==============================================================================
