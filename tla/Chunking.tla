------------------------------ MODULE Chunking -------------------------------
(***************************************************************************)
(* DocumentChunkingService.build_chunks: the pages of a PDF become parent  *)
(* sections, and every section becomes overlapping child chunks, the units *)
(* that are embedded and searched.                                         *)
(*                                                                         *)
(* Of a text only what the code's arithmetic sees is kept: offsets into    *)
(* the joined text, where a marker is found, and the blanks at which it is *)
(* split into sentences.  Normalization leaves single blanks, none at the  *)
(* ends of a page; pages are joined by one line break.                     *)
(***************************************************************************)
EXTENDS Integers, Sequences, FiniteSetsExt

CONSTANTS
  MaxSentences,  \* chunk_size_sentences
  Overlap,       \* chunk_overlap_sentences
  Documents      \* uploaded documents, with the markers of the profile in use

NotFound == -1   \* str.find

\* length: of the normalized text of each page, 0 for a page without text;
\* at: the first occurrence of each marker in the joined text; stops: the
\* blanks behind a full stop, question or exclamation mark.
Document == [length : Seq(Nat), at : Seq(Nat \cup {NotFound}), stops : SUBSET Nat]

\* chunk_parent_section raises ValueError for other window sizes.
ASSUME WindowAssumption ==
  /\ MaxSentences \in Nat \ {0}
  /\ Overlap \in 0 .. MaxSentences - 1
ASSUME DocumentAssumption ==
  /\ Documents \subseteq Document
  /\ \A d \in Documents : IsFiniteSet(d.stops)

VARIABLES
  doc,
  phase,
  parents,   \* sections found: where they begin and end, and on which pages
  children,  \* chunks cut so far: sentences first .. last of a parent
  parent,    \* index of the section being cut
  start      \* sentences before the next window

vars == <<doc, phase, parents, children, parent, start>>

Parent == [begin : Nat, end : Nat, pageStart : Nat, pageEnd : Nat]
Child == [parent : Nat \ {0}, first : Nat, last : Nat]

TypeOK ==
  /\ doc \in Document
  /\ phase \in {"extract", "cut", "done", "failed"}
  /\ parents \in Seq(Parent)
  /\ children \in Seq(Child)
  /\ parent \in Nat \ {0}
  /\ start \in Nat

Init ==
  /\ doc \in Documents
  /\ phase = "extract"
  /\ parents = <<>>
  /\ children = <<>>
  /\ parent = 1
  /\ start = 0

-----------------------------------------------------------------------------
(* sectionize_pages *)

\* Pages without text are dropped; the others keep their numbers.
Pages(d) == {p \in DOMAIN d.length : d.length[p] > 0}

PageBegin(d, p) == MapThenSumSet(LAMBDA q : d.length[q] + 1, {q \in Pages(d) : q < p})
PageEnd(d, p) == PageBegin(d, p) + d.length[p]
TextEnd(d) == PageEnd(d, Max(Pages(d)))

\* What is neither a line break between pages nor a blank that ends a sentence.
Characters(d) ==
  {x \in 0 .. TextEnd(d) - 1 : \E p \in Pages(d) : PageBegin(d, p) <= x /\ x < PageEnd(d, p)} \ d.stops

\* No page begins with a blank, and neither does a marker.
ASSUME TextAssumption ==
  \A d \in Documents :
    /\ \A p \in Pages(d) : PageBegin(d, p) \notin d.stops
    /\ \A i \in DOMAIN d.at : d.at[i] = NotFound \/ d.at[i] \in Characters(d)

\* _page_for_offset: a line break is on the page it ends.
PageFor(d, offset) ==
  LET on == {p \in Pages(d) : PageBegin(d, p) <= offset /\ offset <= PageEnd(d, p)}
  IN  IF on # {} THEN Min(on) ELSE Max(Pages(d))

\* Mutant: the page of the first character behind the section.
LastPageBehind(d, begin, end) == PageFor(d, end)

LastPage(d, begin, end) == PageFor(d, IF end - 1 > begin THEN end - 1 ELSE begin)

MakeParent(d, begin, end) ==
  [begin |-> begin, end |-> end,
   pageStart |-> PageFor(d, begin), pageEnd |-> LastPage(d, begin, end)]

\* Mutant: the order of the markers is not looked at.
MarkersFound(d) == \A i \in DOMAIN d.at : d.at[i] # NotFound

\* Every marker occurs, in the order of the profile.
MarkersUsable(d) ==
  /\ \A i \in DOMAIN d.at : d.at[i] # NotFound
  /\ \A i, j \in DOMAIN d.at : i < j => d.at[i] <= d.at[j]

\* One parent without markers, else one from each marker to the next.
Parents(d) ==
  IF d.at = <<>>
  THEN <<MakeParent(d, 0, TextEnd(d))>>
  ELSE [i \in DOMAIN d.at |->
          MakeParent(d, d.at[i], IF i < Len(d.at) THEN d.at[i + 1] ELSE TextEnd(d))]

Reject ==
  /\ phase = "extract"
  /\ Pages(doc) = {} \/ ~MarkersUsable(doc)
  /\ phase' = "failed"
  /\ UNCHANGED <<doc, parents, children, parent, start>>

Sectionize ==
  /\ phase = "extract"
  /\ Pages(doc) # {}
  /\ MarkersUsable(doc)
  /\ parents' = Parents(doc)
  /\ phase' = "cut"
  /\ UNCHANGED <<doc, children, parent, start>>

-----------------------------------------------------------------------------
(* chunk_parent_section, a window at a time *)

\* _split_sentences of the stripped text between begin and end: sentences up
\* to x are those ended by a stop before x.
StopsBetween(d, begin, end) == {x \in d.stops : begin < x /\ x < end}
SentenceCount(d, p) ==
  IF p.end > p.begin THEN Cardinality(StopsBetween(d, p.begin, p.end - 1)) + 1 ELSE 0

\* The sentence of p in which the character at x stands.
SentenceAt(d, p, x) == Cardinality(StopsBetween(d, p.begin, x)) + 1

Count == SentenceCount(doc, parents[parent])

\* Mutant: the windows do not overlap.
StepWhole == MaxSentences

Step == MaxSentences - Overlap

NextParent == parent' = parent + 1 /\ start' = 0

\* Nothing left of the section, which has no text if this is its first window.
EndParent ==
  /\ phase = "cut"
  /\ parent <= Len(parents)
  /\ start >= Count
  /\ NextParent
  /\ UNCHANGED <<doc, phase, parents, children>>

\* Mutant: the loop ends when the next window would not be full.
LastWindowFull == start + Step + MaxSentences > Count

\* The window reaches the end of the section.
LastWindow == start + MaxSentences >= Count

Cut ==
  /\ phase = "cut"
  /\ parent <= Len(parents)
  /\ start < Count
  /\ children' = Append(children,
       [parent |-> parent, first |-> start + 1,
        last |-> IF start + MaxSentences < Count THEN start + MaxSentences ELSE Count])
  /\ IF LastWindow THEN NextParent ELSE start' = start + Step /\ UNCHANGED parent
  /\ UNCHANGED <<doc, phase, parents>>

Finish ==
  /\ phase = "cut"
  /\ parent > Len(parents)
  /\ phase' = "done"
  /\ UNCHANGED <<doc, parents, children, parent, start>>

Next == Reject \/ Sectionize \/ EndParent \/ Cut \/ Finish

Spec == Init /\ [][Next]_vars

-----------------------------------------------------------------------------
(* Properties *)

\* The windows of a section move on by whole steps: two neighbours share
\* exactly the configured overlap and none lies within the other, so there is
\* no chunk that repeats the tail of the one before.
OverlapExact ==
  \A i \in 1 .. Len(children) - 1 :
    children[i].parent = children[i + 1].parent =>
      /\ children[i + 1].first = children[i].last - Overlap + 1
      /\ children[i + 1].last > children[i].last

\* All sentences of the sections dealt with are in a chunk.
Covered(p, n) ==
  \A s \in 1 .. n :
    \E i \in DOMAIN children :
      children[i].parent = p /\ children[i].first <= s /\ s <= children[i].last
SentencesCovered ==
  phase = "done" => \A p \in DOMAIN parents : Covered(p, SentenceCount(doc, parents[p]))

\* Nothing behind the first marker is lost to search: every character is in a
\* sentence of a chunk of its section, that of the last marker before it.
TextIndexed ==
  phase = "done" =>
    \A x \in Characters(doc) :
      (doc.at = <<>> \/ doc.at[1] <= x) =>
        \E i \in DOMAIN children :
          LET c == children[i]
              p == parents[c.parent]
          IN  /\ p.begin <= x /\ x < p.end
              /\ \A j \in DOMAIN doc.at : doc.at[j] <= x => doc.at[j] <= p.begin
              /\ SentenceAt(doc, p, x) \in c.first .. c.last

\* The page range shown with a chunk is that of its section's text: it begins
\* and ends on a page with text of the section and leaves no such page out.
PagesExact ==
  \A i \in DOMAIN parents :
    LET p == parents[i]
        touched == {q \in Pages(doc) : \E x \in Characters(doc) :
                      /\ p.begin <= x /\ x < p.end
                      /\ PageBegin(doc, q) <= x /\ x < PageEnd(doc, q)}
    IN  p.begin < p.end => p.pageStart = Min(touched) /\ p.pageEnd = Max(touched)
=============================================================================
