--------------------------- MODULE Provenance_proofs ---------------------------
(***************************************************************************)
(* Theorems about Chunker, VideoPackages and Provenance, for any documents *)
(* with and without headers, any lengths of chunks and overlaps that the   *)
(* assumptions allow, any points of time at which a request comes, and any *)
(* answers of the model.                                                   *)
(***************************************************************************)
EXTENDS Provenance, FiniteSetTheorems, SequenceTheorems, WellFoundedInduction, TLAPS

-----------------------------------------------------------------------------
(***************************************************************************)
(* The inductive invariants.                                               *)
(***************************************************************************)
Half == MaxChars \div 2

Seen(c) == c.ch \notin Whitespace

IsChunk(c) ==
    /\ Len(c.text) \in MinLength..MaxChars
    /\ c.first \in Nat /\ c.last \in Nat /\ PagesOf(c.text) \subseteq Nat

\* Where the chunker is. A window is only used where there is no header, and
\* is below MaxChars between two pages.
ControlInv ==
    /\ document \in Documents
    /\ strategy \in {"headers", "window"} /\ stage \in {"read", "split", "chunked"}
    /\ page \in 1..(Len(document) + 1) /\ part \in Nat \ {0}
    /\ IF AtEnd THEN part = 1 ELSE part \in DOMAIN document[page]
    /\ first \in 1..last /\ last \in 1..Len(document) /\ last <= page
    /\ strategy = "window" => ~HasHeaders
    /\ stage = "chunked" => AtEnd /\ body = <<>>
    /\ stage = "read" /\ strategy = "window" => Len(body) < MaxChars
    /\ IsSequence(body) /\ IsSequence(chunks)
    /\ \A n \in DOMAIN chunks : IsChunk(chunks[n])

\* The pages that the text gathered so far is from. It ends with the last
\* character of a page.
IsNamed(c) ==
    /\ c.page \in 0..last
    /\ c.page = 0 => ~Seen(c)
    /\ strategy = "headers" => c.page = 0 \/ first <= c.page

BodyInv ==
    /\ \A i \in DOMAIN body : IsNamed(body[i])
    /\ body # <<>> =>
          /\ Seen(body[Len(body)])
          /\ strategy = "window" => body[Len(body)].page = last

\* From the (k + 1)st character on, a window holds the pages from p on; before
\* it comes the break between the pages, or its second half. Where this is past
\* the first cut there may be, the page before p, the next one that has text,
\* ends right before the break.
Shape(k) ==
    /\ k > 0 => body[k].ch = "newline" /\ Seen(body[k + 1])
    /\ k > 1 => body[k - 1].ch = "newline"

EndsBefore(k, p) == k > 2 /\ Seen(body[k - 2]) /\ NextTo(body[k - 2].page, p)

Begins(k, p) ==
    /\ k \in 0..(Len(body) - 1) /\ Shape(k)
    /\ \A i \in (k + 1)..Len(body) : body[i].page = 0 \/ p <= body[i].page
    /\ k <= Half + 2 \/ EndsBefore(k, p)

\* The page named first begins in the next piece, or else right behind it, and
\* so does the page read last, unless its break is cut in half. As the next
\* piece counts as from the page read last, that may bring it to name a page
\* too late.
FirstInv ==
    strategy = "window" /\ body # <<>> =>
        \E k \in 0..MaxChars : Begins(k, first) /\ (k > Half + 2 => first \in halved)

LastInv ==
    strategy = "window" /\ stage = "split" /\ body # <<>> =>
        \E k \in 0..(MaxChars + 1) : Begins(k, last) /\ (k = MaxChars + 1 => last \in halved)

\* What has been read since the page read last had no text.
NextInv == strategy = "window" /\ body # <<>> => last < page /\ NextTo(last, page)

TurnInv == FirstInv /\ LastInv /\ NextInv

PagesInv == ControlInv /\ BodyInv /\ TurnInv /\ PagesAreNamed

\* What has been read and is long enough for a chunk is in a chunk, or in the
\* text gathered so far. If that is to be dropped for being short, it has no
\* part that is long enough, or is no more than the overlap with a chunk.
PartAt(p, q) == Placed(document[p][q].text, p, q)
IsLong(p, q) == Len(document[p][q].text) >= MinLength
IsRead(p, q) == p < page \/ (p = page /\ q < part)
Kept(c) == \E n \in DOMAIN chunks : c \in CharactersOf(chunks[n].text)

IsOfLong(c) ==
    \E p \in DOMAIN document : \E q \in DOMAIN document[p] :
        IsLong(p, q) /\ c \in CharactersOf(PartAt(p, q))

Spread(s) == \E i, j \in Visible(s) : j - i + 1 >= MinLength

IsSpaced(s) == \A i \in 1..(Len(s) - 2) : \E n \in i..(i + 2) : Seen(s[n])

ReadInv ==
    \A p \in DOMAIN document : \A q \in DOMAIN document[p] :
        IsLong(p, q) /\ IsRead(p, q) =>
            \A c \in CharactersOf(PartAt(p, q)) : Kept(c) \/ c \in CharactersOf(body)

DropInv ==
    \/ Spread(body)
    \/ \A c \in CharactersOf(body) : ~IsOfLong(c)
    \/ Overlap <= Len(body) /\ \A i \in 1..Overlap : i \in Visible(body) => Kept(body[i])

TextInv == ReadInv /\ IsSpaced(body) /\ DropInv

\* From the chunks to a package: what a request has found is of the chunks.
IsOfChunks(x) == \E n \in DOMAIN chunks : x = PointOf(n)

ChainInv ==
    /\ indexed # "not yet" => stage = "chunked"
    /\ points # {} => indexed = "done"
    /\ \A x \in points : IsOfChunks(x)
    /\ evidence # <<>> => stage = "chunked"
    /\ \A i \in DOMAIN evidence : IsOfChunks(evidence[i])

RequestInv ==
    /\ indexed \in {"not yet", "done", "failed"} /\ IsFiniteSet(points)
    /\ phase \in Phases /\ mode \in RepairModes
    /\ phase \in {"created", "deleted"} <=> Exists
    /\ IsSequence(evidence) /\ Len(evidence) <= TopK
    /\ IsReply(reply)

\* The package is what was made of the answer, and neither changes any more.
PackageInv ==
    Exists =>
        /\ package.scenes = Repaired /\ package.evidence_map = EvidenceMap(Repaired)
        /\ package.warnings = Warnings

ProvenanceInv == PagesInv /\ RequestInv /\ ChainInv /\ PackageInv

-----------------------------------------------------------------------------
(***************************************************************************)
(* Sequences, whatever they are of.                                        *)
(***************************************************************************)
LEMMA SequenceFacts ==
    ASSUME NEW s, IsSequence(s)
    PROVE  /\ Len(s) \in Nat /\ DOMAIN s = 1..Len(s)
           /\ s = <<>> <=> Len(s) = 0
           /\ s = [i \in 1..Len(s) |-> s[i]]
<1> DEFINE S == {s[n] : n \in DOMAIN s}
<1>1. s \in Seq(S)
      BY DEF IsSequence
<1> HIDE DEF S
<1>2. QED
      BY <1>1, LenProperties, EmptySeq

LEMMA ListedSequence ==
    ASSUME NEW s, NEW S, s \in Seq(S) PROVE IsSequence(s)
<1>1. Len(s) \in Nat /\ s \in [1..Len(s) -> S]
      BY LenProperties
<1> DEFINE T == {s[n] : n \in DOMAIN s}
<1>2. s \in [1..Len(s) -> T]
      BY <1>1
<1> HIDE DEF T
<1>3. s \in Seq(T)
      BY <1>1, <1>2
<1>4. QED
      BY <1>3 DEF IsSequence, T

LEMMA MadeSequence ==
    ASSUME NEW n \in Nat, NEW s, DOMAIN s = 1..n, s = [i \in 1..n |-> s[i]]
    PROVE  IsSequence(s) /\ Len(s) = n
<1> DEFINE S == {s[i] : i \in 1..n}
<1>1. s \in [1..n -> S]
      OBVIOUS
<1> HIDE DEF S
<1>2. s \in Seq(S) /\ Len(s) = n
      BY <1>1
<1>3. QED
      BY <1>2, ListedSequence

LEMMA NoSequence == IsSequence(<<>>) /\ Len(<<>>) = 0 /\ DOMAIN <<>> = {}
<1>1. <<>> \in Seq({})
      OBVIOUS
<1>2. IsSequence(<<>>)
      BY <1>1, ListedSequence
<1>3. QED
      BY <1>2, SequenceFacts

LEMMA Appended ==
    ASSUME NEW s, NEW e, IsSequence(s)
    PROVE  /\ IsSequence(Append(s, e)) /\ Len(Append(s, e)) = Len(s) + 1
           /\ \A i \in DOMAIN s : i \in DOMAIN Append(s, e) /\ Append(s, e)[i] = s[i]
           /\ Append(s, e)[Len(s) + 1] = e
           /\ DOMAIN Append(s, e) = DOMAIN s \cup {Len(s) + 1}
<1> DEFINE S == {s[n] : n \in DOMAIN s}
<1>1. s \in Seq(S \cup {e})
      <2>1. s \in Seq(S)
            BY DEF IsSequence
      <2> HIDE DEF S
      <2>2. QED
            BY <2>1, SeqMonotonic
<1> HIDE DEF S
<1>2. Append(s, e) \in Seq(S \cup {e})
      BY <1>1
<1>3. IsSequence(Append(s, e))
      BY <1>2, ListedSequence
<1>4. /\ Len(Append(s, e)) = Len(s) + 1 /\ Append(s, e)[Len(s) + 1] = e
      /\ \A i \in 1..Len(s) : Append(s, e)[i] = s[i]
      BY <1>1, AppendProperties
<1>5. Len(s) \in Nat /\ DOMAIN s = 1..Len(s) /\ DOMAIN Append(s, e) = 1..(Len(s) + 1)
      BY <1>3, <1>4, SequenceFacts
<1>6. QED
      BY <1>3, <1>4, <1>5

LEMMA Concatenated ==
    ASSUME NEW s, NEW t, IsSequence(s), IsSequence(t)
    PROVE  /\ IsSequence(s \o t) /\ Len(s \o t) = Len(s) + Len(t)
           /\ \A i \in 1..Len(s) : (s \o t)[i] = s[i]
           /\ \A i \in 1..Len(t) : (s \o t)[Len(s) + i] = t[i]
           /\ \A i \in (Len(s) + 1)..(Len(s) + Len(t)) : (s \o t)[i] = t[i - Len(s)]
<1> DEFINE S == {s[n] : n \in DOMAIN s}
           T == {t[n] : n \in DOMAIN t}
<1>1. s \in Seq(S) /\ t \in Seq(T)
      BY DEF IsSequence
<1> HIDE DEF S, T
<1>2. s \in Seq(S \cup T) /\ t \in Seq(S \cup T)
      BY <1>1, SeqMonotonic
<1>3. s \o t \in Seq(S \cup T)
      BY <1>2
<1>4. IsSequence(s \o t)
      BY <1>3, ListedSequence
<1>5. /\ Len(s \o t) = Len(s) + Len(t) /\ Len(s) \in Nat /\ Len(t) \in Nat
      /\ \A i \in 1..(Len(s) + Len(t)) : (s \o t)[i] = IF i <= Len(s) THEN s[i] ELSE t[i - Len(s)]
      BY <1>2, ConcatProperties, LenProperties
<1>6. ASSUME NEW i \in 1..Len(t) PROVE (s \o t)[Len(s) + i] = t[i]
  <2>1. Len(s) + i \in 1..(Len(s) + Len(t)) /\ ~(Len(s) + i <= Len(s)) /\ Len(s) + i - Len(s) = i
        BY <1>5
  <2>2. QED
        BY <1>5, <2>1
<1>7. ASSUME NEW i \in (Len(s) + 1)..(Len(s) + Len(t)) PROVE (s \o t)[i] = t[i - Len(s)]
  <2>1. i \in 1..(Len(s) + Len(t)) /\ ~(i <= Len(s))
        BY <1>5
  <2>2. QED
        BY <1>5, <2>1
<1>8. ASSUME NEW i \in 1..Len(s) PROVE (s \o t)[i] = s[i]
  <2>1. i \in 1..(Len(s) + Len(t)) /\ i <= Len(s)
        BY <1>5
  <2>2. QED
        BY <1>5, <2>1
<1>9. QED
      BY <1>4, <1>5, <1>6, <1>7, <1>8

LEMMA Sliced ==
    ASSUME NEW s, IsSequence(s), NEW m \in 1..(Len(s) + 1), NEW n \in (m - 1)..Len(s)
    PROVE  /\ IsSequence(SubSeq(s, m, n)) /\ Len(SubSeq(s, m, n)) = n - m + 1
           /\ \A i \in 1..(n - m + 1) : SubSeq(s, m, n)[i] = s[m + i - 1]
<1> DEFINE S == {s[k] : k \in DOMAIN s}
<1>1. s \in Seq(S)
      BY DEF IsSequence
<1> HIDE DEF S
<1>2. SubSeq(s, m, n) \in Seq(S) /\ Len(SubSeq(s, m, n)) = n - m + 1
      BY <1>1, SubSeqProperties
<1>3. \A i \in 1..(n - m + 1) : SubSeq(s, m, n)[i] = s[m + i - 1]
      BY <1>1, SubSeqProperties
<1>4. QED
      BY <1>2, <1>3, ListedSequence

-----------------------------------------------------------------------------
(***************************************************************************)
(* Numbers.                                                                *)
(***************************************************************************)
LEMMA LeastNumber ==
    ASSUME NEW S, S \subseteq Nat, S # {}
    PROVE  \E m \in S : \A n \in S : m <= n
<1>1. PICK m \in S : \A n \in S : <<n, m>> \notin OpToRel(<, Nat)
      BY NatLessThanWellFounded, WFMin
<1>2. ASSUME NEW n \in S PROVE m <= n
  <2>1. ~(n < m)
        BY <1>1, <1>2 DEF OpToRel
  <2>2. QED
        BY <2>1
<1>3. QED
      BY <1>2

LEMMA Extremes ==
    ASSUME NEW n \in Nat, NEW S, S \subseteq 1..n, S # {}
    PROVE  /\ Min(S) \in S /\ \A k \in S : Min(S) <= k
           /\ Max(S) \in S /\ \A k \in S : k <= Max(S)
<1>1. PICK m \in S : \A k \in S : m <= k
  <2>1. S \subseteq Nat
        OBVIOUS
  <2>2. QED
        BY <2>1, LeastNumber
<1>2. PICK l \in S : \A k \in S : k <= l
  <2> DEFINE T == {n - k : k \in S}
  <2>1. T \subseteq Nat /\ T # {}
        OBVIOUS
  <2>2. PICK t \in T : \A u \in T : t <= u
        BY <2>1, LeastNumber
  <2>3. PICK l \in S : t = n - l
        BY <2>2
  <2>4. ASSUME NEW k \in S PROVE k <= l
    <3>1. n - l <= n - k
          BY <2>2, <2>3
    <3>2. QED
          BY <3>1
  <2>5. QED
        BY <2>4
<1>3. Min(S) \in S /\ \A k \in S : Min(S) <= k
      BY <1>1 DEF Min
<1>4. Max(S) \in S /\ \A k \in S : Max(S) >= k
  <2>1. \A k \in S : l >= k
        BY <1>2
  <2>2. QED
        BY <2>1 DEF Max
<1>5. \A k \in S : k <= Max(S)
      BY <1>4
<1>6. QED
      BY <1>3, <1>4, <1>5

LEMMA HalfOfIt ==
    /\ MaxChars \in Nat \ {0} /\ MaxChars > 4 /\ MinLength \in Nat \ {0}
    /\ Half \in Nat /\ 2 * Half <= MaxChars /\ MaxChars <= 2 * Half + 1
    /\ Overlap \in Nat /\ Overlap <= Half
<1>1. MaxChars \in Nat /\ MaxChars > 4 /\ MinLength \in Nat \ {0} /\ Overlap \in 0..Half
      BY ChunkerAssumption DEF Half
<1>2. Half \in Nat /\ 2 * Half <= MaxChars /\ MaxChars <= 2 * Half + 1
      BY <1>1 DEF Half
<1>3. QED
      BY <1>1, <1>2

-----------------------------------------------------------------------------
(***************************************************************************)
(* Text.                                                                   *)
(***************************************************************************)
LEMMA TextsAreSequences ==
    ASSUME NEW d \in Documents
    PROVE  /\ IsSequence(d) /\ d # <<>>
           /\ \A p \in DOMAIN d : IsSequence(d[p]) /\ d[p] # <<>>
           /\ \A p \in DOMAIN d : \A q \in DOMAIN d[p] : IsText(d[p][q].text)
BY ChunkerAssumption DEF IsDocument, IsPage

LEMMA PlacedText ==
    ASSUME NEW t, IsText(t), NEW p \in Nat \ {0}, NEW q
    PROVE  /\ IsSequence(Placed(t, p, q)) /\ Len(Placed(t, p, q)) = Len(t)
           /\ Placed(t, p, q) = <<>> <=> t = <<>>
           /\ \A n \in 1..Len(t) :
                 Placed(t, p, q)[n] = [ch |-> t[n], page |-> p, part |-> q, at |-> n]
           /\ t # <<>> => Seen(Placed(t, p, q)[1]) /\ Seen(Placed(t, p, q)[Len(t)])
<1>1. IsSequence(t) /\ Len(t) \in Nat /\ DOMAIN t = 1..Len(t) /\ (t = <<>> <=> Len(t) = 0)
      BY SequenceFacts DEF IsText
<1>2. /\ DOMAIN Placed(t, p, q) = 1..Len(t)
      /\ \A n \in 1..Len(t) :
            Placed(t, p, q)[n] = [ch |-> t[n], page |-> p, part |-> q, at |-> n]
      BY <1>1 DEF Placed
<1>3. Placed(t, p, q) = [n \in 1..Len(t) |-> Placed(t, p, q)[n]]
      BY <1>1 DEF Placed
<1>4. IsSequence(Placed(t, p, q)) /\ Len(Placed(t, p, q)) = Len(t)
      BY <1>1, <1>2, <1>3, MadeSequence
<1>5. Placed(t, p, q) = <<>> <=> t = <<>>
      BY <1>1, <1>4, SequenceFacts
<1>6. ASSUME t # <<>>
      PROVE  Seen(Placed(t, p, q)[1]) /\ Seen(Placed(t, p, q)[Len(t)])
  <2>1. 1 \in 1..Len(t) /\ Len(t) \in 1..Len(t)
        BY <1>1, <1>6
  <2>2. t[1] \notin Whitespace /\ t[Len(t)] \notin Whitespace
        BY <1>6 DEF IsText
  <2>3. QED
        BY <1>2, <2>1, <2>2 DEF Seen
<1>7. QED
      BY <1>2, <1>4, <1>5, <1>6

LEMMA NewlineIsUnseen == ~Seen(Newline) /\ Newline.ch = "newline" /\ Newline.page = 0
BY DEF Seen, Newline, Whitespace

\* What is joined to a text that is not empty comes after it and a break.
LEMMA JoinedText ==
    ASSUME NEW a, NEW b, IsSequence(a), IsSequence(b), a # <<>>
    PROVE  /\ IsSequence(Joined(a, b)) /\ Len(Joined(a, b)) = Len(a) + 2 + Len(b)
           /\ \A i \in 1..Len(a) : Joined(a, b)[i] = a[i]
           /\ Joined(a, b)[Len(a) + 1] = Newline /\ Joined(a, b)[Len(a) + 2] = Newline
           /\ \A i \in 1..Len(b) : Joined(a, b)[Len(a) + 2 + i] = b[i]
           /\ \A i \in (Len(a) + 3)..(Len(a) + 2 + Len(b)) : Joined(a, b)[i] = b[i - Len(a) - 2]
<1> DEFINE m == Break
<1>1. IsSequence(m) /\ Len(m) = 2 /\ m[1] = Newline /\ m[2] = Newline
  <2>1. m \in Seq({Newline}) /\ Len(m) = 2 /\ m[1] = Newline /\ m[2] = Newline
        BY DEF Break
  <2>2. QED
        BY <2>1, ListedSequence
<1> HIDE DEF m
<1>2. Len(a) \in Nat /\ Len(b) \in Nat
      BY SequenceFacts
<1>3. /\ IsSequence(a \o m) /\ Len(a \o m) = Len(a) + 2
      /\ \A i \in 1..Len(a) : (a \o m)[i] = a[i]
      /\ \A i \in 1..Len(m) : (a \o m)[Len(a) + i] = m[i]
  <2>1. IsSequence(m)
        BY <1>1
  <2>2. /\ IsSequence(a \o m) /\ Len(a \o m) = Len(a) + Len(m)
        /\ \A i \in 1..Len(a) : (a \o m)[i] = a[i]
        /\ \A i \in 1..Len(m) : (a \o m)[Len(a) + i] = m[i]
        BY <2>1, Concatenated
  <2>3. QED
        BY <1>1, <2>2
<1>4. (a \o m)[Len(a) + 1] = Newline /\ (a \o m)[Len(a) + 2] = Newline
      BY <1>1, <1>3
<1> DEFINE c == (a \o m) \o b
<1>5. /\ IsSequence(c) /\ Len(c) = Len(a) + 2 + Len(b)
      /\ \A i \in 1..Len(a \o m) : c[i] = (a \o m)[i]
      /\ \A i \in 1..Len(b) : c[Len(a \o m) + i] = b[i]
      /\ \A i \in (Len(a \o m) + 1)..(Len(a \o m) + Len(b)) : c[i] = b[i - Len(a \o m)]
      BY <1>3, Concatenated
<1>6. Joined(a, b) = c
      BY DEF Joined, m
<1> HIDE DEF c
<1>7. \A i \in 1..Len(a) : c[i] = a[i]
      BY SMTT(20), <1>2, <1>3, <1>5
<1>8. c[Len(a) + 1] = Newline /\ c[Len(a) + 2] = Newline
      BY <1>2, <1>3, <1>4, <1>5
<1>9. \A i \in 1..Len(b) : c[Len(a) + 2 + i] = b[i]
      BY <1>3, <1>5
<1>10. \A i \in (Len(a) + 3)..(Len(a) + 2 + Len(b)) : c[i] = b[i - Len(a) - 2]
  <2> SUFFICES ASSUME NEW i \in (Len(a) + 3)..(Len(a) + 2 + Len(b))
               PROVE  c[i] = b[i - Len(a) - 2]
      OBVIOUS
  <2>1. i \in (Len(a \o m) + 1)..(Len(a \o m) + Len(b)) /\ i - Len(a \o m) = i - Len(a) - 2
        BY <1>2, <1>3
  <2>2. c[i] = b[i - Len(a \o m)]
        BY <1>5, <2>1
  <2>3. QED
        BY <2>1, <2>2
<1>11. QED
      BY <1>5, <1>6, <1>7, <1>8, <1>9, <1>10

LEMMA JoinedToNothing == ASSUME NEW b PROVE Joined(<<>>, b) = b
BY DEF Joined

LEMMA StrippedText ==
    ASSUME NEW s, IsSequence(s)
    PROVE  /\ Len(Stripped(s)) \in 0..Len(s)
           /\ CharactersOf(Stripped(s)) = CharactersOf(s)
           /\ \A k \in DOMAIN Stripped(s) : \E i \in 1..Len(s) : Stripped(s)[k] = s[i]
           /\ Len(Stripped(s)) >= MinLength <=> Spread(s)
           /\ Len(Stripped(s)) > 0 => Visible(s) # {}
<1>1. Len(s) \in Nat /\ DOMAIN s = 1..Len(s) /\ MinLength \in Nat \ {0}
      BY SequenceFacts, HalfOfIt
<1>2. CASE Visible(s) = {}
  <2>1. Stripped(s) = <<>> /\ ~Spread(s)
        BY <1>2 DEF Stripped, Spread
  <2>2. Len(Stripped(s)) = 0 /\ DOMAIN Stripped(s) = {}
        BY <2>1, NoSequence
  <2>3. CharactersOf(s) = {} /\ CharactersOf(Stripped(s)) = {}
        BY <1>2, <2>2 DEF CharactersOf, Visible
  <2>4. QED
        BY <1>1, <2>1, <2>2, <2>3
<1>3. CASE Visible(s) # {}
  <2> DEFINE i == Min(Visible(s))
             j == Max(Visible(s))
             t == SubSeq(s, i, j)
  <2>1. Visible(s) \subseteq 1..Len(s)
        BY <1>1 DEF Visible
  <2>2. i \in Visible(s) /\ j \in Visible(s) /\ \A k \in Visible(s) : i <= k /\ k <= j
        BY <1>1, <1>3, <2>1, Extremes
  <2> HIDE DEF i, j
  <2>3. i \in 1..(Len(s) + 1) /\ j \in (i - 1)..Len(s) /\ i \in 1..Len(s) /\ j \in i..Len(s)
        BY <1>1, <2>1, <2>2
  <2>4. /\ IsSequence(t) /\ Len(t) = j - i + 1
        /\ \A k \in 1..(j - i + 1) : t[k] = s[i + k - 1]
        BY <2>3, Sliced
  <2>5. Stripped(s) = t
        BY <1>3 DEF Stripped, i, j
  <2> HIDE DEF t
  <2>6. DOMAIN t = 1..(j - i + 1)
        BY <2>4, SequenceFacts
  <2>7. Len(t) \in 0..Len(s) /\ Len(t) > 0
        BY <1>1, <2>3, <2>4
  <2>8. \A k \in DOMAIN t : i + k - 1 \in 1..Len(s) /\ t[k] = s[i + k - 1]
        BY <1>1, <2>3, <2>4, <2>6
  <2>9. ASSUME NEW c \in CharactersOf(t) PROVE c \in CharactersOf(s)
    <3>1. PICK k \in Visible(t) : c = t[k]
          BY DEF CharactersOf
    <3>2. k \in DOMAIN t /\ t[k].ch \notin Whitespace
          BY <3>1 DEF Visible
    <3>3. i + k - 1 \in Visible(s) /\ t[k] = s[i + k - 1]
          BY <1>1, <2>8, <3>2 DEF Visible
    <3>4. QED
          BY <3>1, <3>3 DEF CharactersOf
  <2>10. ASSUME NEW c \in CharactersOf(s) PROVE c \in CharactersOf(t)
    <3>1. PICK k \in Visible(s) : c = s[k]
          BY DEF CharactersOf
    <3>2. k \in 1..Len(s) /\ i <= k /\ k <= j
          BY <2>1, <2>2, <3>1
    <3>3. k - i + 1 \in 1..(j - i + 1) /\ i + (k - i + 1) - 1 = k
          BY <1>1, <2>3, <3>2
    <3>4. t[k - i + 1] = s[k]
          BY <2>4, <3>3
    <3>5. k - i + 1 \in Visible(t)
          BY <2>6, <3>1, <3>3, <3>4 DEF Visible
    <3>6. QED
          BY <3>1, <3>4, <3>5 DEF CharactersOf
  <2>11. Len(t) >= MinLength <=> Spread(s)
    <3>1. ASSUME Len(t) >= MinLength PROVE Spread(s)
          BY <2>2, <2>4, <3>1 DEF Spread
    <3>2. ASSUME Spread(s) PROVE Len(t) >= MinLength
      <4>1. PICK k, l \in Visible(s) : l - k + 1 >= MinLength
            BY <3>2 DEF Spread
      <4>2. k \in 1..Len(s) /\ l \in 1..Len(s) /\ i <= k /\ l <= j
            BY <2>1, <2>2
      <4>3. QED
            BY <1>1, <2>3, <2>4, <4>1, <4>2
    <3>3. QED
          BY <3>1, <3>2
  <2>12. QED
        BY <1>3, <2>5, <2>7, <2>8, <2>9, <2>10, <2>11
<1>4. QED
      BY <1>2, <1>3

\* A cut is in the second half, at the last break that can be seen whole.
LEMMA WhereToCut ==
    ASSUME NEW s, IsSequence(s), Len(s) >= MaxChars
    PROVE  /\ SplitPoint(s) \in (Half + 1)..MaxChars
           /\ \A n \in 1..(MaxChars - 1) :
                 s[n].ch = "newline" /\ s[n + 1].ch = "newline" /\ n - 1 > Half => n - 1 <= SplitPoint(s)
           /\ \/ SplitPoint(s) = MaxChars
              \/ SplitPoint(s) > Half + 1 /\ Seen(s[SplitPoint(s)])
              \/ /\ SplitPoint(s) + 2 <= MaxChars
                 /\ s[SplitPoint(s) + 1].ch = "newline" /\ s[SplitPoint(s) + 2].ch = "newline"
<1> DEFINE late == {n \in 1..MaxChars : n - 1 > Half}
           breaks == {n \in late : n < MaxChars /\ s[n].ch = "newline" /\ s[n + 1].ch = "newline"}
           verses == {n \in late : s[n].ch = "danda"}
           sentences == {n \in late : n < MaxChars /\ s[n].ch = "." /\ s[n + 1].ch = " "}
<1>1. /\ MaxChars \in Nat \ {0} /\ Half \in Nat
      /\ 2 * Half <= MaxChars /\ MaxChars <= 2 * Half + 1
      BY HalfOfIt
<1>2. SplitPoint(s) = IF breaks # {} THEN Max(breaks) - 1
                      ELSE IF verses # {} THEN Max(verses)
                      ELSE IF sentences # {} THEN Max(sentences)
                      ELSE MaxChars
      BY DEF SplitPoint, Half
<1>3. /\ breaks \subseteq 1..MaxChars
      /\ \A n \in breaks : n - 1 > Half /\ n < MaxChars /\ s[n].ch = "newline" /\ s[n + 1].ch = "newline"
      /\ verses \subseteq 1..MaxChars /\ \A n \in verses : n - 1 > Half /\ s[n].ch = "danda"
      /\ sentences \subseteq 1..MaxChars /\ \A n \in sentences : n - 1 > Half /\ s[n].ch = "."
      OBVIOUS
<1>4. \A n \in 1..(MaxChars - 1) :
          s[n].ch = "newline" /\ s[n + 1].ch = "newline" /\ n - 1 > Half => n \in breaks
      BY <1>1
<1> HIDE DEF late, breaks, verses, sentences
<1>5. CASE breaks # {}
  <2>1. Max(breaks) \in breaks /\ \A n \in breaks : n <= Max(breaks)
        BY <1>1, <1>3, <1>5, Extremes
  <2>2. /\ Max(breaks) \in 1..MaxChars /\ Max(breaks) - 1 > Half /\ Max(breaks) < MaxChars
        /\ s[Max(breaks)].ch = "newline" /\ s[Max(breaks) + 1].ch = "newline"
        /\ SplitPoint(s) = Max(breaks) - 1
        BY <1>2, <1>3, <1>5, <2>1
  <2>3. /\ SplitPoint(s) \in (Half + 1)..MaxChars /\ SplitPoint(s) + 2 <= MaxChars
        /\ SplitPoint(s) + 1 = Max(breaks) /\ SplitPoint(s) + 2 = Max(breaks) + 1
        BY <1>1, <2>2
  <2>4. s[SplitPoint(s) + 1].ch = "newline" /\ s[SplitPoint(s) + 2].ch = "newline"
        BY <2>2, <2>3
  <2>5. ASSUME NEW n \in 1..(MaxChars - 1),
               s[n].ch = "newline", s[n + 1].ch = "newline", n - 1 > Half
        PROVE  n - 1 <= SplitPoint(s)
    <3>1. n <= Max(breaks)
          BY <1>4, <2>1, <2>5
    <3>2. QED
          BY <1>1, <2>2, <3>1
  <2>6. QED
        BY <2>3, <2>4, <2>5
<1>6. CASE breaks = {} /\ verses # {}
  <2>1. Max(verses) \in verses
        BY <1>1, <1>3, <1>6, Extremes
  <2>2. /\ Max(verses) \in 1..MaxChars /\ Max(verses) - 1 > Half
        /\ s[Max(verses)].ch = "danda" /\ SplitPoint(s) = Max(verses)
        BY <1>2, <1>3, <1>6, <2>1
  <2>3. Seen(s[SplitPoint(s)])
        BY <2>2 DEF Seen, Whitespace
  <2>4. SplitPoint(s) \in (Half + 1)..MaxChars /\ SplitPoint(s) > Half + 1
        BY <1>1, <2>2
  <2>5. QED
        BY <1>4, <1>6, <2>3, <2>4
<1>7. CASE breaks = {} /\ verses = {} /\ sentences # {}
  <2>1. Max(sentences) \in sentences
        BY <1>1, <1>3, <1>7, Extremes
  <2>2. /\ Max(sentences) \in 1..MaxChars /\ Max(sentences) - 1 > Half
        /\ s[Max(sentences)].ch = "." /\ SplitPoint(s) = Max(sentences)
        BY <1>2, <1>3, <1>7, <2>1
  <2>3. Seen(s[SplitPoint(s)])
        BY <2>2 DEF Seen, Whitespace
  <2>4. SplitPoint(s) \in (Half + 1)..MaxChars /\ SplitPoint(s) > Half + 1
        BY <1>1, <2>2
  <2>5. QED
        BY <1>4, <1>7, <2>3, <2>4
<1>8. CASE breaks = {} /\ verses = {} /\ sentences = {}
  <2>1. SplitPoint(s) = MaxChars
        BY <1>2, <1>8
  <2>2. SplitPoint(s) \in (Half + 1)..MaxChars
        BY <1>1, <2>1
  <2>3. QED
        BY <1>4, <1>8, <2>1, <2>2
<1>9. QED
      BY <1>5, <1>6, <1>7, <1>8

LEMMA SlideBack == ASSUME NEW cut \in (Half + 1)..MaxChars PROVE Slide(cut) = cut - Overlap
<1>1. cut - Overlap \in Nat
      BY HalfOfIt
<1> DEFINE n == cut - Overlap
<1> HIDE DEF n
<1>2. n \in Nat
      BY <1>1 DEF n
<1>3. Max({0, n}) \in {0, n} /\ \A k \in {0, n} : Max({0, n}) >= k
  <2>1. n \in {0, n} /\ \A k \in {0, n} : n >= k
        BY <1>2
  <2>2. QED
        BY <2>1 DEF Max
<1>4. Max({0, n}) = n
      BY <1>2, <1>3
<1>5. QED
      BY <1>4 DEF Slide, n

-----------------------------------------------------------------------------
(***************************************************************************)
(* What is emitted.                                                        *)
(***************************************************************************)
LEMMA EmittedPiece ==
    ASSUME NEW s, IsSequence(s), IsSequence(chunks)
    PROVE  /\ IsSequence(Emitted(s))
           /\ \A n \in DOMAIN chunks : n \in DOMAIN Emitted(s) /\ Emitted(s)[n] = chunks[n]
           /\ \A n \in DOMAIN Emitted(s) :
                 \/ n \in DOMAIN chunks
                 \/ /\ Len(Stripped(s)) >= MinLength
                    /\ Emitted(s)[n] = [text |-> Stripped(s), first |-> first, last |-> last,
                                        title |-> title, by |-> strategy]
           /\ Spread(s) => \E n \in DOMAIN Emitted(s) : Emitted(s)[n].text = Stripped(s)
<1> DEFINE e == [text |-> Stripped(s), first |-> first, last |-> last,
                 title |-> title, by |-> strategy]
<1>1. Len(Stripped(s)) \in Nat /\ MinLength \in Nat /\ (Len(Stripped(s)) >= MinLength <=> Spread(s))
      BY StrippedText, HalfOfIt, SequenceFacts
<1>2. CASE Len(Stripped(s)) < MinLength
  <2>1. Emitted(s) = chunks
        BY <1>2 DEF Emitted
  <2>2. ~Spread(s)
        BY <1>1, <1>2
  <2>3. QED
        BY <2>1, <2>2
<1>3. CASE ~(Len(Stripped(s)) < MinLength)
  <2>1. Emitted(s) = Append(chunks, e)
        BY <1>3 DEF Emitted
  <2>2. e.text = Stripped(s)
        OBVIOUS
  <2> HIDE DEF e
  <2>3. /\ IsSequence(Append(chunks, e))
        /\ \A i \in DOMAIN chunks : i \in DOMAIN Append(chunks, e) /\ Append(chunks, e)[i] = chunks[i]
        /\ Append(chunks, e)[Len(chunks) + 1] = e
        /\ DOMAIN Append(chunks, e) = DOMAIN chunks \cup {Len(chunks) + 1}
        BY Appended
  <2>4. Len(Stripped(s)) >= MinLength
        BY <1>1, <1>3
  <2>5. \A n \in DOMAIN Append(chunks, e) : n \in DOMAIN chunks \/ Append(chunks, e)[n] = e
        BY <2>3
  <2>6. \E n \in DOMAIN Append(chunks, e) : Append(chunks, e)[n].text = Stripped(s)
        BY <2>2, <2>3
  <2>7. QED
        BY <2>1, <2>3, <2>4, <2>5, <2>6 DEF e
<1>4. QED
      BY <1>2, <1>3

LEMMA EmittedPages ==
    ASSUME NEW s, IsSequence(s), Len(s) <= MaxChars, ControlInv, PagesAreNamed,
           \A i \in 1..Len(s) : IsNamed(s[i]),
           strategy = "window" /\ Visible(s) # {} =>
               \E i \in Visible(s) : first <= s[i].page \/ (first \in halved /\ NextTo(s[i].page, first)),
           chunks' = Emitted(s), UNCHANGED <<document, halved>>
    PROVE  /\ PagesAreNamed' /\ IsSequence(chunks')
           /\ \A n \in DOMAIN chunks' : IsChunk(chunks'[n])
<1>1. /\ IsSequence(chunks) /\ MinLength \in Nat \ {0} /\ MaxChars \in Nat
      /\ first \in Nat \ {0} /\ last \in Nat /\ Len(s) \in Nat
      /\ \A n \in DOMAIN chunks : IsChunk(chunks[n])
  <2>1. last \in Nat
    <3>1. Len(document) \in Nat
          BY TextsAreSequences, SequenceFacts DEF ControlInv
    <3>2. QED
          BY <3>1 DEF ControlInv
  <2>2. QED
        BY SMTT(20), <2>1, HalfOfIt, SequenceFacts DEF ControlInv
<1>2. /\ IsSequence(chunks')
      /\ \A n \in DOMAIN chunks' :
            \/ n \in DOMAIN chunks /\ chunks'[n] = chunks[n]
            \/ /\ Len(Stripped(s)) >= MinLength
               /\ chunks'[n] = [text |-> Stripped(s), first |-> first, last |-> last,
                                title |-> title, by |-> strategy]
      BY <1>1, EmittedPiece
<1>3. /\ Len(Stripped(s)) \in 0..Len(s)
      /\ CharactersOf(Stripped(s)) = CharactersOf(s)
      /\ \A k \in DOMAIN Stripped(s) : \E i \in 1..Len(s) : Stripped(s)[k] = s[i]
      /\ Len(Stripped(s)) > 0 => Visible(s) # {}
      BY StrippedText
<1>4. ASSUME NEW n \in DOMAIN chunks' PROVE IsChunk(chunks'[n])
  <2>1. CASE n \in DOMAIN chunks /\ chunks'[n] = chunks[n]
        BY <1>1, <2>1
  <2>2. CASE /\ Len(Stripped(s)) >= MinLength
             /\ chunks'[n] = [text |-> Stripped(s), first |-> first, last |-> last,
                              title |-> title, by |-> strategy]
    <3>1. ASSUME NEW p \in PagesOf(Stripped(s)) PROVE p \in Nat
      <4>1. PICK k \in DOMAIN Stripped(s) : p = Stripped(s)[k].page
            BY DEF PagesOf
      <4>2. PICK i \in 1..Len(s) : p = s[i].page
            BY <1>3, <4>1
      <4>3. IsNamed(s[i])
            BY <4>2
      <4>4. QED
            BY <1>1, <4>2, <4>3 DEF IsNamed
    <3>2. Len(Stripped(s)) \in MinLength..MaxChars
          BY <1>1, <1>3, <2>2
    <3>3. QED
          BY <1>1, <2>2, <3>1, <3>2 DEF IsChunk
  <2>3. QED
        BY <1>2, <2>1, <2>2
<1>5. ASSUME NEW n \in DOMAIN chunks'
      PROVE  LET c == chunks'[n] IN
             /\ \A p \in PagesOf(c.text) : p <= c.last
             /\ IF c.by = "headers" THEN PagesOf(c.text) \subseteq c.first..c.last /\ PagesOf(c.text) # {}
                                   ELSE BeginsAt(c.first, PagesOf(c.text))
  <2>1. CASE n \in DOMAIN chunks /\ chunks'[n] = chunks[n]
        BY <2>1 DEF PagesAreNamed
  <2>2. CASE /\ Len(Stripped(s)) >= MinLength
             /\ chunks'[n] = [text |-> Stripped(s), first |-> first, last |-> last,
                              title |-> title, by |-> strategy]
    <3>1. ASSUME NEW p \in PagesOf(Stripped(s))
          PROVE  p \in Nat /\ p <= last /\ (strategy = "headers" => p \in first..last)
      <4>1. PICK k \in DOMAIN Stripped(s) : p = Stripped(s)[k].page /\ p # 0
            BY DEF PagesOf
      <4>2. PICK i \in 1..Len(s) : p = s[i].page
            BY <1>3, <4>1
      <4>3. IsNamed(s[i])
            BY <4>2
      <4>4. QED
            BY <1>1, <4>1, <4>2, <4>3 DEF IsNamed
    <3>2. Visible(s) # {}
          BY <1>1, <1>3, <2>2
    <3>3. ASSUME NEW i \in Visible(s) PROVE s[i].page \in PagesOf(Stripped(s))
      <4>1. s[i] \in CharactersOf(Stripped(s))
            BY <1>3 DEF CharactersOf
      <4>2. PICK k \in Visible(Stripped(s)) : Stripped(s)[k] = s[i]
            BY <4>1 DEF CharactersOf
      <4>3. k \in DOMAIN Stripped(s) /\ i \in DOMAIN s /\ Seen(s[i])
            BY <4>2 DEF Visible, Seen
      <4>4. s[i].page # 0
        <5>1. i \in 1..Len(s)
              BY <4>3, SequenceFacts
        <5>2. IsNamed(s[i])
              BY <5>1
        <5>3. QED
              BY <4>3, <5>2 DEF IsNamed
      <4>5. QED
            BY <4>2, <4>3, <4>4 DEF PagesOf
    <3>4. PagesOf(Stripped(s)) # {}
          BY <3>2, <3>3
    <3>5. strategy = "window" => BeginsAt(first, PagesOf(Stripped(s)))
          BY <3>2, <3>3 DEF BeginsAt
    <3>6. QED
          BY <2>2, <3>1, <3>4, <3>5 DEF ControlInv
  <2>3. QED
        BY <1>2, <2>1, <2>2
<1>6. PagesAreNamed'
      BY <1>5 DEF PagesAreNamed, BeginsAt, NextTo
<1>7. QED
      BY <1>2, <1>4, <1>6

LEMMA EmittedText ==
    ASSUME NEW s, IsSequence(s), IsSequence(chunks), chunks' = Emitted(s)
    PROVE  /\ \A c : Kept(c) => Kept(c)'
           /\ Spread(s) => \A c \in CharactersOf(s) : Kept(c)'
<1>1. ASSUME NEW c, Kept(c) PROVE Kept(c)'
  <2>1. PICK n \in DOMAIN chunks : c \in CharactersOf(chunks[n].text)
        BY <1>1 DEF Kept
  <2>2. n \in DOMAIN chunks' /\ chunks'[n] = chunks[n]
        BY EmittedPiece
  <2>3. QED
        BY <2>1, <2>2 DEF Kept
<1>2. ASSUME Spread(s), NEW c \in CharactersOf(s) PROVE Kept(c)'
  <2>1. PICK n \in DOMAIN chunks' : chunks'[n].text = Stripped(s)
        BY <1>2, EmittedPiece
  <2>2. c \in CharactersOf(Stripped(s))
        BY StrippedText
  <2>3. QED
        BY <2>1, <2>2 DEF Kept
<1>3. QED
      BY <1>1, <1>2

-----------------------------------------------------------------------------
(***************************************************************************)
(* Pages.                                                                  *)
(***************************************************************************)
LEMMA ControlFacts ==
    ASSUME ControlInv
    PROVE  /\ IsSequence(document) /\ Len(document) \in Nat \ {0} /\ DOMAIN document = 1..Len(document)
           /\ page \in Nat \ {0} /\ first \in Nat \ {0} /\ last \in Nat \ {0}
           /\ first <= last /\ last <= page
           /\ Len(body) \in Nat /\ DOMAIN body = 1..Len(body) /\ (body = <<>> <=> Len(body) = 0)
           /\ \A p \in DOMAIN document :
                 /\ Len(document[p]) \in Nat \ {0}
                 /\ DOMAIN document[p] = 1..Len(document[p])
<1>1. /\ IsSequence(document) /\ document # <<>>
      /\ \A p \in DOMAIN document : IsSequence(document[p]) /\ document[p] # <<>>
      BY TextsAreSequences DEF ControlInv
<1>2. Len(document) \in Nat /\ DOMAIN document = 1..Len(document) /\ Len(document) # 0
      BY <1>1, SequenceFacts
<1>3. \A p \in DOMAIN document :
          Len(document[p]) \in Nat \ {0} /\ DOMAIN document[p] = 1..Len(document[p])
      BY <1>1, SequenceFacts
<1>4. Len(body) \in Nat /\ DOMAIN body = 1..Len(body) /\ (body = <<>> <=> Len(body) = 0)
      BY SequenceFacts DEF ControlInv
<1>5. QED
      BY <1>1, <1>2, <1>3, <1>4 DEF ControlInv

LEMMA CurrentText ==
    ASSUME ControlInv, ~AtEnd
    PROVE  /\ page \in DOMAIN document /\ part \in DOMAIN document[page]
           /\ Text = PartAt(page, part)
           /\ IsSequence(Text) /\ Len(Text) \in Nat /\ (Text = <<>> <=> Len(Text) = 0)
           /\ Len(Text) = Len(Current.text) /\ IsText(Current.text)
           /\ \A i \in 1..Len(Text) :
                 Text[i] = [ch |-> Current.text[i], page |-> page, part |-> part, at |-> i]
           /\ Text # <<>> => Seen(Text[1]) /\ Seen(Text[Len(Text)])
<1>1. page \in DOMAIN document /\ part \in DOMAIN document[page] /\ page \in Nat \ {0}
      BY ControlFacts DEF ControlInv, AtEnd
<1>2. IsText(Current.text)
      BY <1>1, TextsAreSequences DEF ControlInv, Current
<1>3. Text = PartAt(page, part)
      BY DEF Text, PartAt, Current
<1>4. /\ IsSequence(Text) /\ Len(Text) = Len(Current.text)
      /\ Text = <<>> <=> Current.text = <<>>
      /\ \A i \in 1..Len(Current.text) :
            Text[i] = [ch |-> Current.text[i], page |-> page, part |-> part, at |-> i]
      /\ Current.text # <<>> => Seen(Text[1]) /\ Seen(Text[Len(Current.text)])
      BY <1>1, <1>2, PlacedText DEF Text
<1>5. Len(Text) \in Nat /\ (Text = <<>> <=> Len(Text) = 0)
      BY <1>4, SequenceFacts
<1>6. QED
      BY <1>1, <1>2, <1>3, <1>4, <1>5

LEMMA Advanced ==
    ASSUME ControlInv, ~AtEnd, Advance, document' = document
    PROVE  /\ page' \in 1..(Len(document) + 1) /\ part' \in Nat \ {0} /\ page <= page'
           /\ IF AtEnd' THEN part' = 1 ELSE part' \in DOMAIN document'[page']
           /\ \A p \in DOMAIN document : \A q \in DOMAIN document[p] :
                 IsRead(p, q)' => IsRead(p, q) \/ (p = page /\ q = part)
<1>1. /\ page \in 1..Len(document) /\ part \in 1..Len(document[page])
      /\ Len(document) \in Nat /\ Len(document[page]) \in Nat
      /\ \A p \in DOMAIN document : DOMAIN document[p] = 1..Len(document[p])
      /\ \A p \in 1..Len(document) : Len(document[p]) \in Nat \ {0}
      /\ DOMAIN document = 1..Len(document)
      BY ControlFacts, CurrentText
<1>2. CASE part < Len(document[page])
  <2>1. page' = page /\ part' = part + 1
        BY <1>2 DEF Advance
  <2>2. part' \in DOMAIN document'[page'] /\ ~AtEnd'
        BY <1>1, <1>2, <2>1 DEF AtEnd
  <2>3. QED
        BY <1>1, <1>2, <2>1, <2>2 DEF IsRead
<1>3. CASE ~(part < Len(document[page]))
  <2>1. page' = page + 1 /\ part' = 1
        BY <1>3 DEF Advance
  <2>2. part = Len(document[page])
        BY <1>1, <1>3
  <2>3. IF AtEnd' THEN part' = 1 ELSE part' \in DOMAIN document'[page']
    <3>1. ASSUME ~AtEnd' PROVE 1 \in DOMAIN document[page + 1]
      <4>1. page + 1 \in 1..Len(document)
            BY <1>1, <2>1, <3>1 DEF AtEnd
      <4>2. Len(document[page + 1]) \in Nat \ {0} /\ DOMAIN document[page + 1] = 1..Len(document[page + 1])
            BY <1>1, <4>1
      <4>3. QED
            BY <4>2
    <3>2. QED
          BY <2>1, <3>1
  <2>4. \A p \in DOMAIN document : \A q \in DOMAIN document[p] :
            IsRead(p, q)' => IsRead(p, q) \/ (p = page /\ q = part)
    <3> SUFFICES ASSUME NEW p \in DOMAIN document, NEW q \in DOMAIN document[p], IsRead(p, q)'
                 PROVE  IsRead(p, q) \/ (p = page /\ q = part)
        OBVIOUS
    <3>1. p \in 1..Len(document) /\ q \in 1..Len(document[p]) /\ Len(document[p]) \in Nat
          BY <1>1
    <3>2. p < page + 1 \/ (p = page + 1 /\ q < 1)
          BY <2>1 DEF IsRead
    <3>3. p < page \/ p = page
          BY <1>1, <3>1, <3>2
    <3>4. CASE p = page
      <4>1. q < part \/ q = part
            BY <2>2, <3>1, <3>4
      <4>2. QED
            BY <3>4, <4>1 DEF IsRead
    <3>5. QED
          BY <3>3, <3>4 DEF IsRead
  <2>5. QED
        BY <1>1, <2>1, <2>3, <2>4
<1>4. QED
      BY <1>2, <1>3

\* The text of a part is taken up.
LEMMA TextJoins ==
    ASSUME ControlInv, BodyInv, ~AtEnd, Text # <<>>, body' = Joined(body, Text),
           last' = page, first' = first \/ first' = page, body # <<>> => first' = first,
           strategy' = strategy
    PROVE  /\ IsSequence(body') /\ BodyInv'
           /\ Len(body') = (IF body = <<>> THEN 0 ELSE Len(body) + 2) + Len(Text)
           /\ first' \in 1..last' /\ last' \in 1..Len(document)
<1>1. /\ page \in Nat \ {0} /\ first \in Nat \ {0} /\ last \in Nat \ {0} /\ first <= page /\ last <= page
      /\ Len(body) \in Nat /\ Len(document) \in Nat /\ page \in 1..Len(document)
      BY ControlFacts, CurrentText
<1>2. first' \in 1..last' /\ last' \in 1..Len(document)
      BY <1>1
<1>3. /\ IsSequence(Text) /\ Len(Text) \in Nat \ {0}
      /\ \A i \in 1..Len(Text) : Text[i].page = page
      /\ Seen(Text[Len(Text)])
  <2>1. /\ IsSequence(Text) /\ Len(Text) \in Nat \ {0} /\ Seen(Text[Len(Text)])
        /\ \A i \in 1..Len(Text) :
              Text[i] = [ch |-> Current.text[i], page |-> page, part |-> part, at |-> i]
        BY CurrentText
  <2>2. ASSUME NEW i \in 1..Len(Text) PROVE Text[i].page = page
    <3>1. Text[i] = [ch |-> Current.text[i], page |-> page, part |-> part, at |-> i]
          BY <2>1
    <3>2. QED
          BY <3>1
  <2>3. QED
        BY <2>1, <2>2
<1>4. CASE body = <<>>
  <2>1. body' = Text
        BY <1>4, JoinedToNothing
  <2>2. \A i \in DOMAIN body' : IsNamed(body[i])'
    <3>1. DOMAIN body' = 1..Len(Text)
          BY <1>3, <2>1, SequenceFacts
    <3>2. ASSUME NEW i \in 1..Len(Text) PROVE IsNamed(body[i])'
          BY <1>1, <1>2, <1>3, <2>1 DEF IsNamed
    <3>3. QED
          BY <3>1, <3>2
  <2>3. Len(body') = 0 + Len(Text)
        BY <1>3, <2>1
  <2>4. BodyInv'
    <3>1. Seen(body'[Len(body')]) /\ body'[Len(body')].page = last'
      <4>1. Len(Text) \in 1..Len(Text)
            BY <1>3
      <4>2. QED
            BY <1>3, <2>1, <4>1
    <3>2. QED
          BY <2>2, <3>1 DEF BodyInv, Seen
  <2>5. QED
        BY <1>2, <1>3, <1>4, <2>1, <2>3, <2>4
<1>5. CASE body # <<>>
  <2>1. /\ IsSequence(body') /\ Len(body') = Len(body) + 2 + Len(Text)
        /\ \A i \in 1..Len(body) : body'[i] = body[i]
        /\ body'[Len(body) + 1] = Newline /\ body'[Len(body) + 2] = Newline
        /\ \A i \in (Len(body) + 3)..(Len(body) + 2 + Len(Text)) : body'[i] = Text[i - Len(body) - 2]
        BY SMTT(20), <1>3, <1>5, JoinedText DEF ControlInv
  <2>2. ASSUME NEW i \in 1..Len(body') PROVE IsNamed(body[i])'
    <3>1. CASE i \in 1..Len(body)
      <4>1. IsNamed(body[i])
            BY <3>1, ControlFacts DEF BodyInv
      <4>2. body'[i] = body[i] /\ first' = first
            BY <1>5, <2>1, <3>1
      <4>3. QED
            BY <1>1, <4>1, <4>2 DEF IsNamed, Seen
    <3>2. CASE i \in {Len(body) + 1, Len(body) + 2}
      <4>1. body'[i] = Newline
            BY <2>1, <3>2
      <4>2. QED
            BY <1>1, <4>1, NewlineIsUnseen DEF IsNamed, Seen
    <3>3. CASE i \in (Len(body) + 3)..(Len(body) + 2 + Len(Text))
      <4>1. i - Len(body) - 2 \in 1..Len(Text)
            BY <1>1, <1>3, <3>3
      <4>2. body'[i].page = page
            BY <1>3, <2>1, <3>3, <4>1
      <4>3. QED
            BY <1>1, <1>2, <4>2 DEF IsNamed, Seen
    <3>4. QED
          BY <1>1, <1>3, <2>1, <3>1, <3>2, <3>3
  <2>3. Seen(body'[Len(body')]) /\ body'[Len(body')].page = last'
    <3>1. /\ Len(body') \in (Len(body) + 3)..(Len(body) + 2 + Len(Text))
          /\ Len(body') - Len(body) - 2 = Len(Text) /\ Len(Text) \in 1..Len(Text)
          BY <1>1, <1>3, <2>1
    <3>2. body'[Len(body')] = Text[Len(Text)]
          BY <2>1, <3>1
    <3>3. QED
          BY <1>3, <3>1, <3>2
  <2>4. DOMAIN body' = 1..Len(body')
        BY <2>1, SequenceFacts
  <2>5. BodyInv'
        BY <2>2, <2>3, <2>4 DEF BodyInv, Seen, IsNamed
  <2>6. QED
        BY <1>2, <1>5, <2>1, <2>5
<1>6. QED
      BY <1>4, <1>5

\* Where the pages begin, as long as the window is the same.
LEMMA TurnStands ==
    ASSUME TurnInv, UNCHANGED <<document, strategy, body, first, last, halved>>,
           stage' = "split" => stage = "split", page' = page
    PROVE  TurnInv'
BY DEF TurnInv, FirstInv, LastInv, NextInv, Begins, Shape, EndsBefore, NextTo, Seen

LEMMA StepContinue == ASSUME PagesInv, Continue PROVE PagesInv'
<1> USE DEF PagesInv
<1>1. /\ stage = "read" /\ strategy = "headers" /\ ~AtEnd /\ Advance
      /\ body' = IF Text = <<>> THEN body ELSE Joined(body, Text)
      /\ first' = IF Text # <<>> /\ body = <<>> /\ ~HeadersOn(page) THEN page ELSE first
      /\ last' = IF Text = <<>> THEN last ELSE page
      /\ UNCHANGED <<document, strategy, stage, title, chunks, halved>>
      BY DEF Continue
<1>2. /\ page' \in 1..(Len(document) + 1) /\ part' \in Nat \ {0} /\ page <= page'
      /\ IF AtEnd' THEN part' = 1 ELSE part' \in DOMAIN document'[page']
      BY <1>1, Advanced
<1>3. /\ page \in Nat /\ page' \in Nat /\ last \in Nat /\ last <= page
      BY <1>2, ControlFacts
<1>4. /\ IsSequence(body') /\ BodyInv' /\ first' \in 1..last' /\ last' \in 1..Len(document)
      /\ last' <= page
  <2>1. CASE Text = <<>>
    <3>1. body' = body /\ first' = first /\ last' = last
          BY <1>1, <2>1
    <3>2. QED
          BY <1>1, <1>3, <3>1 DEF ControlInv, BodyInv, IsNamed, Seen
  <2>2. CASE Text # <<>>
        BY <1>1, <1>3, <2>2, TextJoins
  <2>3. QED
        BY <2>1, <2>2
<1>5. ControlInv'
  <2>1. last' <= page' /\ last' \in Nat
        BY <1>2, <1>3, <1>4
  <2>2. QED
        BY <1>1, <1>2, <1>4, <2>1 DEF ControlInv
<1>6. TurnInv' /\ PagesAreNamed'
      BY <1>1 DEF TurnInv, FirstInv, LastInv, NextInv, PagesAreNamed, BeginsAt, NextTo
<1>7. QED
      BY <1>4, <1>5, <1>6

LEMMA StepOpenSection == ASSUME PagesInv, OpenSection PROVE PagesInv'
<1> USE DEF PagesInv
<1>1. /\ stage = "read" /\ strategy = "headers" /\ ~AtEnd /\ body = <<>> /\ Advance
      /\ body' = Text /\ first' = page /\ last' = page
      /\ UNCHANGED <<document, strategy, stage, chunks, halved>>
      BY DEF OpenSection
<1>2. /\ page' \in 1..(Len(document) + 1) /\ part' \in Nat \ {0} /\ page <= page'
      /\ IF AtEnd' THEN part' = 1 ELSE part' \in DOMAIN document'[page']
      BY <1>1, Advanced
<1>3. /\ page \in Nat \ {0} /\ page' \in Nat /\ page \in DOMAIN document
      /\ DOMAIN document = 1..Len(document)
      BY <1>1, <1>2, ControlFacts, CurrentText
<1>4. IsSequence(body') /\ BodyInv'
  <2>1. CASE Text = <<>>
        BY <1>1, <2>1, NoSequence DEF BodyInv
  <2>2. CASE Text # <<>>
        BY <1>1, <1>3, <2>2, TextJoins, JoinedToNothing
  <2>3. QED
        BY <2>1, <2>2
<1>5. ControlInv'
      BY <1>1, <1>2, <1>3, <1>4 DEF ControlInv
<1>6. TurnInv' /\ PagesAreNamed'
      BY <1>1 DEF TurnInv, FirstInv, LastInv, NextInv, PagesAreNamed, BeginsAt, NextTo
<1>7. QED
      BY <1>4, <1>5, <1>6

\* The end of a section, or of a document: all that was gathered is emitted.
LEMMA AllIsEmitted ==
    ASSUME PagesInv, stage \in {"read", "split"}, Len(body) <= MaxChars, chunks' = Emitted(body),
           UNCHANGED <<document, halved>>
    PROVE  /\ PagesAreNamed' /\ IsSequence(chunks')
           /\ \A n \in DOMAIN chunks' : IsChunk(chunks'[n])
<1>1. /\ ControlInv /\ BodyInv /\ IsSequence(body)
      /\ DOMAIN body = 1..Len(body) /\ Len(body) \in Nat
      /\ first \in Nat /\ last \in Nat /\ first <= last /\ (body = <<>> <=> Len(body) = 0)
      BY ControlFacts DEF PagesInv, ControlInv
<1>2. \A i \in 1..Len(body) : IsNamed(body[i])
      BY <1>1 DEF BodyInv
<1>3. ASSUME strategy = "window", Visible(body) # {}
      PROVE  \E i \in Visible(body) : first <= body[i].page
  <2>1. PICK i \in Visible(body) : TRUE
        BY <1>3
  <2>2. Len(body) \in 1..Len(body) /\ body # <<>>
    <3>1. i \in 1..Len(body)
          BY <1>1, <2>1 DEF Visible
    <3>2. QED
          BY <1>1, <3>1
  <2>3. Seen(body[Len(body)]) /\ body[Len(body)].page = last
        BY <1>3, <2>2 DEF PagesInv, BodyInv
  <2>4. Len(body) \in Visible(body)
        BY <1>1, <2>2, <2>3 DEF Visible, Seen
  <2>5. QED
        BY <1>1, <2>3, <2>4
<1>4. QED
      BY <1>1, <1>2, <1>3, EmittedPages DEF PagesInv

LEMMA StepCloseSection == ASSUME PagesInv, CloseSection PROVE PagesInv'
<1> USE DEF PagesInv
<1>1. /\ stage = "read" /\ strategy = "headers"
      /\ UNCHANGED <<document, strategy, page, part, title, first, last, halved>>
      BY DEF CloseSection
<1>2. CASE Len(body) <= MaxChars
  <2>1. chunks' = Emitted(body) /\ body' = <<>> /\ stage' = stage
        BY <1>2 DEF CloseSection
  <2>2. /\ PagesAreNamed' /\ IsSequence(chunks')
        /\ \A n \in DOMAIN chunks' : IsChunk(chunks'[n])
        BY <1>1, <1>2, <2>1, AllIsEmitted
  <2>3. BodyInv' /\ TurnInv'
        BY <1>1, <2>1, NoSequence DEF BodyInv, TurnInv, FirstInv, LastInv, NextInv
  <2>4. ControlInv'
        BY <1>1, <2>1, <2>2, NoSequence DEF ControlInv, AtEnd, HasHeaders, HeadersOn
  <2>5. QED
        BY <2>2, <2>3, <2>4
<1>3. CASE ~(Len(body) <= MaxChars)
  <2>1. stage' = "split" /\ UNCHANGED <<chunks, body>>
        BY <1>3 DEF CloseSection
  <2>2. BodyInv' /\ PagesAreNamed'
        BY <1>1, <2>1 DEF BodyInv, IsNamed, Seen, PagesAreNamed, BeginsAt, NextTo
  <2>3. TurnInv'
        BY <1>1, <2>1 DEF TurnInv, FirstInv, LastInv, NextInv
  <2>4. ControlInv'
        BY <1>1, <2>1 DEF ControlInv, AtEnd, HasHeaders, HeadersOn
  <2>5. QED
        BY <2>2, <2>3, <2>4
<1>4. QED
      BY <1>2, <1>3

LEMMA StepEndSplit == ASSUME PagesInv, EndSplit PROVE PagesInv'
<1> USE DEF PagesInv
<1>1. /\ stage = "split" /\ Len(body) < MaxChars /\ stage' = "read"
      /\ UNCHANGED <<document, strategy, page, part, title, first, last, halved>>
      BY DEF EndSplit
<1>2. CASE strategy = "window"
  <2>1. UNCHANGED <<chunks, body>>
        BY <1>2 DEF EndSplit
  <2>2. BodyInv' /\ PagesAreNamed'
        BY <1>1, <2>1 DEF BodyInv, IsNamed, Seen, PagesAreNamed, BeginsAt, NextTo
  <2>3. TurnInv'
    <3>1. body # <<>> => stage' # "split"
          BY <1>1
    <3>2. QED
          BY <1>1, <2>1, TurnStands
  <2>4. ControlInv'
        BY <1>1, <2>1 DEF ControlInv, AtEnd, HasHeaders, HeadersOn
  <2>5. QED
        BY <2>2, <2>3, <2>4
<1>3. CASE strategy # "window"
  <2>1. chunks' = Emitted(body) /\ body' = <<>> /\ Len(body) <= MaxChars
    <3>1. Len(body) \in Nat /\ MaxChars \in Nat
          BY ControlFacts, HalfOfIt
    <3>2. QED
          BY <1>1, <1>3, <3>1 DEF EndSplit
  <2>2. /\ PagesAreNamed' /\ IsSequence(chunks')
        /\ \A n \in DOMAIN chunks' : IsChunk(chunks'[n])
        BY <1>1, <2>1, AllIsEmitted
  <2>3. BodyInv' /\ TurnInv'
        BY <1>1, <2>1, NoSequence DEF BodyInv, TurnInv, FirstInv, LastInv, NextInv
  <2>4. ControlInv'
        BY <1>1, <1>3, <2>1, <2>2, NoSequence DEF ControlInv, AtEnd, HasHeaders, HeadersOn
  <2>5. QED
        BY <2>2, <2>3, <2>4
<1>4. QED
      BY <1>2, <1>3

LEMMA StepFallBack == ASSUME PagesInv, FallBack PROVE PagesInv'
<1> USE DEF PagesInv
<1>1. /\ stage = "read" /\ body = <<>> /\ ~HasHeaders /\ strategy' = "window"
      /\ page' = 1 /\ part' = 1 /\ first' = 1 /\ last' = 1 /\ chunks' = <<>>
      /\ UNCHANGED <<document, stage, title, body, halved>>
      BY DEF FallBack
<1>2. BodyInv' /\ TurnInv' /\ PagesAreNamed'
      BY <1>1, NoSequence DEF BodyInv, TurnInv, FirstInv, LastInv, NextInv, PagesAreNamed
<1>3. /\ Len(document) \in Nat \ {0} /\ DOMAIN document = 1..Len(document)
      /\ \A p \in DOMAIN document :
            Len(document[p]) \in Nat \ {0} /\ DOMAIN document[p] = 1..Len(document[p])
      BY ControlFacts
<1>4. /\ page' \in 1..(Len(document') + 1) /\ ~AtEnd' /\ part' \in DOMAIN document'[page']
      /\ first' \in 1..last' /\ last' \in 1..Len(document') /\ last' <= page'
  <2>1. 1 \in 1..Len(document) /\ ~(1 > Len(document))
        BY <1>3
  <2>2. 1 \in DOMAIN document[1]
        BY <1>3, <2>1
  <2>3. QED
        BY <1>1, <2>1, <2>2 DEF AtEnd
<1>5. Len(body') < MaxChars
      BY <1>1, NoSequence, HalfOfIt
<1>6. ControlInv'
      BY <1>1, <1>4, <1>5, NoSequence DEF ControlInv, HasHeaders, HeadersOn
<1>7. QED
      BY <1>2, <1>6

LEMMA StepFinish == ASSUME PagesInv, Finish PROVE PagesInv'
<1> USE DEF PagesInv
<1>1. /\ stage = "read" /\ AtEnd /\ stage' = "chunked" /\ chunks' = Emitted(body) /\ body' = <<>>
      /\ strategy = "headers" => body = <<>>
      /\ UNCHANGED <<document, strategy, page, part, title, first, last, halved>>
      BY DEF Finish
<1>2. Len(body) <= MaxChars
      BY <1>1, ControlFacts, HalfOfIt, NoSequence DEF ControlInv
<1>3. /\ PagesAreNamed' /\ IsSequence(chunks')
      /\ \A n \in DOMAIN chunks' : IsChunk(chunks'[n])
      BY <1>1, <1>2, AllIsEmitted
<1>4. BodyInv' /\ TurnInv'
      BY <1>1, NoSequence DEF BodyInv, TurnInv, FirstInv, LastInv, NextInv
<1>5. ControlInv'
      BY <1>1, <1>3, NoSequence DEF ControlInv, AtEnd, HasHeaders, HeadersOn
<1>6. QED
      BY <1>3, <1>4, <1>5

\* A document that the window goes over has one part to a page.
LEMMA OnePartOnly ==
    ASSUME ControlInv, strategy = "window", ~AtEnd, Advance
    PROVE  DOMAIN document[page] = {part} /\ page' = page + 1
<1>1. /\ page \in DOMAIN document /\ part \in DOMAIN document[page] /\ Len(document[page]) \in Nat \ {0}
      /\ DOMAIN document[page] = 1..Len(document[page])
      BY ControlFacts, CurrentText
<1>2. ~(Len(document[page]) > 1)
      BY <1>1 DEF ControlInv, HasHeaders, HeadersOn
<1>3. Len(document[page]) = 1 /\ part = 1
      BY <1>1, <1>2
<1>4. QED
      BY <1>1, <1>3 DEF Advance

LEMMA NothingBetween ==
    ASSUME NEW p \in Nat, NEW q \in Nat, NextTo(p, q), DOMAIN document[q] = {part}, document[q][part].text = <<>>
    PROVE  NextTo(p, q + 1)
<1> SUFFICES ASSUME NEW r \in (p + 1)..((q + 1) - 1), NEW n \in DOMAIN document[r]
             PROVE  document[r][n].text = <<>>
    BY DEF NextTo
<1>1. r = q \/ r \in (p + 1)..(q - 1)
      OBVIOUS
<1>2. QED
      BY <1>1 DEF NextTo

LEMMA StepWiden == ASSUME PagesInv, Widen PROVE PagesInv'
<1> USE DEF PagesInv
<1>1. /\ stage = "read" /\ strategy = "window" /\ ~AtEnd /\ Advance
      /\ UNCHANGED <<document, strategy, title, chunks>>
      /\ halved' = IF Text # <<>> /\ Len(body) = MaxChars - 1 THEN halved \cup {page} ELSE halved
      BY DEF Widen
<1>2. /\ page' \in 1..(Len(document) + 1) /\ part' \in Nat \ {0} /\ page' = page + 1
      /\ IF AtEnd' THEN part' = 1 ELSE part' \in DOMAIN document'[page']
      BY <1>1, Advanced, OnePartOnly
<1>3. /\ page \in Nat /\ page' \in Nat /\ first \in Nat \ {0} /\ last \in Nat \ {0} /\ last <= page
      /\ first <= last /\ Len(body) \in Nat /\ (body = <<>> <=> Len(body) = 0) /\ Len(body) < MaxChars
      /\ MaxChars \in Nat /\ MaxChars > 4 /\ Half \in Nat
      BY <1>1, <1>2, ControlFacts, HalfOfIt DEF ControlInv
<1>4. PagesAreNamed' /\ halved \subseteq halved'
      BY <1>1 DEF PagesAreNamed, BeginsAt, NextTo
<1>5. CASE Text = <<>>
  <2>1. UNCHANGED <<stage, body, first, last, halved>>
        BY <1>1, <1>5 DEF Widen
  <2>2. BodyInv'
        BY <1>1, <2>1 DEF BodyInv, IsNamed, Seen
  <2>3. ASSUME body # <<>> PROVE last < page + 1 /\ NextTo(last, page + 1)
    <3>1. last < page /\ NextTo(last, page)
          BY <1>1, <2>3 DEF TurnInv, NextInv
    <3>2. document[page][part].text = <<>>
      <4>1. Len(Current.text) = 0 /\ IsText(Current.text)
            BY <1>1, <1>5, CurrentText
      <4>2. QED
            BY <4>1, SequenceFacts DEF Current, IsText
    <3>3. QED
          BY <1>1, <1>3, <3>1, <3>2, OnePartOnly, NothingBetween
  <2>4. TurnInv'
    <3>1. FirstInv'
          BY <1>1, <2>1 DEF TurnInv, FirstInv, Begins, Shape, EndsBefore, NextTo, Seen
    <3>2. LastInv'
          BY <1>1, <2>1 DEF LastInv
    <3>3. NextInv'
          BY <1>1, <1>2, <2>1, <2>3 DEF NextInv, NextTo
    <3>4. QED
          BY <3>1, <3>2, <3>3 DEF TurnInv
  <2>5. last' <= page'
        BY <1>2, <1>3, <2>1
  <2>6. ControlInv'
        BY <1>1, <1>2, <2>1, <2>5 DEF ControlInv, HasHeaders, HeadersOn
  <2>7. QED
        BY <1>4, <2>2, <2>4, <2>6
<1>6. CASE Text # <<>>
  <2>1. /\ body' = Joined(body, Text) /\ stage' = "split" /\ last' = page
        /\ first' = IF body = <<>> THEN page ELSE first
        BY <1>6 DEF Widen
  <2>2. /\ IsSequence(body') /\ BodyInv' /\ first' \in 1..last' /\ last' \in 1..Len(document)
        /\ Len(body') = (IF body = <<>> THEN 0 ELSE Len(body) + 2) + Len(Text)
        BY <1>1, <1>6, <2>1, TextJoins
  <2>3. last' <= page'
        BY <1>2, <1>3, <2>1
  <2>4. ControlInv'
        BY <1>1, <1>2, <2>1, <2>2, <2>3 DEF ControlInv, HasHeaders, HeadersOn
  <2>5. NextInv'
    <3>1. last' < page' /\ (last' + 1)..(page' - 1) = {}
          BY <1>2, <1>3, <2>1
    <3>2. QED
          BY <3>1 DEF NextInv, NextTo
  <2>6. /\ IsSequence(Text) /\ Len(Text) \in Nat \ {0} /\ Seen(Text[1])
        /\ \A i \in 1..Len(Text) :
              Text[i] = [ch |-> Current.text[i], page |-> page, part |-> part, at |-> i]
        BY <1>1, <1>6, CurrentText
  <2>7. \A i \in 1..Len(Text) : Text[i].page = page
    <3> SUFFICES ASSUME NEW i \in 1..Len(Text) PROVE Text[i].page = page
        OBVIOUS
    <3>1. Text[i] = [ch |-> Current.text[i], page |-> page, part |-> part, at |-> i]
          BY <2>6
    <3>2. QED
          BY <3>1
  <2>8. CASE body = <<>>
    <3>1. body' = Text /\ first' = page
          BY <2>1, <2>8, JoinedToNothing
    <3>2. 0 \in 0..(Len(body') - 1) /\ 0 <= Half + 2 /\ 0 \in 0..MaxChars /\ 0 \in 0..(MaxChars + 1)
          BY <1>3, <2>6, <3>1
    <3>3. Begins(0, last)'
      <4>1. \A i \in (0 + 1)..Len(body') : page <= body'[i].page
        <5> SUFFICES ASSUME NEW i \in (0 + 1)..Len(body') PROVE page <= body'[i].page
            OBVIOUS
        <5>1. i \in 1..Len(Text)
              BY <2>6, <3>1
        <5>2. body'[i].page = page
              BY <2>7, <3>1, <5>1
        <5>3. QED
              BY <1>3, <5>2
      <4>2. QED
            BY <2>1, <3>2, <4>1 DEF Begins, Shape
    <3>4. FirstInv' /\ LastInv'
          BY <1>3, <2>1, <3>1, <3>2, <3>3 DEF FirstInv, LastInv, Begins, Shape, EndsBefore
    <3>5. QED
          BY <1>4, <2>2, <2>4, <2>5, <3>4 DEF TurnInv
  <2>9. CASE body # <<>>
    <3>1. /\ \A i \in 1..Len(body) : body'[i] = body[i]
          /\ body'[Len(body) + 1] = Newline /\ body'[Len(body) + 2] = Newline
          /\ \A i \in 1..Len(Text) : body'[Len(body) + 2 + i] = Text[i]
          /\ \A i \in (Len(body) + 3)..(Len(body) + 2 + Len(Text)) : body'[i] = Text[i - Len(body) - 2]
          BY SMTT(20), <2>1, <2>6, <2>9, JoinedText DEF ControlInv
    <3>2. PICK m \in Nat, n \in Nat \ {0} : m = Len(body) /\ n = Len(Text) /\ m > 0
          BY <1>3, <2>6, <2>9
    <3>3. Len(body') = m + 2 + n /\ m < MaxChars /\ last < page /\ NextTo(last, page)
          BY <1>1, <1>3, <2>2, <2>9, <3>2 DEF TurnInv, NextInv
    <3>4. \A i \in (m + 3)..Len(body') : body'[i].page = page
      <4> SUFFICES ASSUME NEW i \in (m + 3)..Len(body') PROVE body'[i].page = page
          OBVIOUS
      <4>1. i \in (m + 3)..(m + 2 + n) /\ i - m - 2 \in 1..n
            BY <3>2, <3>3
      <4>2. body'[i] = Text[i - m - 2]
            BY <3>1, <3>2, <4>1
      <4>3. QED
            BY <2>7, <3>2, <4>1, <4>2
    <3>5. FirstInv'
      <4>1. PICK k \in 0..MaxChars : Begins(k, first) /\ (k > Half + 2 => first \in halved)
            BY <1>1, <2>9 DEF TurnInv, FirstInv
      <4>2. /\ k \in 0..(m - 1) /\ Shape(k)
            /\ \A i \in (k + 1)..m : body[i].page = 0 \/ first <= body[i].page
            /\ k <= Half + 2 \/ EndsBefore(k, first)
            BY <3>2, <4>1 DEF Begins
      <4>3. \A i \in 1..m : body'[i] = body[i]
            BY <3>1, <3>2
      <4>4. Shape(k)'
            BY <4>2, <4>3 DEF Shape, Seen
      <4>5. ASSUME NEW i \in (k + 1)..Len(body') PROVE body'[i].page = 0 \/ first <= body'[i].page
        <5>1. i \in (k + 1)..m \/ i \in {m + 1, m + 2} \/ i \in (m + 3)..Len(body')
              BY <3>2, <3>3, <4>2
        <5>2. CASE i \in (k + 1)..m
          <6>1. i \in 1..m
                BY <4>2, <5>2
          <6>2. QED
                BY <4>2, <4>3, <5>2, <6>1
        <5>3. CASE i \in {m + 1, m + 2}
              BY <3>1, <3>2, <5>3, NewlineIsUnseen
        <5>4. CASE i \in (m + 3)..Len(body')
              BY <1>3, <3>4, <5>4
        <5>5. QED
              BY <5>1, <5>2, <5>3, <5>4
      <4>6. k \in 0..(Len(body') - 1)
            BY <3>2, <3>3, <4>2
      <4>7. k <= Half + 2 \/ EndsBefore(k, first)'
        <5>1. ASSUME EndsBefore(k, first) PROVE EndsBefore(k, first)'
          <6>1. k > 2 /\ k - 2 \in 1..m
                BY <4>2, <5>1 DEF EndsBefore
          <6>2. body'[k - 2] = body[k - 2] /\ first' = first
                BY <2>1, <2>9, <4>3, <6>1
          <6>3. QED
                BY <1>1, <5>1, <6>2 DEF EndsBefore, NextTo, Seen
        <5>2. QED
              BY <4>2, <5>1
      <4>8. Begins(k, first)' /\ (k > Half + 2 => first' \in halved')
            BY <1>4, <2>1, <2>9, <4>1, <4>4, <4>5, <4>6, <4>7 DEF Begins
      <4>9. QED
            BY <4>8 DEF FirstInv
    <3>6. LastInv'
      <4>1. PICK k \in 0..(MaxChars + 1) : k = m + 2
            BY <1>3, <3>2, <3>3
      <4>2. k \in 0..(Len(body') - 1) /\ k > 2 /\ k - 2 = m /\ k - 1 = m + 1 /\ k + 1 = m + 3
            BY <3>2, <3>3, <4>1
      <4>3. Shape(k)'
        <5>1. 1 \in 1..Len(Text) /\ Len(body) + 2 + 1 = k + 1
              BY <3>2, <4>1
        <5>2. body'[k + 1] = Text[1]
              BY <3>1, <5>1
        <5>3. body'[k] = Newline /\ body'[k - 1] = Newline
              BY <3>1, <3>2, <4>1, <4>2
        <5>4. QED
              BY <2>6, <5>2, <5>3, NewlineIsUnseen DEF Shape, Seen
      <4>4. EndsBefore(k, last)'
        <5>1. Seen(body[m]) /\ body[m].page = last
              BY <1>1, <2>9, <3>2 DEF BodyInv
        <5>2. body'[k - 2] = body[m]
              BY <3>1, <3>2, <4>2
        <5>3. QED
              BY <1>1, <2>1, <3>3, <4>2, <5>1, <5>2 DEF EndsBefore, NextTo, Seen
      <4>5. \A i \in (k + 1)..Len(body') : last' <= body'[i].page
            BY <1>3, <2>1, <3>4, <4>2
      <4>6. k = MaxChars + 1 => last' \in halved'
        <5>1. k = MaxChars + 1 => Len(body) = MaxChars - 1
              BY <1>3, <3>2, <4>1
        <5>2. QED
              BY <1>1, <1>6, <2>1, <5>1
      <4>7. QED
            BY <4>2, <4>3, <4>4, <4>5, <4>6 DEF LastInv, Begins
    <3>7. QED
          BY <1>4, <2>2, <2>4, <2>5, <3>5, <3>6 DEF TurnInv
  <2>10. QED
        BY <2>8, <2>9
<1>7. QED
      BY <1>5, <1>6

\* What a cut takes and what it leaves.
LEMMA CutInTwo ==
    ASSUME ControlInv, CutPiece
    PROVE  \E cut \in (Half + 1)..MaxChars :
              /\ cut = SplitPoint(body) /\ chunks' = Emitted(SubSeq(body, 1, cut))
              /\ IsSequence(SubSeq(body, 1, cut)) /\ Len(SubSeq(body, 1, cut)) = cut
              /\ \A i \in 1..cut : SubSeq(body, 1, cut)[i] = body[i]
              /\ cut <= Len(body) /\ cut - Overlap \in 1..Len(body)
              /\ IsSequence(body') /\ Len(body') = Len(body) - (cut - Overlap)
              /\ \A i \in 1..Len(body') : body'[i] = body[cut - Overlap + i]
<1>1. /\ Len(body) >= MaxChars /\ chunks' = Emitted(SubSeq(body, 1, SplitPoint(body)))
      /\ body' = SubSeq(body, Slide(SplitPoint(body)) + 1, Len(body))
      BY DEF CutPiece
<1>2. SplitPoint(body) \in (Half + 1)..MaxChars
      BY <1>1, WhereToCut DEF ControlInv
<1>3. PICK cut \in (Half + 1)..MaxChars : cut = SplitPoint(body)
      BY <1>2
<1>4. /\ IsSequence(body) /\ Len(body) \in Nat /\ MaxChars \in Nat /\ Half \in Nat
      /\ Overlap \in Nat /\ Overlap <= Half
      BY ControlFacts, HalfOfIt DEF ControlInv
<1>5. /\ cut <= Len(body) /\ cut \in Nat /\ cut - Overlap \in 1..Len(body)
      /\ 1 \in 1..(Len(body) + 1) /\ cut \in (1 - 1)..Len(body) /\ cut - 1 + 1 = cut
      BY <1>1, <1>4
<1>6. /\ IsSequence(SubSeq(body, 1, cut)) /\ Len(SubSeq(body, 1, cut)) = cut - 1 + 1
      /\ \A i \in 1..(cut - 1 + 1) : SubSeq(body, 1, cut)[i] = body[1 + i - 1]
      BY <1>4, <1>5, Sliced
<1>7. body' = SubSeq(body, cut - Overlap + 1, Len(body))
      BY <1>1, <1>3, SlideBack
<1>8. /\ cut - Overlap + 1 \in 1..(Len(body) + 1)
      /\ Len(body) \in (cut - Overlap + 1 - 1)..Len(body)
      BY <1>4, <1>5
<1>9. PICK m : m = cut - Overlap + 1
      OBVIOUS
<1>10. /\ IsSequence(body') /\ Len(body') = Len(body) - m + 1
       /\ \A i \in 1..(Len(body) - m + 1) : body'[i] = body[m + i - 1]
  <2>1. m \in 1..(Len(body) + 1) /\ Len(body) \in (m - 1)..Len(body) /\ body' = SubSeq(body, m, Len(body))
        BY <1>7, <1>8, <1>9
  <2>2. QED
        BY <1>4, <2>1, Sliced
<1>11. /\ Len(body') = Len(body) - (cut - Overlap)
       /\ \A i \in 1..Len(body') : body'[i] = body[cut - Overlap + i]
  <2>1. Len(body) - m + 1 = Len(body) - (cut - Overlap)
        BY <1>4, <1>5, <1>9
  <2>2. \A i \in 1..Len(body') : m + i - 1 = cut - Overlap + i
        BY <1>4, <1>5, <1>9, <1>10
  <2>3. QED
        BY <1>10, <2>1, <2>2
<1>12. \A i \in 1..cut : SubSeq(body, 1, cut)[i] = body[i]
  <2>1. \A i \in 1..cut : 1 + i - 1 = i
        BY <1>5
  <2>2. QED
        BY <1>5, <1>6, <2>1
<1>13. QED
       BY <1>1, <1>3, <1>5, <1>6, <1>10, <1>11, <1>12

\* The next piece goes beyond the first character of a page that begins early,
\* and up to the last character before a page whose break can be seen.
LEMMA PageIsReached ==
    ASSUME IsSequence(body), Len(body) >= MaxChars, NEW k \in 1..MaxChars, NEW p, Begins(k, p)
    PROVE  \/ k <= Half + 2 /\ k + 1 <= SplitPoint(body)
           \/ k > Half + 2 /\ EndsBefore(k, p) /\ k - 2 \in 1..SplitPoint(body)
<1>1. /\ MaxChars \in Nat /\ MaxChars > 4 /\ Half \in Nat /\ 2 * Half <= MaxChars
      /\ MaxChars <= 2 * Half + 1
      BY HalfOfIt
<1>2. PICK cut \in (Half + 1)..MaxChars :
         /\ cut = SplitPoint(body)
         /\ \A n \in 1..(MaxChars - 1) :
               body[n].ch = "newline" /\ body[n + 1].ch = "newline" /\ n - 1 > Half => n - 1 <= cut
         /\ \/ cut = MaxChars
            \/ cut > Half + 1 /\ Seen(body[cut])
            \/ cut + 2 <= MaxChars /\ body[cut + 1].ch = "newline" /\ body[cut + 2].ch = "newline"
      BY WhereToCut
<1>3. /\ body[k].ch = "newline" /\ Seen(body[k + 1]) /\ (k > 1 => body[k - 1].ch = "newline")
      /\ k <= Half + 2 \/ EndsBefore(k, p)
      BY DEF Begins, Shape
<1>4. body[k + 1].ch # "newline" /\ ~Seen(body[k])
      BY <1>3 DEF Seen, Whitespace
<1>5. CASE k <= Half + 2
  <2>1. CASE cut = MaxChars
        BY <1>1, <1>2, <1>5, <2>1
  <2>2. CASE cut > Half + 1 /\ Seen(body[cut])
    <3>1. cut # k
          BY <1>4, <2>2
    <3>2. QED
          BY <1>1, <1>2, <1>5, <2>2, <3>1
  <2>3. CASE cut + 2 <= MaxChars /\ body[cut + 1].ch = "newline" /\ body[cut + 2].ch = "newline"
    <3>1. cut + 1 # k + 1 /\ cut + 2 # k + 1
          BY <1>4, <2>3
    <3>2. k + 1 <= cut
          BY <1>1, <1>2, <1>5, <3>1
    <3>3. QED
          BY <1>2, <1>5, <3>2
  <2>4. QED
        BY <1>2, <2>1, <2>2, <2>3
<1>6. CASE k > Half + 2
  <2>1. k - 1 \in 1..(MaxChars - 1) /\ k - 1 + 1 = k /\ k - 1 - 1 > Half /\ k > 1 /\ k - 1 - 1 = k - 2
        BY <1>1, <1>6
  <2>2. k - 2 <= cut
        BY <1>2, <1>3, <2>1
  <2>3. QED
        BY <1>1, <1>2, <1>3, <1>6, <2>1, <2>2
<1>7. QED
      BY <1>1, <1>5, <1>6

LEMMA StepCutPiece == ASSUME PagesInv, CutPiece PROVE PagesInv'
<1> USE DEF PagesInv
<1>1. /\ stage = "split" /\ Len(body) >= MaxChars
      /\ first' = IF strategy = "window" THEN last ELSE first
      /\ UNCHANGED <<document, strategy, stage, page, part, title, last, halved>>
      BY DEF CutPiece
<1>2. PICK cut \in (Half + 1)..MaxChars :
         /\ cut = SplitPoint(body) /\ chunks' = Emitted(SubSeq(body, 1, cut))
         /\ IsSequence(SubSeq(body, 1, cut)) /\ Len(SubSeq(body, 1, cut)) = cut
         /\ \A i \in 1..cut : SubSeq(body, 1, cut)[i] = body[i]
         /\ cut <= Len(body) /\ cut - Overlap \in 1..Len(body)
         /\ IsSequence(body') /\ Len(body') = Len(body) - (cut - Overlap)
         /\ \A i \in 1..Len(body') : body'[i] = body[cut - Overlap + i]
      BY CutInTwo
<1>3. /\ IsSequence(body) /\ Len(body) \in Nat \ {0} /\ DOMAIN body = 1..Len(body) /\ body # <<>>
      /\ first \in Nat \ {0} /\ last \in Nat \ {0} /\ first <= last
      /\ MaxChars \in Nat \ {0} /\ MaxChars > 4 /\ Half \in Nat /\ 2 * Half <= MaxChars /\ MaxChars <= 2 * Half + 1
      /\ Overlap \in Nat /\ Overlap <= Half
      BY <1>1, ControlFacts, HalfOfIt DEF ControlInv
<1>4. \A i \in 1..Len(body) : IsNamed(body[i])
      BY <1>3 DEF BodyInv
<1>5. \A i \in 1..Len(body) : Seen(body[i]) => body[i].page # 0
      BY <1>4 DEF IsNamed
<1>6. ASSUME strategy = "window", NEW k \in 1..MaxChars, NEW p, Begins(k, p)
      PROVE  \/ k <= Half + 2 /\ k + 1 <= cut
             \/ k > Half + 2 /\ EndsBefore(k, p) /\ k - 2 \in 1..cut
      BY <1>1, <1>2, <1>3, <1>6, PageIsReached DEF ControlInv
\* The page named first is that of a character of the piece, or the next one.
<1>7. ASSUME strategy = "window", NEW j \in 1..cut, Seen(body[j])
      PROVE  \E i \in 1..cut :
                /\ Seen(body[i])
                /\ first <= body[i].page \/ (first \in halved /\ NextTo(body[i].page, first))
  <2>1. PICK k \in 0..MaxChars : Begins(k, first) /\ (k > Half + 2 => first \in halved)
        BY <1>3, <1>7 DEF TurnInv, FirstInv
  <2>2. CASE k = 0
    <3>1. j \in (k + 1)..Len(body) /\ j \in 1..Len(body)
          BY <1>2, <1>3, <2>2
    <3>2. first <= body[j].page
          BY <1>5, <1>7, <2>1, <3>1 DEF Begins
    <3>3. QED
          BY <1>7, <3>2
  <2>3. CASE k \in 1..MaxChars /\ k + 1 <= cut
    <3>1. k + 1 \in 1..cut /\ k + 1 \in 1..Len(body) /\ k + 1 \in (k + 1)..Len(body)
          BY <1>2, <1>3, <2>3
    <3>2. Seen(body[k + 1])
          BY <2>1, <2>3 DEF Begins, Shape
    <3>3. first <= body[k + 1].page
          BY <1>5, <2>1, <3>1, <3>2 DEF Begins
    <3>4. QED
          BY <3>1, <3>2, <3>3
  <2>4. CASE k \in 1..MaxChars /\ ~(k + 1 <= cut)
    <3>1. k > Half + 2 /\ EndsBefore(k, first) /\ k - 2 \in 1..cut
          BY <1>6, <1>7, <2>1, <2>4
    <3>2. QED
          BY <2>1, <3>1 DEF EndsBefore
  <2>5. QED
        BY <1>3, <2>1, <2>2, <2>3, <2>4
<1>8. /\ PagesAreNamed' /\ IsSequence(chunks')
      /\ \A n \in DOMAIN chunks' : IsChunk(chunks'[n])
  <2> PICK piece : piece = SubSeq(body, 1, cut)
      OBVIOUS
  <2>1. /\ IsSequence(piece) /\ Len(piece) = cut /\ DOMAIN piece = 1..cut /\ chunks' = Emitted(piece)
        /\ \A i \in 1..cut : i \in 1..Len(body) /\ piece[i] = body[i]
    <3>1. IsSequence(piece) /\ Len(piece) = cut /\ chunks' = Emitted(piece)
          BY <1>2
    <3>2. DOMAIN piece = 1..cut
          BY <3>1, SequenceFacts
    <3>3. \A i \in 1..cut : i \in 1..Len(body) /\ piece[i] = body[i]
          BY SMTT(20), <1>2, <1>3
    <3>4. QED
          BY <3>1, <3>2, <3>3
  <2>2. \A i \in 1..Len(piece) : IsNamed(piece[i])
        BY <1>4, <2>1
  <2>3. ASSUME strategy = "window", Visible(piece) # {}
        PROVE  \E i \in Visible(piece) :
                  first <= piece[i].page \/ (first \in halved /\ NextTo(piece[i].page, first))
    <3>1. PICK j \in Visible(piece) : TRUE
          BY <2>3
    <3>2. j \in 1..cut /\ Seen(body[j])
          BY <2>1, <3>1 DEF Visible, Seen
    <3>3. PICK i \in 1..cut :
             /\ Seen(body[i])
             /\ first <= body[i].page \/ (first \in halved /\ NextTo(body[i].page, first))
          BY <1>7, <2>3, <3>2
    <3>4. i \in Visible(piece) /\ piece[i] = body[i]
          BY <2>1, <3>3 DEF Visible, Seen
    <3>5. QED
          BY <3>3, <3>4
  <2>4. Len(piece) <= MaxChars
        BY <1>3, <2>1
  <2>5. QED
        BY <1>1, <2>1, <2>2, <2>3, <2>4, EmittedPages
<1>9. BodyInv' /\ DOMAIN body' = 1..Len(body') /\ Len(body') \in Nat
  <2>1. DOMAIN body' = 1..Len(body') /\ Len(body') \in Nat /\ (body' = <<>> <=> Len(body') = 0)
        BY <1>2, SequenceFacts
  <2>2. ASSUME NEW i \in 1..Len(body') PROVE IsNamed(body[i])'
    <3>1. cut - Overlap + i \in 1..Len(body) /\ body'[i] = body[cut - Overlap + i]
      <4>1. cut - Overlap \in 1..Len(body) /\ Len(body') = Len(body) - (cut - Overlap)
            BY <1>2
      <4>2. cut - Overlap + i \in 1..Len(body)
            BY <1>3, <4>1
      <4>3. QED
            BY <1>2, <4>2
    <3>2. IsNamed(body[cut - Overlap + i])
          BY <1>4, <3>1
    <3>3. strategy = "headers" => first' = first
          BY <1>1
    <3>4. QED
          BY <1>1, <3>1, <3>2, <3>3 DEF IsNamed, Seen
  <2>3. ASSUME body' # <<>>
        PROVE  Seen(body'[Len(body')]) /\ (strategy = "window" => body'[Len(body')].page = last)
    <3>1. Len(body') \in 1..Len(body') /\ cut - Overlap + Len(body') = Len(body)
      <4>1. cut - Overlap \in 1..Len(body) /\ Len(body') = Len(body) - (cut - Overlap)
            BY <1>2
      <4>2. QED
            BY <1>3, <2>1, <2>3, <4>1
    <3>2. body'[Len(body')] = body[Len(body)]
          BY <1>2, <3>1
    <3>3. QED
          BY <1>3, <3>2 DEF BodyInv
  <2>4. QED
        BY <1>1, <2>1, <2>2, <2>3 DEF BodyInv, Seen
<1>10. ASSUME strategy = "window", body' # <<>>
       PROVE  \E l \in 0..MaxChars : Begins(l, last)' /\ (l > Half + 2 => last \in halved)
  <2>1. PICK k \in 0..(MaxChars + 1) : Begins(k, last) /\ (k = MaxChars + 1 => last \in halved)
        BY <1>1, <1>3, <1>10 DEF TurnInv, LastInv
  <2>2. /\ k \in 0..(Len(body) - 1) /\ Shape(k)
        /\ \A i \in (k + 1)..Len(body) : body[i].page = 0 \/ last <= body[i].page
        /\ k <= Half + 2 \/ EndsBefore(k, last)
        BY <2>1 DEF Begins
  <2>3. PICK s : s = cut - Overlap
        OBVIOUS
  <2>4. /\ s \in 1..Len(body) /\ cut = s + Overlap /\ Len(body') = Len(body) - s
        /\ \A i \in 1..Len(body') : body'[i] = body[s + i]
        BY <1>2, <1>3, <2>3
  <2>5. Len(body') \in Nat /\ Len(body') > 0
    <3>1. Len(body') # 0
          BY <1>2, <1>10, SequenceFacts
    <3>2. QED
          BY <1>9, <3>1
  <2>6. CASE k <= s
    <3>1. 0 \in 0..(Len(body') - 1) /\ 0 <= Half + 2 /\ ~(0 > Half + 2) /\ 0 \in 0..MaxChars
          BY <1>3, <2>5
    <3>2. \A i \in (0 + 1)..Len(body') : body'[i].page = 0 \/ last <= body'[i].page
      <4> SUFFICES ASSUME NEW i \in (0 + 1)..Len(body') PROVE body'[i].page = 0 \/ last <= body'[i].page
          OBVIOUS
      <4>1. s + i \in (k + 1)..Len(body) /\ i \in 1..Len(body')
            BY <1>3, <2>2, <2>4, <2>5, <2>6
      <4>2. QED
            BY <2>2, <2>4, <4>1
    <3>3. Begins(0, last)'
          BY <1>1, <3>1, <3>2 DEF Begins, Shape
    <3>4. QED
          BY <3>1, <3>3
  <2>7. CASE k > s
    <3>1. PICK l : l = k - s
          OBVIOUS
    <3>2. /\ l \in 0..(Len(body') - 1) /\ l > 0 /\ l \in 1..Len(body') /\ l + 1 \in 1..Len(body')
          /\ s + l = k /\ s + (l + 1) = k + 1 /\ l \in 0..MaxChars /\ l <= k - 1 /\ l \in Nat
          BY <1>3, <2>1, <2>2, <2>4, <2>5, <2>7, <3>1
    <3>3. \A i \in (l + 1)..Len(body') : body'[i].page = 0 \/ last <= body'[i].page
      <4> SUFFICES ASSUME NEW i \in (l + 1)..Len(body') PROVE body'[i].page = 0 \/ last <= body'[i].page
          OBVIOUS
      <4>1. i \in 1..Len(body') /\ s + i \in (k + 1)..Len(body)
            BY <1>3, <2>4, <2>5, <3>2
      <4>2. QED
            BY <2>2, <2>4, <4>1
    <3>4. Shape(l)'
      <4>1. body'[l] = body[k] /\ body'[l + 1] = body[k + 1]
            BY <2>4, <3>2
      <4>2. ASSUME l > 1 PROVE body'[l - 1] = body[k - 1] /\ k > 1
        <5>1. l - 1 \in 1..Len(body') /\ s + (l - 1) = k - 1 /\ k > 1
              BY <1>3, <2>1, <2>4, <2>5, <3>1, <3>2, <4>2
        <5>2. QED
              BY <2>4, <5>1
      <4>3. k > 0
            BY <2>4, <2>7
      <4>4. QED
            BY <2>2, <4>1, <4>2, <4>3 DEF Shape, Seen
    <3>5. \/ l <= Half + 2
          \/ EndsBefore(l, last)' /\ last \in halved
      <4>1. CASE k <= Half + 2
            BY <1>3, <2>1, <3>2, <4>1
      <4>2. CASE k > Half + 2 /\ k <= MaxChars
        <5>1. k \in 1..MaxChars
              BY <1>3, <2>1, <4>2
        <5>2. k - 2 <= cut
              BY <1>3, <1>6, <1>10, <2>1, <4>2, <5>1
        <5>3. l <= Half + 2
              BY <1>3, <2>1, <2>4, <3>2, <5>2
        <5>4. QED
              BY <5>3
      <4>3. CASE k = MaxChars + 1 /\ l > Half + 2
        <5>1. EndsBefore(k, last) /\ last \in halved
              BY <1>3, <2>1, <2>2, <4>3
        <5>2. l > 2 /\ l - 2 \in 1..Len(body') /\ s + (l - 2) = k - 2
              BY <1>3, <2>1, <2>4, <2>5, <3>2, <4>3
        <5>3. body'[l - 2] = body[k - 2]
              BY <2>4, <5>2
        <5>4. QED
              BY <1>1, <5>1, <5>2, <5>3 DEF EndsBefore, NextTo, Seen
      <4>4. QED
            BY <1>3, <2>1, <3>2, <4>1, <4>2, <4>3
    <3>6. Begins(l, last)' /\ (l > Half + 2 => last \in halved)
          BY <1>1, <1>3, <3>2, <3>3, <3>4, <3>5 DEF Begins
    <3>7. QED
          BY <3>2, <3>6
  <2>8. QED
        BY <1>3, <2>1, <2>4, <2>6, <2>7
<1>11. TurnInv'
  <2>1. FirstInv' /\ LastInv'
    <3> SUFFICES ASSUME strategy = "window", body' # <<>>
                 PROVE  \E l \in 0..MaxChars :
                           /\ l \in 0..(MaxChars + 1) /\ l # MaxChars + 1
                           /\ Begins(l, last)' /\ (l > Half + 2 => last \in halved)
        BY <1>1 DEF FirstInv, LastInv, Begins, EndsBefore
    <3>1. PICK l \in 0..MaxChars : Begins(l, last)' /\ (l > Half + 2 => last \in halved)
          BY <1>10
    <3>2. l \in 0..(MaxChars + 1) /\ l # MaxChars + 1
          BY <1>3
    <3>3. QED
          BY <3>1, <3>2
  <2>2. NextInv'
        BY <1>1, <1>3 DEF TurnInv, NextInv, NextTo
  <2>3. QED
        BY <2>1, <2>2 DEF TurnInv
<1>12. ControlInv'
  <2>1. first' \in 1..last'
        BY <1>1, <1>3
  <2>2. QED
        BY <1>1, <1>2, <1>8, <2>1 DEF ControlInv, AtEnd, HasHeaders, HeadersOn
<1>13. QED
       BY <1>8, <1>9, <1>11, <1>12

-----------------------------------------------------------------------------
(***************************************************************************)
(* No text is lost.                                                        *)
(***************************************************************************)
\* What the text has to be like, and how the numbers relate. _clean_page does
\* not collapse blanks, and a piece that is mostly blank would be dropped with
\* the little that it has; and the overlap makes up for a dropped piece only if
\* it is as long as one can be (250 against 50 in the code).
BlanksAreFew ==
    \A d \in Documents : \A p \in DOMAIN d : \A q \in DOMAIN d[p] :
        LET t == d[p][q].text IN
        \A i \in 1..(Len(t) - 2) : \E n \in i..(i + 2) : t[n] \notin Whitespace

TextHypothesis == BlanksAreFew /\ MinLength < Overlap

\* A text that is spaced and ends with a character, and is dropped, is short.
LEMMA DroppedIsShort ==
    ASSUME ControlInv, BodyInv, IsSpaced(body), ~Spread(body)
    PROVE  Len(body) <= MinLength + 1
<1> SUFFICES ASSUME Len(body) > MinLength + 1 PROVE FALSE
    BY ControlFacts, HalfOfIt
<1>1. Len(body) \in Nat /\ DOMAIN body = 1..Len(body) /\ MinLength \in Nat \ {0} /\ body # <<>>
      BY ControlFacts, HalfOfIt
<1>2. Seen(body[Len(body)]) /\ Len(body) \in Visible(body)
      BY <1>1 DEF BodyInv, Visible, Seen
<1>3. PICK i \in 1..(1 + 2) : i \in Visible(body)
  <2>1. 1 \in 1..(Len(body) - 2) /\ \A i \in 1..(1 + 2) : i \in DOMAIN body
        BY <1>1
  <2>2. PICK i \in 1..(1 + 2) : Seen(body[i])
        BY <2>1 DEF IsSpaced
  <2>3. QED
        BY <2>1, <2>2 DEF Visible, Seen
<1>4. Len(body) - i + 1 >= MinLength
      BY <1>1, <1>3
<1>5. QED
      BY <1>2, <1>3, <1>4 DEF Spread

\* What is to be emitted is in the chunks then, whether it is dropped or not.
LEMMA NothingIsDropped ==
    ASSUME PagesInv, TextInv, TextHypothesis, chunks' = Emitted(body),
           NEW c \in CharactersOf(body), IsOfLong(c)
    PROVE  Kept(c)'
<1>1. IsSequence(body) /\ IsSequence(chunks) /\ ControlInv /\ BodyInv /\ DOMAIN body = 1..Len(body)
      BY ControlFacts DEF PagesInv, ControlInv
<1>2. CASE Spread(body)
      BY <1>1, <1>2, EmittedText
<1>3. CASE ~Spread(body)
  <2>1. Overlap <= Len(body) /\ \A i \in 1..Overlap : i \in Visible(body) => Kept(body[i])
        BY <1>3 DEF TextInv, DropInv
  <2>2. Len(body) <= MinLength + 1
        BY <1>1, <1>3, DroppedIsShort DEF TextInv
  <2>3. PICK i \in Visible(body) : c = body[i]
        BY DEF CharactersOf
  <2>4. i \in 1..Len(body)
        BY <1>1, <2>3 DEF Visible
  <2>5. i \in 1..Overlap
    <3>1. Len(body) \in Nat /\ Overlap \in Nat /\ MinLength \in Nat /\ MinLength < Overlap
          BY <1>1, ControlFacts, HalfOfIt DEF TextHypothesis
    <3>2. QED
          BY <2>2, <2>4, <3>1
  <2>6. Kept(c)
        BY <2>1, <2>3, <2>5
  <2>7. QED
        BY <1>1, <2>6, EmittedText
<1>4. QED
      BY <1>2, <1>3

LEMMA ReadThenSplit ==
    ASSUME PagesInv, TextInv, TextHypothesis, chunks' = Emitted(body), body' = <<>>,
           UNCHANGED <<document, page, part>>
    PROVE  TextInv'
<1>1. IsSequence(body) /\ IsSequence(chunks)
      BY DEF PagesInv, ControlInv
<1>2. ReadInv'
  <2> SUFFICES ASSUME NEW p \in DOMAIN document, NEW q \in DOMAIN document[p],
                      IsLong(p, q), IsRead(p, q), NEW c \in CharactersOf(PartAt(p, q))
               PROVE  Kept(c)'
      BY DEF ReadInv, IsLong, IsRead, PartAt
  <2>1. Kept(c) \/ c \in CharactersOf(body)
        BY DEF TextInv, ReadInv
  <2>2. IsOfLong(c)
        BY DEF IsOfLong
  <2>3. QED
        BY <1>1, <2>1, <2>2, EmittedText, NothingIsDropped
<1>3. CharactersOf(body') = {} /\ IsSpaced(body')
      BY NoSequence DEF CharactersOf, Visible, IsSpaced
<1>4. QED
      BY <1>2, <1>3 DEF TextInv, DropInv, IsSpaced, CharactersOf, Visible

\* A text is taken up as it is, and one that is long enough will be emitted.
LEMMA TextIsTakenUp ==
    ASSUME PagesInv, TextInv, TextHypothesis, ~AtEnd, Advance,
           body' = IF Text = <<>> THEN body ELSE Joined(body, Text),
           UNCHANGED <<document, chunks>>
    PROVE  TextInv'
<1>1. /\ ControlInv /\ IsSequence(body) /\ DOMAIN body = 1..Len(body) /\ Len(body) \in Nat
      /\ (body = <<>> <=> Len(body) = 0) /\ MinLength \in Nat \ {0} /\ Overlap \in Nat
      BY ControlFacts, HalfOfIt DEF PagesInv, ControlInv
<1>2. /\ page \in DOMAIN document /\ part \in DOMAIN document[page]
      /\ Text = PartAt(page, part)
      /\ IsSequence(Text) /\ Len(Text) \in Nat /\ (Text = <<>> <=> Len(Text) = 0)
      /\ Len(Text) = Len(Current.text) /\ DOMAIN Text = 1..Len(Text)
      /\ \A i \in 1..Len(Text) :
            Text[i] = [ch |-> Current.text[i], page |-> page, part |-> part, at |-> i]
      /\ Text # <<>> => Seen(Text[1]) /\ Seen(Text[Len(Text)])
      BY <1>1, CurrentText, SequenceFacts
<1>3. IsLong(page, part) <=> Len(Text) >= MinLength
      BY <1>2 DEF IsLong, Current
<1>4. \A p \in DOMAIN document : \A q \in DOMAIN document[p] :
          IsRead(p, q)' => IsRead(p, q) \/ (p = page /\ q = part)
      BY <1>1, Advanced
<1>5. \A c : Kept(c)' <=> Kept(c)
      BY DEF Kept
<1>6. \A c \in CharactersOf(Text) : IsOfLong(c) => IsLong(page, part)
  <2> SUFFICES ASSUME NEW c \in CharactersOf(Text), IsOfLong(c) PROVE IsLong(page, part)
      OBVIOUS
  <2>1. PICK i \in DOMAIN Text : c = Text[i]
        BY DEF CharactersOf, Visible
  <2>2. c.page = page /\ c.part = part
    <3>1. c = [ch |-> Current.text[i], page |-> page, part |-> part, at |-> i]
          BY <1>2, <2>1
    <3>2. QED
          BY <3>1
  <2>3. PICK p \in DOMAIN document : \E q \in DOMAIN document[p] :
           IsLong(p, q) /\ c \in CharactersOf(PartAt(p, q))
        BY DEF IsOfLong
  <2>4. PICK q \in DOMAIN document[p] : IsLong(p, q) /\ c \in CharactersOf(PartAt(p, q))
        BY <2>3
  <2>5. PICK k \in DOMAIN document[p][q].text :
           c = [ch |-> document[p][q].text[k], page |-> p, part |-> q, at |-> k]
    <3>1. PICK k \in DOMAIN PartAt(p, q) : c = PartAt(p, q)[k]
          BY <2>4 DEF CharactersOf, Visible
    <3>2. QED
          BY <3>1 DEF PartAt, Placed
  <2>6. c.page = p /\ c.part = q
        BY <2>5
  <2>7. QED
        BY <2>2, <2>4, <2>6
<1>7. /\ IsSpaced(body')
      /\ CharactersOf(body') = CharactersOf(body) \cup CharactersOf(Text)
      /\ Spread(body) => Spread(body')
      /\ IsLong(page, part) => Spread(body')
      /\ Len(body) <= Len(body') /\ \A i \in 1..Len(body) : body'[i] = body[i]
      /\ DOMAIN body' = 1..Len(body')
  <2> DEFINE LongIn(s) == Len(Text) >= MinLength => Spread(s)
  <2>1. IsSpaced(Text) /\ LongIn(Text)
    <3>1. ASSUME NEW i \in 1..(Len(Text) - 2) PROVE \E n \in i..(i + 2) : Seen(Text[n])
      <4>1. PICK n \in i..(i + 2) : Current.text[n] \notin Whitespace
            BY <1>1, <1>2 DEF TextHypothesis, BlanksAreFew, Current, ControlInv
      <4>2. n \in 1..Len(Text)
            BY <1>2
      <4>3. Text[n] = [ch |-> Current.text[n], page |-> page, part |-> part, at |-> n]
            BY <1>2, <4>2
      <4>4. Seen(Text[n])
            BY <4>1, <4>3 DEF Seen
      <4>5. QED
            BY <4>4
    <3>2. ASSUME Len(Text) >= MinLength PROVE Spread(Text)
      <4>1. 1 \in 1..Len(Text) /\ Len(Text) \in 1..Len(Text) /\ Text # <<>>
            BY <1>1, <1>2, <3>2
      <4>2. 1 \in Visible(Text) /\ Len(Text) \in Visible(Text) /\ Len(Text) - 1 + 1 >= MinLength
            BY <1>1, <1>2, <3>2, <4>1 DEF Visible, Seen
      <4>3. QED
            BY <4>2 DEF Spread
    <3>3. QED
          BY <3>1, <3>2 DEF IsSpaced
  <2>2. CASE Text = <<>>
    <3>1. body' = body /\ CharactersOf(Text) = {} /\ ~(Len(Text) >= MinLength)
          BY <1>1, <1>2, <2>2, NoSequence DEF CharactersOf, Visible
    <3>2. QED
          BY <1>1, <1>3, <3>1 DEF TextInv
  <2>3. CASE Text # <<>> /\ body = <<>>
    <3>1. body' = Text /\ CharactersOf(body) = {} /\ ~Spread(body) /\ Len(body) = 0
          BY <2>3, JoinedToNothing, NoSequence DEF CharactersOf, Visible, Spread
    <3>2. \A i \in 1..Len(body) : body'[i] = body[i]
          BY <3>1
    <3>3. QED
          BY <1>2, <1>3, <2>1, <3>1, <3>2
  <2>4. CASE Text # <<>> /\ body # <<>>
    <3>1. /\ body' = Joined(body, Text)
          /\ IsSequence(body') /\ Len(body') = Len(body) + 2 + Len(Text)
          /\ \A i \in 1..Len(body) : body'[i] = body[i]
          /\ body'[Len(body) + 1] = Newline /\ body'[Len(body) + 2] = Newline
          /\ \A i \in 1..Len(Text) : body'[Len(body) + 2 + i] = Text[i]
          /\ \A i \in (Len(body) + 3)..(Len(body) + 2 + Len(Text)) : body'[i] = Text[i - Len(body) - 2]
      <4>1. body' = Joined(body, Text)
            BY <2>4
      <4>2. IsSequence(body) /\ IsSequence(Text) /\ body # <<>>
            BY <1>1, <1>2, <2>4
      <4>3. QED
            BY SMTT(20), <4>1, <4>2, JoinedText
    <3>2. DOMAIN body' = 1..Len(body') /\ Len(body') \in Nat
          BY <3>1, SequenceFacts
    <3>0. /\ Len(body) \in Nat \ {0} /\ Len(Text) \in Nat \ {0} /\ Len(body') = Len(body) + 2 + Len(Text)
          /\ DOMAIN body = 1..Len(body) /\ DOMAIN Text = 1..Len(Text)
          BY <1>1, <1>2, <2>4, <3>1
    <3>3. Seen(body[Len(body)])
          BY <2>4 DEF PagesInv, BodyInv
    <3>4. ASSUME NEW i \in 1..(Len(body') - 2) PROVE \E n \in i..(i + 2) : Seen(body'[n])
      <4>1. CASE i \in 1..(Len(body) - 2)
        <5>1. PICK n \in i..(i + 2) : Seen(body[n])
              BY <4>1 DEF TextInv, IsSpaced
        <5>2. n \in 1..Len(body)
              BY <3>0, <4>1
        <5>3. QED
              BY <3>1, <5>1, <5>2
      <4>2. CASE i \in {Len(body) - 1, Len(body)}
        <5>1. Len(body) \in 1..Len(body) /\ Len(body) \in i..(i + 2)
          <6>1. PICK m \in Nat \ {0} : m = Len(body)
                BY <3>0
          <6>2. i \in {m - 1, m}
                BY <4>2, <6>1
          <6>3. m \in 1..m /\ m \in i..(i + 2)
                BY <6>2
          <6>4. QED
                BY <6>1, <6>3
        <5>2. Seen(body'[Len(body)])
              BY <3>1, <3>3, <5>1
        <5>3. QED
              BY <5>1, <5>2
      <4>3. CASE i \in {Len(body) + 1, Len(body) + 2}
        <5>1. 1 \in 1..Len(Text) /\ Len(body) + 2 + 1 \in i..(i + 2)
              BY <3>0, <4>3
        <5>2. Seen(body'[Len(body) + 2 + 1])
              BY <1>2, <2>4, <3>1, <5>1
        <5>3. QED
              BY <5>1, <5>2
      <4>4. CASE i \in (Len(body) + 3)..(Len(body) + Len(Text))
        <5>1. PICK j : j = i - Len(body) - 2
              OBVIOUS
        <5>2. j \in 1..(Len(Text) - 2)
              BY <3>0, <4>4, <5>1
        <5>3. PICK n \in j..(j + 2) : Seen(Text[n])
              BY <2>1, <5>2 DEF IsSpaced
        <5>4. n \in 1..Len(Text) /\ Len(body) + 2 + n \in i..(i + 2)
              BY <3>0, <4>4, <5>1, <5>2
        <5>5. Seen(body'[Len(body) + 2 + n])
              BY <3>1, <5>3, <5>4
        <5>6. QED
              BY <5>4, <5>5
      <4>5. \/ i \in 1..(Len(body) - 2) \/ i \in {Len(body) - 1, Len(body)}
            \/ i \in {Len(body) + 1, Len(body) + 2}
            \/ i \in (Len(body) + 3)..(Len(body) + Len(Text))
        <5>1. i \in Nat /\ 1 <= i /\ i <= Len(body) + Len(Text)
              BY <3>0
        <5>2. PICK m \in Nat, n \in Nat : m = Len(body) /\ n = Len(Text)
              BY <3>0
        <5>3. \/ i \in 1..(m - 2) \/ i \in {m - 1, m} \/ i \in {m + 1, m + 2}
              \/ i \in (m + 3)..(m + n)
              BY <5>1, <5>2
        <5>4. QED
              BY <5>2, <5>3
      <4>6. QED
            BY <4>1, <4>2, <4>3, <4>4, <4>5
    <3>5. ASSUME NEW i \in Visible(body) PROVE i \in Visible(body') /\ body'[i] = body[i]
      <4>1. i \in 1..Len(body) /\ i \in 1..Len(body')
            BY <3>0 DEF Visible
      <4>2. QED
            BY <3>1, <3>2, <4>1 DEF Visible
    <3>6. ASSUME NEW i \in Visible(Text)
          PROVE  Len(body) + 2 + i \in Visible(body') /\ body'[Len(body) + 2 + i] = Text[i]
      <4>1. i \in 1..Len(Text) /\ Len(body) + 2 + i \in 1..Len(body')
            BY <3>0 DEF Visible
      <4>2. QED
            BY <3>1, <3>2, <4>1 DEF Visible
    <3>7. ASSUME NEW i \in Visible(body')
          PROVE  \/ i \in Visible(body)
                 \/ i - Len(body) - 2 \in Visible(Text) /\ body'[i] = Text[i - Len(body) - 2]
      <4>1. i \in 1..Len(body') /\ Seen(body'[i])
            BY <3>2 DEF Visible, Seen
      <4>2. i # Len(body) + 1 /\ i # Len(body) + 2
            BY <3>1, <4>1, NewlineIsUnseen
      <4>3. i \in 1..Len(body) \/ i \in (Len(body) + 3)..(Len(body) + 2 + Len(Text))
            BY <3>0, <4>1, <4>2
      <4>4. CASE i \in 1..Len(body)
        <5>1. body'[i] = body[i]
              BY <3>1, <4>4
        <5>2. Seen(body[i]) /\ i \in DOMAIN body
              BY <3>0, <4>1, <4>4, <5>1
        <5>3. i \in Visible(body)
              BY <5>2 DEF Visible, Seen
        <5>4. QED
              BY <5>3
      <4>5. CASE i \in (Len(body) + 3)..(Len(body) + 2 + Len(Text))
        <5>1. i - Len(body) - 2 \in 1..Len(Text)
              BY <3>0, <4>5
        <5>2. body'[i] = Text[i - Len(body) - 2]
              BY <3>1, <4>5
        <5>3. QED
              BY <1>2, <4>1, <5>1, <5>2 DEF Visible, Seen
      <4>6. QED
            BY <4>3, <4>4, <4>5
    <3>8. CharactersOf(body') = CharactersOf(body) \cup CharactersOf(Text)
      <4>1. CharactersOf(body) \subseteq CharactersOf(body')
            BY <3>5 DEF CharactersOf
      <4>2. CharactersOf(Text) \subseteq CharactersOf(body')
            BY <3>6 DEF CharactersOf
      <4>3. ASSUME NEW c \in CharactersOf(body') PROVE c \in CharactersOf(body) \cup CharactersOf(Text)
        <5>1. PICK i \in Visible(body') : c = body'[i]
              BY DEF CharactersOf
        <5>2. CASE i \in Visible(body)
              BY <3>5, <5>1, <5>2 DEF CharactersOf
        <5>3. CASE i - Len(body) - 2 \in Visible(Text) /\ body'[i] = Text[i - Len(body) - 2]
              BY <5>1, <5>3 DEF CharactersOf
        <5>4. QED
              BY <3>7, <5>1, <5>2, <5>3
      <4>4. QED
            BY <4>1, <4>2, <4>3
    <3>9. ASSUME Spread(body) PROVE Spread(body')
      <4>1. PICK i, j \in Visible(body) : j - i + 1 >= MinLength
            BY <3>9 DEF Spread
      <4>2. i \in Visible(body') /\ j \in Visible(body')
            BY <3>5
      <4>3. QED
            BY <4>1, <4>2 DEF Spread
    <3>10. ASSUME Spread(Text) PROVE Spread(body')
      <4>1. PICK i, j \in Visible(Text) : j - i + 1 >= MinLength
            BY <3>10 DEF Spread
      <4>2. Len(body) + 2 + i \in Visible(body') /\ Len(body) + 2 + j \in Visible(body')
            BY <3>6
      <4>3. i \in Nat /\ j \in Nat
            BY <1>2 DEF Visible
      <4>4. (Len(body) + 2 + j) - (Len(body) + 2 + i) + 1 >= MinLength
            BY <1>1, <4>1, <4>3
      <4>5. QED
            BY <4>2, <4>4 DEF Spread
    <3>11. Len(body) <= Len(body')
           BY <3>0
    <3>12. IsSpaced(body')
           BY <3>4 DEF IsSpaced
    <3>13. QED
           BY <1>3, <2>1, <3>1, <3>2, <3>8, <3>9, <3>10, <3>11, <3>12
  <2>5. QED
        BY <2>2, <2>3, <2>4
<1>8. ReadInv'
  <2> SUFFICES ASSUME NEW p \in DOMAIN document, NEW q \in DOMAIN document[p],
                      IsLong(p, q), IsRead(p, q)', NEW c \in CharactersOf(PartAt(p, q))
               PROVE  Kept(c)' \/ c \in CharactersOf(body')
      BY SMTT(20) DEF ReadInv, IsLong, PartAt, CharactersOf, Visible
  <2>1. CASE IsRead(p, q)
    <3>1. Kept(c) \/ c \in CharactersOf(body)
          BY <2>1 DEF TextInv, ReadInv
    <3>2. QED
          BY <1>5, <1>7, <3>1
  <2>2. CASE p = page /\ q = part
        BY <1>2, <1>7, <2>2
  <2>3. QED
        BY <1>4, <2>1, <2>2
<1>9. DropInv'
  <2>1. CASE Spread(body) \/ IsLong(page, part)
        BY <1>7, <2>1 DEF DropInv, Spread, Visible
  <2>2. CASE ~IsLong(page, part) /\ \A c \in CharactersOf(body) : ~IsOfLong(c)
    <3>1. \A c \in CharactersOf(body') : ~IsOfLong(c)
          BY <1>6, <1>7, <2>2
    <3>2. \A c : IsOfLong(c)' <=> IsOfLong(c)
          BY DEF IsOfLong, IsLong, PartAt
    <3>3. QED
          BY <3>1, <3>2 DEF DropInv, CharactersOf, Visible
  <2>3. CASE Overlap <= Len(body) /\ \A i \in 1..Overlap : i \in Visible(body) => Kept(body[i])
    <3>1. Overlap <= Len(body')
          BY <1>1, <1>7, <2>3, SequenceFacts
    <3>2. ASSUME NEW i \in 1..Overlap, i \in Visible(body') PROVE Kept(body[i])'
      <4>1. i \in 1..Len(body)
            BY <1>1, <2>3
      <4>2. body'[i] = body[i] /\ i \in Visible(body)
            BY <1>1, <1>7, <3>2, <4>1 DEF Visible
      <4>3. Kept(body[i])
            BY <2>3, <4>2
      <4>4. QED
            BY <1>5, <4>2, <4>3 DEF Kept
    <3>3. QED
          BY <3>1, <3>2 DEF DropInv, Visible
  <2>4. QED
        BY <2>1, <2>2, <2>3 DEF TextInv, DropInv
<1>10. QED
       BY <1>7, <1>8, <1>9 DEF TextInv, IsSpaced, Seen

\* A piece is never dropped, and what it takes and leaves is as it was.
LEMMA TextIsCut == ASSUME PagesInv, TextInv, TextHypothesis, CutPiece PROVE TextInv'
<1>1. /\ ControlInv /\ IsSequence(body) /\ IsSequence(chunks) /\ DOMAIN body = 1..Len(body)
      /\ Len(body) \in Nat
      /\ MinLength \in Nat \ {0} /\ Overlap \in Nat /\ MaxChars \in Nat /\ Half \in Nat
      /\ 2 * Half <= MaxChars /\ MaxChars <= 2 * Half + 1 /\ Overlap <= Half
      /\ MinLength < Overlap /\ MaxChars > 4
      BY ControlFacts, HalfOfIt DEF PagesInv, ControlInv, TextHypothesis
<1>2. UNCHANGED <<document, page, part>> /\ Len(body) >= MaxChars
      BY DEF CutPiece
<1>3. PICK cut \in (Half + 1)..MaxChars :
         /\ cut = SplitPoint(body) /\ chunks' = Emitted(SubSeq(body, 1, cut))
         /\ IsSequence(SubSeq(body, 1, cut)) /\ Len(SubSeq(body, 1, cut)) = cut
         /\ \A i \in 1..cut : SubSeq(body, 1, cut)[i] = body[i]
         /\ cut <= Len(body) /\ cut - Overlap \in 1..Len(body)
         /\ IsSequence(body') /\ Len(body') = Len(body) - (cut - Overlap)
         /\ \A i \in 1..Len(body') : body'[i] = body[cut - Overlap + i]
      BY <1>1, CutInTwo
<1>4. PICK piece : piece = SubSeq(body, 1, cut)
      OBVIOUS
<1>5. /\ IsSequence(piece) /\ Len(piece) = cut /\ DOMAIN piece = 1..cut /\ chunks' = Emitted(piece)
      /\ \A i \in 1..cut : piece[i] = body[i]
      BY <1>3, <1>4, SequenceFacts
<1>6. PICK s : s = cut - Overlap
      OBVIOUS
<1>7. /\ s \in 1..Len(body) /\ cut \in Nat /\ cut = s + Overlap /\ Half + 1 <= cut /\ cut <= MaxChars
      /\ cut <= Len(body) /\ Len(body') = Len(body) - s
      BY SMTT(20), <1>1, <1>3, <1>6
<1>8. \A i \in 1..Len(body') : s + i \in 1..Len(body) /\ body'[i] = body[s + i]
  <2>1. \A i \in 1..Len(body') : body'[i] = body[s + i]
        BY <1>3, <1>6
  <2>2. \A i \in 1..Len(body') : s + i \in 1..Len(body)
        BY <1>1, <1>7
  <2>3. QED
        BY <2>1, <2>2
<1>9. DOMAIN body' = 1..Len(body') /\ Len(body') \in Nat
      BY <1>3, SequenceFacts
<1>10. \A i \in 1..(Len(body) - 2) : \E n \in i..(i + 2) : Seen(body[n])
       BY DEF TextInv, IsSpaced
<1>11. Spread(piece)
  <2>1. \A n \in 1..cut : Seen(body[n]) => n \in Visible(piece)
        BY <1>5 DEF Visible, Seen
  <2>2. PICK i \in 1..(1 + 2) : Seen(body[i])
    <3>1. 1 \in 1..(Len(body) - 2)
          BY <1>1, <1>2
    <3>2. QED
          BY <1>10, <3>1
  <2>3. i \in Visible(piece)
    <3>1. i \in 1..cut
          BY <1>1, <1>7
    <3>2. QED
          BY <2>1, <2>2, <3>1
  <2>4. CASE Seen(body[cut])
    <3>1. cut \in 1..cut /\ cut - i + 1 >= MinLength
          BY <1>1, <1>7
    <3>2. QED
          BY <2>1, <2>3, <2>4, <3>1 DEF Spread
  <2>5. CASE cut = MaxChars
    <3>1. cut - 2 \in 1..(Len(body) - 2)
          BY <1>1, <1>2, <1>7, <2>5
    <3>2. PICK n \in (cut - 2)..(cut - 2 + 2) : Seen(body[n])
          BY <1>10, <3>1
    <3>3. n \in 1..cut /\ n - i + 1 >= MinLength
          BY <1>1, <1>7, <2>5, <3>1
    <3>4. QED
          BY <2>1, <2>3, <3>2, <3>3 DEF Spread
  <2>6. CASE cut + 2 <= MaxChars /\ body[cut + 1].ch = "newline" /\ body[cut + 2].ch = "newline"
    <3>0. cut + 2 <= MaxChars
          BY <2>6
    <3>1. cut \in 1..(Len(body) - 2)
          BY <1>1, <1>2, <1>7, <3>0
    <3>2. PICK n \in cut..(cut + 2) : Seen(body[n])
          BY <1>10, <3>1
    <3>3. n \in {cut, cut + 1, cut + 2}
          BY <1>7
    <3>4. ~Seen(body[cut + 1]) /\ ~Seen(body[cut + 2])
          BY <2>6 DEF Seen, Whitespace
    <3>5. Seen(body[cut])
          BY <3>2, <3>3, <3>4
    <3>6. QED
          BY <2>4, <3>5
  <2>7. QED
        BY <1>1, <1>2, <1>3, <2>4, <2>5, <2>6, WhereToCut
<1>12. /\ \A c : Kept(c) => Kept(c)'
       /\ \A c \in CharactersOf(piece) : Kept(c)'
       BY <1>1, <1>5, <1>11, EmittedText
<1>13. \A i \in 1..cut : i \in Visible(body) => body[i] \in CharactersOf(piece)
  <2> SUFFICES ASSUME NEW i \in 1..cut, i \in Visible(body) PROVE body[i] \in CharactersOf(piece)
      OBVIOUS
  <2>1. i \in Visible(piece) /\ piece[i] = body[i]
        BY <1>5 DEF Visible
  <2>2. QED
        BY <2>1 DEF CharactersOf
<1>14. ReadInv'
  <2> SUFFICES ASSUME NEW p \in DOMAIN document, NEW q \in DOMAIN document[p],
                      IsLong(p, q), IsRead(p, q)', NEW c \in CharactersOf(PartAt(p, q))
               PROVE  Kept(c)' \/ c \in CharactersOf(body')
      BY SMTT(20), <1>2 DEF ReadInv, IsLong, PartAt, CharactersOf, Visible
  <2>1. Kept(c) \/ c \in CharactersOf(body)
    <3>1. IsRead(p, q)
          BY <1>2 DEF IsRead
    <3>2. QED
          BY <3>1 DEF TextInv, ReadInv
  <2>2. ASSUME c \in CharactersOf(body) PROVE Kept(c)' \/ c \in CharactersOf(body')
    <3>1. PICK i \in Visible(body) : c = body[i]
          BY <2>2 DEF CharactersOf
    <3>2. i \in 1..Len(body)
          BY <1>1, <3>1 DEF Visible
    <3>3. CASE i <= cut
      <4>1. i \in 1..cut
            BY <1>7, <3>2, <3>3
      <4>2. QED
            BY <1>12, <1>13, <3>1, <4>1
    <3>4. CASE ~(i <= cut)
      <4>1. PICK j : j = i - s
            OBVIOUS
      <4>2. j \in 1..Len(body') /\ s + j = i
            BY <1>1, <1>7, <3>2, <3>4, <4>1
      <4>3. body'[j] = c /\ j \in Visible(body')
        <5>1. body'[j] = body[i]
              BY <1>8, <4>2
        <5>2. QED
              BY <1>9, <3>1, <4>2, <5>1 DEF Visible
      <4>4. QED
            BY <4>3 DEF CharactersOf
    <3>5. QED
          BY <3>3, <3>4
  <2>3. QED
        BY <1>12, <2>1, <2>2
<1>15. \A i \in 1..(Len(body') - 2) : \E n \in i..(i + 2) : Seen(body'[n])
  <2> SUFFICES ASSUME NEW i \in 1..(Len(body') - 2) PROVE \E n \in i..(i + 2) : Seen(body'[n])
      OBVIOUS
  <2>1. s + i \in 1..(Len(body) - 2)
        BY <1>1, <1>7, <1>9
  <2>2. PICK m \in (s + i)..(s + i + 2) : Seen(body[m])
        BY <1>10, <2>1
  <2>3. PICK n : n = m - s
        OBVIOUS
  <2>4. n \in i..(i + 2) /\ n \in 1..Len(body') /\ s + n = m
        BY <1>7, <1>9, <2>3
  <2>5. body'[n] = body[m]
        BY <1>8, <2>4
  <2>6. QED
        BY <2>2, <2>4, <2>5
<1>16. DropInv'
  <2>1. Overlap <= Len(body')
        BY <1>1, <1>7
  <2>2. ASSUME NEW i \in 1..Overlap, i \in Visible(body') PROVE Kept(body[i])'
    <3>1. i \in 1..Len(body') /\ s + i \in 1..cut
          BY <1>1, <1>7, <1>9, <2>1
    <3>2. PICK c : c = body'[i]
          OBVIOUS
    <3>3. c = body[s + i] /\ s + i \in Visible(body)
      <4>1. c = body[s + i] /\ s + i \in 1..Len(body)
            BY <1>8, <3>1, <3>2
      <4>2. QED
            BY <1>1, <2>2, <3>2, <4>1 DEF Visible
    <3>4. Kept(c)'
          BY <1>12, <1>13, <3>1, <3>3
    <3>5. QED
          BY <3>2, <3>4 DEF Kept
  <2>3. QED
        BY <2>1, <2>2 DEF DropInv, Visible
<1>17. QED
       BY <1>14, <1>15, <1>16 DEF TextInv, IsSpaced, Seen

\* The steps of the chunker, all in one.
LEMMA StepOfChunker == ASSUME PagesInv, ChunkNext PROVE PagesInv'
BY StepContinue, StepCloseSection, StepOpenSection, StepWiden, StepCutPiece, StepEndSplit,
   StepFallBack, StepFinish DEF ChunkNext

LEMMA TextStands ==
    ASSUME TextInv, UNCHANGED <<document, page, part, body, chunks>> PROVE TextInv'
BY DEF TextInv, ReadInv, DropInv, IsSpaced, Spread, Visible, CharactersOf, IsOfLong, IsLong,
       IsRead, PartAt, Kept, Seen

LEMMA TextIsReadAgain == ASSUME PagesInv, TextInv, FallBack PROVE TextInv'
<1>1. page' = 1 /\ part' = 1 /\ body = <<>> /\ body' = body /\ document' = document
      BY DEF FallBack
<1>2. \A p \in DOMAIN document : \A q \in DOMAIN document[p] : ~IsRead(p, q)'
  <2> SUFFICES ASSUME NEW p \in DOMAIN document, NEW q \in DOMAIN document[p] PROVE ~IsRead(p, q)'
      OBVIOUS
  <2>1. p \in 1..Len(document) /\ q \in 1..Len(document[p])
        BY ControlFacts DEF PagesInv
  <2>2. Len(document) \in Nat /\ Len(document[p]) \in Nat
        BY ControlFacts DEF PagesInv
  <2>3. QED
        BY <1>1, <2>1, <2>2 DEF IsRead
<1>3. CharactersOf(body) = {}
      BY <1>1, NoSequence DEF CharactersOf, Visible
<1>4. QED
      BY <1>1, <1>2, <1>3 DEF TextInv, ReadInv, DropInv, IsSpaced, CharactersOf, Visible, Seen

LEMMA StepOfText == ASSUME PagesInv, TextInv, TextHypothesis, ChunkNext PROVE TextInv'
<1>1. CASE Continue
      BY <1>1, TextIsTakenUp DEF Continue
<1>2. CASE CloseSection
  <2>1. CASE Len(body) <= MaxChars
        BY <1>2, <2>1, ReadThenSplit DEF CloseSection
  <2>2. CASE ~(Len(body) <= MaxChars)
        BY <1>2, <2>2, TextStands DEF CloseSection
  <2>3. QED
        BY <2>1, <2>2
<1>3. CASE OpenSection
      BY <1>3, JoinedToNothing, TextIsTakenUp DEF OpenSection
<1>4. CASE Widen
      BY <1>4, TextIsTakenUp DEF Widen
<1>5. CASE CutPiece
      BY <1>5, TextIsCut
<1>6. CASE EndSplit
      BY <1>6, ReadThenSplit, TextStands DEF EndSplit
<1>7. CASE FallBack
      BY <1>7, TextIsReadAgain
<1>8. CASE Finish
      BY <1>8, ReadThenSplit DEF Finish
<1>9. QED
      BY <1>1, <1>2, <1>3, <1>4, <1>5, <1>6, <1>7, <1>8 DEF ChunkNext

-----------------------------------------------------------------------------
(***************************************************************************)
(* Scenes.                                                                 *)
(***************************************************************************)
\* The loop that leaves out scenes, after n of them.
LoopOver(f, scenes, m) ==
    f = [n \in 0..m |-> IF n = 0 THEN <<>>
                        ELSE IF Unsupported(scenes[n]) THEN f[n - 1]
                        ELSE Append(f[n - 1], scenes[n])]

LEMMA LoopIsDefined == ASSUME NEW scenes, NEW m \in Nat PROVE \E f : LoopOver(f, scenes, m)
<1> DEFINE S == {n \in Nat : ~\E f : LoopOver(f, scenes, n)}
<1> SUFFICES ASSUME S # {} PROVE FALSE
    OBVIOUS
<1>1. PICK n \in S : \A k \in S : n <= k
  <2>1. S \subseteq Nat
        OBVIOUS
  <2> HIDE DEF S
  <2>2. QED
        BY <2>1, LeastNumber
<1>2. CASE n = 0
  <2>1. LoopOver([k \in 0..0 |-> <<>>], scenes, 0)
        BY DEF LoopOver
  <2>2. QED
        BY <1>1, <1>2, <2>1
<1>3. CASE n # 0
  <2>1. n - 1 \in Nat /\ n - 1 < n /\ n \in Nat
        BY <1>3
  <2>2. PICK f : LoopOver(f, scenes, n - 1)
        BY <1>1, <2>1
  <2> DEFINE g == [k \in 0..n |-> IF k < n THEN f[k]
                                  ELSE IF Unsupported(scenes[k]) THEN f[k - 1]
                                  ELSE Append(f[k - 1], scenes[k])]
  <2>3. ASSUME NEW k \in 0..n
        PROVE  g[k] = IF k = 0 THEN <<>>
                      ELSE IF Unsupported(scenes[k]) THEN g[k - 1]
                      ELSE Append(g[k - 1], scenes[k])
    <3>1. CASE k < n
      <4>1. k \in 0..(n - 1)
            BY <2>1, <3>1
      <4>2. f[k] = IF k = 0 THEN <<>>
                   ELSE IF Unsupported(scenes[k]) THEN f[k - 1]
                   ELSE Append(f[k - 1], scenes[k])
            BY <2>2, <4>1 DEF LoopOver
      <4>3. g[k] = f[k] /\ (k # 0 => g[k - 1] = f[k - 1])
            BY <2>1, <3>1
      <4> HIDE DEF g
      <4>4. QED
            BY <4>2, <4>3
    <3>2. CASE k = n
      <4>1. g[k] = IF Unsupported(scenes[k]) THEN f[k - 1] ELSE Append(f[k - 1], scenes[k])
            BY <2>1, <3>2
      <4>2. g[k - 1] = f[k - 1]
            BY <2>1, <3>2
      <4> HIDE DEF g
      <4>3. QED
            BY <2>1, <3>2, <4>1, <4>2
    <3>3. QED
          BY <2>1, <3>1, <3>2
  <2>4. g = [k \in 0..n |-> g[k]]
        OBVIOUS
  <2> HIDE DEF g
  <2>5. LoopOver(g, scenes, n)
        BY <2>3, <2>4 DEF LoopOver
  <2>6. QED
        BY <1>1, <2>5
<1>4. QED
      BY <1>2, <1>3

LEMMA SupportedIsLoop ==
    ASSUME NEW scenes, Len(scenes) \in Nat
    PROVE  \E f : LoopOver(f, scenes, Len(scenes)) /\ Supported(scenes) = f[Len(scenes)]
<1> DEFINE r == CHOOSE f : LoopOver(f, scenes, Len(scenes))
<1>1. LoopOver(r, scenes, Len(scenes))
      BY LoopIsDefined
<1>2. Supported(scenes) = r[Len(scenes)]
      BY DEF Supported, LoopOver
<1>3. QED
      BY <1>1, <1>2

\* What the loop has kept after n scenes of an answer: those that have the
\* evidence they need, in their order.
KeptOf(s, r, n) ==
    /\ s \in Seq(Scenes)
    /\ \A m \in 1..n : ~Unsupported(r[m]) => \E k \in DOMAIN s : s[k] = r[m]
    /\ \A k \in DOMAIN s : s[k].number <= n
    /\ \A k, l \in DOMAIN s : k < l => s[k].number < s[l].number

LEMMA SupportedScenes == ASSUME NEW r, IsReply(r) PROVE KeptOf(Supported(r), r, Len(r))
<1>1. r \in Seq(Scenes) /\ Len(r) \in Nat /\ DOMAIN r = 1..Len(r)
      /\ \A n \in 1..Len(r) : r[n] \in Scenes /\ r[n].number = n
      BY DEF IsReply
<1>2. PICK f : LoopOver(f, r, Len(r)) /\ Supported(r) = f[Len(r)]
      BY <1>1, SupportedIsLoop
<1>3. \A n \in 0..Len(r) :
          f[n] = IF n = 0 THEN <<>>
                 ELSE IF Unsupported(r[n]) THEN f[n - 1]
                 ELSE Append(f[n - 1], r[n])
      BY <1>2 DEF LoopOver
<1> DEFINE S == {n \in 0..Len(r) : ~KeptOf(f[n], r, n)}
<1>4. SUFFICES ASSUME S # {} PROVE FALSE
  <2>1. Len(r) \in 0..Len(r)
        BY <1>1
  <2>2. QED
        BY <1>2, <2>1
<1>5. PICK n \in S : \A k \in S : n <= k
  <2>1. S \subseteq Nat
        OBVIOUS
  <2> HIDE DEF S
  <2>2. QED
        BY <1>4, <2>1, LeastNumber
<1>6. CASE n = 0
  <2>1. 0 \in 0..Len(r)
        BY <1>1
  <2>2. f[0] = <<>>
        BY <1>3, <2>1
  <2>3. DOMAIN <<>> = {} /\ <<>> \in Seq(Scenes)
        BY NoSequence
  <2>4. \A m \in 1..0 : FALSE
        OBVIOUS
  <2>5. KeptOf(<<>>, r, 0)
        BY <2>3, <2>4 DEF KeptOf
  <2>6. QED
        BY <1>5, <1>6, <2>2, <2>5
<1>7. CASE n # 0
  <2>1. n \in Nat /\ n - 1 \in 0..Len(r) /\ n \in 1..Len(r) /\ ~(n <= n - 1)
        BY <1>1, <1>7
  <2>2. PICK s : s = f[n - 1]
        OBVIOUS
  <2>3. KeptOf(s, r, n - 1)
        BY <1>5, <2>1, <2>2
  <2>4. /\ s \in Seq(Scenes) /\ Len(s) \in Nat /\ DOMAIN s = 1..Len(s)
        /\ \A k \in 1..Len(s) : s[k] \in Scenes /\ s[k].number <= n - 1
        /\ \A k, l \in 1..Len(s) : k < l => s[k].number < s[l].number
        /\ \A m \in 1..(n - 1) : ~Unsupported(r[m]) => \E k \in DOMAIN s : s[k] = r[m]
        BY <2>3 DEF KeptOf
  <2>5. \A k \in 1..Len(s) : s[k].number \in Nat
        BY <2>4 DEF Scenes
  <2>6. CASE Unsupported(r[n])
    <3>1. f[n] = s
          BY <1>3, <1>7, <2>1, <2>2, <2>6
    <3>2. \A k \in DOMAIN s : s[k].number <= n
          BY <2>1, <2>4, <2>5
    <3>3. ASSUME NEW m \in 1..n, ~Unsupported(r[m]) PROVE \E k \in DOMAIN s : s[k] = r[m]
      <4>1. m # n
            BY <2>6, <3>3
      <4>2. m \in 1..(n - 1)
            BY <2>1, <4>1
      <4>3. QED
            BY <2>4, <3>3, <4>2
    <3>4. KeptOf(s, r, n)
          BY <2>3, <3>2, <3>3 DEF KeptOf
    <3>5. QED
          BY <1>5, <3>1, <3>4
  <2>7. CASE ~Unsupported(r[n])
    <3>1. PICK t : t = Append(s, r[n])
          OBVIOUS
    <3>2. f[n] = t
          BY <1>3, <1>7, <2>1, <2>2, <2>7, <3>1
    <3>3. r[n] \in Scenes /\ r[n].number = n
          BY <1>1, <2>1
    <3>4. /\ t \in Seq(Scenes) /\ Len(t) = Len(s) + 1 /\ DOMAIN t = 1..(Len(s) + 1)
          /\ \A k \in 1..Len(s) : t[k] = s[k]
          /\ t[Len(s) + 1] = r[n]
      <4>1. t \in Seq(Scenes) /\ Len(t) = Len(s) + 1
            BY <2>4, <3>1, <3>3
      <4>2. \A k \in 1..Len(s) : t[k] = s[k]
            BY <2>4, <3>1, <3>3, AppendProperties
      <4>3. t[Len(s) + 1] = r[n]
            BY <2>4, <3>1, <3>3, AppendProperties
      <4>4. QED
            BY <4>1, <4>2, <4>3, LenProperties
    <3>5. ASSUME NEW m \in 1..n, ~Unsupported(r[m]) PROVE \E k \in DOMAIN t : t[k] = r[m]
      <4>1. CASE m = n
        <5>1. Len(s) + 1 \in DOMAIN t
              BY <2>4, <3>4
        <5>2. QED
              BY <3>4, <4>1, <5>1
      <4>2. CASE m # n
        <5>1. m \in 1..(n - 1)
              BY <2>1, <4>2
        <5>2. PICK k \in 1..Len(s) : s[k] = r[m]
              BY <2>4, <3>5, <5>1
        <5>3. k \in DOMAIN t
              BY <2>4, <3>4
        <5>4. QED
              BY <3>4, <5>2, <5>3
      <4>3. QED
            BY <4>1, <4>2
    <3>6. ASSUME NEW k \in DOMAIN t PROVE t[k].number <= n /\ (k <= Len(s) => t[k].number < n)
      <4>1. CASE k <= Len(s)
        <5>1. k \in 1..Len(s)
              BY <2>4, <3>4, <4>1
        <5>2. t[k].number \in Nat /\ t[k].number <= n - 1
              BY <2>4, <2>5, <3>4, <5>1
        <5>3. QED
              BY <2>1, <5>2
      <4>2. CASE ~(k <= Len(s))
        <5>1. k = Len(s) + 1
              BY <2>4, <3>4, <4>2
        <5>2. t[k].number = n
              BY <3>3, <3>4, <5>1
        <5>3. QED
              BY <2>1, <4>2, <5>2
      <4>3. QED
            BY <4>1, <4>2
    <3>7. ASSUME NEW k \in DOMAIN t, NEW l \in DOMAIN t, k < l PROVE t[k].number < t[l].number
      <4>1. k \in 1..Len(s)
            BY <2>4, <3>4, <3>7
      <4>2. CASE l \in 1..Len(s)
            BY <2>4, <3>4, <3>7, <4>1, <4>2
      <4>3. CASE l = Len(s) + 1
        <5>1. t[l].number = n
              BY <3>3, <3>4, <4>3
        <5>2. t[k].number < n
              BY <3>6, <4>1
        <5>3. QED
              BY <5>1, <5>2
      <4>4. QED
            BY <2>4, <3>4, <4>2, <4>3
    <3>8. KeptOf(t, r, n)
          BY <3>4, <3>5, <3>6, <3>7 DEF KeptOf
    <3>9. QED
          BY <1>5, <3>2, <3>8
  <2>8. QED
        BY <2>6, <2>7
<1>8. QED
      BY <1>6, <1>7

LEMMA RepairedScenes ==
    ASSUME IsReply(reply)
    PROVE  /\ \A k \in DOMAIN Repaired : Repaired[k].indices \subseteq Int
           /\ \A n \in DOMAIN reply :
                 ~Unsupported(reply[n]) => \E k \in DOMAIN Repaired : Repaired[k] = reply[n]
           /\ \A k, l \in DOMAIN Repaired : k < l => Repaired[k].number < Repaired[l].number
<1>1. /\ reply \in Seq(Scenes) /\ Len(reply) \in Nat /\ DOMAIN reply = 1..Len(reply)
      /\ \A n \in 1..Len(reply) : reply[n] \in Scenes /\ reply[n].number = n
      BY DEF IsReply
<1>2. CASE mode = "remove_paragraph"
  <2>1. PICK s : s = Supported(reply)
        OBVIOUS
  <2>2. Repaired = s
        BY <1>2, <2>1 DEF Repaired
  <2>3. KeptOf(s, reply, Len(reply))
        BY <2>1, SupportedScenes
  <2>4. \A k \in DOMAIN s : s[k].indices \subseteq Int
    <3>1. \A k \in DOMAIN s : s[k] \in Scenes
          BY <2>3 DEF KeptOf
    <3>2. QED
          BY <3>1 DEF Scenes
  <2>5. QED
        BY <1>1, <2>2, <2>3, <2>4 DEF KeptOf
<1>3. CASE mode # "remove_paragraph"
  <2>1. PICK s : s = [n \in DOMAIN reply |->
                         IF Unsupported(reply[n]) THEN [reply[n] EXCEPT !.interpretation = TRUE]
                         ELSE reply[n]]
        OBVIOUS
  <2>2. Repaired = s /\ DOMAIN s = 1..Len(reply)
        BY <1>1, <1>3, <2>1 DEF Repaired
  <2>3. ASSUME NEW n \in 1..Len(reply)
        PROVE  /\ s[n].indices \subseteq Int /\ s[n].number = n
               /\ ~Unsupported(reply[n]) => s[n] = reply[n]
    <3>1. reply[n] \in Scenes /\ reply[n].number = n
          BY <1>1
    <3>2. s[n] = IF Unsupported(reply[n]) THEN [reply[n] EXCEPT !.interpretation = TRUE]
                 ELSE reply[n]
          BY <1>1, <2>1
    <3>3. QED
          BY <3>1, <3>2 DEF Scenes
  <2>4. QED
        BY <1>1, <2>2, <2>3
<1>4. QED
      BY <1>2, <1>3

LEMMA NothingIsUnaccounted == ASSUME RequestInv, PackageInv PROVE ScenesAreAccounted
<1> SUFFICES ASSUME Exists PROVE ScenesAreAccounted
    BY DEF ScenesAreAccounted
<1>1. /\ package.scenes = Repaired /\ package.evidence_map = EvidenceMap(Repaired)
      /\ package.warnings = Warnings /\ IsReply(reply)
      BY DEF PackageInv, RequestInv
<1>2. PICK s : s = Repaired
      OBVIOUS
<1>3. /\ \A n \in DOMAIN reply : ~Unsupported(reply[n]) => \E k \in DOMAIN s : s[k] = reply[n]
      /\ \A k, l \in DOMAIN s : k < l => s[k].number < s[l].number
      BY <1>1, <1>2, RepairedScenes
<1>4. \A n \in DOMAIN reply : n \in package.warnings <=> Unsupported(reply[n])
      BY <1>1 DEF Warnings
<1>5. \A k \in DOMAIN s : package.evidence_map[k] = Refs(s[k])
      BY <1>1, <1>2 DEF EvidenceMap
<1>6. ASSUME NEW n \in DOMAIN reply
      PROVE  \/ n \in package.warnings
             \/ ~reply[n].needs_citation
             \/ \A i \in reply[n].indices : ~InRange(evidence, i)
             \/ \E k \in DOMAIN package.scenes :
                    package.scenes[k] = reply[n] /\ package.evidence_map[k] # {}
  <2>1. SUFFICES ASSUME ~Unsupported(reply[n]), NEW i \in reply[n].indices, InRange(evidence, i)
                 PROVE  \E k \in DOMAIN s : s[k] = reply[n] /\ Refs(s[k]) # {}
        BY <1>1, <1>2, <1>4, <1>5
  <2>2. PICK k \in DOMAIN s : s[k] = reply[n]
        BY <1>3, <2>1
  <2>3. Shown(evidence, i) \in Refs(s[k])
        BY <2>1, <2>2 DEF Refs
  <2>4. QED
        BY <2>2, <2>3
<1>7. {t.number : t \in {reply[n] : n \in DOMAIN reply \ package.warnings}}
          \subseteq {package.scenes[k].number : k \in DOMAIN package.scenes}
      BY <1>1, <1>2, <1>3, <1>4
<1>8. QED
      BY <1>1, <1>2, <1>3, <1>6, <1>7 DEF ScenesAreAccounted

LEMMA CitationsLead ==
    ASSUME PagesInv, ChainInv, RequestInv, PackageInv PROVE CitationsHold
<1> SUFFICES ASSUME Exists, NEW k \in DOMAIN package.scenes, NEW ref \in package.evidence_map[k]
             PROVE  /\ \E i \in package.scenes[k].indices \cap DOMAIN Prompt : Prompt[i] = ref
                    /\ \E n \in DOMAIN chunks :
                        LET pages == PagesOf(chunks[n].text) IN
                        /\ ref.id = TextOf(chunks[n].text)
                        /\ \A p \in pages : p <= ref.last
                        /\ IF chunks[n].by = "headers" THEN pages \subseteq ref.first..ref.last /\ pages # {}
                                                       ELSE BeginsAt(ref.first, pages)
    BY DEF CitationsHold
<1>1. package.scenes = Repaired /\ package.evidence_map = EvidenceMap(Repaired) /\ IsReply(reply)
      BY DEF PackageInv, RequestInv
<1>2. package.scenes[k].indices \subseteq Int /\ ref \in Refs(package.scenes[k])
      BY <1>1, RepairedScenes DEF EvidenceMap
<1>3. PICK i \in package.scenes[k].indices : InRange(evidence, i) /\ ref = Shown(evidence, i)
      BY <1>2 DEF Refs
<1>4. Len(evidence) \in Nat /\ DOMAIN evidence = 1..Len(evidence)
      BY SequenceFacts DEF RequestInv
<1>5. i \in 0..(Len(evidence) - 1) /\ i + 1 \in DOMAIN evidence /\ ref = evidence[i + 1]
      BY <1>2, <1>3, <1>4 DEF InRange, Shown
<1>6. i \in DOMAIN Prompt /\ Prompt[i] = ref
      BY <1>5 DEF Prompt
<1>7. PICK n \in DOMAIN chunks : ref = PointOf(n)
      BY <1>5 DEF ChainInv, IsOfChunks
<1>8. ref.id = TextOf(chunks[n].text) /\ ref.first = chunks[n].first /\ ref.last = chunks[n].last
      BY <1>7 DEF PointOf
<1>9. QED
      BY <1>3, <1>6, <1>8 DEF PagesInv, PagesAreNamed

-----------------------------------------------------------------------------
(***************************************************************************)
(* The request and the points.                                             *)
(***************************************************************************)
LEMMA PointsAreOfChunks ==
    ASSUME IsSequence(chunks) PROVE IsFiniteSet(Points) /\ \A x \in Points : IsOfChunks(x)
<1> DEFINE D == {m \in DOMAIN chunks : \A k \in DOMAIN chunks : k > m => PointOf(k).id # PointOf(m).id}
<1>1. Points = {PointOf(n) : n \in D}
      BY DEF Points
<1>2. D \subseteq DOMAIN chunks
      OBVIOUS
<1>3. IsFiniteSet(D)
  <2>1. Len(chunks) \in Nat /\ DOMAIN chunks = 1..Len(chunks)
        BY SequenceFacts
  <2>2. IsFiniteSet(1..Len(chunks))
        BY <2>1, FS_Interval
  <2> HIDE DEF D
  <2>3. QED
        BY <1>2, <2>1, <2>2, FS_Subset
<1> DEFINE T == {PointOf(n) : n \in D}
           g == [n \in D |-> PointOf(n)]
<1> HIDE DEF D
<1>4. IsFiniteSet(T)
  <2>1. g \in Surjection(D, T)
        BY DEF Surjection
  <2> HIDE DEF g, T
  <2>2. QED
        BY <1>3, <2>1, FS_Surjection
<1>5. \A x \in Points : IsOfChunks(x)
      BY <1>1, <1>2 DEF IsOfChunks
<1>6. QED
      BY <1>1, <1>4, <1>5

LEMMA NearestHits ==
    ASSUME IsFiniteSet(points), NEW hits \in Nearest
    PROVE  /\ IsSequence(hits) /\ Len(hits) <= TopK
           /\ \A i \in DOMAIN hits : hits[i] \in points
<1>1. Cardinality(points) \in Nat /\ TopK \in Nat
      BY FS_CardinalityType, PackagesAssumption
<1>2. PICK k : k = IF Cardinality(points) < TopK THEN Cardinality(points) ELSE TopK
      OBVIOUS
<1>3. k \in Nat /\ k <= TopK
      BY <1>1, <1>2
<1>4. hits \in [1..k -> points]
      BY <1>2 DEF Nearest
<1>5. hits \in Seq(points) /\ Len(hits) = k
      BY <1>3, <1>4
<1>6. QED
      BY <1>3, <1>4, <1>5, ListedSequence

LEMMA PackageStands ==
    ASSUME PackageInv, UNCHANGED <<mode, evidence, reply, package>> PROVE PackageInv'
<1>1. Repaired' = Repaired /\ EvidenceMap(Repaired)' = EvidenceMap(Repaired) /\ Warnings' = Warnings
      BY DEF Repaired, EvidenceMap, Refs, Shown, InRange, Warnings
<1>2. Exists' <=> Exists
      BY DEF Exists
<1>3. QED
      BY <1>1, <1>2 DEF PackageInv

\* While a document is cut up, nothing has been indexed or retrieved.
LEMMA ChunkerOfChain ==
    ASSUME RequestInv, ChainInv, PackageInv, ChunkNext, UNCHANGED <<points, requestVars, indexed>>
    PROVE  RequestInv' /\ ChainInv' /\ PackageInv'
<1>1. stage # "chunked"
      BY DEF ChunkNext, Continue, CloseSection, OpenSection, Widen, CutPiece, EndSplit, FallBack, Finish
<1>2. /\ points = {} /\ indexed = "not yet" /\ evidence = <<>>
      /\ UNCHANGED <<points, indexed, phase, mode, filtered, evidence, reply, package>>
      BY <1>1 DEF ChainInv, requestVars
<1>3. RequestInv'
      BY <1>2 DEF RequestInv, Exists
<1>4. ChainInv'
      BY <1>2, NoSequence DEF ChainInv
<1>5. PackageInv'
      BY <1>2, PackageStands
<1>6. QED
      BY <1>3, <1>4, <1>5

LEMMA SameChunks == ASSUME UNCHANGED chunks PROVE \A x : IsOfChunks(x)' <=> IsOfChunks(x)
BY DEF IsOfChunks, PointOf

LEMMA ChainStands ==
    ASSUME ChainInv, UNCHANGED <<stage, chunks, points, evidence, indexed>> PROVE ChainInv'
BY SameChunks DEF ChainInv

LEMMA IndexingOfChain ==
    ASSUME PagesInv, RequestInv, ChainInv, PackageInv, IndexChunks \/ EmbeddingFails
    PROVE  RequestInv' /\ ChainInv' /\ PackageInv'
<1>1. /\ stage = "chunked" /\ UNCHANGED <<stage, chunks, phase, mode, filtered, evidence, reply, package>>
      /\ \/ points' = Points /\ indexed' = "done"
         \/ points' = points /\ indexed = "not yet" /\ indexed' = "failed"
      BY DEF IndexChunks, EmbeddingFails, chunkVars, requestVars
<1>2. IsFiniteSet(Points) /\ \A x \in Points : IsOfChunks(x)
      BY PointsAreOfChunks DEF PagesInv, ControlInv
<1>3. RequestInv'
      BY <1>1, <1>2 DEF RequestInv, Exists
<1>4. ChainInv'
      BY <1>1, <1>2, SameChunks DEF ChainInv
<1>5. PackageInv'
      BY <1>1, PackageStands
<1>6. QED
      BY <1>3, <1>4, <1>5

LEMMA RequestOfChain ==
    ASSUME RequestInv, ChainInv, PackageInv, PackagesNext, UNCHANGED <<chunkVars, indexed>>
    PROVE  RequestInv' /\ ChainInv' /\ PackageInv'
<1>1. /\ UNCHANGED <<stage, chunks, indexed>>
      /\ indexed \in {"not yet", "done", "failed"} /\ IsFiniteSet(points)
      /\ phase \in Phases /\ mode \in RepairModes /\ (phase \in {"created", "deleted"} <=> Exists)
      /\ IsSequence(evidence) /\ Len(evidence) <= TopK /\ IsReply(reply)
      BY DEF chunkVars, RequestInv
<1>2. ASSUME NEW m \in RepairModes, NEW byBook \in BOOLEAN, Generate(m, byBook)
      PROVE  RequestInv' /\ ChainInv' /\ PackageInv'
  <2>1. /\ ~Exists /\ phase' = "retrieving" /\ mode' = m /\ UNCHANGED <<points, evidence, reply, package>>
        BY <1>1, <1>2 DEF Generate
  <2>2. RequestInv' /\ PackageInv'
        BY <1>1, <2>1 DEF RequestInv, PackageInv, Exists, Phases
  <2>3. ChainInv'
        BY <1>1, <2>1, ChainStands
  <2>4. QED
        BY <2>2, <2>3
<1>3. ASSUME Retrieve PROVE RequestInv' /\ ChainInv' /\ PackageInv'
  <2>1. /\ ~Exists /\ evidence' \in Nearest /\ phase' \in {"failed", "generating"}
        /\ UNCHANGED <<points, mode, reply, package>>
        BY <1>1, <1>3 DEF Retrieve
  <2>2. PICK hits \in Nearest : evidence' = hits
        BY <2>1
  <2>3. IsSequence(hits) /\ Len(hits) <= TopK /\ \A i \in DOMAIN hits : hits[i] \in points
        BY <1>1, NearestHits
  <2>4. RequestInv' /\ PackageInv'
        BY <1>1, <2>1, <2>2, <2>3 DEF RequestInv, PackageInv, Exists, Phases
  <2>5. hits # <<>> => stage = "chunked"
    <3>1. ASSUME hits # <<>> PROVE 1 \in DOMAIN hits
          BY <2>3, <3>1, SequenceFacts
    <3>2. QED
          BY <2>3, <3>1 DEF ChainInv
  <2>6. \A i \in DOMAIN hits : IsOfChunks(hits[i])
        BY <2>3 DEF ChainInv
  <2>7. ChainInv'
        BY <1>1, <2>1, <2>2, <2>5, <2>6, SameChunks DEF ChainInv
  <2>8. QED
        BY <2>4, <2>7
<1>4. ASSUME NEW scenes \in Replies, Answer(scenes) PROVE RequestInv' /\ ChainInv' /\ PackageInv'
  <2>1. /\ ~Exists /\ reply' = scenes /\ phase' \in {"failed", "saving"}
        /\ UNCHANGED <<points, mode, evidence, package>> /\ IsReply(scenes)
        BY <1>1, <1>4, PackagesAssumption DEF Answer
  <2>2. RequestInv' /\ PackageInv'
        BY <1>1, <2>1 DEF RequestInv, PackageInv, Exists, Phases
  <2>3. ChainInv'
        BY <1>1, <2>1, ChainStands
  <2>4. QED
        BY <2>2, <2>3
<1>5. ASSUME ServiceFails \/ SaveFails \/ Delete PROVE RequestInv' /\ ChainInv' /\ PackageInv'
  <2>1. /\ phase' \in {"failed", "deleted"} /\ (phase' = "deleted" <=> phase = "created")
        /\ phase # "deleted" /\ UNCHANGED <<points, mode, evidence, reply, package>>
        BY <1>5 DEF ServiceFails, SaveFails, Delete
  <2>2. RequestInv'
        BY <1>1, <2>1 DEF RequestInv, Exists, Phases
  <2>3. PackageInv'
        BY <2>1, PackageStands
  <2>4. ChainInv'
        BY <1>1, <2>1, ChainStands
  <2>5. QED
        BY <2>2, <2>3, <2>4
<1>6. ASSUME Save PROVE RequestInv' /\ ChainInv' /\ PackageInv'
  <2>1. /\ phase' = "created" /\ UNCHANGED <<points, mode, evidence, reply>>
        /\ package' = [scenes |-> Repaired, evidence_map |-> EvidenceMap(Repaired),
                       report |-> Report(EvidenceMap(Repaired)), warnings |-> Warnings]
        BY <1>6 DEF Save
  <2>2. package' # <<>>
    <3>1. "scenes" \in DOMAIN package'
          BY <2>1
    <3>2. QED
          BY <3>1, NoSequence
  <2>3. RequestInv'
        BY <1>1, <2>1, <2>2 DEF RequestInv, Exists, NoPackage, Phases
  <2>4. Repaired' = Repaired /\ EvidenceMap(Repaired)' = EvidenceMap(Repaired) /\ Warnings' = Warnings
        BY <2>1 DEF Repaired, EvidenceMap, Refs, Shown, InRange, Warnings
  <2>5. /\ package'.scenes = Repaired /\ package'.evidence_map = EvidenceMap(Repaired)
        /\ package'.warnings = Warnings
        BY <2>1
  <2>6. PackageInv'
        BY <2>4, <2>5 DEF PackageInv
  <2>7. ChainInv'
        BY <1>1, <2>1, ChainStands
  <2>8. QED
        BY <2>3, <2>6, <2>7
<1>7. QED
      BY <1>2, <1>3, <1>4, <1>5, <1>6 DEF PackagesNext

-----------------------------------------------------------------------------
(***************************************************************************)
(* The invariants.                                                         *)
(***************************************************************************)
LEMMA ProvenanceStarts == ASSUME Init PROVE ProvenanceInv /\ TextInv
<1>1. /\ document \in Documents /\ strategy = "headers" /\ stage = "read" /\ page = 1 /\ part = 1
      /\ body = <<>> /\ first = 1 /\ last = 1 /\ chunks = <<>>
      /\ points = {} /\ indexed = "not yet" /\ phase = "idle" /\ mode = "fail_generation"
      /\ evidence = <<>> /\ reply = <<>> /\ ~Exists
      BY DEF Init, ChunkInit, PackagesInit, Exists
<1>2. /\ Len(document) \in Nat \ {0} /\ DOMAIN document = 1..Len(document)
      /\ \A p \in DOMAIN document :
            Len(document[p]) \in Nat \ {0} /\ DOMAIN document[p] = 1..Len(document[p])
  <2>1. /\ IsSequence(document) /\ document # <<>>
        /\ \A p \in DOMAIN document : IsSequence(document[p]) /\ document[p] # <<>>
        BY <1>1, TextsAreSequences
  <2>2. QED
        BY <2>1, SequenceFacts
<1>3. ControlInv
  <2>1. 1 \in 1..Len(document) /\ ~AtEnd /\ 1 \in 1..(Len(document) + 1)
    <3>1. PICK m \in Nat \ {0} : m = Len(document)
          BY <1>2
    <3>2. 1 \in 1..m /\ ~(1 > m) /\ 1 \in 1..(m + 1)
          OBVIOUS
    <3>3. QED
          BY <1>1, <3>1, <3>2 DEF AtEnd
  <2>2. 1 \in DOMAIN document[1]
        BY <1>2, <2>1
  <2>3. Len(body) < MaxChars
    <3>1. Len(body) = 0
          BY <1>1, NoSequence
    <3>2. QED
          BY <3>1, HalfOfIt
  <2>4. 1 \in 1..1 /\ 1 <= 1 /\ 1 \in Nat \ {0}
        OBVIOUS
  <2>5. QED
        BY <1>1, <2>1, <2>2, <2>3, <2>4, NoSequence DEF ControlInv
<1>4. BodyInv /\ TurnInv /\ PagesAreNamed
      BY <1>1, NoSequence DEF BodyInv, TurnInv, FirstInv, LastInv, NextInv, PagesAreNamed
<1>5. RequestInv
  <2>1. IsReply(<<>>)
    <3>1. <<>> \in Seq(Scenes)
          OBVIOUS
    <3>2. QED
          BY <3>1, NoSequence DEF IsReply
  <2>2. IsFiniteSet({}) /\ 0 <= TopK
        BY FS_EmptySet, PackagesAssumption
  <2>3. QED
        BY <1>1, <2>1, <2>2, NoSequence DEF RequestInv, Phases, RepairModes
<1>6. ChainInv /\ PackageInv
      BY <1>1, NoSequence DEF ChainInv, PackageInv
<1>7. TextInv
  <2>1. \A p \in DOMAIN document : \A q \in DOMAIN document[p] : ~IsRead(p, q)
    <3> SUFFICES ASSUME NEW p \in DOMAIN document, NEW q \in DOMAIN document[p] PROVE ~IsRead(p, q)
        OBVIOUS
    <3>1. p \in 1..Len(document) /\ q \in 1..Len(document[p])
          BY <1>2
    <3>2. Len(document) \in Nat /\ Len(document[p]) \in Nat
          BY <1>2
    <3>3. page = 1 /\ part = 1
          BY <1>1
    <3>4. p >= 1 /\ q >= 1 /\ p \in Nat /\ q \in Nat
          BY <3>1, <3>2
    <3>5. QED
          BY <3>3, <3>4 DEF IsRead
  <2>2. CharactersOf(body) = {} /\ Len(body) = 0
        BY <1>1, NoSequence DEF CharactersOf, Visible
  <2>3. QED
        BY <2>1, <2>2 DEF TextInv, ReadInv, DropInv, IsSpaced
<1>8. QED
      BY <1>3, <1>4, <1>5, <1>6, <1>7 DEF ProvenanceInv, PagesInv

LEMMA PagesStand == ASSUME PagesInv, UNCHANGED chunkVars PROVE PagesInv'
<1>1. UNCHANGED <<document, strategy, stage, page, part, title, body, first, last, chunks, halved>>
      BY DEF chunkVars
<1>2. ControlInv' /\ BodyInv'
      BY <1>1 DEF PagesInv, ControlInv, BodyInv, IsNamed, Seen, AtEnd, HasHeaders, HeadersOn
<1>3. TurnInv'
      BY <1>1, TurnStands DEF PagesInv
<1>4. PagesAreNamed'
      BY <1>1 DEF PagesInv, PagesAreNamed, BeginsAt, NextTo
<1>5. QED
      BY <1>2, <1>3, <1>4 DEF PagesInv

LEMMA StepOfProvenance == ASSUME ProvenanceInv, [Next]_vars PROVE ProvenanceInv'
<1> USE DEF ProvenanceInv
<1>1. CASE ChunkNext /\ UNCHANGED <<points, requestVars, indexed>>
      BY <1>1, StepOfChunker, ChunkerOfChain
<1>2. CASE IndexChunks \/ EmbeddingFails
      BY <1>2, PagesStand, IndexingOfChain DEF IndexChunks, EmbeddingFails
<1>3. CASE PackagesNext /\ UNCHANGED <<chunkVars, indexed>>
      BY <1>3, PagesStand, RequestOfChain
<1>4. CASE UNCHANGED vars
  <2>1. UNCHANGED <<chunkVars, points, requestVars, indexed>>
        BY <1>4 DEF vars
  <2>2. RequestInv' /\ PackageInv'
        BY <2>1, PackageStands DEF requestVars, RequestInv, Exists
  <2>3. ChainInv'
        BY <2>1, ChainStands DEF requestVars, chunkVars
  <2>4. QED
        BY <2>1, <2>2, <2>3, PagesStand
<1>5. QED
      BY <1>1, <1>2, <1>3, <1>4 DEF Next, Ingestion

LEMMA ProvenanceIsKept == Spec => []ProvenanceInv
<1>1. Init => ProvenanceInv
      BY ProvenanceStarts
<1>2. ProvenanceInv /\ [Next]_vars => ProvenanceInv'
      BY StepOfProvenance
<1>3. QED
      BY <1>1, <1>2, PTL DEF Spec

-----------------------------------------------------------------------------
(***************************************************************************)
(* The theorems.                                                           *)
(***************************************************************************)
\* The variables keep their types, pages and parts stay within the document,
\* every chunk is of the length asked for, and a package exists in the phases
\* that say so (chunker.py, generate_video_package.py).
THEOREM ProvenanceTypeCorrect == Spec => []TypeOK
<1>1. ProvenanceInv => TypeOK
  <2> SUFFICES ASSUME ProvenanceInv PROVE TypeOK
      OBVIOUS
  <2>1. ControlInv /\ RequestInv
        BY DEF ProvenanceInv, PagesInv
  <2>2. QED
        BY <2>1 DEF ControlInv, IsChunk, RequestInv, TypeOK
<1>2. QED
      BY <1>1, ProvenanceIsKept, PTL

\* The page range of a chunk is as right as the code gets it (page_start and
\* page_end as _emit has them). No text of it is from after its last page. A
\* chunk cut by headers has nothing from outside of its pages. One cut from the
\* window has text of its first page or a later one, except after the window
\* ended between the two newlines before a page: then its first page may be
\* that one, when its text ends with the page before.
THEOREM ChunksNameTheirPages == Spec => []PagesAreNamed
<1>1. ProvenanceInv => PagesAreNamed
      BY DEF ProvenanceInv, PagesInv
<1>2. QED
      BY <1>1, ProvenanceIsKept, PTL

\* No text of a document is lost, although _emit drops short pieces, as long as
\* there are no three blanks in a row in the pages and the overlap is longer
\* than what is dropped (_emit, _emit_section, chunk_document).
THEOREM NoTextIsLost == TextHypothesis => (Spec => []TextIsKept)
<1> SUFFICES ASSUME TextHypothesis PROVE Spec => []TextIsKept
    OBVIOUS
<1>1. Init => TextInv
      BY ProvenanceStarts
<1>2. ProvenanceInv /\ TextInv /\ [Next]_vars => TextInv'
  <2> SUFFICES ASSUME ProvenanceInv, TextInv, [Next]_vars PROVE TextInv'
      OBVIOUS
  <2>1. CASE ChunkNext
        BY <2>1, StepOfText DEF ProvenanceInv
  <2>2. CASE UNCHANGED chunkVars
        BY <2>2, TextStands DEF chunkVars
  <2>3. QED
        BY <2>1, <2>2 DEF Next, Ingestion, IndexChunks, EmbeddingFails, vars
<1>3. ProvenanceInv /\ TextInv => TextIsKept
  <2> SUFFICES ASSUME ProvenanceInv, TextInv, stage = "chunked",
                      NEW p \in DOMAIN document, NEW q \in DOMAIN document[p], IsLong(p, q),
                      NEW c \in CharactersOf(PartAt(p, q))
               PROVE  c \in UNION {CharactersOf(chunks[n].text) : n \in DOMAIN chunks}
      BY DEF TextIsKept, IsLong, PartAt
  <2>1. ControlInv /\ AtEnd /\ body = <<>>
        BY DEF ProvenanceInv, PagesInv, ControlInv
  <2>2. IsRead(p, q)
    <3>1. p \in 1..Len(document) /\ Len(document) \in Nat /\ page \in Nat
          BY <2>1, ControlFacts
    <3>2. QED
          BY <2>1, <3>1 DEF AtEnd, IsRead
  <2>3. CharactersOf(body) = {}
        BY <2>1, NoSequence DEF CharactersOf, Visible
  <2>4. Kept(c)
        BY <2>2, <2>3 DEF TextInv, ReadInv
  <2>5. QED
        BY <2>4 DEF Kept
<1>4. Spec => []TextInv
      BY <1>1, <1>2, ProvenanceIsKept, PTL DEF Spec
<1>5. QED
      BY <1>3, <1>4, ProvenanceIsKept, PTL

\* Every scene the model answered is accounted for in the package that is
\* stored, in its place (_apply_needs_citation_policy, _build_evidence_map).
THEOREM NoSceneDisappears == Spec => []ScenesAreAccounted
<1>1. ProvenanceInv => ScenesAreAccounted
      BY NothingIsUnaccounted DEF ProvenanceInv
<1>2. QED
      BY <1>1, ProvenanceIsKept, PTL

\* Whoever follows a citation of a stored script finds the text that the model
\* was shown under that number, on pages no later than those the citation names
\* and, for a chunk cut by headers, no earlier either; for one cut from the
\* window, in the page named first or a later one, or right before it if the
\* window ended within the break between the two.
THEOREM CitationsAlwaysHold == Spec => []CitationsHold
<1>1. ProvenanceInv => CitationsHold
      BY CitationsLead DEF ProvenanceInv
<1>2. QED
      BY <1>1, ProvenanceIsKept, PTL

=============================================================================
