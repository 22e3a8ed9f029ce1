------------------------- MODULE KnowledgeUnits_proofs -------------------------
(***************************************************************************)
(* Theorems about KnowledgeUnits, for any numbers of units, editors and    *)
(* transactions, any requests, and pages of any length.                    *)
(*                                                                         *)
(* UnitsInv is the inductive invariant. Between two commits, the edits of  *)
(* a session lead from the row as it is committed to the row as it will    *)
(* be, since the lock keeps all others away from it; and as long as a      *)
(* field has not changed, whoever loads it loads what was extracted.       *)
(***************************************************************************)
EXTENDS KnowledgeUnits, FiniteSetTheorems, SequenceTheorems, TLAPS

-----------------------------------------------------------------------------
(***************************************************************************)
(* The inductive invariant.                                                *)
(***************************************************************************)
\* A row is locked by one transaction at a time.
LockInv ==
    \A e, g \in Editors, u \in Units : Locked(e, u) /\ Locked(g, u) => e = g

\* What a session has to commit, and what it has written of it so far.
VersionInv ==
    \A e \in Editors, u \in Units :
        /\ Locked(e, u) => \A f \in Fields :
              Becomes(records[e], u, f, fields[u][f], version[e][u][f])
        /\ ~Locked(e, u) => \A n \in DOMAIN records[e] : records[e][n].unit # u

Untouched(trail, u, f) == \A n \in DOMAIN trail : ~Changes(trail[n], u, f)

\* The trail has an image of u before an edit, with the value f had at first.
FirstImage(trail, u, f) ==
    \E n \in DOMAIN trail : trail[n].unit = u /\ trail[n].before[f] = Extracted[u][f]

ImageInv ==
    \A u \in Units, f \in Fields :
        /\ Untouched(edits, u, f) \/ FirstImage(edits, u, f)
        /\ \A e \in Editors :
              \/ Untouched(records[e], u, f)
              \/ FirstImage(edits, u, f) \/ FirstImage(records[e], u, f)

LoadedInv ==
    \A e \in Editors, u \in Units : loaded[e][u] # <<>> =>
        \A f \in Fields : Untouched(edits, u, f) /\ Untouched(records[e], u, f) =>
            loaded[e][u][f] = Extracted[u][f]

\* Sessions write what they have loaded, and load what is in the table.
SessionInv ==
    \A e \in Editors :
        /\ \A n \in DOMAIN records[e] : records[e][n].unit \in stored
        /\ phase[e] = "write" =>
              Current(e).unit \in stored /\ loaded[e][Current(e).unit] # <<>>

\* The pages end at the cursor, and what has matched all the while is on them,
\* beyond the cursor, or as old as a unit on them.
ListInv ==
    /\ listing = "off" => pages = <<>> /\ steady = {} /\ cursor = NoCursor
    /\ steady \subseteq Matching(stored, fields)
    /\ IsInjective(pages)
    /\ listing = "on" => \A n \in DOMAIN pages : created[pages[n]] >= cursor
    /\ \A u \in steady :
          \/ u \in ToSet(pages)
          \/ listing = "on" /\ created[u] < cursor
          \/ \E v \in ToSet(pages) : created[v] = created[u]

EditInv ==
    /\ LastChangeStands
    /\ LockInv /\ VersionInv /\ ImageInv /\ LoadedInv /\ SessionInv

UnitsInv == TypeOK /\ EditInv /\ ListInv


-----------------------------------------------------------------------------
(***************************************************************************)
(* Contents, patches and trails.                                           *)
(***************************************************************************)
LEMMA ContentsAreLoaded == \A c \in Contents : c # <<>>
<1>1. \A c \in Contents : DOMAIN c = Fields
  BY DEF Contents
<1>2. "status" \in Fields
  BY DEF Fields
<1>3. DOMAIN <<>> = {}
  OBVIOUS
<1> QED
  BY <1>1, <1>2, <1>3

LEMMA PatchValues ==
  ASSUME NEW patch \in Patches
  PROVE  DOMAIN patch \subseteq Fields /\ \A f \in DOMAIN patch : patch[f] \in Values
  BY DEF Patches

LEMMA OverwriteIsContents ==
  ASSUME NEW c \in Contents, NEW patch \in Patches, NEW names \in SUBSET DOMAIN patch
  PROVE  /\ Overwrite(c, patch, names) \in Contents
         /\ \A f \in Fields :
               Overwrite(c, patch, names)[f] = IF f \in names THEN patch[f] ELSE c[f]
  BY PatchValues DEF Overwrite, Contents

\* Trails are followed through appending and concatenation.
LEMMA TrailAppend ==
  ASSUME NEW trail \in Seq(Edit), NEW d \in Edit
  PROVE  /\ Append(trail, d) \in Seq(Edit)
         /\ DOMAIN Append(trail, d) = DOMAIN trail \cup {Len(trail) + 1}
         /\ \A n \in DOMAIN trail : Append(trail, d)[n] = trail[n] /\ n < Len(trail) + 1
         /\ Append(trail, d)[Len(trail) + 1] = d
         /\ Len(trail) + 1 \notin DOMAIN trail
  BY AppendProperties, LenProperties

LEMMA TrailConcat ==
  ASSUME NEW t1 \in Seq(Edit), NEW t2 \in Seq(Edit)
  PROVE  /\ t1 \o t2 \in Seq(Edit)
         /\ \A n \in DOMAIN t1 : n \in DOMAIN (t1 \o t2) /\ (t1 \o t2)[n] = t1[n]
         /\ \A n \in DOMAIN t2 :
               Len(t1) + n \in DOMAIN (t1 \o t2) /\ (t1 \o t2)[Len(t1) + n] = t2[n]
         /\ \A n \in DOMAIN (t1 \o t2) :
               n \in DOMAIN t1 \/ (n > Len(t1) /\ n - Len(t1) \in DOMAIN t2)
         /\ \A n \in DOMAIN t1 : n \in Nat /\ n <= Len(t1)
         /\ \A n \in DOMAIN t2 : n \in Nat /\ n >= 1
         /\ Len(t1) \in Nat /\ \A n \in DOMAIN (t1 \o t2) : n \in Nat
<1>1. /\ t1 \o t2 \in Seq(Edit) /\ Len(t1 \o t2) = Len(t1) + Len(t2)
      /\ \A i \in 1 .. Len(t1) + Len(t2) : (t1 \o t2)[i] =
            IF i <= Len(t1) THEN t1[i] ELSE t2[i - Len(t1)]
  BY ConcatProperties
<1>2. /\ DOMAIN t1 = 1..Len(t1) /\ DOMAIN t2 = 1..Len(t2)
      /\ Len(t1) \in Nat /\ Len(t2) \in Nat
  BY LenProperties
<1>3. DOMAIN (t1 \o t2) = 1..(Len(t1) + Len(t2))
  BY <1>1, LenProperties
<1> QED
  BY <1>1, <1>2, <1>3

LEMMA BecomesAppend ==
  ASSUME NEW trail \in Seq(Edit), NEW d \in Edit, NEW u, NEW f,
         NEW v, NEW value, NEW next, Becomes(trail, u, f, v, value),
         IF Changes(d, u, f) THEN next = d.after[f] ELSE next = value
  PROVE  Becomes(Append(trail, d), u, f, v, next)
<1> DEFINE longer == Append(trail, d)
           last == Len(trail) + 1
<1>1. /\ DOMAIN longer = DOMAIN trail \cup {last}
      /\ \A n \in DOMAIN trail : longer[n] = trail[n] /\ n < last
      /\ longer[last] = d /\ last \notin DOMAIN trail
  BY TrailAppend
<1>2. \A n \in DOMAIN trail : n \in Nat
  BY LenProperties
<1>3. last \in Nat
  BY LenProperties
<1> HIDE DEF longer, last
<1>4. CASE Changes(d, u, f)
  BY <1>1, <1>2, <1>3, <1>4 DEF Becomes, longer
<1>5. CASE ~Changes(d, u, f)
  BY <1>1, <1>2, <1>3, <1>5 DEF Becomes, longer
<1> QED
  BY <1>4, <1>5

LEMMA BecomesConcat ==
  ASSUME NEW t1 \in Seq(Edit), NEW t2 \in Seq(Edit), NEW u, NEW f,
         NEW v, NEW value, NEW next,
         Becomes(t1, u, f, v, value), Becomes(t2, u, f, value, next)
  PROVE  Becomes(t1 \o t2, u, f, v, next)
<1> DEFINE both == t1 \o t2
<1>1. /\ \A n \in DOMAIN t1 : n \in DOMAIN both /\ both[n] = t1[n]
      /\ \A n \in DOMAIN t2 : Len(t1) + n \in DOMAIN both /\ both[Len(t1) + n] = t2[n]
      /\ \A n \in DOMAIN both :
            n \in DOMAIN t1 \/ (n > Len(t1) /\ n - Len(t1) \in DOMAIN t2)
      /\ \A n \in DOMAIN t1 : n \in Nat /\ n <= Len(t1)
      /\ \A n \in DOMAIN t2 : n \in Nat /\ n >= 1
      /\ Len(t1) \in Nat /\ \A n \in DOMAIN both : n \in Nat
  BY TrailConcat
<1> HIDE DEF both
<1>2. \A n \in DOMAIN both : n > Len(t1) =>
        n - Len(t1) \in DOMAIN t2 /\ both[n] = t2[n - Len(t1)]
  <2> SUFFICES ASSUME NEW n \in DOMAIN both, n > Len(t1)
               PROVE  n - Len(t1) \in DOMAIN t2 /\ both[n] = t2[n - Len(t1)]
    OBVIOUS
  <2>1. n - Len(t1) \in DOMAIN t2
    BY <1>1
  <2>2. Len(t1) + (n - Len(t1)) = n
    BY <1>1
  <2> QED
    BY <1>1, <2>1, <2>2
<1>3. CASE value = next /\ \A n \in DOMAIN t2 : ~Changes(t2[n], u, f)
  <2>1. \A n \in DOMAIN both : n > Len(t1) => ~Changes(both[n], u, f)
    BY <1>2, <1>3
  <2>2. \A n \in DOMAIN both : ~(n > Len(t1)) => n \in DOMAIN t1
    BY <1>1
  <2>3. CASE v = value /\ \A n \in DOMAIN t1 : ~Changes(t1[n], u, f)
    BY <1>1, <1>3, <2>1, <2>2, <2>3 DEF Becomes, both
  <2>4. CASE \E n \in DOMAIN t1 :
               /\ Changes(t1[n], u, f) /\ value = t1[n].after[f]
               /\ \A k \in DOMAIN t1 : k > n => ~Changes(t1[k], u, f)
    <3>1. PICK n \in DOMAIN t1 :
               /\ Changes(t1[n], u, f) /\ value = t1[n].after[f]
               /\ \A k \in DOMAIN t1 : k > n => ~Changes(t1[k], u, f)
      BY <2>4
    <3>2. n \in DOMAIN both /\ Changes(both[n], u, f) /\ next = both[n].after[f]
      BY <1>1, <1>3, <3>1
    <3>3. \A k \in DOMAIN both : k > n => ~Changes(both[k], u, f)
      BY <1>1, <2>1, <2>2, <3>1
    <3> QED
      BY <3>2, <3>3 DEF Becomes, both
  <2> QED
    BY <2>3, <2>4 DEF Becomes
<1>4. CASE \E n \in DOMAIN t2 :
             /\ Changes(t2[n], u, f) /\ next = t2[n].after[f]
             /\ \A k \in DOMAIN t2 : k > n => ~Changes(t2[k], u, f)
  <2>1. PICK n \in DOMAIN t2 :
             /\ Changes(t2[n], u, f) /\ next = t2[n].after[f]
             /\ \A k \in DOMAIN t2 : k > n => ~Changes(t2[k], u, f)
    BY <1>4
  <2>2. /\ Len(t1) + n \in DOMAIN both /\ Changes(both[Len(t1) + n], u, f)
        /\ next = both[Len(t1) + n].after[f]
    BY <1>1, <2>1
  <2>3. ASSUME NEW k \in DOMAIN both, k > Len(t1) + n
        PROVE  ~Changes(both[k], u, f)
    <3>1. k > Len(t1) /\ k - Len(t1) > n
      BY <1>1, <2>3
    <3> QED
      BY <1>2, <2>1, <3>1
  <2> QED
    BY <2>2, <2>3 DEF Becomes, both
<1> QED
  BY <1>3, <1>4 DEF Becomes

\* Longer trails leave less untouched and hold more images.
LEMMA LongerTrail ==
  ASSUME NEW t1 \in Seq(Edit), NEW t2 \in Seq(Edit), NEW u, NEW f
  PROVE  /\ Untouched(t1 \o t2, u, f) <=> Untouched(t1, u, f) /\ Untouched(t2, u, f)
         /\ FirstImage(t1, u, f) => FirstImage(t1 \o t2, u, f)
         /\ FirstImage(t2, u, f) => FirstImage(t1 \o t2, u, f)
<1> DEFINE both == t1 \o t2
<1>1. /\ \A n \in DOMAIN t1 : n \in DOMAIN both /\ both[n] = t1[n]
      /\ \A n \in DOMAIN t2 : Len(t1) + n \in DOMAIN both /\ both[Len(t1) + n] = t2[n]
      /\ \A n \in DOMAIN both :
            n \in DOMAIN t1 \/ (n > Len(t1) /\ n - Len(t1) \in DOMAIN t2)
      /\ Len(t1) \in Nat /\ \A n \in DOMAIN both : n \in Nat
  BY TrailConcat
<1> HIDE DEF both
<1>2. \A n \in DOMAIN both :
        n \in DOMAIN t1 \/ \E k \in DOMAIN t2 : n = Len(t1) + k
  <2> SUFFICES ASSUME NEW n \in DOMAIN both, n > Len(t1), n - Len(t1) \in DOMAIN t2
               PROVE  \E k \in DOMAIN t2 : n = Len(t1) + k
    BY <1>1
  <2> WITNESS n - Len(t1) \in DOMAIN t2
  <2> QED
    BY <1>1
<1>3. Untouched(both, u, f) <=> Untouched(t1, u, f) /\ Untouched(t2, u, f)
  <2>1. Untouched(both, u, f) => Untouched(t1, u, f) /\ Untouched(t2, u, f)
    BY <1>1 DEF Untouched
  <2>2. Untouched(t1, u, f) /\ Untouched(t2, u, f) => Untouched(both, u, f)
    BY <1>1, <1>2 DEF Untouched
  <2> QED
    BY <2>1, <2>2
<1>4. /\ FirstImage(t1, u, f) => FirstImage(both, u, f)
      /\ FirstImage(t2, u, f) => FirstImage(both, u, f)
  BY <1>1 DEF FirstImage
<1> QED
  BY <1>3, <1>4 DEF both

LEMMA LongerByOne ==
  ASSUME NEW trail \in Seq(Edit), NEW d \in Edit, NEW u, NEW f
  PROVE  /\ Untouched(Append(trail, d), u, f) <=>
               Untouched(trail, u, f) /\ ~Changes(d, u, f)
         /\ FirstImage(trail, u, f) => FirstImage(Append(trail, d), u, f)
         /\ d.unit = u /\ d.before[f] = Extracted[u][f] =>
               FirstImage(Append(trail, d), u, f)
  BY TrailAppend DEF Untouched, FirstImage

-----------------------------------------------------------------------------
(***************************************************************************)
(* Steps that leave the editors and the fields alone.                      *)
(***************************************************************************)
LEMMA EditFrame ==
  ASSUME EditInv, UNCHANGED <<fields, edits, editing>>, stored \subseteq stored'
  PROVE  EditInv'
<1>1. LastChangeStands' /\ LockInv'
  BY DEF EditInv, LastChangeStands, LockInv, Locked, editing
<1>2. VersionInv'
  BY DEF EditInv, VersionInv, Locked, editing
<1>3. ImageInv' /\ LoadedInv'
  BY DEF EditInv, ImageInv, LoadedInv, editing
<1>4. SessionInv'
  BY DEF EditInv, SessionInv, Current, editing
<1> QED
  BY <1>1, <1>2, <1>3, <1>4 DEF EditInv

LEMMA ListFrame ==
  ASSUME ListInv, UNCHANGED <<stored, fields, created, reading>>
  PROVE  ListInv'
  BY DEF ListInv, Matching, NoCursor, reading

LEMMA StepTick ==
  ASSUME UnitsInv, Tick \/ (\E i \in Inserts : BeginInsert(i)) \/ UNCHANGED vars
  PROVE  UnitsInv'
<1>1. UNCHANGED <<table, editing, reading>>
  BY DEF Tick, BeginInsert, vars
<1>2. TypeOK'
  <2>1. now' \in Times /\ began' \in [Inserts -> {0} \cup Times]
    <3>1. CASE Tick
      BY <3>1, UnitsAssumption DEF UnitsInv, TypeOK, Tick, Times
    <3>2. CASE \E i \in Inserts : BeginInsert(i)
      BY <3>2 DEF UnitsInv, TypeOK, BeginInsert
    <3>3. CASE UNCHANGED vars
      BY <3>3 DEF UnitsInv, TypeOK, vars, inserts
    <3> QED
      BY <3>1, <3>2, <3>3
  <2> QED
    BY <1>1, <2>1 DEF UnitsInv, TypeOK, table, editing, reading
<1> QED
  BY <1>1, <1>2, EditFrame, ListFrame DEF UnitsInv, table

\* The units of a transaction are new, so nothing that is said of those in the
\* table changes.
LEMMA StepCommitInsert ==
  ASSUME UnitsInv, NEW i \in Inserts, CommitInsert(i)
  PROVE  UnitsInv'
<1>1. /\ began[i] # 0 /\ UnitsOf[i] \cap stored = {}
      /\ stored' = stored \cup UnitsOf[i]
      /\ created' = [u \in Units |-> IF u \in UnitsOf[i] THEN began[i] ELSE created[u]]
      /\ UNCHANGED <<fields, edits, inserts, editing, reading>>
  BY DEF CommitInsert
<1>2. began[i] \in Times /\ UnitsOf[i] \subseteq Units /\ stored \subseteq Units
  BY <1>1, UnitsAssumption DEF UnitsInv, TypeOK
<1>3. \A u \in stored : created'[u] = created[u]
  BY <1>1, <1>2
<1>4. TypeOK'
  <2>1. created' \in [Units -> {0} \cup Times] /\ \A u \in stored' : created'[u] # 0
    BY <1>1, <1>2 DEF UnitsInv, TypeOK
  <2>2. stored' \subseteq Units
    BY <1>1, <1>2
  <2> QED
    BY <1>1, <2>1, <2>2 DEF UnitsInv, TypeOK, inserts, editing, reading
<1>5. ListInv'
  <2>1. UNCHANGED <<listing, filter, cursor, pages, steady>>
    BY <1>1 DEF reading
  <2>2. steady \subseteq stored /\ ToSet(pages) \subseteq stored
    BY DEF UnitsInv, TypeOK
  <2>3. \A n \in DOMAIN pages : pages[n] \in ToSet(pages)
    BY DEF ToSet
  <2>4. Matching(stored, fields) \subseteq Matching(stored, fields)'
    BY <1>1, <2>1 DEF Matching
  <2> QED
    BY <1>3, <2>1, <2>2, <2>3, <2>4 DEF UnitsInv, ListInv, NoCursor
<1> QED
  BY <1>1, <1>4, <1>5, EditFrame DEF UnitsInv

-----------------------------------------------------------------------------
(***************************************************************************)
(* Editors.                                                                *)
(***************************************************************************)
\* What an editor works at, while there is something left of its request.
LEMMA CurrentItem ==
  ASSUME TypeOK, NEW e \in Editors, at[e] \in DOMAIN request[e]
  PROVE  Current(e).unit \in Units /\ Current(e).patch \in Patches
<1>1. request[e] \in Requests
  <2>1. DOMAIN <<>> = {}
    OBVIOUS
  <2> QED
    BY <2>1 DEF TypeOK
<1>2. request[e] \in Seq([unit : Units, patch : Patches])
  BY <1>1, UnitsAssumption
<1>3. Current(e) \in [unit : Units, patch : Patches]
  BY <1>2, ElementOfSeq, LenProperties DEF Current
<1> QED
  BY <1>3

LEMMA StepAsk ==
  ASSUME UnitsInv, NEW e \in Editors, NEW r \in Requests, Ask(e, r)
  PROVE  UnitsInv'
<1>1. /\ request' = [request EXCEPT ![e] = r] /\ phase' = [phase EXCEPT ![e] = "read"]
      /\ UNCHANGED <<table, inserts, at, loaded, version, records, reading>>
  BY DEF Ask
<1>2. TypeOK'
  <2>1. phase' \in [Editors -> {"idle", "read", "write", "done", "failed"}]
    BY <1>1 DEF UnitsInv, TypeOK
  <2>2. request' \in [Editors -> Requests \cup {<<>>}]
    BY <1>1 DEF UnitsInv, TypeOK
  <2>3. \A g \in Editors : phase'[g] = "write" => at'[g] \in DOMAIN request'[g]
    BY <1>1 DEF UnitsInv, TypeOK
  <2> QED
    BY <1>1, <2>1, <2>2, <2>3 DEF UnitsInv, TypeOK, table, inserts, reading
<1>3. EditInv'
  <2>1. LastChangeStands' /\ LockInv'
    BY <1>1 DEF UnitsInv, EditInv, LastChangeStands, LockInv, Locked, table
  <2>2. VersionInv'
    BY <1>1 DEF UnitsInv, EditInv, VersionInv, Locked, table
  <2>3. ImageInv' /\ LoadedInv'
    BY <1>1 DEF UnitsInv, EditInv, ImageInv, LoadedInv, table
  <2>4. SessionInv'
    BY <1>1 DEF UnitsInv, TypeOK, EditInv, SessionInv, Current, table
  <2> QED
    BY <2>1, <2>2, <2>3, <2>4 DEF EditInv
<1> QED
  BY <1>1, <1>2, <1>3, ListFrame DEF UnitsInv, table

LEMMA StepReadUnit ==
  ASSUME UnitsInv, NEW e \in Editors, ReadUnit(e)
  PROVE  UnitsInv'
<1> DEFINE u == Current(e).unit
<1>1. /\ phase[e] = "read" /\ at[e] \in DOMAIN request[e]
      /\ UNCHANGED <<table, inserts, request, version, records, reading>>
  BY DEF ReadUnit
<1>2. u \in Units
  BY <1>1, CurrentItem DEF UnitsInv
<1>3. CASE /\ Found(u)
           /\ loaded' = [loaded EXCEPT ![e][u] = IF @ = <<>> THEN fields[u] ELSE @]
           /\ phase' = [phase EXCEPT ![e] = "write"]
           /\ UNCHANGED at
  <2> HIDE DEF u
  <2>1. /\ fields[u] \in Contents
        /\ loaded \in [Editors -> [Units -> {<<>>} \cup Contents]]
    BY <1>2 DEF UnitsInv, TypeOK
  <2>2. /\ loaded' \in [Editors -> [Units -> {<<>>} \cup Contents]]
        /\ \A g \in Editors, w \in Units : g # e \/ w # u => loaded'[g][w] = loaded[g][w]
        /\ loaded'[e][u] = IF loaded[e][u] = <<>> THEN fields[u] ELSE loaded[e][u]
    BY <1>2, <1>3, <2>1
  <2>3. loaded'[e][u] # <<>>
    BY <2>1, <2>2, ContentsAreLoaded
  <2>4. TypeOK'
    <3>1. phase' \in [Editors -> {"idle", "read", "write", "done", "failed"}]
      BY <1>3 DEF UnitsInv, TypeOK
    <3>2. \A g \in Editors : phase'[g] = "write" => at'[g] \in DOMAIN request'[g]
      BY <1>1, <1>3 DEF UnitsInv, TypeOK
    <3> QED
      BY <1>1, <1>3, <2>2, <3>1, <3>2 DEF UnitsInv, TypeOK, table, inserts, reading
  <2>5. LastChangeStands' /\ LockInv'
    BY <1>1 DEF UnitsInv, EditInv, LastChangeStands, LockInv, Locked, table
  <2>6. VersionInv' /\ ImageInv'
    BY <1>1 DEF UnitsInv, EditInv, VersionInv, ImageInv, Locked, table
  <2>7. LoadedInv'
    <3>1. ASSUME NEW f \in Fields, Untouched(edits, u, f)
          PROVE  fields[u][f] = Extracted[u][f]
      BY <1>2, <3>1 DEF UnitsInv, EditInv, LastChangeStands, Becomes, Untouched
    <3>2. ASSUME NEW g \in Editors, NEW w \in Units, loaded'[g][w] # <<>>, NEW f \in Fields,
                 Untouched(edits, w, f), Untouched(records[g], w, f)
          PROVE  loaded'[g][w][f] = Extracted[w][f]
      BY <2>2, <3>1, <3>2 DEF UnitsInv, EditInv, LoadedInv
    <3> QED
      BY <1>1, <3>2 DEF LoadedInv, table
  <2>8. SessionInv'
    <3>1. \A g \in Editors : Current(g)' = Current(g)
      BY <1>1, <1>3 DEF Current
    <3>2. \A g \in Editors : g # e => phase'[g] = phase[g]
      BY <1>3 DEF UnitsInv, TypeOK
    <3>3. \A g \in Editors, w \in Units : loaded[g][w] # <<>> => loaded'[g][w] # <<>>
      BY <2>2
    <3>4. u \in stored /\ u = Current(e).unit
      BY <1>3 DEF Found, u
    <3>5. \A g \in Editors : phase'[g] = "write" =>
            Current(g).unit \in stored /\ loaded'[g][Current(g).unit] # <<>>
      BY <2>3, <3>2, <3>3, <3>4 DEF UnitsInv, EditInv, SessionInv, TypeOK
    <3> QED
      BY <1>1, <3>1, <3>5 DEF UnitsInv, EditInv, SessionInv, table
  <2> QED
    BY <1>1, <2>4, <2>5, <2>6, <2>7, <2>8, ListFrame DEF UnitsInv, EditInv, table
<1>4. CASE at' = [at EXCEPT ![e] = @ + 1] /\ UNCHANGED <<loaded, phase>>
  <2>1. TypeOK'
    <3>1. at' \in [Editors -> Nat \ {0}]
      BY <1>4 DEF UnitsInv, TypeOK
    <3>2. \A g \in Editors : phase'[g] = "write" => at'[g] \in DOMAIN request'[g]
      BY <1>1, <1>4 DEF UnitsInv, TypeOK
    <3> QED
      BY <1>1, <1>4, <3>1, <3>2 DEF UnitsInv, TypeOK, table, inserts, reading
  <2>2. LastChangeStands' /\ LockInv'
    BY <1>1 DEF UnitsInv, EditInv, LastChangeStands, LockInv, Locked, table
  <2>3. VersionInv' /\ ImageInv' /\ LoadedInv'
    BY <1>1, <1>4 DEF UnitsInv, EditInv, VersionInv, ImageInv, LoadedInv, Locked, table
  <2>4. SessionInv'
    BY <1>1, <1>4 DEF UnitsInv, TypeOK, EditInv, SessionInv, Current, table
  <2> QED
    BY <1>1, <2>1, <2>2, <2>3, <2>4, ListFrame DEF UnitsInv, EditInv, table
<1> QED
  BY <1>3, <1>4 DEF ReadUnit

\* The edit that a session records, and the version of the row that it leaves.
TheEdit(e) ==
    [unit |-> Current(e).unit, before |-> Before(e), after |-> Current(e).patch]
Base(e) ==
    IF Locked(e, Current(e).unit) THEN version[e][Current(e).unit]
                                  ELSE fields[Current(e).unit]
NewVersion(e) == Overwrite(Base(e), Current(e).patch, Changed(e))
NewLoaded(e) == Overwrite(Before(e), Current(e).patch, DOMAIN Current(e).patch)

LEMMA WhatIsWritten ==
  ASSUME UnitsInv, NEW e \in Editors, phase[e] = "write"
  PROVE  /\ Current(e).unit \in stored /\ Current(e).unit \in Units
         /\ TheEdit(e) \in Edit /\ TheEdit(e).unit = Current(e).unit
         /\ TheEdit(e).before = Before(e) /\ TheEdit(e).after = Current(e).patch
         /\ Before(e) = loaded[e][Current(e).unit] /\ Before(e) \in Contents
         /\ Base(e) \in Contents /\ NewVersion(e) \in Contents /\ NewLoaded(e) \in Contents
         /\ \A f \in Fields :
               /\ f \in Changed(e) <=> Changes(TheEdit(e), Current(e).unit, f)
               /\ NewVersion(e)[f] =
                     IF f \in Changed(e) THEN TheEdit(e).after[f] ELSE Base(e)[f]
               /\ NewLoaded(e)[f] =
                     IF f \in Changed(e) THEN TheEdit(e).after[f] ELSE Before(e)[f]
<1> DEFINE u == Current(e).unit
           patch == Current(e).patch
<1>1. u \in Units /\ patch \in Patches
  BY CurrentItem DEF UnitsInv, TypeOK
<1>2. u \in stored /\ loaded[e][u] # <<>>
  BY DEF UnitsInv, EditInv, SessionInv
<1> HIDE DEF u, patch
<1>3. loaded[e][u] \in Contents /\ fields[u] \in Contents
  BY <1>1, <1>2 DEF UnitsInv, TypeOK
<1>4. version[e][u] # <<>> => version[e][u] \in Contents
  BY <1>1 DEF UnitsInv, TypeOK
<1>5. Before(e) = loaded[e][u] /\ Before(e) \in Contents
  BY <1>3 DEF Before, u
<1>6. Base(e) \in Contents
  BY <1>3, <1>4 DEF Base, Locked, u
<1>7. Changed(e) = {f \in DOMAIN patch : patch[f] # Before(e)[f]}
  BY DEF Changed, Before, patch
<1>8. TheEdit(e) = [unit |-> u, before |-> Before(e), after |-> patch]
  BY DEF TheEdit, u, patch
<1>9. /\ TheEdit(e) \in Edit /\ TheEdit(e).unit = u
      /\ TheEdit(e).before = Before(e) /\ TheEdit(e).after = patch
  BY <1>1, <1>5, <1>8 DEF Edit
<1>10. \A f : f \in Changed(e) <=> Changes(TheEdit(e), u, f)
  BY <1>7, <1>9 DEF Changes
<1>11. /\ NewVersion(e) = Overwrite(Base(e), patch, Changed(e))
       /\ NewLoaded(e) = Overwrite(Before(e), patch, DOMAIN patch)
  BY DEF NewVersion, NewLoaded, patch
<1>12. /\ NewVersion(e) \in Contents
       /\ \A f \in Fields : NewVersion(e)[f] =
             IF f \in Changed(e) THEN patch[f] ELSE Base(e)[f]
  <2>1. Changed(e) \in SUBSET DOMAIN patch
    BY <1>7
  <2> QED
    BY <1>1, <1>6, <1>11, <2>1, OverwriteIsContents
<1>13. /\ NewLoaded(e) \in Contents
       /\ \A f \in Fields : NewLoaded(e)[f] =
             IF f \in DOMAIN patch THEN patch[f] ELSE Before(e)[f]
  BY <1>1, <1>5, <1>11, OverwriteIsContents
<1>14. \A f \in Fields : NewLoaded(e)[f] =
         IF f \in Changed(e) THEN patch[f] ELSE Before(e)[f]
  BY <1>7, <1>13
<1> QED
  BY <1>1, <1>2, <1>5, <1>6, <1>9, <1>10, <1>12, <1>13, <1>14 DEF u, patch

LEMMA StepWriteUnit ==
  ASSUME UnitsInv, NEW e \in Editors, WriteUnit(e)
  PROVE  UnitsInv'
<1> DEFINE u == Current(e).unit
           d == TheEdit(e)
<1>1. /\ phase[e] = "write"
      /\ version' = [version EXCEPT ![e][u] = NewVersion(e)]
      /\ records' = [records EXCEPT ![e] = Append(@, d)]
      /\ at' = [at EXCEPT ![e] = @ + 1]
      /\ phase' = [phase EXCEPT ![e] = "read"]
      /\ UNCHANGED <<table, inserts, request, reading>>
  BY DEF WriteUnit, NewVersion, TheEdit, Base
<1>2. loaded' = [loaded EXCEPT ![e][u] = NewLoaded(e)]
  BY DEF WriteUnit, NewLoaded, Before, UnitsInv, TypeOK
<1>3. \A g \in Editors : g # e => ~Locked(g, u)
  BY <1>1 DEF WriteUnit, Waits
<1>4. /\ u \in stored /\ u \in Units
      /\ d \in Edit /\ d.unit = u /\ d.before = Before(e)
      /\ Before(e) = loaded[e][u] /\ Before(e) \in Contents
      /\ Base(e) \in Contents /\ NewVersion(e) \in Contents /\ NewLoaded(e) \in Contents
      /\ \A f \in Fields :
            /\ f \in Changed(e) <=> Changes(d, u, f)
            /\ NewVersion(e)[f] = IF f \in Changed(e) THEN d.after[f] ELSE Base(e)[f]
            /\ NewLoaded(e)[f] = IF f \in Changed(e) THEN d.after[f] ELSE Before(e)[f]
  BY <1>1, WhatIsWritten
<1>5. Base(e) = IF Locked(e, u) THEN version[e][u] ELSE fields[u]
  BY DEF Base
<1> HIDE DEF u, d
<1>6. /\ version \in [Editors -> [Units -> {<<>>} \cup Contents]]
      /\ loaded \in [Editors -> [Units -> {<<>>} \cup Contents]]
      /\ records \in [Editors -> Seq(Edit)]
  BY DEF UnitsInv, TypeOK
<1>7. /\ version' \in [Editors -> [Units -> {<<>>} \cup Contents]]
      /\ \A g \in Editors, w \in Units : version'[g][w] =
            IF g = e /\ w = u THEN NewVersion(e) ELSE version[g][w]
  BY <1>1, <1>4, <1>6
<1>8. /\ loaded' \in [Editors -> [Units -> {<<>>} \cup Contents]]
      /\ \A g \in Editors, w \in Units : loaded'[g][w] =
            IF g = e /\ w = u THEN NewLoaded(e) ELSE loaded[g][w]
  BY <1>2, <1>4, <1>6
<1>9. Append(records[e], d) \in Seq(Edit)
  BY <1>4, <1>6, AppendProperties
<1>10. /\ records' \in [Editors -> Seq(Edit)] /\ records'[e] = Append(records[e], d)
       /\ \A g \in Editors : g # e => records'[g] = records[g]
  BY <1>1, <1>6, <1>9
<1>11. UNCHANGED <<stored, fields, created, edits>>
  BY <1>1 DEF table
<1>12. \A g \in Editors, w \in Units :
         Locked(g, w)' <=> (g = e /\ w = u) \/ Locked(g, w)
  BY <1>4, <1>7, ContentsAreLoaded DEF Locked
<1>13. TypeOK'
  <2>1. /\ phase' \in [Editors -> {"idle", "read", "write", "done", "failed"}]
        /\ at' \in [Editors -> Nat \ {0}]
    BY <1>1 DEF UnitsInv, TypeOK
  <2>2. \A g \in Editors : phase'[g] = "write" => at'[g] \in DOMAIN request'[g]
    BY <1>1 DEF UnitsInv, TypeOK
  <2> QED
    BY <1>1, <1>7, <1>8, <1>10, <2>1, <2>2 DEF UnitsInv, TypeOK, table, inserts, reading
<1>14. LastChangeStands'
  BY <1>11 DEF UnitsInv, EditInv, LastChangeStands
<1>15. LockInv'
  BY <1>3, <1>12 DEF UnitsInv, EditInv, LockInv
<1>16. VersionInv'
  <2>1. ASSUME NEW f \in Fields
        PROVE  Becomes(records[e], u, f, fields[u][f], Base(e)[f])
    <3>1. CASE Locked(e, u)
      BY <1>4, <1>5, <3>1 DEF UnitsInv, EditInv, VersionInv
    <3>2. CASE ~Locked(e, u)
      <4>1. \A n \in DOMAIN records[e] : ~Changes(records[e][n], u, f)
        BY <1>4, <3>2 DEF UnitsInv, EditInv, VersionInv, Changes
      <4> QED
        BY <1>5, <3>2, <4>1 DEF Becomes
    <3> QED
      BY <3>1, <3>2
  <2>2. ASSUME NEW f \in Fields
        PROVE  Becomes(records'[e], u, f, fields[u][f], version'[e][u][f])
    <3>1. IF Changes(d, u, f) THEN version'[e][u][f] = d.after[f]
                              ELSE version'[e][u][f] = Base(e)[f]
      BY <1>4, <1>7
    <3>2. records[e] \in Seq(Edit)
      BY <1>6
    <3> QED
      BY <1>4, <1>10, <2>1, <3>1, <3>2, BecomesAppend
  <2>3. ASSUME NEW w \in Units, w # u, NEW f \in Fields, Locked(e, w)
        PROVE  Becomes(records'[e], w, f, fields[w][f], version'[e][w][f])
    <3>1. ~Changes(d, w, f)
      BY <1>4, <2>3 DEF Changes
    <3>2. records[e] \in Seq(Edit) /\ version'[e][w] = version[e][w]
      BY <1>6, <1>7, <2>3
    <3>3. Becomes(records[e], w, f, fields[w][f], version[e][w][f])
      BY <2>3 DEF UnitsInv, EditInv, VersionInv
    <3> QED
      BY <1>4, <1>10, <3>1, <3>2, <3>3, BecomesAppend
  <2>4. ASSUME NEW w \in Units, w # u, ~Locked(e, w), NEW n \in DOMAIN records'[e]
        PROVE  records'[e][n].unit # w
    <3>1. records[e] \in Seq(Edit)
      BY <1>6
    <3>2. \/ n \in DOMAIN records[e] /\ records'[e][n] = records[e][n]
          \/ records'[e][n] = d
      BY <1>4, <1>10, <3>1, TrailAppend
    <3> QED
      BY <1>4, <2>4, <3>2 DEF UnitsInv, EditInv, VersionInv
  <2>5. ASSUME NEW g \in Editors, NEW w \in Units, g # e
        PROVE  /\ Locked(g, w) => \A f \in Fields :
                     Becomes(records'[g], w, f, fields[w][f], version'[g][w][f])
               /\ ~Locked(g, w) => \A n \in DOMAIN records'[g] : records'[g][n].unit # w
    <3>1. version'[g][w] = version[g][w] /\ records'[g] = records[g]
      BY <1>7, <1>10, <2>5
    <3> QED
      BY <3>1 DEF UnitsInv, EditInv, VersionInv
  <2>6. ASSUME NEW g \in Editors, NEW w \in Units
        PROVE  /\ Locked(g, w)' => \A f \in Fields :
                     Becomes(records'[g], w, f, fields[w][f], version'[g][w][f])
               /\ ~Locked(g, w)' => \A n \in DOMAIN records'[g] : records'[g][n].unit # w
    BY <1>12, <2>2, <2>3, <2>4, <2>5
  <2> QED
    BY <1>11, <2>6 DEF VersionInv
<1>17. ASSUME NEW w \in Units, NEW f \in Fields
       PROVE  /\ Untouched(records'[e], w, f) <=> Untouched(records[e], w, f) /\ ~Changes(d, w, f)
              /\ FirstImage(records[e], w, f) => FirstImage(records'[e], w, f)
              /\ d.unit = w /\ d.before[f] = Extracted[w][f] => FirstImage(records'[e], w, f)
  <2>1. records[e] \in Seq(Edit)
    BY <1>6
  <2> QED
    BY <1>4, <1>10, <2>1, LongerByOne
<1>18. ASSUME NEW f \in Fields, Untouched(edits, u, f), Untouched(records[e], u, f)
       PROVE  Before(e)[f] = Extracted[u][f]
  BY <1>4, <1>18, ContentsAreLoaded DEF UnitsInv, EditInv, LoadedInv
<1>19. ImageInv'
  <2>1. ASSUME NEW w \in Units, NEW f \in Fields
        PROVE  \/ Untouched(records'[e], w, f)
               \/ FirstImage(edits, w, f) \/ FirstImage(records'[e], w, f)
    <3>1. CASE ~Untouched(records[e], w, f)
      BY <1>17, <3>1 DEF UnitsInv, EditInv, ImageInv
    <3>2. CASE ~Untouched(edits, w, f)
      BY <3>2 DEF UnitsInv, EditInv, ImageInv
    <3>3. CASE Changes(d, w, f) /\ Untouched(records[e], w, f) /\ Untouched(edits, w, f)
      <4>1. w = u
        BY <1>4, <3>3 DEF Changes
      <4> QED
        BY <1>4, <1>17, <1>18, <3>3, <4>1
    <3> QED
      BY <1>17, <3>1, <3>2, <3>3
  <2> QED
    BY <1>10, <1>11, <2>1 DEF UnitsInv, EditInv, ImageInv
<1>20. LoadedInv'
  <2> SUFFICES ASSUME NEW g \in Editors, NEW w \in Units, loaded'[g][w] # <<>>, NEW f \in Fields,
                      Untouched(edits, w, f), Untouched(records'[g], w, f)
               PROVE  loaded'[g][w][f] = Extracted[w][f]
    BY <1>11 DEF LoadedInv
  <2>1. CASE g = e /\ w = u
    BY <1>4, <1>8, <1>17, <1>18, <2>1
  <2>2. CASE ~(g = e /\ w = u)
    BY <1>8, <1>10, <1>17, <2>2 DEF UnitsInv, EditInv, LoadedInv
  <2> QED
    BY <2>1, <2>2
<1>21. SessionInv'
  <2>1. \A g \in Editors : g # e => Current(g)' = Current(g) /\ phase'[g] = phase[g]
    BY <1>1 DEF Current, UnitsInv, TypeOK
  <2>2. phase'[e] # "write"
    BY <1>1 DEF UnitsInv, TypeOK
  <2>3. \A n \in DOMAIN records'[e] : records'[e][n].unit \in stored
    <3>1. records[e] \in Seq(Edit)
      BY <1>6
    <3>2. \A n \in DOMAIN records'[e] :
            \/ n \in DOMAIN records[e] /\ records'[e][n] = records[e][n]
            \/ records'[e][n] = d
      BY <1>4, <1>10, <3>1, TrailAppend
    <3> QED
      BY <1>4, <3>2 DEF UnitsInv, EditInv, SessionInv
  <2>4. ASSUME NEW g \in Editors, g # e
        PROVE  /\ \A n \in DOMAIN records'[g] : records'[g][n].unit \in stored
               /\ phase'[g] = "write" => Current(g).unit \in stored /\ loaded'[g][Current(g).unit] # <<>>
    <3>1. phase[g] = "write" => Current(g).unit \in Units
      BY CurrentItem DEF UnitsInv, TypeOK
    <3> QED
      BY <1>8, <1>10, <2>1, <2>4, <3>1 DEF UnitsInv, EditInv, SessionInv
  <2> QED
    BY <1>11, <2>1, <2>2, <2>3, <2>4 DEF SessionInv
<1> QED
  BY <1>1, <1>11, <1>13, <1>14, <1>15, <1>16, <1>19, <1>20, <1>21, ListFrame DEF UnitsInv, EditInv

\* A session that has ended holds no locks and has nothing to commit.
LEMMA WhatEndSessionLeaves ==
  ASSUME TypeOK, NEW e \in Editors, NEW outcome \in {"done", "failed"},
         EndSession(e, outcome)
  PROVE  /\ phase' \in [Editors -> {"idle", "read", "write", "done", "failed"}]
         /\ loaded' \in [Editors -> [Units -> {<<>>} \cup Contents]]
         /\ version' \in [Editors -> [Units -> {<<>>} \cup Contents]]
         /\ records' \in [Editors -> Seq(Edit)]
         /\ at' \in [Editors -> Nat \ {0}]
         /\ phase'[e] # "write" /\ records'[e] = <<>>
         /\ \A u \in Units : ~Locked(e, u)' /\ loaded'[e][u] = <<>>
         /\ \A g \in Editors : g # e =>
               /\ phase'[g] = phase[g] /\ records'[g] = records[g] /\ at'[g] = at[g]
               /\ loaded'[g] = loaded[g] /\ version'[g] = version[g]
         /\ UNCHANGED request
<1> DEFINE nothing == [u \in Units |-> <<>>]
<1>1. nothing \in [Units -> {<<>>} \cup Contents] /\ \A u \in Units : nothing[u] = <<>>
  OBVIOUS
<1>2. /\ phase' = [phase EXCEPT ![e] = outcome]
      /\ loaded' = [loaded EXCEPT ![e] = nothing]
      /\ version' = [version EXCEPT ![e] = nothing]
      /\ records' = [records EXCEPT ![e] = <<>>]
      /\ at' = [at EXCEPT ![e] = 1]
      /\ UNCHANGED request
  BY DEF EndSession
<1> HIDE DEF nothing
<1>3. /\ phase \in [Editors -> {"idle", "read", "write", "done", "failed"}]
      /\ loaded \in [Editors -> [Units -> {<<>>} \cup Contents]]
      /\ version \in [Editors -> [Units -> {<<>>} \cup Contents]]
      /\ records \in [Editors -> Seq(Edit)]
      /\ at \in [Editors -> Nat \ {0}]
  BY DEF TypeOK
<1>4. /\ phase' \in [Editors -> {"idle", "read", "write", "done", "failed"}]
      /\ at' \in [Editors -> Nat \ {0}] /\ phase'[e] # "write"
      /\ \A g \in Editors : g # e => phase'[g] = phase[g] /\ at'[g] = at[g]
  BY <1>2, <1>3
<1>5. <<>> \in Seq(Edit)
  BY EmptySeq
<1>6. /\ records' \in [Editors -> Seq(Edit)] /\ records'[e] = <<>>
      /\ \A g \in Editors : g # e => records'[g] = records[g]
  BY <1>2, <1>3, <1>5
<1>7. /\ loaded' \in [Editors -> [Units -> {<<>>} \cup Contents]] /\ loaded'[e] = nothing
      /\ \A g \in Editors : g # e => loaded'[g] = loaded[g]
  BY <1>1, <1>2, <1>3
<1>8. /\ version' \in [Editors -> [Units -> {<<>>} \cup Contents]] /\ version'[e] = nothing
      /\ \A g \in Editors : g # e => version'[g] = version[g]
  BY <1>1, <1>2, <1>3
<1> QED
  BY <1>1, <1>2, <1>4, <1>6, <1>7, <1>8 DEF Locked

LEMMA NothingIsUntouched ==
  /\ DOMAIN <<>> = {}
  /\ \A u, f : Untouched(<<>>, u, f)
<1>1. DOMAIN <<>> = {}
  OBVIOUS
<1> QED
  BY <1>1 DEF Untouched

\* The session of e ends, and its edits are committed or thrown away: a trail
\* that grows by some edits, and fields that follow them.
LEMMA EndOfSession ==
  ASSUME UnitsInv, NEW e \in Editors, NEW outcome \in {"done", "failed"},
         EndSession(e, outcome), UNCHANGED <<stored, created, inserts>>,
         UNCHANGED <<listing, filter, cursor, pages>>,
         fields' \in [Units -> Contents], edits' \in Seq(Edit),
         \A n \in DOMAIN edits' : edits'[n].unit \in stored,
         \A u \in Units : ~Locked(e, u) => fields'[u] = fields[u],
         LastChangeStands',
         \A u \in Units, f \in Fields :
            /\ Untouched(edits', u, f) => Untouched(edits, u, f)
            /\ FirstImage(edits, u, f) => FirstImage(edits', u, f)
            /\ Untouched(edits', u, f) \/ FirstImage(edits', u, f),
         steady' = steady \cap Matching(stored, fields')
  PROVE  UnitsInv'
<1>1. TypeOK /\ EditInv /\ ListInv
  BY DEF UnitsInv
<1>2. /\ phase' \in [Editors -> {"idle", "read", "write", "done", "failed"}]
      /\ loaded' \in [Editors -> [Units -> {<<>>} \cup Contents]]
      /\ version' \in [Editors -> [Units -> {<<>>} \cup Contents]]
      /\ records' \in [Editors -> Seq(Edit)]
      /\ at' \in [Editors -> Nat \ {0}]
      /\ phase'[e] # "write" /\ records'[e] = <<>>
      /\ \A u \in Units : ~Locked(e, u)' /\ loaded'[e][u] = <<>>
      /\ \A g \in Editors : g # e =>
            /\ phase'[g] = phase[g] /\ records'[g] = records[g] /\ at'[g] = at[g]
            /\ loaded'[g] = loaded[g] /\ version'[g] = version[g]
      /\ UNCHANGED request
  BY <1>1, WhatEndSessionLeaves
<1>3. TypeOK'
  <2>1. \A g \in Editors : phase'[g] = "write" => at'[g] \in DOMAIN request'[g]
    BY <1>1, <1>2 DEF TypeOK
  <2>2. \A d \in ToSet(edits') : d.unit \in stored
    BY DEF ToSet
  <2>3. steady' \subseteq stored
    BY <1>1 DEF TypeOK
  <2> QED
    BY <1>1, <1>2, <2>1, <2>2, <2>3 DEF TypeOK, inserts
<1>4. LockInv'
  <2>1. ASSUME NEW g \in Editors, NEW h \in Editors, NEW u \in Units,
               Locked(g, u)', Locked(h, u)'
        PROVE  g = h
    <3>1. g # e /\ h # e
      BY <1>2, <2>1
    <3>2. Locked(g, u) /\ Locked(h, u)
      BY <1>2, <2>1, <3>1 DEF Locked
    <3> QED
      BY <1>1, <3>2 DEF EditInv, LockInv
  <2> QED
    BY <2>1 DEF LockInv
<1>5. VersionInv'
  <2>1. ASSUME NEW g \in Editors, g # e, NEW u \in Units, Locked(g, u)
        PROVE  fields'[u] = fields[u]
    BY <1>1, <2>1 DEF EditInv, LockInv
  <2>2. ASSUME NEW g \in Editors, g # e, NEW u \in Units
        PROVE  /\ Locked(g, u)' => \A f \in Fields :
                     Becomes(records'[g], u, f, fields'[u][f], version'[g][u][f])
               /\ ~Locked(g, u)' => \A n \in DOMAIN records'[g] : records'[g][n].unit # u
    <3>1. /\ Locked(g, u)' <=> Locked(g, u)
          /\ version'[g] = version[g] /\ records'[g] = records[g]
      BY <1>2, <2>2 DEF Locked
    <3>2. Locked(g, u) => \A f \in Fields :
            Becomes(records[g], u, f, fields'[u][f], version[g][u][f])
      BY <1>1, <2>1, <2>2 DEF EditInv, VersionInv
    <3>3. ~Locked(g, u) => \A n \in DOMAIN records[g] : records[g][n].unit # u
      BY <1>1 DEF EditInv, VersionInv
    <3> QED
      BY <3>1, <3>2, <3>3
  <2>3. ASSUME NEW u \in Units
        PROVE  ~Locked(e, u)' /\ \A n \in DOMAIN records'[e] : records'[e][n].unit # u
    BY <1>2, NothingIsUntouched
  <2> QED
    BY <2>2, <2>3 DEF VersionInv
<1>6. ImageInv'
  <2>1. ASSUME NEW u \in Units, NEW f \in Fields, NEW g \in Editors
        PROVE  \/ Untouched(records'[g], u, f)
               \/ FirstImage(edits', u, f) \/ FirstImage(records'[g], u, f)
    <3>1. CASE g = e
      BY <1>2, <3>1, NothingIsUntouched
    <3>2. CASE g # e
      BY <1>1, <1>2, <3>2 DEF EditInv, ImageInv
    <3> QED
      BY <3>1, <3>2
  <2> QED
    BY <2>1 DEF ImageInv
<1>7. LoadedInv'
  <2>1. ASSUME NEW g \in Editors, NEW u \in Units, loaded'[g][u] # <<>>, NEW f \in Fields,
               Untouched(edits', u, f), Untouched(records'[g], u, f)
        PROVE  loaded'[g][u][f] = Extracted[u][f]
    <3>1. g # e
      BY <1>2, <2>1
    <3>2. loaded'[g] = loaded[g] /\ records'[g] = records[g]
      BY <1>2, <3>1
    <3> QED
      BY <1>1, <2>1, <3>2 DEF EditInv, LoadedInv
  <2> QED
    BY <2>1 DEF LoadedInv
<1>8. SessionInv'
  <2>1. \A g \in Editors : g # e => Current(g)' = Current(g)
    BY <1>2 DEF Current
  <2>2. ASSUME NEW g \in Editors
        PROVE  /\ \A n \in DOMAIN records'[g] : records'[g][n].unit \in stored
               /\ phase'[g] = "write" =>
                     Current(g)'.unit \in stored /\ loaded'[g][Current(g)'.unit] # <<>>
    <3>1. CASE g = e
      BY <1>2, <3>1, NothingIsUntouched
    <3>2. CASE g # e
      BY <1>1, <1>2, <2>1, <3>2 DEF EditInv, SessionInv
    <3> QED
      BY <3>1, <3>2
  <2> QED
    BY <2>2 DEF SessionInv
<1>9. ListInv'
  <2>1. Matching(stored, fields)' = Matching(stored, fields')
    BY DEF Matching
  <2>2. steady' \subseteq steady /\ steady' \subseteq Matching(stored, fields)'
    BY <2>1
  <2> QED
    BY <1>1, <2>2 DEF ListInv, NoCursor
<1> QED
  BY <1>3, <1>4, <1>5, <1>6, <1>7, <1>8, <1>9 DEF UnitsInv, EditInv

LEMMA StepRollback ==
  ASSUME UnitsInv, NEW e \in Editors, Rollback(e)
  PROVE  UnitsInv'
<1>1. EndSession(e, "failed") /\ UNCHANGED <<table, inserts, reading>>
  BY DEF Rollback
<1>2. steady' = steady \cap Matching(stored, fields')
  BY <1>1 DEF UnitsInv, ListInv, table, reading
<1>3. /\ fields' \in [Units -> Contents] /\ edits' \in Seq(Edit)
      /\ \A n \in DOMAIN edits' : edits'[n].unit \in stored
  BY <1>1 DEF UnitsInv, TypeOK, table, ToSet
<1>4. LastChangeStands'
  BY <1>1 DEF UnitsInv, EditInv, LastChangeStands, table
<1>5. ASSUME NEW u \in Units, NEW f \in Fields
      PROVE  /\ Untouched(edits', u, f) => Untouched(edits, u, f)
             /\ FirstImage(edits, u, f) => FirstImage(edits', u, f)
             /\ Untouched(edits', u, f) \/ FirstImage(edits', u, f)
  BY <1>1 DEF UnitsInv, EditInv, ImageInv, table
<1>6. /\ UNCHANGED <<stored, created, inserts>> /\ UNCHANGED <<listing, filter, cursor, pages>>
      /\ \A u \in Units : ~Locked(e, u) => fields'[u] = fields[u]
  BY <1>1 DEF table, reading
<1> QED
  BY <1>1, <1>2, <1>3, <1>4, <1>5, <1>6, EndOfSession

\* What a commit makes of the fields and of the trail.
LEMMA WhatIsCommitted ==
  ASSUME UnitsInv, NEW e \in Editors, CommitEdits(e)
  PROVE  /\ fields' \in [Units -> Contents]
         /\ edits' = edits \o records[e] /\ edits' \in Seq(Edit)
         /\ edits \in Seq(Edit) /\ records[e] \in Seq(Edit)
         /\ \A u \in Units : ~Locked(e, u) => fields'[u] = fields[u]
         /\ \A u \in Units, f \in Fields :
               Becomes(records[e], u, f, fields[u][f], fields'[u][f])
<1>1. /\ fields' = [u \in Units |-> IF Locked(e, u) THEN version[e][u] ELSE fields[u]]
      /\ edits' = edits \o records[e]
  BY DEF CommitEdits
<1>2. /\ edits \in Seq(Edit) /\ records[e] \in Seq(Edit)
      /\ \A u \in Units : Locked(e, u) => version[e][u] \in Contents
      /\ \A u \in Units : fields[u] \in Contents
  BY DEF UnitsInv, TypeOK, Locked
<1>3. edits' \in Seq(Edit)
  BY <1>1, <1>2, TrailConcat
<1>4. fields' \in [Units -> Contents]
  BY <1>1, <1>2
<1>5. \A u \in Units : fields'[u] = IF Locked(e, u) THEN version[e][u] ELSE fields[u]
  BY <1>1
<1>6. ASSUME NEW u \in Units, NEW f \in Fields
      PROVE  Becomes(records[e], u, f, fields[u][f], fields'[u][f])
  <2>1. CASE Locked(e, u)
    BY <1>5, <2>1 DEF UnitsInv, EditInv, VersionInv
  <2>2. CASE ~Locked(e, u)
    <3>1. \A n \in DOMAIN records[e] : ~Changes(records[e][n], u, f)
      BY <2>2 DEF UnitsInv, EditInv, VersionInv, Changes
    <3> QED
      BY <1>5, <2>2, <3>1 DEF Becomes
  <2> QED
    BY <2>1, <2>2
<1> QED
  BY <1>1, <1>2, <1>3, <1>4, <1>5, <1>6

LEMMA StepCommitEdits ==
  ASSUME UnitsInv, NEW e \in Editors, CommitEdits(e)
  PROVE  UnitsInv'
<1>1. /\ EndSession(e, "done")
      /\ steady' = steady \cap Matching(stored, fields')
      /\ UNCHANGED <<stored, created, inserts>> /\ UNCHANGED <<listing, filter, cursor, pages>>
  BY DEF CommitEdits
<1>2. /\ fields' \in [Units -> Contents]
      /\ edits' = edits \o records[e] /\ edits' \in Seq(Edit)
      /\ edits \in Seq(Edit) /\ records[e] \in Seq(Edit)
      /\ \A u \in Units : ~Locked(e, u) => fields'[u] = fields[u]
      /\ \A u \in Units, f \in Fields :
            Becomes(records[e], u, f, fields[u][f], fields'[u][f])
  BY WhatIsCommitted
<1>3. LastChangeStands'
  <2>1. ASSUME NEW u \in Units, NEW f \in Fields
        PROVE  Becomes(edits', u, f, Extracted[u][f], fields'[u][f])
    <3>1. Becomes(edits, u, f, Extracted[u][f], fields[u][f])
      BY DEF UnitsInv, EditInv, LastChangeStands
    <3> QED
      BY <1>2, <3>1, BecomesConcat
  <2> QED
    BY <2>1 DEF LastChangeStands
<1>4. ASSUME NEW u \in Units, NEW f \in Fields
      PROVE  /\ Untouched(edits', u, f) => Untouched(edits, u, f)
             /\ FirstImage(edits, u, f) => FirstImage(edits', u, f)
             /\ Untouched(edits', u, f) \/ FirstImage(edits', u, f)
  <2>1. /\ Untouched(edits', u, f) <=> Untouched(edits, u, f) /\ Untouched(records[e], u, f)
        /\ FirstImage(edits, u, f) => FirstImage(edits', u, f)
        /\ FirstImage(records[e], u, f) => FirstImage(edits', u, f)
    BY <1>2, LongerTrail
  <2> QED
    BY <2>1 DEF UnitsInv, EditInv, ImageInv
<1>5. \A n \in DOMAIN edits' : edits'[n].unit \in stored
  <2> SUFFICES ASSUME NEW n \in DOMAIN edits'
               PROVE  edits'[n].unit \in stored
    OBVIOUS
  <2>1. CASE n \in DOMAIN edits
    <3>1. edits'[n] = edits[n] /\ edits[n] \in ToSet(edits)
      BY <1>2, <2>1, TrailConcat DEF ToSet
    <3> QED
      BY <3>1 DEF UnitsInv, TypeOK
  <2>2. CASE n > Len(edits) /\ n - Len(edits) \in DOMAIN records[e]
    <3>1. n \in Nat /\ Len(edits) \in Nat
      BY <1>2, LenProperties
    <3>2. edits'[Len(edits) + (n - Len(edits))] = records[e][n - Len(edits)]
      BY <1>2, <2>2, TrailConcat
    <3>3. Len(edits) + (n - Len(edits)) = n
      BY <3>1
    <3> QED
      BY <2>2, <3>2, <3>3 DEF UnitsInv, EditInv, SessionInv
  <2> QED
    BY <1>2, <2>1, <2>2, TrailConcat
<1> QED
  BY <1>1, <1>2, <1>3, <1>4, <1>5, EndOfSession

-----------------------------------------------------------------------------
(***************************************************************************)
(* The reader.                                                             *)
(***************************************************************************)
LEMMA CreationTimes ==
  ASSUME TypeOK
  PROVE  /\ \A u \in stored : created[u] \in Int /\ created[u] < NoCursor
         /\ cursor \in Int
  BY UnitsAssumption DEF TypeOK, NoCursor, Times

LEMMA StepOpenList ==
  ASSUME UnitsInv, NEW f \in Filters, OpenList(f)
  PROVE  UnitsInv'
<1>1. /\ listing = "off" /\ listing' = "on" /\ filter' = f
      /\ steady' = {u \in stored : f = AnyStatus \/ fields[u].status = f}
      /\ UNCHANGED <<table, inserts, editing, cursor, pages>>
  BY DEF OpenList
<1>2. UNCHANGED <<stored, fields, created, edits>>
  BY <1>1 DEF table
<1>3. TypeOK'
  BY <1>1, <1>2 DEF UnitsInv, TypeOK, inserts, editing
<1>4. ListInv'
  <2>1. Matching(stored, fields)' = steady'
    BY <1>1, <1>2 DEF Matching
  <2>2. pages = <<>> /\ cursor = NoCursor
    BY <1>1 DEF UnitsInv, ListInv
  <2>3. \A u \in steady' : created[u] < cursor
    BY <1>1, <2>2, CreationTimes DEF UnitsInv
  <2>4. DOMAIN pages = {}
    BY <2>2, NothingIsUntouched
  <2>5. IsInjective(pages')
    BY <1>1, <2>4 DEF IsInjective
  <2> QED
    BY <1>1, <1>2, <2>1, <2>3, <2>4, <2>5 DEF ListInv
<1> QED
  BY <1>1, <1>2, <1>3, <1>4, EditFrame DEF UnitsInv

\* A page from among us: no unit twice, the newest first, and all of us if
\* there is room.
LEMMA NewestUnits ==
  ASSUME NEW us \in SUBSET Units, NEW n \in Nat, NEW page \in Newest(us, n)
  PROVE  /\ page \in Seq(us) /\ Len(page) <= n
         /\ IsInjective(page)
         /\ \A i, k \in 1..Len(page) : i < k => created[page[i]] >= created[page[k]]
         /\ \A u \in us \ ToSet(page), v \in ToSet(page) : created[v] >= created[u]
         /\ Len(page) < n => us \subseteq ToSet(page)
<1>1. PICK m \in 0..n : page \in [1..m -> us]
  BY DEF Newest
<1>2. /\ IsInjective(page)
      /\ Len(page) = IF Cardinality(us) < n THEN Cardinality(us) ELSE n
      /\ \A i, k \in 1..Len(page) : i < k => created[page[i]] >= created[page[k]]
      /\ \A u \in us \ ToSet(page), v \in ToSet(page) : created[v] >= created[u]
  BY DEF Newest
<1>3. page \in Seq(us) /\ Len(page) = m
  BY <1>1
<1>4. ASSUME Len(page) < n
      PROVE  us \subseteq ToSet(page)
  <2>1. IsFiniteSet(us)
    BY FS_Subset, UnitsAssumption
  <2>2. IsFiniteSet(1..m) /\ Cardinality(1..m) = m
    BY <1>1, FS_Interval
  <2>3. Cardinality(us) = m
    <3>1. Cardinality(us) \in Nat
      BY <2>1, FS_CardinalityType
    <3> QED
      BY <1>2, <1>3, <1>4, <3>1
  <2>4. page \in Injection(1..m, us)
    BY <1>1, <1>2 DEF Injection, IsInjective
  <2>5. page \in Surjection(1..m, us)
    BY <2>1, <2>2, <2>3, <2>4, FS_Injection
  <2>6. \A u \in us : \E i \in 1..m : page[i] = u
    BY <2>5 DEF Surjection
  <2>7. DOMAIN page = 1..m
    BY <1>1
  <2> QED
    BY <2>6, <2>7 DEF ToSet
<1> QED
  BY <1>1, <1>2, <1>3, <1>4

LEMMA PagesJoin ==
  ASSUME NEW s \in Seq(Units), NEW t \in Seq(Units)
  PROVE  /\ s \o t \in Seq(Units)
         /\ ToSet(s \o t) = ToSet(s) \cup ToSet(t)
         /\ IsInjective(s) /\ IsInjective(t) /\ ToSet(s) \cap ToSet(t) = {} =>
               IsInjective(s \o t)
<1> DEFINE st == s \o t
<1>1. /\ st \in Seq(Units) /\ DOMAIN st = 1..(Len(s) + Len(t))
      /\ \A i \in 1 .. Len(s) + Len(t) : st[i] = IF i <= Len(s) THEN s[i] ELSE t[i - Len(s)]
  BY ConcatProperties, LenProperties
<1>2. /\ DOMAIN s = 1..Len(s) /\ DOMAIN t = 1..Len(t)
      /\ Len(s) \in Nat /\ Len(t) \in Nat
  BY LenProperties
<1> HIDE DEF st
<1>3. \A i \in DOMAIN s : i \in DOMAIN st /\ st[i] = s[i]
  BY <1>1, <1>2
<1>4. ASSUME NEW i \in DOMAIN t
      PROVE  Len(s) + i \in DOMAIN st /\ st[Len(s) + i] = t[i]
  BY <1>1, <1>2
<1>5. ASSUME NEW i \in DOMAIN st
      PROVE  \/ i \in DOMAIN s /\ st[i] = s[i]
             \/ i > Len(s) /\ i - Len(s) \in DOMAIN t /\ st[i] = t[i - Len(s)]
  BY <1>1, <1>2
<1>6. ToSet(st) = ToSet(s) \cup ToSet(t)
  <2>1. ToSet(s) \subseteq ToSet(st)
    BY <1>3 DEF ToSet
  <2>2. ToSet(t) \subseteq ToSet(st)
    BY <1>4 DEF ToSet
  <2>3. ToSet(st) \subseteq ToSet(s) \cup ToSet(t)
    BY <1>5 DEF ToSet
  <2> QED
    BY <2>1, <2>2, <2>3
<1>7. ASSUME IsInjective(s), IsInjective(t), ToSet(s) \cap ToSet(t) = {},
             NEW i \in DOMAIN st, NEW k \in DOMAIN st, st[i] = st[k]
      PROVE  i = k
  <2>1. \A a \in DOMAIN s, b \in DOMAIN t : s[a] # t[b]
    BY <1>7 DEF ToSet
  <2>2. CASE i \in DOMAIN s /\ st[i] = s[i]
    BY <1>5, <1>7, <2>1, <2>2 DEF IsInjective
  <2>3. CASE i > Len(s) /\ i - Len(s) \in DOMAIN t /\ st[i] = t[i - Len(s)]
    <3>1. k > Len(s) /\ k - Len(s) \in DOMAIN t /\ st[k] = t[k - Len(s)]
      BY <1>5, <1>7, <2>1, <2>3
    <3>2. i - Len(s) = k - Len(s)
      BY <1>7, <2>3, <3>1 DEF IsInjective
    <3>3. i \in Nat /\ k \in Nat /\ Len(s) \in Nat
      BY <1>1, <1>2
    <3> QED
      BY <3>2, <3>3
  <2> QED
    BY <1>5, <2>2, <2>3
<1> QED
  BY <1>1, <1>6, <1>7 DEF st, IsInjective

LEMMA StepReadPage ==
  ASSUME UnitsInv, ReadPage
  PROVE  UnitsInv'
<1> DEFINE rest == {u \in Matching(stored, fields) : NotYetShown(u)}
<1>1. PICK page \in Newest(rest, Limit + 1) :
        IF Len(page) > Limit
        THEN /\ pages' = pages \o SubSeq(page, 1, Limit)
             /\ cursor' = created[page[Limit]]
             /\ UNCHANGED listing
        ELSE /\ pages' = pages \o page
             /\ listing' = "over"
             /\ UNCHANGED cursor
  BY DEF ReadPage, LastShown
<1>2. listing = "on" /\ UNCHANGED <<table, inserts, editing, filter, steady>>
  BY DEF ReadPage
<1>3. /\ stored \subseteq Units /\ pages \in Seq(Units) /\ ToSet(pages) \subseteq stored
      /\ steady \subseteq stored /\ Limit \in Nat \ {0}
      /\ \A u \in stored : created[u] \in Times
  BY UnitsAssumption DEF UnitsInv, TypeOK
<1>4. /\ \A u \in stored : created[u] \in Int /\ cursor \in Int
      /\ \A u \in stored : created[u] < NoCursor
  BY CreationTimes DEF UnitsInv
<1>5. UNCHANGED <<stored, fields, created, edits>>
  BY <1>2 DEF table
<1>6. /\ rest \subseteq stored /\ \A u \in rest : created[u] < cursor
      /\ \A u \in Matching(stored, fields) : created[u] < cursor => u \in rest
  BY DEF Matching, NotYetShown
<1>7. /\ steady \subseteq Matching(stored, fields) /\ IsInjective(pages)
      /\ \A u \in ToSet(pages) : created[u] >= cursor
      /\ \A u \in steady : \/ u \in ToSet(pages) \/ created[u] < cursor
                           \/ \E v \in ToSet(pages) : created[v] = created[u]
  BY <1>2 DEF UnitsInv, ListInv, ToSet
<1> HIDE DEF rest
<1>8. /\ page \in Seq(rest) /\ Len(page) <= Limit + 1
      /\ IsInjective(page)
      /\ \A i, k \in 1..Len(page) : i < k => created[page[i]] >= created[page[k]]
      /\ \A u \in rest \ ToSet(page), v \in ToSet(page) : created[v] >= created[u]
      /\ Len(page) < Limit + 1 => rest \subseteq ToSet(page)
  <2>1. rest \in SUBSET Units /\ Limit + 1 \in Nat
    BY <1>3, <1>6
  <2> QED
    BY <2>1, NewestUnits
<1>9. page \in Seq(Units) /\ Len(page) \in Nat /\ DOMAIN page = 1..Len(page)
      /\ \A i \in 1..Len(page) : page[i] \in rest
  BY <1>3, <1>6, <1>8, ElementOfSeq, LenProperties, SeqMonotonic
<1>10. EditInv'
  BY <1>2, <1>5, EditFrame DEF UnitsInv
<1>11. ASSUME NEW shown \in Seq(Units), pages' = pages \o shown,
              IsInjective(shown), ToSet(shown) \subseteq rest,
              listing' \in {"on", "over"}, cursor' \in Times \cup {NoCursor},
              listing' = "on" => /\ cursor' <= cursor
                                 /\ \A u \in ToSet(shown) : created[u] >= cursor',
              \A u \in rest :
                 \/ u \in ToSet(shown)
                 \/ listing' = "on" /\ created[u] < cursor'
                 \/ \E v \in ToSet(shown) : created[v] = created[u]
       PROVE  UnitsInv'
  <2>1. ToSet(pages) \cap ToSet(shown) = {}
    BY <1>3, <1>4, <1>6, <1>7, <1>11
  <2>2. /\ pages' \in Seq(Units) /\ ToSet(pages') = ToSet(pages) \cup ToSet(shown)
        /\ IsInjective(pages')
    BY <1>3, <1>7, <1>11, <2>1, PagesJoin
  <2>3. ToSet(pages') \subseteq stored
    BY <1>3, <1>6, <1>11, <2>2
  <2>4. TypeOK'
    BY <1>2, <1>5, <1>11, <2>2, <2>3 DEF UnitsInv, TypeOK, inserts, editing
  <2>5. listing' = "on" => \A n \in DOMAIN pages' : created[pages'[n]] >= cursor'
    <3>1. cursor' \in Int
      BY <1>11, UnitsAssumption DEF Times, NoCursor
    <3>2. listing' = "on" => \A u \in ToSet(pages') : created[u] >= cursor'
      BY <1>3, <1>4, <1>7, <1>11, <2>2, <3>1
    <3>3. \A n \in DOMAIN pages' : pages'[n] \in ToSet(pages')
      BY DEF ToSet
    <3> QED
      BY <3>2, <3>3
  <2>6. \A u \in steady :
          \/ u \in ToSet(pages')
          \/ listing' = "on" /\ created[u] < cursor'
          \/ \E v \in ToSet(pages') : created[v] = created[u]
    BY <1>6, <1>7, <1>11, <2>2
  <2>7. Matching(stored, fields)' = Matching(stored, fields)
    BY <1>2, <1>5 DEF Matching
  <2>8. ListInv'
    BY <1>2, <1>5, <1>7, <1>11, <2>2, <2>5, <2>6, <2>7 DEF ListInv
  <2> QED
    BY <1>10, <2>4, <2>8 DEF UnitsInv
<1>12. CASE Len(page) > Limit
  <2> DEFINE shown == SubSeq(page, 1, Limit)
             last == page[Limit]
  <2>1. Len(page) = Limit + 1
    <3>1. Limit \in Nat
      BY UnitsAssumption
    <3>2. Len(page) \in Nat
      BY <1>9, LenProperties
    <3>3. Len(page) <= Limit + 1
      BY <1>8
    <3> QED
      BY <1>12, <3>1, <3>2, <3>3
  <2>2. /\ shown \in Seq(Units) /\ Len(shown) = Limit /\ DOMAIN shown = 1..Limit
        /\ \A i \in 1..Limit : shown[i] = page[i]
    <3>1. \A i \in 1..Limit : page[i] \in Units
      BY <1>3, <1>9, <2>1, ElementOfSeq
    <3>2. /\ shown \in Seq(Units) /\ Len(shown) = Limit
          /\ \A i \in 1..Limit : shown[i] = page[i]
      BY <1>3, <3>1, SubSeqProperties
    <3> QED
      BY <3>2, LenProperties
  <2>3. pages' = pages \o shown /\ cursor' = created[last] /\ listing' = "on"
    BY <1>1, <1>2, <1>12
  <2> HIDE DEF shown
  <2>4. \A i \in 1..Limit : page[i] \in ToSet(shown)
    BY <2>2 DEF ToSet
  <2>5. \A u \in ToSet(shown) : \E i \in 1..Limit : u = page[i]
    BY <2>2 DEF ToSet
  <2>6. last \in ToSet(shown) /\ last \in rest /\ last \in ToSet(page)
    BY <1>3, <1>9, <2>1, <2>4 DEF ToSet
  <2>7. IsInjective(shown)
    BY <1>3, <1>8, <1>9, <2>1, <2>2 DEF IsInjective
  <2>8. ToSet(shown) \subseteq rest
    BY <1>3, <1>9, <2>1, <2>5
  <2>9. cursor' \in Times /\ cursor' <= cursor
    BY <1>3, <1>4, <1>6, <2>3, <2>6
  <2>10. \A i \in 1..Limit : created[page[i]] >= created[last]
    <3>1. \A i \in 1..Limit : i < Limit => created[page[i]] >= created[last]
      BY <1>3, <1>8, <2>1
    <3>2. created[last] \in Int
      BY <1>4, <1>6, <2>6
    <3> QED
      BY <1>3, <3>1, <3>2
  <2>11. \A u \in ToSet(shown) : created[u] >= cursor'
    BY <2>3, <2>5, <2>10
  <2>12. ASSUME NEW u \in rest, u \notin ToSet(shown)
         PROVE  created[u] < cursor' \/ created[last] = created[u]
    <3>1. created[last] >= created[u]
      <4>1. CASE u \in ToSet(page)
        <5>1. PICK k \in 1..Len(page) : u = page[k]
          BY <1>9, <4>1 DEF ToSet
        <5>2. k = Limit + 1
          BY <1>3, <2>1, <2>4, <2>12, <5>1
        <5> QED
          BY <1>3, <1>8, <2>1, <5>1, <5>2
      <4>2. CASE u \notin ToSet(page)
        BY <1>8, <2>6, <4>2
      <4> QED
        BY <4>1, <4>2
    <3> QED
      BY <1>4, <1>6, <2>3, <2>6, <3>1
  <2> HIDE DEF last
  <2> QED
    BY <1>11, <2>2, <2>3, <2>6, <2>7, <2>8, <2>9, <2>11, <2>12
<1>13. CASE ~(Len(page) > Limit)
  <2>1. pages' = pages \o page /\ listing' = "over" /\ cursor' = cursor
    BY <1>1, <1>13
  <2>2. rest \subseteq ToSet(page)
    BY <1>3, <1>8, <1>9, <1>13
  <2>3. ToSet(page) \subseteq rest
    BY <1>9 DEF ToSet
  <2>4. cursor' \in Times \cup {NoCursor}
    BY <2>1 DEF UnitsInv, TypeOK
  <2> QED
    BY <1>8, <1>9, <1>11, <2>1, <2>2, <2>3, <2>4
<1> QED
  BY <1>12, <1>13

-----------------------------------------------------------------------------
(***************************************************************************)
(* The invariant and what follows from it.                                 *)
(***************************************************************************)
LEMMA InitUnitsInv == Init => UnitsInv
<1> SUFFICES ASSUME Init
             PROVE  UnitsInv
  OBVIOUS
<1>1. DOMAIN <<>> = {} /\ ToSet(<<>>) = {} /\ <<>> \in Seq(Edit) /\ <<>> \in Seq(Units)
  BY NothingIsUntouched, EmptySeq DEF ToSet
<1>2. TypeOK
  BY <1>1, UnitsAssumption DEF Init, TypeOK, Times, NoCursor
<1>3. \A e \in Editors : records[e] = <<>>
  BY DEF Init
<1>4. \A e \in Editors, u \in Units : ~Locked(e, u) /\ loaded[e][u] = <<>>
  BY DEF Init, Locked
<1>5. LastChangeStands
  BY <1>1 DEF Init, LastChangeStands, Becomes
<1>6. LockInv /\ LoadedInv
  BY <1>4 DEF LockInv, LoadedInv
<1>7. VersionInv
  BY <1>1, <1>3, <1>4 DEF VersionInv
<1>8. ImageInv
  BY <1>3, NothingIsUntouched DEF Init, ImageInv
<1>9. SessionInv
  BY <1>1, <1>3 DEF Init, SessionInv
<1>10. ListInv
  BY <1>1 DEF Init, ListInv, IsInjective, Matching
<1> QED
  BY <1>2, <1>5, <1>6, <1>7, <1>8, <1>9, <1>10 DEF UnitsInv, EditInv

LEMMA NextUnitsInv == UnitsInv /\ [Next]_vars => UnitsInv'
<1> SUFFICES ASSUME UnitsInv, [Next]_vars
             PROVE  UnitsInv'
  OBVIOUS
<1>1. CASE Tick \/ UNCHANGED vars
  BY <1>1, StepTick
<1>2. CASE \E i \in Inserts : BeginInsert(i) \/ CommitInsert(i)
  BY <1>2, StepTick, StepCommitInsert
<1>3. ASSUME NEW e \in Editors,
             EditorStep(e) \/ Rollback(e) \/ \E r \in Requests : Ask(e, r)
      PROVE  UnitsInv'
  BY <1>3, StepReadUnit, StepWriteUnit, StepCommitEdits, StepRollback, StepAsk
     DEF EditorStep, BreakDeadlock
<1>4. CASE (\E f \in Filters : OpenList(f)) \/ ReadPage
  BY <1>4, StepOpenList, StepReadPage
<1> QED
  BY <1>1, <1>2, <1>3, <1>4 DEF Next

LEMMA AlwaysUnitsInv == Spec => []UnitsInv
  BY InitUnitsInv, NextUnitsInv, PTL DEF Spec

\* Every variable of the table, of the sessions and of the reader keeps its
\* type, for any numbers of units, editors and transactions.
THEOREM UnitsTypeCorrect == Spec => []TypeOK
<1>1. UnitsInv => TypeOK
  BY DEF UnitsInv
<1> QED
  BY <1>1, AlwaysUnitsInv, PTL

\* However the editors' reads and writes interleave, a field has the value
\* that was set by the last edit which found another one (update,
\* bulk_update_status).
THEOREM LastChangesStand == Spec => []LastChangeStands
<1>1. UnitsInv => LastChangeStands
  BY DEF UnitsInv, EditInv
<1> QED
  BY <1>1, AlwaysUnitsInv, PTL

\* Paging shows no unit twice, and every unit that matched all the while or
\* one of its age (list_for_book).
THEOREM ListingsAreSound == Spec => []ListingIsSound
<1>1. UnitsInv => ListingIsSound
  BY DEF UnitsInv, ListInv, ListingIsSound
<1> QED
  BY <1>1, AlwaysUnitsInv, PTL

\* A step that changes a field leaves both its values in the trail.
LEMMA ChangesAreRecorded ==
  ASSUME UnitsInv, [Next]_vars
  PROVE  \A u \in stored, f \in Fields : fields'[u][f] # fields[u][f] =>
            \A v \in {fields[u][f], fields'[u][f]} : Recorded(edits', u, f, v)
<1> SUFFICES ASSUME NEW u \in stored, NEW f \in Fields, fields'[u][f] # fields[u][f]
             PROVE  \A v \in {fields[u][f], fields'[u][f]} : Recorded(edits', u, f, v)
  OBVIOUS
<1>1. u \in Units
  BY DEF UnitsInv, TypeOK
<1>2. PICK e \in Editors : CommitEdits(e)
  <2>1. fields' # fields
    OBVIOUS
  <2> QED
    BY <2>1 DEF Next, vars, table, Tick, BeginInsert, CommitInsert, EditorStep, BreakDeadlock,
       Rollback, Ask, ReadUnit, WriteUnit, OpenList, ReadPage
<1>3. /\ edits' = edits \o records[e] /\ edits' \in Seq(Edit)
      /\ edits \in Seq(Edit) /\ records[e] \in Seq(Edit)
      /\ Becomes(records[e], u, f, fields[u][f], fields'[u][f])
  BY <1>1, <1>2, WhatIsCommitted
<1>4. \A d \in ToSet(edits) \cup ToSet(records[e]) : d \in ToSet(edits')
  <2>1. /\ \A n \in DOMAIN edits : n \in DOMAIN edits' /\ edits'[n] = edits[n]
        /\ \A n \in DOMAIN records[e] :
              Len(edits) + n \in DOMAIN edits' /\ edits'[Len(edits) + n] = records[e][n]
    BY <1>3, TrailConcat
  <2>2. \A n \in DOMAIN edits : edits[n] \in ToSet(edits')
    BY <2>1, SMT DEF ToSet
  <2>3. \A n \in DOMAIN records[e] : records[e][n] \in ToSet(edits')
    BY <2>1, SMT DEF ToSet
  <2> QED
    BY <2>2, <2>3, Zenon DEF ToSet
<1>5. PICK n \in DOMAIN records[e] :
        Changes(records[e][n], u, f) /\ fields'[u][f] = records[e][n].after[f]
  BY <1>3 DEF Becomes
<1>6. Recorded(edits', u, f, fields'[u][f])
  <2>1. records[e][n] \in ToSet(edits')
    BY <1>4 DEF ToSet
  <2> QED
    BY <1>5, <2>1 DEF Recorded, Changes
<1>7. Recorded(edits', u, f, fields[u][f])
  <2>1. CASE Untouched(edits, u, f)
    <3>1. fields[u][f] = Extracted[u][f]
      BY <1>1, <2>1 DEF UnitsInv, EditInv, LastChangeStands, Becomes, Untouched
    <3>2. FirstImage(edits, u, f) \/ FirstImage(records[e], u, f)
      BY <1>1, <1>5 DEF UnitsInv, EditInv, ImageInv, Untouched
    <3> QED
      BY <1>4, <3>1, <3>2 DEF FirstImage, Recorded, ToSet
  <2>2. CASE ~Untouched(edits, u, f)
    <3>1. PICK k \in DOMAIN edits :
            Changes(edits[k], u, f) /\ fields[u][f] = edits[k].after[f]
      BY <1>1, <2>2 DEF UnitsInv, EditInv, LastChangeStands, Becomes, Untouched
    <3>2. edits[k] \in ToSet(edits')
      BY <1>4 DEF ToSet
    <3> QED
      BY <3>1, <3>2 DEF Recorded, Changes
  <2> QED
    BY <2>1, <2>2
<1> QED
  BY <1>6, <1>7

\* The audit trail has the value a field had and the one it gets, though the
\* images before an edit may be stale (update, UnitEdit).
THEOREM PreviousValuesAreKept == Spec => PreviousValuesKept
<1>1. UnitsInv /\ [Next]_vars =>
        [\A u \in stored, f \in Fields : fields'[u][f] # fields[u][f] =>
            \A v \in {fields[u][f], fields'[u][f]} : Recorded(edits', u, f, v)]_vars
  BY ChangesAreRecorded
<1> QED
  BY <1>1, AlwaysUnitsInv, PTL DEF Spec, PreviousValuesKept

=============================================================================
