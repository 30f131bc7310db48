------------------------- MODULE SettingsStore_proofs -------------------------
(***************************************************************************)
(* The settings store, for every set of widgets and any number of edits,   *)
(* failures and saves of other programs.                                   *)
(***************************************************************************)
EXTENDS SettingsStore, SequenceTheorems, FiniteSetTheorems, TLAPS

-----------------------------------------------------------------------------
(* The inductive invariant                                                  *)

\* Merged in memory and not on disk yet; from the rename on a persist cannot fail.
Merged == {"open", "write", "check", "rename", "classic"}
Busy == Merged \cup {"stamp"}
Reload == {"query", "load", "apply"}

Document == [outside : Nat, edit : [Widgets -> Nat]]
Version == [stamp : Nat, doc : Document, valid : BOOLEAN]
Edit == [w : Widgets, id : Nat]

TypeOK ==
  /\ file \in Version \cup {None}
  /\ stamps \in Nat
  /\ mem \in Document
  /\ applied \in Nat \cup {None}
  /\ ui \in {"idle", "ack", "swap", "patch"} \cup Busy \cup Reload
  /\ todo \in Seq(Edit)
  /\ ui \in Merged => previous \in Document
  /\ ui \in {"load", "apply"} => loading \in [stamp : Nat, doc : Document]
  /\ table \in [Widgets -> Nat]
  /\ edits \in Nat
  /\ failed \subseteq 1 .. edits
  /\ late \in BOOLEAN

\* The UI thread has edits to deliver exactly while it delivers them.
TodoShape == (todo # <<>>) = (ui \in {"patch"} \cup Busy)

\* An edit that waits is later than what a document has of its instance, and no
\* other instance has it.
Lacks(d, w, id) == d.edit[w] < id /\ \A v \in Widgets : d.edit[v] # id

\* A document has none of the edits of q from k on, nor of those in the table t.
Free(d, q, k, t) == /\ \A i \in k .. Len(q) : Lacks(d, q[i].w, q[i].id)
                    /\ \A w \in Widgets : t[w] # 0 => Lacks(d, w, t[w])

\* It is made of the e edits so far without the failed, on one of n versions.
Sound(d, n, e, f) == /\ d.outside <= n
                     /\ \A w \in Widgets : d.edit[w] <= e /\ d.edit[w] \notin f

DocumentsInv ==
  LET Is(d, k) == Sound(d, stamps, edits, failed) /\ Free(d, todo, k, table)
  IN  /\ Is(mem, IF ui \in Busy THEN 2 ELSE 1)
      /\ file # None => Is(file.doc, IF ui = "stamp" THEN 2 ELSE 1)
      /\ ui \in Merged => Is(previous, 1)
      /\ ui \in {"load", "apply"} => Is(loading.doc, 1)

\* Edits that wait are numbered apart, and in order for each instance.
Before(x, y) == x.id # y.id /\ (x.w = y.w => x.id < y.id)

Queued(q, t, e, f) ==
  /\ \A i \in 1 .. Len(q) : q[i].id \in 1 .. e /\ q[i].id \notin f
  /\ \A i, j \in 1 .. Len(q) : i < j => Before(q[i], q[j])
  /\ \A w \in Widgets : t[w] # 0 =>
       /\ t[w] <= e /\ t[w] \notin f
       /\ \A i \in 1 .. Len(q) : q[i].id # t[w] /\ (q[i].w = w => q[i].id < t[w])
       /\ \A v \in Widgets : v # w => t[v] # t[w]

QueueInv == Queued(todo, table, edits, failed)

\* Stamps are never given twice, so one names one version.
StampsInv ==
  /\ applied # None => applied \in 1 .. stamps
  /\ file # None => file.stamp \in 1 .. stamps
  /\ ui \in {"load", "apply"} =>
       /\ loading.stamp \in 1 .. stamps
       /\ file # None => loading.stamp <= file.stamp
  /\ ui = "apply" /\ file # None /\ file.stamp = loading.stamp => file.doc = loading.doc

\* From the guard's opening to the rename the file is the applied one, unless a
\* change fell behind the last check.
GuardInv ==
  /\ ui \in {"write", "check", "rename"} => guard = applied /\ applied # None
  /\ ui \in {"rename", "classic"} => (file # None /\ file.stamp = applied) \/ late

\* DeferredIsRecorded between its ends: the document a failure goes back to.
RecordInv ==
  LET IsApplied == file # None /\ file.stamp = applied
  IN  /\ ui \notin Busy /\ IsApplied => file.doc = mem \/ deferred # None \/ late
      /\ ui \in Merged /\ IsApplied => file.doc = previous \/ deferred # None \/ late
      /\ ui = "stamp" /\ file # None => file.doc = mem \/ late

IInv == /\ TypeOK
        /\ TodoShape
        /\ DocumentsInv
        /\ QueueInv
        /\ StampsInv
        /\ GuardInv
        /\ RecordInv

-----------------------------------------------------------------------------
(* Documents and edits                                                      *)

\* Head and Tail, by position.
LEMMA Rest ==
  ASSUME NEW q \in Seq(Edit), q # <<>>
  PROVE  /\ Head(q) = q[1] /\ Head(q) \in Edit /\ Head(q).w \in Widgets /\ Head(q).id \in Nat
         /\ Len(q) \in Nat \ {0} /\ 1 \in 1 .. Len(q)
         /\ Tail(q) \in Seq(Edit) /\ Len(Tail(q)) = Len(q) - 1
         /\ \A i \in 1 .. Len(Tail(q)) : Tail(q)[i] = q[i + 1] /\ i + 1 \in 2 .. Len(q)
         /\ (Tail(q) # <<>>) = (Len(q) > 1)
  <1>1. /\ Tail(q) \in Seq(Edit) /\ Len(Tail(q)) = Len(q) - 1 /\ Len(q) \in Nat \ {0}
        /\ \A i \in 1 .. Len(Tail(q)) : Tail(q)[i] = q[i + 1]
    BY HeadTailProperties
  <1>2. Head(q) = q[1] /\ q[1] \in Edit
    BY <1>1, HeadTailProperties, ElementOfSeq
  <1>3. (Tail(q) # <<>>) = (Len(q) > 1)
    BY <1>1, EmptySeq
  <1> QED BY <1>1, <1>2, <1>3 DEF Edit

\* More versions and edits leave a document sound.
LEMMA SoundGrows ==
  ASSUME NEW d \in Document, NEW n \in Nat, NEW e \in Nat, NEW m \in Nat, NEW g \in Nat, NEW f,
         n <= m, e <= g, Sound(d, n, e, f)
  PROVE  Sound(d, m, g, f)
  BY DEF Sound, Document

\* So does the failure of an edit that it lacks.
LEMMA SoundFails ==
  ASSUME NEW d, NEW n, NEW e, NEW f, NEW w, NEW id, Sound(d, n, e, f), Lacks(d, w, id)
  PROVE  Sound(d, n, e, f \cup {id})
  BY DEF Sound, Lacks

\* A document without the first edit of the list, and the list without it.
LEMMA FreeHead ==
  ASSUME NEW q \in Seq(Edit), q # <<>>, NEW d, NEW t, Free(d, q, 1, t)
  PROVE  Lacks(d, Head(q).w, Head(q).id) /\ Free(d, q, 2, t) /\ Free(d, Tail(q), 1, t)
  <1>1. Lacks(d, Head(q).w, Head(q).id)
    BY Rest DEF Free
  <1>2. Free(d, q, 2, t)
    <2>1. \A i \in 2 .. Len(q) : i \in 1 .. Len(q)
      BY Rest
    <2> QED BY <2>1 DEF Free
  <1>3. Free(d, Tail(q), 1, t)
    <2>1. \A i \in 1 .. Len(Tail(q)) : Tail(q)[i] = q[i + 1] /\ i + 1 \in 1 .. Len(q)
      BY Rest
    <2> QED BY <2>1 DEF Free
  <1> QED BY <1>1, <1>2, <1>3

\* A document that may have the first edit, once that is done with.
LEMMA FreeTail ==
  ASSUME NEW q \in Seq(Edit), q # <<>>, NEW d, NEW t, Free(d, q, 2, t)
  PROVE  Free(d, Tail(q), 1, t)
  <1>1. \A i \in 1 .. Len(Tail(q)) : Tail(q)[i] = q[i + 1] /\ i + 1 \in 2 .. Len(q)
    BY Rest
  <1> QED BY <1>1 DEF Free

\* The list goes on in order, whether its first edit failed or not.
LEMMA QueuedTail ==
  ASSUME NEW q \in Seq(Edit), q # <<>>, NEW t \in [Widgets -> Nat], NEW e \in Nat, NEW f,
         Queued(q, t, e, f)
  PROVE  /\ Queued(Tail(q), t, e, f)
         /\ Queued(Tail(q), t, e, f \cup {Head(q).id})
         /\ Head(q).id \in 1 .. e /\ Head(q).id \notin f
  <1>1. Head(q) = q[1] /\ 1 \in 1 .. Len(q) /\ Len(q) \in Nat
    BY Rest
  <1>2. \A i \in 1 .. Len(Tail(q)) : Tail(q)[i] = q[i + 1] /\ i + 1 \in 1 .. Len(q) /\ i \in Nat /\ 1 < i + 1
    BY Rest
  <1>3. /\ \A i \in 1 .. Len(Tail(q)) : Tail(q)[i].id \in 1 .. e /\ Tail(q)[i].id \notin f
                                        /\ Tail(q)[i].id # Head(q).id
        /\ \A i, j \in 1 .. Len(Tail(q)) : i < j => Before(Tail(q)[i], Tail(q)[j])
    <2>1. \A i \in 1 .. Len(Tail(q)) : Before(q[1], q[i + 1])
      BY <1>1, <1>2 DEF Queued
    <2>2. \A i, j \in 1 .. Len(Tail(q)) : i < j => Before(q[i + 1], q[j + 1])
      <3>1. \A i, j \in 1 .. Len(Tail(q)) : i < j => i + 1 < j + 1
        BY <1>2
      <3> QED BY <1>2, <3>1 DEF Queued
    <2> QED BY <1>1, <1>2, <2>1, <2>2 DEF Queued, Before
  <1>4. \A w \in Widgets : t[w] # 0 =>
          /\ t[w] <= e /\ t[w] \notin f /\ t[w] # Head(q).id
          /\ \A i \in 1 .. Len(Tail(q)) :
               Tail(q)[i].id # t[w] /\ (Tail(q)[i].w = w => Tail(q)[i].id < t[w])
          /\ \A v \in Widgets : v # w => t[v] # t[w]
    BY <1>1, <1>2 DEF Queued
  <1>5. Head(q).id \in 1 .. e /\ Head(q).id \notin f
    BY <1>1 DEF Queued
  <1> QED BY <1>3, <1>4, <1>5 DEF Queued

\* The merge of the first edit.
LEMMA MergeIsSound ==
  ASSUME NEW q \in Seq(Edit), q # <<>>, NEW t \in [Widgets -> Nat], NEW n \in Nat, NEW e \in Nat,
         NEW f, NEW d \in Document, NEW m, m = [d EXCEPT !.edit[Head(q).w] = Head(q).id],
         Queued(q, t, e, f), Sound(d, n, e, f), Free(d, q, 1, t)
  PROVE  m \in Document /\ Sound(m, n, e, f) /\ Free(m, q, 2, t)
  <1>1. /\ Head(q).w \in Widgets /\ Head(q).id \in Nat /\ Head(q) = q[1] /\ Len(q) \in Nat
        /\ 1 \in 1 .. Len(q)
    BY Rest
  <1>2. m = [outside |-> d.outside, edit |-> [d.edit EXCEPT ![Head(q).w] = Head(q).id]]
    BY DEF Document
  <1>3. m \in Document
    <2>1. d.outside \in Nat /\ d.edit \in [Widgets -> Nat]
      BY DEF Document
    <2>2. [d.edit EXCEPT ![Head(q).w] = Head(q).id] \in [Widgets -> Nat]
      BY <1>1, <2>1
    <2> QED BY <1>2, <2>1, <2>2 DEF Document
  <1>4. \A v \in Widgets : m.edit[v] = IF v = Head(q).w THEN Head(q).id ELSE d.edit[v]
    BY <1>1, <1>2 DEF Document
  <1>5. Head(q).id \in 1 .. e /\ Head(q).id \notin f
    BY QueuedTail
  <1>6. Sound(m, n, e, f)
    BY <1>2, <1>4, <1>5 DEF Sound
  <1>7. ASSUME NEW i \in 2 .. Len(q) PROVE Lacks(m, q[i].w, q[i].id)
    <2>1. i \in 1 .. Len(q) /\ 1 < i
      BY <1>1
    <2>2. Before(q[1], q[i]) /\ Lacks(d, q[i].w, q[i].id)
      BY <1>1, <2>1 DEF Queued, Free
    <2>3. q[i].w \in Widgets
      <3>1. q[i] \in Edit
        BY <2>1, ElementOfSeq
      <3> QED BY <3>1 DEF Edit
    <2> QED BY <1>1, <1>4, <2>2, <2>3 DEF Before, Lacks
  <1>8. ASSUME NEW w \in Widgets, t[w] # 0 PROVE Lacks(m, w, t[w])
    <2>1. Lacks(d, w, t[w]) /\ q[1].id # t[w] /\ (q[1].w = w => q[1].id < t[w])
      BY <1>1, <1>8 DEF Queued, Free
    <2> QED BY <1>1, <1>4, <2>1 DEF Lacks
  <1> QED BY <1>3, <1>6, <1>7, <1>8 DEF Free

\* A new edit in the table is later than every other.
LEMMA QueuedNew ==
  ASSUME NEW q \in Seq(Edit), NEW t \in [Widgets -> Nat], NEW e \in Nat, NEW f, f \subseteq 1 .. e,
         NEW w \in Widgets, Queued(q, t, e, f)
  PROVE  Queued(q, [t EXCEPT ![w] = e + 1], e + 1, f)
  <1> DEFINE u == [t EXCEPT ![w] = e + 1]
  <1>1. \A v \in Widgets : u[v] = IF v = w THEN e + 1 ELSE t[v]
    OBVIOUS
  <1>2. e + 1 \notin f
    OBVIOUS
  <1> HIDE DEF u
  <1>3. \A i \in 1 .. Len(q) : q[i].id \in 1 .. e + 1 /\ q[i].id \notin f /\ q[i].id < e + 1
    BY DEF Queued
  <1>4. ASSUME NEW v \in Widgets, u[v] # 0
        PROVE  /\ u[v] <= e + 1 /\ u[v] \notin f
               /\ \A i \in 1 .. Len(q) : q[i].id # u[v] /\ (q[i].w = v => q[i].id < u[v])
               /\ \A x \in Widgets : x # v => u[x] # u[v]
    <2>1. \A x \in Widgets : t[x] # 0 => t[x] <= e /\ t[x] # e + 1
      BY DEF Queued
    <2>2. CASE v = w
      BY <1>1, <1>2, <1>3, <2>1, <2>2
    <2>3. CASE v # w
      BY <1>1, <1>4, <2>1, <2>3 DEF Queued
    <2> QED BY <2>2, <2>3
  <1> QED BY <1>3, <1>4 DEF Queued, u

\* The documents lack it.
LEMMA FreeNew ==
  ASSUME NEW q, NEW t \in [Widgets -> Nat], NEW e \in Nat, NEW f, NEW w \in Widgets,
         NEW n \in Nat, NEW d \in Document, NEW k, Sound(d, n, e, f), Free(d, q, k, t)
  PROVE  Sound(d, n, e + 1, f) /\ Free(d, q, k, [t EXCEPT ![w] = e + 1]) /\ Lacks(d, w, e + 1)
  <1>1. \A v \in Widgets : d.edit[v] \in Nat /\ d.edit[v] <= e
    BY DEF Sound, Document
  <1>2. Sound(d, n, e + 1, f)
    BY SoundGrows
  <1>3. Lacks(d, w, e + 1)
    BY <1>1 DEF Lacks
  <1>4. ASSUME NEW v \in Widgets, [t EXCEPT ![w] = e + 1][v] # 0
        PROVE  Lacks(d, v, [t EXCEPT ![w] = e + 1][v])
    BY <1>3, <1>4 DEF Free
  <1> QED BY <1>2, <1>3, <1>4 DEF Free

-----------------------------------------------------------------------------
(* The steps                                                                *)

\* The initial state satisfies the inductive invariant.
LEMMA InitInv == Init => IInv
  <1> SUFFICES ASSUME Init PROVE IInv
    OBVIOUS
  <1> USE DEF Init, FileInit
  <1>1. NoEdits \in [Widgets -> Nat] /\ \A w \in Widgets : NoEdits[w] = 0
    BY DEF NoEdits
  <1>2. /\ mem = [outside |-> 0, edit |-> NoEdits] /\ mem \in Document
        /\ file = [stamp |-> 1, doc |-> mem, valid |-> TRUE] /\ file \in Version
    BY <1>1 DEF Document, Version
  <1>3. TypeOK
    <2>1. /\ table \in [Widgets -> Nat] /\ todo \in Seq(Edit) /\ edits \in Nat
          /\ failed \subseteq 1 .. edits
      OBVIOUS
    <2>2. ui \notin Merged \cup {"load", "apply"}
      BY DEF Merged
    <2>3. file \in Version \cup {None} /\ mem \in Document
      BY <1>2
    <2>4. stamps \in Nat /\ applied \in Nat \cup {None} /\ late \in BOOLEAN
      OBVIOUS
    <2> QED BY <2>1, <2>2, <2>3, <2>4 DEF TypeOK
  <1>4. todo = <<>> /\ Len(todo) = 0 /\ \A w \in Widgets : table[w] = 0
    OBVIOUS
  <1>5. DocumentsInv
    <2>1. Sound(mem, stamps, edits, failed) /\ Free(mem, todo, 1, table)
      BY <1>1, <1>2, <1>4 DEF Sound, Free
    <2> QED BY <1>2, <2>1 DEF DocumentsInv, Busy, Merged
  <1>6. QueueInv
    BY <1>4 DEF QueueInv, Queued
  <1>7. TodoShape /\ StampsInv /\ GuardInv /\ RecordInv
    BY <1>2, <1>4 DEF TodoShape, StampsInv, GuardInv, RecordInv, Busy, Merged
  <1> QED BY <1>3, <1>5, <1>6, <1>7 DEF IInv

\* What the invariant speaks of.
content == <<file, guard, stamps, mem, previous, applied, deferred, todo, loading, table, edits,
             failed, late>>

\* A step that changes nothing of it, and at most moves the UI thread where it
\* neither delivers nor reloads.
LEMMA StaysInv ==
  ASSUME IInv, UNCHANGED content,
         \/ ui' = ui
         \/ /\ ui \in {"idle", "ack", "swap"} \cup Reload
            /\ ui' \in {"idle", "ack", "swap", "query"}
  PROVE  IInv'
  <1> USE DEF IInv, content
  <1>1. TypeOK'
    BY DEF TypeOK, Busy, Merged, Reload
  <1>2. TodoShape' /\ QueueInv'
    BY DEF TodoShape, QueueInv, Busy, Merged, Reload
  <1>3. DocumentsInv'
    BY DEF DocumentsInv, Busy, Merged, Reload
  <1>4. StampsInv' /\ GuardInv'
    BY DEF StampsInv, GuardInv, Reload
  <1>5. RecordInv'
    BY DEF RecordInv, Busy, Merged, Reload
  <1> QED BY <1>1, <1>2, <1>3, <1>4, <1>5

\* A submission.
LEMMA QueueWidgetSettingsInv ==
  ASSUME IInv, NEW w \in Widgets, QueueWidgetSettings(w) PROVE IInv'
  <1> USE DEF IInv
  <1>1. /\ edits' = edits + 1 /\ table' = [table EXCEPT ![w] = edits + 1]
        /\ UNCHANGED <<file, guard, stamps, mem, previous, applied, deferred, ui, todo, loading,
                       failed, late>>
    BY DEF QueueWidgetSettings, Elsewhere, fileVars, store
  <1>2. /\ todo \in Seq(Edit) /\ table \in [Widgets -> Nat] /\ edits \in Nat /\ stamps \in Nat
        /\ failed \subseteq 1 .. edits /\ Queued(todo, table, edits, failed)
    BY DEF TypeOK, QueueInv
  <1>3. TypeOK'
    BY <1>1, <1>2 DEF TypeOK
  <1>4. DocumentsInv'
    <2>1. /\ mem \in Document
          /\ file # None => file.doc \in Document
          /\ ui \in Merged => previous \in Document
          /\ ui \in {"load", "apply"} => loading.doc \in Document
      BY DEF TypeOK, Version
    <2>2. ASSUME NEW d \in Document, NEW k, Sound(d, stamps, edits, failed), Free(d, todo, k, table)
          PROVE  Sound(d, stamps', edits', failed') /\ Free(d, todo', k, table')
      BY <1>1, <1>2, <2>2, FreeNew
    <2> QED BY <1>1, <2>1, <2>2 DEF DocumentsInv
  <1>5. TodoShape' /\ QueueInv'
    BY <1>1, <1>2, QueuedNew DEF TodoShape, QueueInv
  <1>6. StampsInv' /\ GuardInv' /\ RecordInv'
    BY <1>1 DEF StampsInv, GuardInv, RecordInv
  <1> QED BY <1>3, <1>4, <1>5, <1>6

\* Another program's save, and a deletion: the file is a new version or none.
LEMMA OutsideInv ==
  ASSUME IInv, Outside PROVE IInv'
  <1> USE DEF IInv
  <1>1. UNCHANGED <<guard, mem, previous, applied, deferred, ui, todo, loading, table, edits, failed>>
    BY DEF Outside, SaveInPlace, Replace, Delete, Hold, Release, Outsiders, Inside, store, queue
  <1>2. CASE Hold \/ Release
    <2>1. UNCHANGED <<file, stamps>> /\ late' = late
      BY <1>2 DEF Outside, SaveInPlace, Replace, Delete, Hold, Release
    <2> QED BY <1>1, <2>1, StaysInv DEF content
  <1>3. ASSUME \/ SaveInPlace /\ late' = (late \/ ui \in {"classic", "stamp"})
               \/ (Replace \/ Delete) /\ late' = (late \/ ui \in {"rename", "classic", "stamp"})
        PROVE  IInv'
    <2>1. /\ late' \in BOOLEAN /\ (late => late')
          /\ ui \in {"classic", "stamp"} => late'
          /\ ui = "rename" => late' \/ SaveInPlace
      BY <1>3 DEF TypeOK
    <2>2. (ui = "rename" => late') /\ (late => late')
      <3>1. ASSUME ui = "rename", SaveInPlace, ~late PROVE FALSE
        BY <3>1 DEF SaveInPlace, Guarded, GuardInv
      <3> QED BY <2>1, <3>1
    <2>3. \/ file' = None /\ stamps' = stamps
          \/ /\ stamps' = stamps + 1
             /\ \E valid \in BOOLEAN :
                  file' = [stamp |-> stamps + 1,
                           doc |-> [outside |-> stamps + 1,
                                    edit |-> IF file = None THEN NoEdits ELSE file.doc.edit],
                           valid |-> valid]
      BY <1>3 DEF SaveInPlace, Replace, Delete, Saved, Put
    <2>4. CASE file' = None /\ stamps' = stamps
      <3>1. TypeOK' /\ TodoShape' /\ QueueInv'
        BY <1>1, <2>1, <2>4 DEF TypeOK, TodoShape, QueueInv
      <3>2. DocumentsInv'
        BY <1>1, <2>4 DEF DocumentsInv
      <3>3. StampsInv' /\ GuardInv' /\ RecordInv'
        BY <1>1, <2>1, <2>2, <2>4 DEF StampsInv, GuardInv, RecordInv
      <3> QED BY <3>1, <3>2, <3>3
    <2>5. ASSUME stamps' = stamps + 1, NEW d, NEW valid \in BOOLEAN,
                 d = [outside |-> stamps + 1,
                      edit |-> IF file = None THEN NoEdits ELSE file.doc.edit],
                 file' = [stamp |-> stamps + 1, doc |-> d, valid |-> valid]
          PROVE  IInv'
      <3>1. /\ stamps \in Nat /\ edits \in Nat /\ mem \in Document
            /\ file # None => file.doc \in Document
            /\ ui \in Merged => previous \in Document
            /\ ui \in {"load", "apply"} => loading.doc \in Document
        BY DEF TypeOK, Version
      <3>2. NoEdits \in [Widgets -> Nat] /\ \A w \in Widgets : NoEdits[w] = 0
        BY DEF NoEdits
      <3>3. /\ d \in Document /\ d.outside = stamps + 1
            /\ file = None => d.edit = NoEdits
            /\ file # None => d.edit = file.doc.edit
        BY <2>5, <3>1, <3>2 DEF Document
      <3>4. file' \in Version /\ file'.doc = d /\ file'.stamp = stamps + 1
        BY <2>5, <3>1, <3>3 DEF Version
      <3>5. Sound(d, stamps + 1, edits, failed)
        <4>1. CASE file = None
          BY <3>1, <3>2, <3>3, <4>1 DEF Sound, TypeOK
        <4>2. CASE file # None
          BY <3>1, <3>3, <4>2 DEF Sound, DocumentsInv
        <4> QED BY <4>1, <4>2
      <3>6. Free(d, todo, IF ui = "stamp" THEN 2 ELSE 1, table)
        <4>1. CASE file = None
          <5>1. \A w \in Widgets, id \in Nat \ {0} : Lacks(d, w, id)
            BY <3>2, <3>3, <4>1 DEF Lacks
          <5>2. \A i \in 1 .. Len(todo) : todo[i].w \in Widgets /\ todo[i].id \in Nat \ {0}
            <6>1. \A i \in 1 .. Len(todo) : todo[i] \in Edit /\ todo[i].id \in 1 .. edits
              BY ElementOfSeq DEF TypeOK, QueueInv, Queued
            <6> QED BY <3>1, <6>1 DEF Edit
          <5>3. \A i \in 2 .. Len(todo) : i \in 1 .. Len(todo)
            BY LenProperties DEF TypeOK
          <5>4. \A w \in Widgets : table[w] # 0 => table[w] \in Nat \ {0}
            BY DEF TypeOK
          <5> QED BY <5>1, <5>2, <5>3, <5>4 DEF Free
        <4>2. CASE file # None
          <5>1. \A w, id : Lacks(file.doc, w, id) => Lacks(d, w, id)
            BY <3>3, <4>2 DEF Lacks
          <5> QED BY <4>2, <5>1 DEF Free, DocumentsInv
        <4> QED BY <4>1, <4>2
      <3>7. TypeOK' /\ TodoShape' /\ QueueInv'
        BY <1>1, <2>1, <2>5, <3>1, <3>4 DEF TypeOK, TodoShape, QueueInv
      <3>8. DocumentsInv'
        <4>1. \A x \in Document : Sound(x, stamps, edits, failed) => Sound(x, stamps + 1, edits, failed)
          BY <3>1 DEF Sound, Document
        <4> QED BY <1>1, <2>5, <3>1, <3>4, <3>5, <3>6, <4>1 DEF DocumentsInv
      <3>9. StampsInv'
        BY <1>1, <2>5, <3>1, <3>4 DEF StampsInv, TypeOK
      <3>10. GuardInv' /\ RecordInv'
        <4>1. applied # file'.stamp
          BY <3>1, <3>4, SettingsAssumption DEF StampsInv
        <4> QED BY <1>1, <2>1, <2>2, <4>1 DEF GuardInv, RecordInv
      <3> QED BY <3>7, <3>8, <3>9, <3>10
    <2> QED BY <2>3, <2>4, <2>5
  <1> QED BY <1>2, <1>3 DEF Outside

\* The table is detached as one list, in any order of its instances.
LEMMA SwapTableInv ==
  ASSUME IInv, SwapTable PROVE IInv'
  <1> USE DEF IInv
  <1> DEFINE S == {[w |-> w, id |-> table[w]] : w \in {x \in Widgets : table[x] # 0}}
  <1>1. /\ ui = "swap" /\ todo' \in SetToSeqs(S) /\ table' = [w \in Widgets |-> 0]
        /\ ui' = IF todo' = <<>> THEN "idle" ELSE "patch"
        /\ UNCHANGED <<file, guard, stamps, mem, previous, applied, deferred, loading, edits,
                       failed, late>>
    BY DEF SwapTable, NoFile, OnUi, fileVars, store
  <1>2. todo = <<>>
    BY <1>1 DEF TodoShape, Busy, Merged
  <1>3. S \subseteq Edit /\ Cardinality(S) \in Nat
    <2>1. IsFiniteSet(S)
      <3> DEFINE A == {x \in Widgets : table[x] # 0}
                 g == [x \in A |-> [w |-> x, id |-> table[x]]]
      <3>1. IsFiniteSet(A)
        BY SettingsAssumption, FS_Subset
      <3>2. g \in Surjection(A, S)
        BY DEF Surjection
      <3> HIDE DEF S, A, g
      <3> QED BY <3>1, <3>2, FS_Surjection
    <2> QED BY <2>1, FS_CardinalityType DEF Edit, TypeOK
  <1>4. /\ todo' \in Seq(Edit)
        /\ \A i \in 1 .. Len(todo') : todo'[i] \in S
        /\ \A i, j \in 1 .. Len(todo') : i # j => todo'[i] # todo'[j]
    <2>1. /\ todo' \in [1 .. Cardinality(S) -> S]
          /\ \A i, j \in 1 .. Cardinality(S) : i # j => todo'[i] # todo'[j]
      BY <1>1 DEF SetToSeqs
    <2>2. todo' \in Seq(S) /\ Len(todo') = Cardinality(S)
      BY <1>3, <2>1
    <2> QED BY <1>3, <2>1, <2>2, SeqDef
  <1>5. \A i \in 1 .. Len(todo') : LET w == todo'[i].w
                                  IN w \in Widgets /\ table[w] # 0 /\ todo'[i].id = table[w]
    BY <1>4
  <1>6. \A i, j \in 1 .. Len(todo') : i # j => todo'[i].w # todo'[j].w
    <2> SUFFICES ASSUME NEW i \in 1 .. Len(todo'), NEW j \in 1 .. Len(todo'), i # j,
                        todo'[i].w = todo'[j].w
                 PROVE  FALSE
      OBVIOUS
    <2>1. todo'[i].id = todo'[j].id
      BY <1>5
    <2>2. todo'[i] \in Edit /\ todo'[j] \in Edit
      BY <1>3, <1>4
    <2> QED BY <1>4, <2>1, <2>2 DEF Edit
  <1>7. TypeOK'
    BY <1>1, <1>4 DEF TypeOK, Merged
  <1>8. TodoShape'
    BY <1>1 DEF TodoShape, Busy, Merged
  <1>9. \A d, k : Free(d, todo, k, table) => Free(d, todo', 1, table')
    BY <1>1, <1>5 DEF Free
  <1>10. DocumentsInv'
    BY <1>1, <1>9 DEF DocumentsInv, Busy, Merged
  <1>11. QueueInv'
    <2>1. \A i \in 1 .. Len(todo') : todo'[i].id \in 1 .. edits /\ todo'[i].id \notin failed
      BY <1>5 DEF TypeOK, QueueInv, Queued
    <2>2. \A i, j \in 1 .. Len(todo') : i < j => Before(todo'[i], todo'[j])
      <3>1. \A i, j \in 1 .. Len(todo') : i < j => i # j
        OBVIOUS
      <3>2. \A w, v \in Widgets : table[w] # 0 /\ v # w => table[v] # table[w]
        BY DEF QueueInv, Queued
      <3> QED BY <1>5, <1>6, <3>1, <3>2 DEF Before
    <2> QED BY <1>1, <2>1, <2>2 DEF QueueInv, Queued
  <1>12. StampsInv' /\ GuardInv' /\ RecordInv'
    BY <1>1 DEF StampsInv, GuardInv, RecordInv, Busy, Merged
  <1> QED BY <1>7, <1>8, <1>10, <1>11, <1>12

\* An interactive edit, behind the one of its instance that waited.
LEMMA PersistWidgetSettingsInv ==
  ASSUME IInv, NEW w \in Widgets, PersistWidgetSettings(w) PROVE IInv'
  <1> USE DEF IInv
  <1> DEFINE new == [w |-> w, id |-> edits + 1]
             old == [w |-> w, id |-> table[w]]
  <1>1. /\ ui = "idle" /\ ui' = "patch" /\ edits' = edits + 1
        /\ todo' = Append(Earlier(w), new)
        /\ table' = IF Earlier(w) = <<>> THEN table ELSE [table EXCEPT ![w] = 0]
        /\ UNCHANGED <<file, guard, stamps, mem, previous, applied, deferred, loading, failed, late>>
    BY DEF PersistWidgetSettings, NoFile, OnUi, fileVars, store
  <1>2. /\ todo = <<>> /\ Len(todo) = 0 /\ edits \in Nat /\ stamps \in Nat
        /\ table \in [Widgets -> Nat]
        /\ failed \subseteq 1 .. edits /\ Queued(todo, table, edits, failed)
    BY <1>1 DEF TypeOK, TodoShape, QueueInv, Busy, Merged
  <1>3. new \in Edit /\ old \in Edit
    BY <1>2 DEF Edit
  <1>4. /\ todo' \in Seq(Edit) /\ todo' # <<>>
        /\ \/ table[w] = 0 /\ Len(todo') = 1 /\ todo'[1] = new /\ table' = table
           \/ /\ table[w] # 0 /\ Len(todo') = 2 /\ todo'[1] = old /\ todo'[2] = new
              /\ table' = [table EXCEPT ![w] = 0]
    <2>1. CASE table[w] = 0
      <3>1. Earlier(w) = <<>>
        BY <2>1 DEF Earlier
      <3> HIDE DEF new, old
      <3>2. todo' = <<new>>
        BY <1>1, <3>1
      <3> QED BY <1>1, <1>3, <2>1, <3>1, <3>2
    <2>2. CASE table[w] # 0
      <3>1. Earlier(w) = <<old>>
        BY <2>2 DEF Earlier
      <3> HIDE DEF new, old
      <3>2. <<old>> \in Seq(Edit) /\ Len(<<old>>) = 1 /\ <<old>>[1] = old /\ <<old>> # <<>>
        BY <1>3
      <3>3. table' = [table EXCEPT ![w] = 0]
        BY <1>1, <3>1, <3>2
      <3>4. /\ todo' \in Seq(Edit) /\ Len(todo') = 2 /\ todo'[1] = old /\ todo'[2] = new
            /\ todo' # <<>>
        BY <1>1, <1>3, <3>1, <3>2, AppendProperties
      <3> QED BY <2>2, <3>3, <3>4
    <2> QED BY <2>1, <2>2
  <1>5. /\ table' \in [Widgets -> Nat] /\ table'[w] = 0
        /\ \A v \in Widgets : v # w => table'[v] = table[v]
    <2> HIDE DEF new, old
    <2> QED BY <1>2, <1>4
  <1>6. /\ \A i \in 1 .. Len(todo') : todo'[i] = new \/ (table[w] # 0 /\ todo'[i] = old)
        /\ \A i, j \in 1 .. Len(todo') : i < j => table[w] # 0 /\ todo'[i] = old /\ todo'[j] = new
    <2> HIDE DEF new, old
    <2>1. CASE table[w] = 0
      <3>0. Len(todo') = 1
        BY <1>4, <2>1
      <3>1. \A i \in 1 .. Len(todo') : i = 1
        BY <3>0
      <3>2. \A i, j \in 1 .. Len(todo') : ~(i < j)
        BY <3>1
      <3> QED BY <1>4, <2>1, <3>1, <3>2
    <2>2. CASE table[w] # 0
      <3>0. Len(todo') = 2
        BY <1>4, <2>2
      <3>1. \A i \in 1 .. Len(todo') : i = 1 \/ i = 2
        BY <3>0
      <3>2. \A i, j \in 1 .. Len(todo') : i < j => i = 1 /\ j = 2
        BY <3>1
      <3> QED BY <1>4, <2>2, <3>1, <3>2
    <2> QED BY <2>1, <2>2
  <1>7. \A v \in Widgets : table[v] # 0 =>
          /\ table[v] \in 1 .. edits /\ table[v] \notin failed
          /\ \A x \in Widgets : x # v => table[x] # table[v]
    BY <1>2 DEF Queued
  <1>8. QueueInv'
    <2>1. \A i \in 1 .. Len(todo') : todo'[i].id \in 1 .. edits + 1 /\ todo'[i].id \notin failed
      BY <1>2, <1>6, <1>7
    <2>2. \A i, j \in 1 .. Len(todo') : i < j => Before(todo'[i], todo'[j])
      BY <1>2, <1>6, <1>7 DEF Before
    <2>3. ASSUME NEW v \in Widgets, table'[v] # 0
          PROVE  /\ table'[v] <= edits + 1 /\ table'[v] \notin failed
                 /\ \A i \in 1 .. Len(todo') :
                      todo'[i].id # table'[v] /\ (todo'[i].w = v => todo'[i].id < table'[v])
                 /\ \A x \in Widgets : x # v => table'[x] # table'[v]
      <3>1. v # w /\ table'[v] = table[v]
        BY <1>5, <2>3
      <3>2. /\ table[v] \in 1 .. edits /\ table[v] \notin failed
            /\ \A x \in Widgets : x # v => table[x] # table[v]
        BY <1>7, <2>3, <3>1
      <3>3. \A x \in Widgets : x # v => table'[x] # table'[v]
        BY <1>5, <2>3, <3>1, <3>2
      <3>4. \A i \in 1 .. Len(todo') : todo'[i].id # table[v] /\ todo'[i].w # v
        BY <1>2, <1>6, <3>1, <3>2
      <3> QED BY <1>2, <3>1, <3>2, <3>3, <3>4
    <2> QED BY <1>1, <2>1, <2>2, <2>3 DEF QueueInv, Queued
  <1>9. DocumentsInv'
    <2>1. ASSUME NEW d \in Document, Sound(d, stamps, edits, failed), Free(d, todo, 1, table)
          PROVE  Sound(d, stamps', edits', failed') /\ Free(d, todo', 1, table')
      <3>1. Sound(d, stamps, edits + 1, failed) /\ Lacks(d, w, edits + 1)
        BY <1>2, <2>1, FreeNew
      <3>2. \A v \in Widgets : table[v] # 0 => Lacks(d, v, table[v])
        BY <2>1 DEF Free
      <3>3. \A i \in 1 .. Len(todo') : Lacks(d, todo'[i].w, todo'[i].id)
        BY <1>6, <3>1, <3>2
      <3>4. \A v \in Widgets : table'[v] # 0 => Lacks(d, v, table'[v])
        BY <1>5, <3>2
      <3> QED BY <1>1, <3>1, <3>3, <3>4 DEF Free
    <2>2. mem \in Document /\ (file # None => file.doc \in Document)
      BY DEF TypeOK, Version
    <2> QED BY <1>1, <2>1, <2>2 DEF DocumentsInv, Busy, Merged
  <1>10. TypeOK' /\ TodoShape'
    BY <1>1, <1>2, <1>4, <1>5 DEF TypeOK, TodoShape, Busy, Merged
  <1>11. StampsInv' /\ GuardInv' /\ RecordInv'
    BY <1>1 DEF StampsInv, GuardInv, RecordInv, Busy, Merged
  <1> QED BY <1>8, <1>9, <1>10, <1>11

\* The first edit is done with, or has failed, and the UI thread goes on to the
\* next one.
LEMMA SettleInv ==
  ASSUME IInv, ui \in {"patch"} \cup Busy, Settle, UNCHANGED <<table, edits, loading, late>>,
         failed' = failed \/ failed' = failed \cup {Head(todo).id},
         mem' \in Document, file' \in Version \cup {None},
         stamps' \in Nat, applied' \in Nat \cup {None},
         Sound(mem', stamps', edits, failed') /\ Free(mem', Tail(todo), 1, table),
         file' # None => Sound(file'.doc, stamps', edits, failed')
                         /\ Free(file'.doc, Tail(todo), 1, table),
         applied' # None => applied' \in 1 .. stamps',
         file' # None => file'.stamp \in 1 .. stamps',
         file' # None /\ file'.stamp = applied' => file'.doc = mem' \/ deferred' # None \/ late
  PROVE  IInv'
  <1> USE DEF IInv
  <1>1. /\ todo \in Seq(Edit) /\ todo # <<>> /\ table \in [Widgets -> Nat] /\ edits \in Nat
        /\ failed \subseteq 1 .. edits /\ Queued(todo, table, edits, failed)
    BY DEF TypeOK, TodoShape, QueueInv
  <1>2. /\ todo' = Tail(todo) /\ ui' = IF Len(todo) > 1 THEN "patch" ELSE "idle"
        /\ ui' \in {"patch", "idle"}
    BY DEF Settle
  <1>3. Tail(todo) \in Seq(Edit) /\ (Tail(todo) # <<>>) = (Len(todo) > 1)
    BY <1>1, Rest
  <1>4. /\ Queued(Tail(todo), table, edits, failed')
        /\ failed' \subseteq 1 .. edits
    <2>1. /\ Queued(Tail(todo), table, edits, failed)
          /\ Queued(Tail(todo), table, edits, failed \cup {Head(todo).id})
          /\ Head(todo).id \in 1 .. edits
      BY <1>1, QueuedTail
    <2>2. CASE failed' = failed
      BY <1>1, <2>1, <2>2
    <2>3. CASE failed' = failed \cup {Head(todo).id}
      BY <1>1, <2>1, <2>3
    <2> QED BY <2>2, <2>3
  <1>5. TypeOK'
    BY <1>1, <1>2, <1>3, <1>4 DEF TypeOK, Merged
  <1>6. TodoShape' /\ QueueInv'
    BY <1>2, <1>3, <1>4 DEF TodoShape, QueueInv, Busy, Merged
  <1>7. DocumentsInv'
    BY <1>2 DEF DocumentsInv, Busy, Merged
  <1>8. StampsInv' /\ GuardInv' /\ RecordInv'
    BY <1>2 DEF StampsInv, GuardInv, RecordInv, Busy, Merged
  <1> QED BY <1>5, <1>6, <1>7, <1>8

\* What the UI thread has at hand while it delivers an edit.
LEMMA AtHand ==
  ASSUME IInv, ui \in {"patch"} \cup Busy
  PROVE  /\ todo \in Seq(Edit) /\ todo # <<>> /\ table \in [Widgets -> Nat] /\ edits \in Nat
         /\ stamps \in Nat /\ mem \in Document /\ file \in Version \cup {None}
         /\ applied \in Nat \cup {None} /\ (applied # None => applied \in 1 .. stamps)
         /\ file # None => file.doc \in Document /\ file.stamp \in 1 .. stamps
         /\ Sound(mem, stamps, edits, failed)
         /\ Free(mem, Tail(todo), 1, table)
         /\ file # None => /\ Sound(file.doc, stamps, edits, failed)
                           /\ Free(file.doc, Tail(todo), 1, table)
         /\ ui # "stamp" /\ file # None => Lacks(file.doc, Head(todo).w, Head(todo).id)
         /\ ui = "patch" => Free(mem, todo, 1, table) /\ Lacks(mem, Head(todo).w, Head(todo).id)
         /\ ui \in Merged => /\ previous \in Document /\ Sound(previous, stamps, edits, failed)
                             /\ Free(previous, Tail(todo), 1, table)
                             /\ Lacks(previous, Head(todo).w, Head(todo).id)
  <1> USE DEF IInv
  <1>1. /\ todo \in Seq(Edit) /\ todo # <<>> /\ table \in [Widgets -> Nat] /\ edits \in Nat
        /\ stamps \in Nat /\ mem \in Document /\ file \in Version \cup {None}
        /\ applied \in Nat \cup {None} /\ (applied # None => applied \in 1 .. stamps)
        /\ file # None => file.doc \in Document /\ file.stamp \in 1 .. stamps
        /\ ui \in Merged => previous \in Document
    BY DEF TypeOK, TodoShape, StampsInv, Version
  <1>2. /\ ui \in Busy => Free(mem, todo, 2, table)
        /\ ui \notin Busy => Free(mem, todo, 1, table)
        /\ Sound(mem, stamps, edits, failed)
    BY DEF DocumentsInv
  <1>3. file # None => /\ Sound(file.doc, stamps, edits, failed)
                       /\ ui = "stamp" => Free(file.doc, todo, 2, table)
                       /\ ui # "stamp" => Free(file.doc, todo, 1, table)
    BY DEF DocumentsInv
  <1>4. ui \in Merged => Sound(previous, stamps, edits, failed) /\ Free(previous, todo, 1, table)
    BY DEF DocumentsInv
  <1>5. \A d : Free(d, todo, 2, table) => Free(d, Tail(todo), 1, table)
    BY <1>1, FreeTail
  <1>6. \A d : Free(d, todo, 1, table) =>
                 Free(d, Tail(todo), 1, table) /\ Lacks(d, Head(todo).w, Head(todo).id)
    BY <1>1, FreeHead
  <1>7. ui = "patch" => ui \notin Busy
    BY DEF Busy, Merged
  <1> QED BY <1>1, <1>2, <1>3, <1>4, <1>5, <1>6, <1>7

\* A persist that fails goes back to the document before the merge.
LEMMA FailInv ==
  ASSUME IInv, ui \in Merged, Fail, Editing PROVE IInv'
  <1>1. ui \in {"patch"} \cup Busy /\ ui # "stamp"
    BY DEF Busy, Merged
  <1>2. /\ Settle /\ mem' = previous /\ failed' = failed \cup {Head(todo).id}
        /\ UNCHANGED <<file, stamps, applied, deferred, table, edits, loading, late>>
    BY DEF Fail, Undone, Editing, OnUi, queue
  <1>3. /\ Sound(previous, stamps, edits, failed')
        /\ file # None => Sound(file.doc, stamps, edits, failed')
    BY <1>1, <1>2, AtHand, SoundFails
  <1>4. file # None /\ file.stamp = applied => file.doc = previous \/ deferred # None \/ late
    BY DEF IInv, RecordInv
  <1> QED BY <1>1, <1>2, <1>3, <1>4, AtHand, SettleInv

\* A persist that finds another file leaves the merge in memory, on record.
LEMMA DeferInv ==
  ASSUME IInv, ui \in Merged, Defer, Editing PROVE IInv'
  <1>1. ui \in {"patch"} \cup Busy
    BY DEF Busy, Merged
  <1>2. /\ Settle /\ deferred' = Stamp
        /\ UNCHANGED <<file, stamps, mem, applied, failed, table, edits, loading, late>>
    BY DEF Defer, Observed, Editing, OnUi, queue
  <1>3. Stamp # None
    BY <1>1, AtHand, SettingsAssumption DEF Stamp
  <1> QED BY <1>1, <1>2, <1>3, AtHand, SettleInv

\* The steps of a persist before the rename, which touch only the guard.
LEMMA OnInv ==
  ASSUME IInv, ui \in Merged, On(ui'), ui' \in Merged, Editing,
         UNCHANGED <<file, stamps, mem, previous, applied, deferred>>, GuardInv'
  PROVE  IInv'
  <1> USE DEF IInv
  <1>1. UNCHANGED <<todo, loading, table, edits, failed, late>>
    BY DEF On, Editing, OnUi, queue
  <1>2. ui \in Busy /\ ui' \in Busy /\ ui # "stamp" /\ ui' # "stamp"
    BY DEF Busy, Merged
  <1>3. ui' \notin {"load", "apply"} /\ ui' \notin {"idle", "ack", "swap", "patch"}
    BY DEF Merged
  <1>4. TypeOK' /\ TodoShape' /\ QueueInv'
    BY <1>1, <1>2, <1>3 DEF TypeOK, TodoShape, QueueInv
  <1>5. DocumentsInv'
    BY <1>1, <1>2, <1>3 DEF DocumentsInv
  <1>6. StampsInv' /\ RecordInv'
    BY <1>1, <1>2, <1>3 DEF StampsInv, RecordInv
  <1> QED BY <1>4, <1>5, <1>6

\* The merge: taken, without effect, or rejected.
LEMMA PatchWidgetInstanceSettingsInv ==
  ASSUME IInv, PatchWidgetInstanceSettings PROVE IInv'
  <1> USE DEF IInv
  <1>1. /\ ui = "patch" /\ ui \in {"patch"} \cup Busy /\ ui # "stamp" /\ ui \notin Busy
        /\ UNCHANGED <<file, stamps, applied, deferred, table, edits, loading, late>>
    BY DEF PatchWidgetInstanceSettings, Editing, OnUi, queue, Busy, Merged
  <1>2. file # None /\ file.stamp = applied => file.doc = mem \/ deferred # None \/ late
    BY <1>1 DEF RecordInv
  <1>3. ASSUME Settle, mem' = mem, failed' = failed PROVE IInv'
    BY <1>1, <1>2, <1>3, AtHand, SettleInv
  <1>4. ASSUME Settle, mem' = mem, failed' = failed \cup {Head(todo).id} PROVE IInv'
    <2>1. /\ Sound(mem, stamps, edits, failed')
          /\ file # None => Sound(file.doc, stamps, edits, failed')
      BY <1>1, <1>4, AtHand, SoundFails
    <2> QED BY <1>1, <1>2, <1>4, <2>1, AtHand, SettleInv
  <1>5. ASSUME On("open"), previous' = mem, mem' \in Document,
               Sound(mem', stamps, edits, failed), Free(mem', todo, 2, table)
        PROVE  IInv'
    <2>1. ui' = "open" /\ ui' \in Merged /\ ui' \in Busy /\ UNCHANGED <<todo, failed>>
      BY <1>5 DEF On, Busy, Merged
    <2>2. TypeOK' /\ TodoShape' /\ QueueInv'
      BY <1>1, <1>5, <2>1 DEF TypeOK, TodoShape, QueueInv
    <2>3. DocumentsInv'
      BY <1>1, <1>5, <2>1 DEF DocumentsInv
    <2>4. StampsInv' /\ GuardInv' /\ RecordInv'
      BY <1>1, <1>2, <1>5, <2>1 DEF StampsInv, GuardInv, RecordInv
    <2> QED BY <2>2, <2>3, <2>4
  <1>6. CASE mem' = [mem EXCEPT !.edit[Head(todo).w] = Head(todo).id]
             /\ On("open") /\ previous' = mem
    <2>1. failed \subseteq 1 .. edits /\ Queued(todo, table, edits, failed)
      BY DEF TypeOK, QueueInv
    <2>2. mem' \in Document /\ Sound(mem', stamps, edits, failed) /\ Free(mem', todo, 2, table)
      BY <1>1, <1>6, <2>1, AtHand, MergeIsSound
    <2> QED BY <1>5, <1>6, <2>2
  <1>7. CASE mem' = mem /\ On("open") /\ previous' = mem
    <2>1. Free(mem, todo, 2, table)
      BY <1>1, AtHand, FreeHead
    <2> QED BY <1>1, <1>5, <1>7, <2>1, AtHand
  <1> QED BY <1>3, <1>4, <1>6, <1>7 DEF PatchWidgetInstanceSettings

\* The guard opens the file that was applied, or the merge waits.
LEMMA OpenGuardInv ==
  ASSUME IInv, OpenGuard PROVE IInv'
  <1>1. ui = "open" /\ ui \in Merged /\ Editing
    BY DEF OpenGuard, Merged
  <1>2. ASSUME On("write"), guard' = applied, UNCHANGED <<file, stamps, store>>, applied # None
        PROVE  IInv'
    <2>1. ui' = "write" /\ ui' \in Merged
      BY <1>2 DEF On, Merged
    <2>2. GuardInv'
      BY <1>2, <2>1 DEF GuardInv, store
    <2> QED BY <1>1, <1>2, <2>1, <2>2, OnInv DEF store
  <1> QED BY <1>1, <1>2, FailInv, DeferInv DEF OpenGuard

\* The temporary file is written, or the persist fails.
LEMMA WriteTemporaryInv ==
  ASSUME IInv, WriteTemporary PROVE IInv'
  <1>1. ui = "write" /\ ui \in Merged /\ Editing
    BY DEF WriteTemporary, Merged
  <1>2. ASSUME On("check"), UNCHANGED <<fileVars, store>> PROVE IInv'
    <2>1. ui' = "check" /\ ui' \in Merged
      BY <1>2 DEF On, Merged
    <2>2. GuardInv'
      BY <1>1, <1>2, <2>1 DEF IInv, GuardInv, store, fileVars
    <2> QED BY <1>1, <1>2, <2>1, <2>2, OnInv DEF store, fileVars
  <1> QED BY <1>1, <1>2, FailInv DEF WriteTemporary

\* The last look at the name.
LEMMA CheckAgainInv ==
  ASSUME IInv, CheckAgain PROVE IInv'
  <1>1. ui = "check" /\ ui \in Merged /\ Editing
    BY DEF CheckAgain, Merged
  <1>2. ASSUME StillExpected, On("rename"), UNCHANGED <<fileVars, store>> PROVE IInv'
    <2>1. ui' = "rename" /\ ui' \in Merged
      BY <1>2 DEF On, Merged
    <2>2. file # None /\ file.stamp = applied
      BY <1>1, <1>2, SettingsAssumption DEF IInv, GuardInv, StampsInv, StillExpected, Stamp
    <2>3. GuardInv'
      BY <1>1, <1>2, <2>1, <2>2 DEF IInv, GuardInv, store, fileVars
    <2> QED BY <1>1, <1>2, <2>1, <2>3, OnInv DEF store, fileVars
  <1> QED BY <1>1, <1>2, DeferInv DEF CheckAgain

\* The renamed file has the document in memory.
LEMMA RenamedFile ==
  ASSUME IInv, Put(mem, TRUE)
  PROVE  /\ stamps' = stamps + 1 /\ stamps \in Nat /\ stamps' \in Nat
         /\ file' \in Version /\ file'.stamp = stamps' /\ file'.doc = mem
         /\ \A d \in Document : Sound(d, stamps, edits, failed) => Sound(d, stamps', edits, failed)
  <1>1. stamps' = stamps + 1 /\ stamps \in Nat /\ mem \in Document /\ edits \in Nat
    BY DEF Put, IInv, TypeOK
  <1>2. file' = [stamp |-> stamps + 1, doc |-> mem, valid |-> TRUE]
    BY DEF Put
  <1>3. file' \in Version /\ file'.stamp = stamps + 1 /\ file'.doc = mem
    BY <1>1, <1>2 DEF Version
  <1>4. \A d \in Document : Sound(d, stamps, edits, failed) => Sound(d, stamps + 1, edits, failed)
    BY <1>1 DEF Sound, Document
  <1> QED BY <1>1, <1>3, <1>4

\* The rename over an open file, or the step to the other rename.
LEMMA RenameInv ==
  ASSUME IInv, Rename PROVE IInv'
  <1>1. ui = "rename" /\ ui \in Merged /\ ui \in {"patch"} \cup Busy /\ Editing
        /\ UNCHANGED <<table, edits, loading, late>>
    BY DEF Rename, Merged, Busy, Editing, OnUi, queue
  <1>2. ASSUME Put(mem, TRUE), Settle, Recorded(stamps'), UNCHANGED <<held, mem, rejected, failed>>
        PROVE  IInv'
    <2>1. /\ stamps' = stamps + 1 /\ stamps \in Nat /\ stamps' \in Nat
          /\ file' \in Version /\ file'.stamp = stamps' /\ file'.doc = mem
          /\ Sound(mem, stamps', edits, failed)
      BY <1>1, <1>2, RenamedFile, AtHand
    <2>2. applied' \in Nat \cup {None} /\ (applied' # None => applied' \in 1 .. stamps')
      BY <1>2, <2>1 DEF Recorded
    <2>3. file'.stamp \in 1 .. stamps'
      BY <2>1
    <2> QED BY <1>1, <1>2, <2>1, <2>2, <2>3, AtHand, SettleInv
  <1>3. ASSUME On("classic"), guard' = None, UNCHANGED <<file, held, stamps, signalled, store>>
        PROVE  IInv'
    <2>1. ui' = "classic" /\ ui' \in Merged
      BY <1>3 DEF On, Merged
    <2>2. GuardInv'
      BY <1>1, <1>3, <2>1 DEF IInv, GuardInv, store
    <2> QED BY <1>1, <1>3, <2>1, <2>2, OnInv DEF store
  <1> QED BY <1>1, <1>2, <1>3, FailInv DEF Rename

\* The other rename, whose stamp is read in a step of its own.
LEMMA RenameClassicInv ==
  ASSUME IInv, RenameClassic PROVE IInv'
  <1> USE DEF IInv
  <1>1. ui = "classic" /\ ui \in Merged /\ ui \in {"patch"} \cup Busy /\ ui \in Busy /\ Editing
        /\ UNCHANGED <<table, edits, loading, late>>
    BY DEF RenameClassic, Merged, Busy, Editing, OnUi, queue
  <1>2. ASSUME Put(mem, TRUE), On("stamp"), UNCHANGED <<held, guard, store, trouble>>
        PROVE  IInv'
    <2>1. /\ ui' = "stamp" /\ ui' \in Busy /\ ui' \notin Merged
          /\ UNCHANGED <<todo, failed, mem, applied, deferred, previous>>
      BY <1>2 DEF On, Busy, Merged, store
    <2>2. /\ stamps' = stamps + 1 /\ stamps \in Nat /\ stamps' \in Nat
          /\ file' \in Version /\ file'.stamp = stamps' /\ file'.doc = mem
          /\ Sound(mem, stamps', edits, failed)
      BY <1>1, <1>2, RenamedFile, AtHand
    <2>3. TypeOK' /\ TodoShape' /\ QueueInv'
      BY <1>1, <2>1, <2>2 DEF TypeOK, TodoShape, QueueInv
    <2>4. DocumentsInv'
      <3>1. Free(mem, todo, 2, table)
        BY <1>1 DEF DocumentsInv
      <3> QED BY <1>1, <2>1, <2>2, <3>1 DEF DocumentsInv
    <2>5. StampsInv'
      BY <1>1, <2>1, <2>2 DEF StampsInv
    <2>6. GuardInv' /\ RecordInv'
      BY <1>1, <2>1, <2>2 DEF GuardInv, RecordInv, Busy, Merged
    <2> QED BY <2>3, <2>4, <2>5, <2>6
  <1> QED BY <1>1, <1>2, FailInv, DeferInv DEF RenameClassic

\* Its stamp, which may be that of a version that came after.
LEMMA ReadStampInv ==
  ASSUME IInv, ReadStamp PROVE IInv'
  <1>1. ui = "stamp" /\ ui \in {"patch"} \cup Busy /\ Settle
        /\ Recorded(IF file = None THEN None ELSE Stamp)
        /\ UNCHANGED <<file, stamps, mem, failed, table, edits, loading, late>>
    BY DEF ReadStamp, Merged, Busy, Editing, OnUi, queue
  <1>2. applied' \in Nat \cup {None} /\ (applied' # None => applied' \in 1 .. stamps)
    BY <1>1, AtHand DEF Recorded, Stamp
  <1>3. file # None => file.doc = mem \/ late
    BY <1>1 DEF IInv, RecordInv
  <1> QED BY <1>1, <1>2, <1>3, AtHand, SettleInv

-----------------------------------------------------------------------------
(* Reloading                                                                *)

\* What a step of the reload leaves alone.
LEMMA ReloadFrame ==
  ASSUME Reloading
  PROVE  UNCHANGED <<file, guard, stamps, previous, todo, edits, failed, late>>
  BY DEF Reloading, fileVars

\* The stamp is read before the file, so that a version is never taken for an
\* older one.
LEMMA QueryStampInv ==
  ASSUME IInv, QueryStamp PROVE IInv'
  <1> USE DEF IInv
  <1>1. /\ ui = "query"
        /\ UNCHANGED <<file, guard, stamps, previous, todo, edits, failed, late, mem, applied,
                       deferred, table>>
    BY ReloadFrame DEF QueryStamp
  <1>2. ASSUME ui' = "idle" PROVE IInv'
    <2>1. TypeOK' /\ TodoShape' /\ QueueInv'
      BY <1>1, <1>2 DEF TypeOK, TodoShape, QueueInv, Busy, Merged
    <2>2. DocumentsInv' /\ StampsInv' /\ GuardInv' /\ RecordInv'
      BY <1>1, <1>2 DEF DocumentsInv, StampsInv, GuardInv, RecordInv, Busy, Merged
    <2> QED BY <2>1, <2>2
  <1>3. ASSUME file # None, ui' = "load", loading' = [stamp |-> Stamp, doc |-> mem] PROVE IInv'
    <2>1. /\ loading'.stamp = file.stamp /\ loading'.doc = mem /\ file.stamp \in 1 .. stamps
          /\ loading' \in [stamp : Nat, doc : Document] /\ stamps \in Nat
      BY <1>3 DEF TypeOK, Stamp, Version, StampsInv
    <2>2. TypeOK' /\ TodoShape' /\ QueueInv'
      BY <1>1, <1>3, <2>1 DEF TypeOK, TodoShape, QueueInv, Busy, Merged, Reload
    <2>3. DocumentsInv'
      BY <1>1, <1>3, <2>1 DEF DocumentsInv, Busy, Merged
    <2>4. StampsInv' /\ GuardInv' /\ RecordInv'
      BY <1>1, <1>3, <2>1 DEF StampsInv, GuardInv, RecordInv, Busy, Merged
    <2> QED BY <2>2, <2>3, <2>4
  <1> QED BY <1>2, <1>3 DEF QueryStamp

\* The document that is on disk now, under the stamp from before.
LEMMA LoadCandidateInv ==
  ASSUME IInv, LoadCandidate PROVE IInv'
  <1> USE DEF IInv
  <1>1. /\ ui = "load"
        /\ UNCHANGED <<file, guard, stamps, previous, todo, edits, failed, late, mem, applied,
                       deferred, table>>
    BY ReloadFrame DEF LoadCandidate
  <1>2. ASSUME ui' = "idle" PROVE IInv'
    <2>1. TypeOK' /\ TodoShape' /\ QueueInv'
      BY <1>1, <1>2 DEF TypeOK, TodoShape, QueueInv, Busy, Merged
    <2>2. DocumentsInv' /\ StampsInv' /\ GuardInv' /\ RecordInv'
      BY <1>1, <1>2 DEF DocumentsInv, StampsInv, GuardInv, RecordInv, Busy, Merged
    <2> QED BY <2>1, <2>2
  <1>3. ASSUME file # None, ui' = "apply", loading' = [loading EXCEPT !.doc = file.doc] PROVE IInv'
    <2>1. /\ loading'.stamp = loading.stamp /\ loading'.doc = file.doc
          /\ loading' \in [stamp : Nat, doc : Document]
      BY <1>1, <1>3 DEF TypeOK, Version
    <2>2. TypeOK' /\ TodoShape' /\ QueueInv'
      BY <1>1, <1>3, <2>1 DEF TypeOK, TodoShape, QueueInv, Busy, Merged, Reload
    <2>3. DocumentsInv'
      BY <1>1, <1>3, <2>1 DEF DocumentsInv, Busy, Merged
    <2>4. StampsInv' /\ GuardInv' /\ RecordInv'
      BY <1>1, <1>3, <2>1 DEF StampsInv, GuardInv, RecordInv, Busy, Merged
    <2> QED BY <2>2, <2>3, <2>4
  <1> QED BY <1>2, <1>3 DEF LoadCandidate

\* The candidate replaces the document, and edits of removed instances go.
LEMMA ApplySettingsInv ==
  ASSUME IInv, ApplySettings PROVE IInv'
  <1> USE DEF IInv
  <1>1. /\ ui = "apply" /\ ui' = "idle"
        /\ UNCHANGED <<file, guard, stamps, previous, todo, edits, failed, late>>
    BY ReloadFrame DEF ApplySettings
  <1>2. ASSUME UNCHANGED <<mem, applied, deferred, table>> PROVE IInv'
    <2>1. TypeOK' /\ TodoShape' /\ QueueInv'
      BY <1>1, <1>2 DEF TypeOK, TodoShape, QueueInv, Busy, Merged
    <2>2. DocumentsInv' /\ StampsInv' /\ GuardInv' /\ RecordInv'
      BY <1>1, <1>2 DEF DocumentsInv, StampsInv, GuardInv, RecordInv, Busy, Merged
    <2> QED BY <2>1, <2>2
  <1>3. ASSUME mem' = loading.doc, applied' = loading.stamp, NEW removed \in SUBSET Widgets,
               table' = [w \in Widgets |-> IF w \in removed THEN 0 ELSE table[w]]
        PROVE  IInv'
    <2>1. /\ loading.doc \in Document /\ loading.stamp \in 1 .. stamps /\ stamps \in Nat
          /\ table \in [Widgets -> Nat] /\ table' \in [Widgets -> Nat]
          /\ \A w \in Widgets : table'[w] = 0 \/ table'[w] = table[w]
      BY <1>1, <1>3 DEF TypeOK, StampsInv
    <2>2. TypeOK' /\ TodoShape'
      BY <1>1, <1>3, <2>1 DEF TypeOK, TodoShape, Busy, Merged
    <2>3. QueueInv'
      BY <1>1, <2>1 DEF QueueInv, Queued
    <2>4. \A d, k : Free(d, todo, k, table) => Free(d, todo, k, table')
      BY <2>1 DEF Free
    <2>5. DocumentsInv'
      BY <1>1, <1>3, <2>4 DEF DocumentsInv, Busy, Merged
    <2>6. StampsInv' /\ GuardInv'
      BY <1>1, <1>3, <2>1 DEF StampsInv, GuardInv
    <2>7. RecordInv'
      BY <1>1, <1>3 DEF RecordInv, StampsInv, Busy, Merged
    <2> QED BY <2>2, <2>3, <2>5, <2>6, <2>7
  <1> QED BY <1>2, <1>3 DEF ApplySettings

\* The stamps are forgotten, so that any version is read again.
LEMMA ForgetStampsInv ==
  ASSUME IInv, ForgetStamps PROVE IInv'
  <1> USE DEF IInv
  <1>1. /\ ui = "idle" /\ ui' = "idle" /\ applied' = None
        /\ UNCHANGED <<file, guard, stamps, previous, todo, edits, failed, late, mem, deferred,
                       table, loading>>
    BY ReloadFrame DEF ForgetStamps
  <1>2. TypeOK' /\ TodoShape' /\ QueueInv'
    BY <1>1 DEF TypeOK, TodoShape, QueueInv, Busy, Merged
  <1>3. DocumentsInv' /\ StampsInv' /\ GuardInv'
    BY <1>1 DEF DocumentsInv, StampsInv, GuardInv, Busy, Merged
  <1>4. RecordInv'
    <2>1. file # None => file.stamp # None
      BY SettingsAssumption DEF StampsInv
    <2> QED BY <1>1, <2>1 DEF RecordInv, Busy, Merged
  <1> QED BY <1>2, <1>3, <1>4

\* Every step preserves the inductive invariant: one step per action.
LEMMA NextInv == IInv /\ [Next]_vars => IInv'
  <1> SUFFICES ASSUME IInv, [Next]_vars PROVE IInv'
    OBVIOUS
  <1> USE DEF content, fileVars, store, queue
  <1>1. CASE ReceiveUi
    BY <1>1, StaysInv DEF ReceiveUi, NoFile, OnUi
  <1>2. CASE AcknowledgeUiInvalidate
    BY <1>2, StaysInv DEF AcknowledgeUiInvalidate, NoFile, OnUi
  <1>3. CASE SwapTable
    BY <1>3, SwapTableInv
  <1>4. CASE Persist
    BY <1>4, PatchWidgetInstanceSettingsInv, OpenGuardInv, WriteTemporaryInv, CheckAgainInv,
       RenameInv, RenameClassicInv, ReadStampInv DEF Persist
  <1>5. CASE OnSettingsChanged
    BY <1>5, StaysInv DEF OnSettingsChanged, Reloading
  <1>6. CASE QueryStamp \/ LoadCandidate \/ ApplySettings
    BY <1>6, QueryStampInv, LoadCandidateInv, ApplySettingsInv
  <1>7. ASSUME NEW w \in Widgets, QueueWidgetSettings(w) PROVE IInv'
    BY <1>7, QueueWidgetSettingsInv
  <1>8. ASSUME NEW w \in Widgets, RequestUiInvalidate(w) PROVE IInv'
    BY <1>8, StaysInv DEF RequestUiInvalidate, Elsewhere
  <1>9. ASSUME NEW w \in Widgets, PersistWidgetSettings(w) PROVE IInv'
    BY <1>9, PersistWidgetSettingsInv
  <1>10. CASE ChangeWindow
    BY <1>10, StaysInv DEF ChangeWindow, Reloading
  <1>11. CASE ForgetStamps
    BY <1>11, ForgetStampsInv
  <1>12. CASE Outside
    BY <1>12, OutsideInv
  <1>13. CASE Watcher /\ Inside /\ late' = late
    BY <1>13, StaysInv DEF Watcher, Arm, Noticed, PostSettingsChanged, Watching, Inside
  <1>14. CASE UNCHANGED vars
    BY <1>14, StaysInv DEF vars
  <1> QED
    BY <1>1, <1>2, <1>3, <1>4, <1>5, <1>6, <1>7, <1>8, <1>9, <1>10, <1>11, <1>12, <1>13, <1>14
       DEF Next, Ui

\* The inductive invariant holds of every reachable state.
THEOREM Invariance == Spec => []IInv
  <1> QED BY InitInv, NextInv, PTL DEF Spec

-----------------------------------------------------------------------------
(* Theorems                                                                 *)

\* A failed edit is nowhere, whatever is saved, reloaded or edited after it
\* (RestoreSettings in Application.cpp's PersistWidgetSettings).
THEOREM FailuresLeaveNoTrace == Spec => []FailedLeavesNoTrace
  <1>1. IInv => FailedLeavesNoTrace
    BY DEF IInv, DocumentsInv, Sound, FailedLeavesNoTrace
  <1> QED BY <1>1, Invariance, PTL

\* Memory and disk agree, or the deferral says that they do not (the S_FALSE of
\* ReplaceSettingsDocument, in Settings.cpp).
THEOREM DeferralsAreRecorded == Spec => []DeferredIsRecorded
  <1>1. IInv => DeferredIsRecorded
    BY DEF IInv, RecordInv, DeferredIsRecorded, Stamp, Busy, Merged
  <1> QED BY <1>1, Invariance, PTL

\* Edits of an instance are merged in the order they were made, those that came
\* over the table and the interactive ones (PersistWidgetSettings takes the
\* waiting one first).
THEOREM EditsAreMergedInOrder == Spec => EditsInOrder
  <1> DEFINE Step == \A w \in Widgets : mem'.edit[w] < mem.edit[w] => ui = "apply" \/ mem' = previous
  <1>1. IInv /\ [Next]_vars => Step
    <2> SUFFICES ASSUME IInv, [Next]_vars PROVE Step
      OBVIOUS
    <2>1. mem \in Document /\ \A w \in Widgets : mem.edit[w] \in Nat
      BY DEF IInv, TypeOK, Document
    <2>2. CASE mem' = mem
      BY <2>1, <2>2
    <2>3. CASE PatchWidgetInstanceSettings /\ mem' = [mem EXCEPT !.edit[Head(todo).w] = Head(todo).id]
      <3>1. ui \in {"patch"} \cup Busy /\ ui = "patch"
        BY <2>3 DEF PatchWidgetInstanceSettings
      <3>2. Lacks(mem, Head(todo).w, Head(todo).id) /\ todo \in Seq(Edit) /\ todo # <<>>
        BY <3>1, AtHand
      <3>3. Head(todo).w \in Widgets /\ Head(todo).id \in Nat /\ mem.edit[Head(todo).w] < Head(todo).id
        BY <3>2, Rest DEF Lacks
      <3>4. \A w \in Widgets : mem'.edit[w] = IF w = Head(todo).w THEN Head(todo).id ELSE mem.edit[w]
        BY <2>1, <2>3, <3>3 DEF Document
      <3>5. \A w \in Widgets : ~(mem'.edit[w] < mem.edit[w])
        BY <2>1, <3>3, <3>4
      <3> QED BY <3>5
    <2>4. CASE ApplySettings
      BY <2>4 DEF ApplySettings
    <2>5. CASE mem' = previous
      BY <2>5
    <2>6. \/ mem' = mem \/ mem' = previous \/ ApplySettings
          \/ PatchWidgetInstanceSettings /\ mem' = [mem EXCEPT !.edit[Head(todo).w] = Head(todo).id]
      <3> USE DEF store
      <3>1. CASE Persist
        BY <3>1 DEF Persist, PatchWidgetInstanceSettings, OpenGuard, WriteTemporary, CheckAgain,
                    Rename, RenameClassic, ReadStamp, Fail, Undone, Defer
      <3>2. CASE ReceiveUi \/ AcknowledgeUiInvalidate \/ SwapTable
        BY <3>2 DEF ReceiveUi, AcknowledgeUiInvalidate, SwapTable
      <3>3. CASE OnSettingsChanged \/ QueryStamp \/ LoadCandidate \/ ChangeWindow \/ ForgetStamps
        BY <3>3 DEF OnSettingsChanged, QueryStamp, LoadCandidate, ChangeWindow, ForgetStamps
      <3>4. ASSUME NEW w \in Widgets,
                   QueueWidgetSettings(w) \/ RequestUiInvalidate(w) \/ PersistWidgetSettings(w)
            PROVE  mem' = mem
        BY <3>4 DEF QueueWidgetSettings, RequestUiInvalidate, PersistWidgetSettings, Elsewhere
      <3>5. CASE Outside \/ (Watcher /\ Inside /\ late' = late) \/ UNCHANGED vars
        BY <3>5 DEF Outside, Inside, vars
      <3> QED BY <3>1, <3>2, <3>3, <3>4, <3>5 DEF Next, Ui
    <2> QED BY <2>2, <2>3, <2>4, <2>5, <2>6
  <1>2. IInv /\ [Next]_vars => [Step]_vars
    BY <1>1
  <1> QED BY <1>2, Invariance, PTL DEF Spec, EditsInOrder

\* A save of another program that RedXe has not applied is not overwritten,
\* but for one behind the last check (ReplaceSettingsDocument, in Settings.cpp).
THEOREM ForeignSavesAreKept == Spec => OthersSavesAreKept
  <1> DEFINE Step == ui \in {"rename", "classic"} /\ file' # file /\ file' # None /\ file'.doc = mem
                       => (Stamp = applied \/ late)
  <1>1. IInv => Step
    BY DEF IInv, GuardInv, Stamp
  <1>2. IInv /\ [Next]_vars => [Step]_vars
    BY <1>1
  <1> QED BY <1>2, Invariance, PTL DEF Spec, OthersSavesAreKept

\* Every variable that the proofs speak of keeps its type.
THEOREM TypeCorrect == Spec => []TypeOK
  <1>1. IInv => TypeOK
    BY DEF IInv
  <1> QED BY <1>1, Invariance, PTL

-----------------------------------------------------------------------------
(* The table and its wake-up                                                *)

ThreadStates == {"idle", "load", "exchange", "post", "undo"}

\* The flag stands for one message: one thread about to post it or to hand the
\* flag back, one in the queue, or one about to be acknowledged.
TableInv ==
  /\ at \in [Widgets -> ThreadStates]
  /\ pending \in BOOLEAN
  /\ posted \in {0, 1}
  /\ posted = 1 \/ ui = "ack" => pending
  /\ ui = "ack" => posted = 0
  /\ \A v \in Widgets : at[v] \in {"post", "undo"} => pending /\ posted = 0 /\ ui # "ack"
  /\ \A v \in Widgets : at[v] = "undo" => lost
  /\ \A v, x \in Widgets : at[v] \in {"post", "undo"} /\ at[x] \in {"post", "undo"} => v = x
  /\ pending => posted = 1 \/ ui = "ack" \/ \E v \in Widgets : at[v] \in {"post", "undo"}
  /\ EditIsOnItsWay

\* A step outside the wake-up, which may take edits out of the table.
LEMMA TableStays ==
  ASSUME TableInv, UNCHANGED <<at, pending, posted, lost>>,
         ui = "ack" <=> ui' = "ack",
         \A w \in Widgets : table'[w] # 0 => table[w] # 0 /\ (ui = "swap" => ui' = "swap")
  PROVE  TableInv'
  BY DEF TableInv, EditIsOnItsWay

\* A submission, and the way of its thread through RequestUiInvalidate.
LEMMA ThreadsKeepTable ==
  ASSUME TableInv, NEW w \in Widgets, QueueWidgetSettings(w) \/ RequestUiInvalidate(w)
  PROVE  TableInv'
  <1> USE DEF TableInv, ThreadStates, Wake!Step
  <1>1. UNCHANGED ui
    BY DEF QueueWidgetSettings, RequestUiInvalidate, Elsewhere
  <1>2. CASE QueueWidgetSettings(w)
    <2>1. /\ at[w] = "idle" /\ at' = [at EXCEPT ![w] = "load"]
          /\ UNCHANGED <<pending, posted, lost>>
      BY <1>2 DEF QueueWidgetSettings, Wake!Publish
    <2>2. EditIsOnItsWay'
      BY <2>1 DEF EditIsOnItsWay
    <2> QED BY <1>1, <2>1, <2>2
  <1>3. CASE RequestUiInvalidate(w)
    <2>0. UNCHANGED table
      BY <1>3 DEF RequestUiInvalidate
    <2>1. CASE Wake!LoadTarget(w)
      <3>1. /\ at' = [at EXCEPT ![w] = "exchange"] /\ at[w] = "load"
            /\ UNCHANGED <<pending, posted>> /\ (lost => lost')
        BY <2>1 DEF Wake!LoadTarget
      <3>2. EditIsOnItsWay'
        BY <3>1 DEF EditIsOnItsWay
      <3> QED BY <1>1, <3>1, <3>2
    <2>2. CASE Wake!Exchange(w)
      <3>1. /\ at' = [at EXCEPT ![w] = IF pending THEN "idle" ELSE "post"] /\ at[w] = "exchange"
            /\ pending' = TRUE /\ UNCHANGED <<posted, lost>>
        BY <2>2 DEF Wake!Exchange
      <3>2. CASE pending
        <4>1. at' = [at EXCEPT ![w] = "idle"]
          BY <3>1, <3>2
        <4>2. posted = 1 \/ ui = "ack" \/ \E v \in Widgets : at[v] \in {"post", "undo"} /\ v # w
          BY <3>1, <3>2
        <4>3. EditIsOnItsWay'
          BY <1>1, <3>1, <4>1, <4>2 DEF EditIsOnItsWay
        <4> QED BY <1>1, <3>1, <3>2, <4>1, <4>2, <4>3
      <3>3. CASE ~pending
        <4>1. at' = [at EXCEPT ![w] = "post"] /\ at'[w] = "post"
          BY <3>1, <3>3
        <4>2. EditIsOnItsWay'
          BY <4>1 DEF EditIsOnItsWay
        <4>3. posted = 0 /\ ui # "ack" /\ \A v \in Widgets : at[v] \notin {"post", "undo"}
          BY <3>3
        <4> QED BY <1>1, <3>1, <3>3, <4>1, <4>2, <4>3
      <3> QED BY <3>2, <3>3
    <2>3. CASE Wake!Post(w)
      <3>1. /\ at' = [at EXCEPT ![w] = "idle"] /\ at[w] = "post" /\ posted' = posted + 1
            /\ lost' = FALSE /\ UNCHANGED pending
        BY <2>3 DEF Wake!Post
      <3>2. /\ posted' = 1 /\ pending /\ ui # "ack"
            /\ \A v \in Widgets : at'[v] \notin {"post", "undo"}
        BY <3>1
      <3>3. EditIsOnItsWay'
        BY <3>2 DEF EditIsOnItsWay
      <3>4. at' \in [Widgets -> ThreadStates]
        BY <3>1
      <3> QED BY <1>1, <3>1, <3>2, <3>3, <3>4
    <2>4. CASE Wake!PostFails(w)
      <3>1. /\ at' = [at EXCEPT ![w] = "undo"] /\ at[w] = "post" /\ lost' = TRUE
            /\ UNCHANGED <<pending, posted>>
        BY <2>4 DEF Wake!PostFails
      <3>2. EditIsOnItsWay'
        BY <3>1 DEF EditIsOnItsWay
      <3> QED BY <1>1, <3>1, <3>2
    <2>5. CASE Wake!Undo(w)
      <3>1. /\ at' = [at EXCEPT ![w] = "idle"] /\ at[w] = "undo" /\ pending' = FALSE
            /\ UNCHANGED <<posted, lost>>
        BY <2>5 DEF Wake!Undo
      <3>2. lost' /\ posted' = 0 /\ ui' # "ack" /\ \A v \in Widgets : at'[v] \notin {"post", "undo"}
        BY <1>1, <3>1
      <3>3. EditIsOnItsWay'
        BY <3>2 DEF EditIsOnItsWay
      <3>4. at' \in [Widgets -> ThreadStates]
        BY <3>1
      <3>5. pending' \in BOOLEAN /\ ~pending'
        BY <3>1
      <3> QED BY <3>2, <3>3, <3>4, <3>5
    <2> QED BY <1>3, <2>1, <2>2, <2>3, <2>4, <2>5 DEF RequestUiInvalidate
  <1> QED BY <1>2, <1>3

\* Every step keeps it.
LEMMA TableNext == ASSUME IInv, TableInv, [Next]_vars PROVE TableInv'
  <1> USE DEF queue
  <1>1. CASE ReceiveUi
    <2>1. /\ ui = "idle" /\ ui' = "ack" /\ posted > 0 /\ posted' = posted - 1
          /\ UNCHANGED <<at, pending, lost, table>>
      BY <1>1 DEF ReceiveUi, Wake!Receive
    <2> QED BY <2>1 DEF TableInv, EditIsOnItsWay
  <1>2. CASE AcknowledgeUiInvalidate
    <2>1. /\ ui = "ack" /\ ui' = "swap" /\ pending' = FALSE /\ UNCHANGED <<at, posted, lost>>
      BY <1>2 DEF AcknowledgeUiInvalidate
    <2>2. pending' \in BOOLEAN /\ ~pending'
      BY <2>1
    <2>3. posted = 0 /\ \A v \in Widgets : at[v] \notin {"post", "undo"}
      BY <2>1 DEF TableInv
    <2>4. EditIsOnItsWay'
      BY <2>1 DEF EditIsOnItsWay
    <2> QED BY <2>1, <2>2, <2>3, <2>4 DEF TableInv
  <1>3. CASE SwapTable
    <2>1. /\ ui = "swap" /\ ui' \in {"idle", "patch"} /\ UNCHANGED <<at, pending, posted, lost>>
          /\ \A w \in Widgets : table'[w] = 0
      BY <1>3 DEF SwapTable
    <2> QED BY <2>1, TableStays
  <1>4. CASE Persist
    <2>1. UNCHANGED <<table, at, pending, posted, lost>> /\ ui \notin {"ack", "swap"} /\ ui' # "ack"
      BY <1>4 DEF Persist, PatchWidgetInstanceSettings, OpenGuard, WriteTemporary, CheckAgain,
                  Rename, RenameClassic, ReadStamp, Editing, On, Fail, Defer, Settle
    <2> QED BY <2>1, TableStays
  <1>5. CASE OnSettingsChanged \/ QueryStamp \/ LoadCandidate \/ ChangeWindow \/ ForgetStamps
    <2>1. UNCHANGED <<table, at, pending, posted, lost>> /\ ui \notin {"ack", "swap"} /\ ui' # "ack"
      BY <1>5 DEF OnSettingsChanged, QueryStamp, LoadCandidate, ChangeWindow, ForgetStamps, Reloading
    <2> QED BY <2>1, TableStays
  <1>6. CASE ApplySettings
    <2>1. /\ ui = "apply" /\ ui' = "idle" /\ UNCHANGED <<at, pending, posted, lost>>
          /\ \A w \in Widgets : table'[w] # 0 => table[w] # 0
      BY <1>6 DEF ApplySettings, Reloading
    <2> QED BY <2>1, TableStays
  <1>7. ASSUME NEW w \in Widgets, QueueWidgetSettings(w) \/ RequestUiInvalidate(w) PROVE TableInv'
    BY <1>7, ThreadsKeepTable
  <1>8. ASSUME NEW w \in Widgets, PersistWidgetSettings(w) PROVE TableInv'
    <2>1. /\ ui = "idle" /\ ui' = "patch" /\ UNCHANGED <<at, pending, posted, lost>>
          /\ table \in [Widgets -> Nat]
          /\ table' = table \/ table' = [table EXCEPT ![w] = 0]
      BY <1>8 DEF PersistWidgetSettings, IInv, TypeOK
    <2>2. \A v \in Widgets : table'[v] # 0 => table[v] # 0
      BY <2>1
    <2> QED BY <2>1, <2>2, TableStays
  <1>9. CASE Outside \/ (Watcher /\ Inside /\ late' = late)
    BY <1>9, TableStays DEF Outside, Inside
  <1>10. CASE UNCHANGED vars
    BY <1>10, TableStays DEF vars
  <1> QED BY <1>1, <1>2, <1>3, <1>4, <1>5, <1>6, <1>7, <1>8, <1>9, <1>10 DEF Next, Ui

\* What a thread queued has a wake-up on its way, unless a post failed
\* (QueueWidgetSettings and RequestUiInvalidate against AcknowledgeUiInvalidate).
THEOREM EditsAreAwaited == Spec => []EditIsOnItsWay
  <1>1. Init => TableInv
    <2> SUFFICES ASSUME Init PROVE TableInv
      OBVIOUS
    <2>1. /\ at \in [Widgets -> ThreadStates] /\ posted = 0 /\ ui = "idle"
          /\ \A w \in Widgets : at[w] = "idle" /\ table[w] = 0
      BY DEF Init, ThreadStates
    <2>2. pending \in BOOLEAN /\ ~pending
      BY DEF Init
    <2> QED BY <2>1, <2>2 DEF TableInv, EditIsOnItsWay
  <1>2. IInv /\ TableInv /\ [Next]_vars => TableInv'
    BY TableNext
  <1>3. TableInv => EditIsOnItsWay
    BY DEF TableInv
  <1> QED BY <1>1, <1>2, <1>3, Invariance, PTL DEF Spec

-----------------------------------------------------------------------------
(* The saves of other programs                                              *)

\* What the watcher coalesces onto is there; a version that came after the stamp
\* of the one that is loaded, and RedXe's own, has raised a notification that
\* nobody has answered yet.
FollowInv ==
  /\ watch \in [at : {"arm", "wait", "post"}, armed : BOOLEAN]
  /\ mail \in Nat
  /\ watch.at = "wait" => watch.armed
  /\ notified => mail > 0 \/ replay
  /\ ui \in {"load", "apply"} /\ file # None /\ file.stamp # loading.stamp => Awaited
  /\ ui = "stamp" => Awaited
  /\ SaveIsOnItsWay

\* A change of the directory is noticed while the notification is armed, and
\* looked for when it is armed next.
LEMMA SignalAwaits ==
  ASSUME FollowInv, Signal, UNCHANGED <<watch, mail, replay, unsent>>
  PROVE  Awaited'
  BY DEF FollowInv, Signal, Awaited

\* Nothing else matters while something is on its way.
LEMMA AwaitedFollows ==
  ASSUME FollowInv, Awaited', UNCHANGED <<watch, mail, replay, notified>>
  PROVE  FollowInv'
  BY DEF FollowInv, SaveIsOnItsWay

\* A step that leaves the file, its stamps and its watcher alone.
LEMMA FollowStays ==
  ASSUME FollowInv,
         UNCHANGED <<file, applied, rejected, loading, signalled, watch, mail, notified, unsent,
                     replay, unread>>,
         \/ ui' = ui
         \/ ui \notin {"query", "load", "apply"} /\ ui' \notin {"load", "apply", "stamp"}
  PROVE  FollowInv'
  BY DEF FollowInv, Awaited, SaveIsOnItsWay, Stamp

\* A thread of the watcher always leaves something on its way.
LEMMA WatcherFollows ==
  ASSUME FollowInv, Watcher, UNCHANGED replay PROVE FollowInv'
  <1>1. CASE Arm
    BY <1>1 DEF Arm, FollowInv, Awaited, SaveIsOnItsWay
  <1>2. CASE Noticed
    <2>1. \/ watch' = [at |-> "post", armed |-> watch.armed]
          \/ watch' = [at |-> "post", armed |-> FALSE]
      BY <1>2 DEF Noticed, FollowInv
    <2>2. UNCHANGED <<notified, mail>>
      BY <1>2 DEF Noticed
    <2>3. watch' \in [at : {"arm", "wait", "post"}, armed : BOOLEAN] /\ watch'.at = "post"
      <3>1. watch.armed \in BOOLEAN
        BY DEF FollowInv
      <3>2. PICK armed \in BOOLEAN : watch' = [at |-> "post", armed |-> armed]
        BY <2>1, <3>1, Zenon
      <3> QED BY <3>2
    <2> QED BY <2>2, <2>3 DEF FollowInv, Awaited, SaveIsOnItsWay
  <1>3. CASE PostSettingsChanged
    <2>1. watch' = [at |-> IF watch.armed THEN "wait" ELSE "arm", armed |-> watch.armed]
      BY <1>3 DEF PostSettingsChanged, FollowInv
    <2>2. /\ watch' \in [at : {"arm", "wait", "post"}, armed : BOOLEAN]
          /\ watch'.at = "wait" => watch'.armed
      BY <2>1 DEF FollowInv
    <2>3. /\ mail' \in Nat
          /\ notified' => mail' > 0 \/ replay'
          /\ mail' > 0 \/ replay' \/ unsent'
      BY <1>3 DEF PostSettingsChanged, FollowInv
    <2> QED BY <2>2, <2>3 DEF FollowInv, Awaited, SaveIsOnItsWay
  <1> QED BY <1>1, <1>2, <1>3 DEF Watcher

\* RedXe's own rename raises a notification like any other.
LEMMA PersistFollows ==
  ASSUME IInv, FollowInv, Persist PROVE FollowInv'
  <1> USE DEF store, fileVars
  <1>0. UNCHANGED <<watch, notified, mail, unsent, loading, replay, unread>>
    BY DEF Persist, PatchWidgetInstanceSettings, OpenGuard, WriteTemporary, CheckAgain,
           Rename, RenameClassic, ReadStamp, Editing, OnUi
  <1>1. /\ ui \notin {"query", "load", "apply"}
        /\ ui' \notin {"query", "load", "apply"}
    BY DEF Persist, PatchWidgetInstanceSettings, OpenGuard, WriteTemporary, CheckAgain,
           Rename, RenameClassic, ReadStamp, On, Fail, Defer, Settle
  <1>2. CASE PatchWidgetInstanceSettings \/ OpenGuard \/ WriteTemporary \/ CheckAgain
    <2>1. UNCHANGED <<file, signalled, applied, rejected>> /\ ui' # "stamp"
      BY <1>2 DEF PatchWidgetInstanceSettings, OpenGuard, WriteTemporary, CheckAgain,
                  On, Fail, Defer, Settle
    <2> QED BY <1>0, <1>1, <2>1, FollowStays
  <1>3. CASE Rename \/ RenameClassic
    <2>1. \/ Signal
          \/ UNCHANGED <<file, signalled, applied, rejected>> /\ ui' # "stamp"
      BY <1>3 DEF Rename, RenameClassic, Put, On, Fail, Defer, Settle
    <2>2. CASE Signal
      BY <1>0, <2>2, SignalAwaits, AwaitedFollows
    <2> QED BY <1>0, <1>1, <2>1, <2>2, FollowStays
  <1>4. CASE ReadStamp
    <2>1. ui = "stamp" /\ UNCHANGED signalled
      BY <1>4 DEF ReadStamp
    <2>2. Awaited'
      BY <1>0, <2>1 DEF FollowInv, Awaited
    <2> QED BY <1>0, <2>2, AwaitedFollows
  <1> QED BY <1>2, <1>3, <1>4 DEF Persist

\* The reload looks at the version the stamp names, and leaves a later one to
\* the notification it has raised.
LEMMA ReloadFollows ==
  ASSUME IInv, FollowInv,
         OnSettingsChanged \/ QueryStamp \/ LoadCandidate \/ ApplySettings
  PROVE  FollowInv'
  <1>0. UNCHANGED <<file, signalled, watch>>
    BY DEF OnSettingsChanged, QueryStamp, LoadCandidate, ApplySettings, Reloading, fileVars
  <1>1. CASE OnSettingsChanged
    <2>1. mail' = mail - 1 /\ mail' \in Nat /\ UNCHANGED <<applied, rejected, loading, unsent, unread>>
      BY <1>1 DEF OnSettingsChanged, FollowInv
    <2>2. CASE window = "moving"
      <3>1. replay' = TRUE
        BY <1>1, <2>2 DEF OnSettingsChanged
      <3> QED BY <1>0, <2>1, <3>1 DEF FollowInv, Awaited, SaveIsOnItsWay
    <2>3. CASE window # "moving"
      <3>1. ui' = "query" /\ notified' = FALSE
        BY <1>1, <2>3 DEF OnSettingsChanged, Acknowledged
      <3> QED BY <1>0, <2>1, <3>1 DEF FollowInv, SaveIsOnItsWay
    <2> QED BY <2>2, <2>3
  <1>2. CASE QueryStamp
    <2>1. UNCHANGED <<applied, rejected, mail, notified, replay, unsent, unread>>
      BY <1>2 DEF QueryStamp
    <2>2. CASE file = None \/ Stamp \in {applied, rejected}
      <3>1. ui' = "idle"
        BY <1>2, <2>2 DEF QueryStamp
      <3> QED BY <1>0, <2>1, <2>2, <3>1 DEF FollowInv, SaveIsOnItsWay, Stamp
    <2>3. CASE ~(file = None \/ Stamp \in {applied, rejected})
      <3>1. ui' = "load" /\ loading'.stamp = file.stamp
        BY <1>2, <2>3 DEF QueryStamp, Stamp
      <3> QED BY <1>0, <2>1, <3>1 DEF FollowInv, SaveIsOnItsWay
    <2> QED BY <2>2, <2>3
  <1>3. CASE LoadCandidate
    <2>1. UNCHANGED <<applied, mail, notified, replay, unsent>> /\ ui = "load"
      BY <1>3 DEF LoadCandidate
    <2>2. CASE ui' = "idle" /\ unread' = TRUE
      BY <1>0, <2>1, <2>2 DEF FollowInv, SaveIsOnItsWay
    <2>3. CASE ui' = "apply" /\ loading' = [loading EXCEPT !.doc = file.doc]
      <3>1. loading \in [stamp : Nat, doc : Document]
        BY <2>1 DEF IInv, TypeOK
      <3>2. loading'.stamp = loading.stamp
        BY <2>3, <3>1
      <3> QED BY <1>0, <2>1, <2>3, <3>2 DEF FollowInv, Awaited, SaveIsOnItsWay
    <2>4. CASE ui' = "idle" /\ rejected' = loading.stamp
      BY <1>0, <2>1, <2>4 DEF FollowInv, Awaited, SaveIsOnItsWay, Stamp
    <2> QED BY <1>3, <2>2, <2>3, <2>4 DEF LoadCandidate
  <1>4. CASE ApplySettings
    <2>1. UNCHANGED <<mail, notified, unsent, unread>> /\ ui = "apply" /\ ui' = "idle"
      BY <1>4 DEF ApplySettings
    <2>2. CASE replay' = TRUE
      BY <1>0, <2>1, <2>2 DEF FollowInv, Awaited, SaveIsOnItsWay
    <2>3. CASE replay' = replay /\ (applied' = loading.stamp \/ rejected' = loading.stamp)
      BY <1>0, <2>1, <2>3 DEF FollowInv, Awaited, SaveIsOnItsWay, Stamp
    <2> QED BY <1>4, <2>2, <2>3 DEF ApplySettings
  <1> QED BY <1>1, <1>2, <1>3, <1>4

\* Every step keeps it.
LEMMA FollowNext == ASSUME IInv, FollowInv, [Next]_vars PROVE FollowInv'
  <1> USE DEF store, fileVars, watchVars
  <1>1. CASE ReceiveUi \/ AcknowledgeUiInvalidate \/ SwapTable
    BY <1>1, FollowStays DEF ReceiveUi, AcknowledgeUiInvalidate, SwapTable, OnUi, NoFile
  <1>2. CASE Persist
    BY <1>2, PersistFollows
  <1>3. CASE OnSettingsChanged \/ QueryStamp \/ LoadCandidate \/ ApplySettings
    BY <1>3, ReloadFollows
  <1>4. ASSUME NEW w \in Widgets, QueueWidgetSettings(w) \/ RequestUiInvalidate(w) PROVE FollowInv'
    BY <1>4, FollowStays DEF QueueWidgetSettings, RequestUiInvalidate, Elsewhere
  <1>5. ASSUME NEW w \in Widgets, PersistWidgetSettings(w) PROVE FollowInv'
    BY <1>5, FollowStays DEF PersistWidgetSettings, OnUi, NoFile
  <1>6. CASE ChangeWindow
    <2>1. /\ UNCHANGED <<file, signalled, watch, ui, applied, rejected, loading, notified, unsent, unread>>
          /\ \/ UNCHANGED <<replay, mail>>
             \/ replay' = FALSE /\ mail' = mail + 1
      BY <1>6 DEF ChangeWindow, Reloading
    <2>2. CASE UNCHANGED <<replay, mail>>
      BY <2>1, <2>2, FollowStays
    <2>3. CASE replay' = FALSE /\ mail' = mail + 1
      BY <2>1, <2>3 DEF FollowInv, Awaited, SaveIsOnItsWay
    <2> QED BY <2>1, <2>2, <2>3
  <1>7. CASE ForgetStamps
    <2>1. /\ UNCHANGED <<watch, ui, notified, replay>>
          /\ mail' = mail + 1 \/ (mail' = mail /\ unsent' = TRUE)
      BY <1>7 DEF ForgetStamps, Reloading
    <2> QED BY <2>1 DEF FollowInv, Awaited, SaveIsOnItsWay
  <1>8. CASE Outside
    <2>1. UNCHANGED <<watch, mail, notified, unsent, replay, ui, applied, rejected, loading, unread>>
      BY <1>8 DEF Outside, SaveInPlace, Replace, Delete, Hold, Release, Outsiders, Inside
    <2>2. Signal \/ UNCHANGED <<file, signalled>>
      BY <1>8 DEF Outside, SaveInPlace, Replace, Delete, Hold, Release, Saved, Put
    <2>3. CASE Signal
      BY <2>1, <2>3, SignalAwaits, AwaitedFollows
    <2> QED BY <2>1, <2>2, <2>3, FollowStays
  <1>9. CASE Watcher /\ Inside /\ late' = late
    BY <1>9, WatcherFollows DEF Inside
  <1>10. CASE UNCHANGED vars
    BY <1>10, FollowStays DEF vars
  <1> QED BY <1>1, <1>2, <1>3, <1>4, <1>5, <1>6, <1>7, <1>8, <1>9, <1>10 DEF Next, Ui

\* A version of the file that RedXe has neither applied nor rejected is about to
\* be looked at (SettingsWatcher's thread, OnSettingsChanged and TryLoadChanged).
THEOREM SavesAreAwaited == Spec => []SaveIsOnItsWay
  <1>1. Init => FollowInv
    BY DEF Init, FileInit, FollowInv, SaveIsOnItsWay, Stamp
  <1>2. IInv /\ FollowInv /\ [Next]_vars => FollowInv'
    BY FollowNext
  <1>3. FollowInv => SaveIsOnItsWay
    BY DEF FollowInv
  <1> QED BY <1>1, <1>2, <1>3, Invariance, PTL DEF Spec

\* Nothing that is to reach the document or the file is forgotten.
THEOREM NothingForgotten == Spec => []NothingIsForgotten
  <1> QED BY EditsAreAwaited, DeferralsAreRecorded, SavesAreAwaited, PTL DEF NothingIsForgotten

-----------------------------------------------------------------------------
(* The wake-up that the store composes, on its own: for every set of       *)
(* producers, with the window's coming and going.                          *)

CONSTANT Producers
VARIABLES ready, target

Shared == INSTANCE UiWake

\* A failed post is on record until its flag has been handed back.
UndoIsLost == \A p \in Producers : at[p] = "undo" => lost

WakeInv == /\ Shared!TypeOK
           /\ target # "cleared" => UndoIsLost
           /\ Shared!OneMessage
           /\ Shared!NoLostWakeup

\* The initial state satisfies the inductive invariant.
LEMMA WakeInitInv == Shared!Init => WakeInv
  <1> SUFFICES ASSUME Shared!Init PROVE WakeInv
    OBVIOUS
  <1>1. Shared!TypeOK
    BY DEF Shared!Init, Shared!TypeOK, Shared!ThreadStates
  <1>2. \A p \in Producers : at[p] = "idle" /\ ~ready[p]
    BY DEF Shared!Init
  <1> QED
    BY <1>1, <1>2
       DEF Shared!Init, WakeInv, UndoIsLost, Shared!OneMessage, Shared!NoLostWakeup, Shared!Posting

\* Every step preserves it: one step per action.
LEMMA WakeNextInv == WakeInv /\ [Shared!Next]_(Shared!vars) => WakeInv'
  <1> SUFFICES ASSUME WakeInv, [Shared!Next]_(Shared!vars) PROVE WakeInv'
    OBVIOUS
  <1> USE DEF WakeInv, Shared!TypeOK, Shared!ThreadStates, UndoIsLost, Shared!OneMessage,
              Shared!NoLostWakeup, Shared!Posting
  <1>1. ASSUME NEW p \in Producers, Shared!Publish(p) PROVE WakeInv'
    BY <1>1 DEF Shared!Publish, Shared!Step
  <1>2. ASSUME NEW p \in Producers, Shared!LoadTarget(p) PROVE WakeInv'
    BY <1>2 DEF Shared!LoadTarget, Shared!Step
  <1>3. ASSUME NEW p \in Producers, Shared!Exchange(p) PROVE WakeInv'
    <2>1. /\ \A q \in Producers : at'[q] = IF q # p THEN at[q]
                                        ELSE IF pending THEN "idle" ELSE "post"
          /\ at[p] = "exchange"
      BY <1>3 DEF Shared!Exchange, Shared!Step
    <2>2. Shared!TypeOK'
      BY <1>3 DEF Shared!Exchange, Shared!Step
    <2>3. CASE pending
      BY <1>3, <2>1, <2>2, <2>3 DEF Shared!Exchange
    <2>4. CASE ~pending
      BY <1>3, <2>1, <2>2, <2>4 DEF Shared!Exchange
    <2> QED BY <2>3, <2>4
  <1>4. ASSUME NEW p \in Producers, Shared!Post(p) PROVE WakeInv'
    <2>1. /\ \A q \in Producers : at'[q] = IF q = p THEN "idle" ELSE at[q]
          /\ p \in Shared!Posting
      BY <1>4 DEF Shared!Post, Shared!Step
    <2>2. Shared!TypeOK'
      <3>1. posted' \in Nat
        BY <1>4 DEF Shared!Post
      <3>2. at' \in [Producers -> Shared!ThreadStates]
        BY <1>4 DEF Shared!Post, Shared!Step
      <3> QED BY <1>4, <3>1, <3>2 DEF Shared!Post
    <2>3. target # "cleared" => posted' = 1 /\ Shared!Posting' = {}
      BY <1>4, <2>1 DEF Shared!Post
    <2>4. Shared!OneMessage'
      BY <1>4, <2>1, <2>3 DEF Shared!Post
    <2>5. Shared!NoLostWakeup'
      BY <1>4, <2>3 DEF Shared!Post
    <2>6. (target # "cleared" => UndoIsLost)'
      BY <1>4, <2>3 DEF Shared!Post
    <2> QED BY <2>2, <2>4, <2>5, <2>6
  <1>5. ASSUME NEW p \in Producers, Shared!PostFails(p) PROVE WakeInv'
    <2>1. /\ \A q \in Producers : at'[q] = IF q = p THEN "undo" ELSE at[q]
          /\ at[p] = "post"
      BY <1>5 DEF Shared!PostFails, Shared!Step
    <2>2. Shared!TypeOK'
      BY <1>5 DEF Shared!PostFails, Shared!Step
    <2>3. Shared!Posting' = Shared!Posting
      BY <2>1
    <2>4. Shared!OneMessage'
      BY <1>5, <2>3 DEF Shared!PostFails
    <2>5. (target # "cleared" => UndoIsLost)' /\ Shared!NoLostWakeup'
      BY <1>5 DEF Shared!PostFails
    <2> QED BY <2>2, <2>4, <2>5
  <1>6. ASSUME NEW p \in Producers, Shared!Undo(p) PROVE WakeInv'
    <2>1. /\ \A q \in Producers : at'[q] = IF q = p THEN "idle" ELSE at[q]
          /\ at[p] = "undo" /\ p \in Shared!Posting
      BY <1>6 DEF Shared!Undo, Shared!Step
    <2>2. Shared!TypeOK'
      BY <1>6 DEF Shared!Undo, Shared!Step
    <2>3. target # "cleared" => Shared!Posting' = {} /\ posted = 0 /\ lost
      BY <2>1
    <2>4. Shared!OneMessage'
      BY <1>6, <2>1, <2>3 DEF Shared!Undo
    <2>5. (target # "cleared" => UndoIsLost)' /\ Shared!NoLostWakeup'
      BY <1>6, <2>3 DEF Shared!Undo
    <2> QED BY <2>2, <2>4, <2>5
  <1>7. CASE Shared!SetTarget
    BY <1>7 DEF Shared!SetTarget
  <1>8. CASE Shared!ClearTarget
    BY <1>8 DEF Shared!ClearTarget
  <1>9. CASE Shared!Receive
    <2>1. posted = 1 /\ posted' = 0
      BY <1>9 DEF Shared!Receive
    <2>2. Shared!TypeOK'
      BY <1>9, <2>1 DEF Shared!Receive
    <2> QED BY <1>9, <2>1, <2>2 DEF Shared!Receive
  <1>10. CASE Shared!Acknowledge
    <2>1. Shared!TypeOK'
      BY <1>10 DEF Shared!Acknowledge
    <2>2. target # "cleared" => Shared!Posting = {} /\ posted = 0
      BY <1>10 DEF Shared!Acknowledge
    <2>3. Shared!Posting' = Shared!Posting
      BY <1>10 DEF Shared!Acknowledge
    <2>4. Shared!OneMessage'
      BY <1>10, <2>2, <2>3 DEF Shared!Acknowledge
    <2>5. (target # "cleared" => UndoIsLost)' /\ Shared!NoLostWakeup'
      BY <1>10, <2>2 DEF Shared!Acknowledge
    <2> QED BY <2>1, <2>4, <2>5
  <1>11. ASSUME NEW p \in Producers, Shared!Drain(p) PROVE WakeInv'
    BY <1>11 DEF Shared!Drain
  <1>12. CASE Shared!DrainEnd
    BY <1>12 DEF Shared!DrainEnd
  <1>13. CASE UNCHANGED Shared!vars
    BY <1>13 DEF Shared!vars
  <1> QED
    BY <1>1, <1>2, <1>3, <1>4, <1>5, <1>6, <1>7, <1>8, <1>9, <1>10, <1>11,
       <1>12, <1>13
       DEF Shared!Next, Shared!Ui, Shared!Request

\* The inductive invariant holds of every reachable state.
LEMMA WakeInvariance == Shared!Spec => []WakeInv
  <1> QED BY WakeInitInv, WakeNextInv, PTL DEF Shared!Spec

\* Every variable keeps its type.
THEOREM WakeTypeCorrect == Shared!Spec => []Shared!TypeOK
  <1>1. WakeInv => Shared!TypeOK
    BY DEF WakeInv
  <1> QED BY <1>1, WakeInvariance, PTL

\* Any number of workers share at most one message.
THEOREM MessagesCoalesce == Shared!Spec => []Shared!OneMessage
  <1>1. WakeInv => Shared!OneMessage
    BY DEF WakeInv
  <1> QED BY <1>1, WakeInvariance, PTL

\* No worker's result is left behind, whoever posted.
THEOREM WakeupsAreKept == Shared!Spec => []Shared!NoLostWakeup
  <1>1. WakeInv => Shared!NoLostWakeup
    BY DEF WakeInv
  <1> QED BY <1>1, WakeInvariance, PTL
================================================================================
