----------------------------- MODULE DrillProofs -----------------------------
(***************************************************************************)
(* The recommendation cache is empty only for the causes it names, for     *)
(* every number of threads and every catalogue.  A flag file that cannot   *)
(* be read was damaged, and one whose writers kept to their turns has the  *)
(* changes they saved, for every number of pages, drills and flags.        *)
(***************************************************************************)
EXTENDS Drill, TLAPS

LEMMA InitRecInv == RecInit => RecInv
<1> SUFFICES ASSUME RecInit PROVE RecInv
  OBVIOUS
<1> USE DEF RecInit, NoRecCall
<1>1. RecTypeOK
  BY DEF RecTypeOK, Steps
<1>2. StoresSomething
  BY DEF StoresSomething, RecAt
<1>3. EmptyCacheHasCause
  BY DEF EmptyCacheHasCause, RecAt
<1> QED
  BY <1>1, <1>2, <1>3 DEF RecInv

LEMMA NextRecInv ==
  ASSUME RecTypeOK, StoresSomething, EmptyCacheHasCause, NEW enabled, RecNext(enabled)
  PROVE RecInv'
<1> USE DEF RecTypeOK, RecAt, RecGoOn, NoRecCall
<1>1. ASSUME NEW c \in RecCalls, CheckFeatureFlag(c, enabled) PROVE RecInv'
  <2> USE <1>1 DEF CheckFeatureFlag
  <2>1. RecTypeOK'
    BY DEF Steps
  <2>2. StoresSomething'
    BY DEF StoresSomething
  <2>3. EmptyCacheHasCause'
    BY DEF EmptyCacheHasCause, Filling
  <2> QED
    BY <2>1, <2>2, <2>3 DEF RecInv
<1>2. ASSUME NEW c \in RecCalls, Miss(c) PROVE RecInv'
  <2> USE <1>2 DEF Miss
  <2>1. RecTypeOK'
    BY DEF Steps
  <2>2. StoresSomething'
    BY DEF StoresSomething
  <2>3. EmptyCacheHasCause'
    BY DEF EmptyCacheHasCause, Filling
  <2> QED
    BY <2>1, <2>2, <2>3 DEF RecInv
<1>3. ASSUME NEW c \in RecCalls, Hit(c) PROVE RecInv'
  <2> USE <1>3 DEF Hit
  <2>1. RecTypeOK'
    BY DEF Steps
  <2>2. StoresSomething'
    BY DEF StoresSomething
  <2>3. EmptyCacheHasCause'
    BY DEF EmptyCacheHasCause, Filling
  <2> QED
    BY <2>1, <2>2, <2>3 DEF RecInv
<1>4. ASSUME NEW c \in RecCalls, ListProducts(c) PROVE RecInv'
  <2> USE <1>4 DEF ListProducts
  <2>1. RecTypeOK'
    <3>1. PICK step \in Steps : recCall' = [recCall EXCEPT ![c] =
                                 [@ EXCEPT !.step = step, !.ids = products]]
      BY DEF Steps
    <3> QED
      BY ONLY <3>1, UNCHANGED <<products, first_run, cached_ids, unlisted, noProducts>>, RecTypeOK
         DEF RecTypeOK
  <2>2. StoresSomething'
    BY DEF StoresSomething
  <2>3. EmptyCacheHasCause'
    BY DEF EmptyCacheHasCause, Filling
  <2> QED
    BY <2>1, <2>2, <2>3 DEF RecInv
<1>5. ASSUME NEW c \in RecCalls, ListFails(c) PROVE RecInv'
  <2> USE <1>5 DEF ListFails
  <2>1. RecTypeOK'
    BY DEF Steps
  <2>2. StoresSomething'
    BY DEF StoresSomething
  <2>3. EmptyCacheHasCause'
    BY DEF EmptyCacheHasCause, Filling
  <2> QED
    BY <2>1, <2>2, <2>3 DEF RecInv
<1>6. ASSUME NEW c \in RecCalls, LoadCache(c) PROVE RecInv'
  <2> USE <1>6 DEF LoadCache
  <2>1. RecTypeOK'
    <3>1. PICK step \in Steps : recCall' = [recCall EXCEPT ![c] =
                                 [@ EXCEPT !.step = step, !.loaded = cached_ids]]
      BY DEF Steps
    <3> QED
      BY ONLY <3>1, UNCHANGED <<products, first_run, cached_ids, unlisted, noProducts>>, RecTypeOK
         DEF RecTypeOK
  <2>2. StoresSomething'
    BY DEF StoresSomething
  <2>3. EmptyCacheHasCause'
    BY DEF EmptyCacheHasCause, Filling
  <2> QED
    BY <2>1, <2>2, <2>3 DEF RecInv
<1>7. ASSUME NEW c \in RecCalls, StoreResponse(c) PROVE RecInv'
  <2> USE <1>7 DEF StoreResponse
  <2>1. RecTypeOK'
    BY DEF Steps
  <2>2. StoresSomething'
    BY DEF StoresSomething
  <2>3. EmptyCacheHasCause'
    BY DEF EmptyCacheHasCause, Filling, StoresSomething
  <2> QED
    BY <2>1, <2>2, <2>3 DEF RecInv
<1>8. ASSUME NEW c \in RecCalls, StoreQuarter(c) PROVE RecInv'
  <2> USE <1>8 DEF StoreQuarter
  <2>1. RecTypeOK'
    BY DEF Steps
  <2>2. StoresSomething'
    BY DEF StoresSomething
  <2>3. EmptyCacheHasCause'
    BY DEF EmptyCacheHasCause, Filling, StoresSomething
  <2> QED
    BY <2>1, <2>2, <2>3 DEF RecInv
<1>9. ASSUME NEW c \in RecCalls, TakeCache(c) PROVE RecInv'
  <2> USE <1>9 DEF TakeCache
  <2>1. RecTypeOK'
    BY DEF Steps
  <2>2. StoresSomething'
    BY DEF StoresSomething
  <2>3. EmptyCacheHasCause'
    BY DEF EmptyCacheHasCause, Filling
  <2> QED
    BY <2>1, <2>2, <2>3 DEF RecInv
<1>10. ASSUME NEW c \in RecCalls, Recommend(c) PROVE RecInv'
  <2> USE <1>10 DEF Recommend
  <2>1. RecTypeOK'
    BY DEF Steps
  <2>2. StoresSomething'
    BY DEF StoresSomething
  <2>3. EmptyCacheHasCause'
    BY DEF EmptyCacheHasCause, Filling
  <2> QED
    BY <2>1, <2>2, <2>3 DEF RecInv
<1>11. ASSUME NEW ids \in SUBSET CatalogueIds, ReloadProducts(ids) PROVE RecInv'
  BY <1>11 DEF ReloadProducts, RecInv, StoresSomething, EmptyCacheHasCause, Filling
<1> QED
  BY <1>1, <1>2, <1>3, <1>4, <1>5, <1>6, <1>7, <1>8, <1>9, <1>10, <1>11 DEF RecNext

\* The files and the ads leave the recommendations alone.
LEMMA NextInv == RecInv /\ [Next]_vars => RecInv'
<1> SUFFICES ASSUME RecInv, [Next]_vars PROVE RecInv'
  OBVIOUS
<1>1. CASE Recommendations
  BY <1>1, NextRecInv DEF Recommendations, RecInv
<1>2. CASE UNCHANGED recVars
  BY <1>2 DEF recVars, RecInv, RecTypeOK, StoresSomething, EmptyCacheHasCause, RecAt, Filling
<1> QED
  BY <1>1, <1>2 DEF Next, vars, Files, Ads

\* A request is answered from the cache only after a miss has begun to fill it
\* (recommendation_server.py:80), and the cache is then empty only while it is
\* being filled, after a failed ListProducts or after an empty catalogue: the
\* unlocked reads and writes of cached_ids never empty it.
THEOREM CacheEmptyForCause == Spec => []EmptyCacheHasCause
<1>1. Init => RecInv
  BY InitRecInv DEF Init
<1>2. RecInv => EmptyCacheHasCause
  BY DEF RecInv
<1> QED
  BY <1>1, NextInv, <1>2, PTL DEF Spec

-----------------------------------------------------------------------------
(* The flag file: the texts that writers hold and write, what has damaged    *)
(* the file, and which of its changes must be there.                         *)

CopiesOf(texts) == [text : texts, edited : SUBSET Flags, fresh : BOOLEAN]
WriterRecords ==
  [step : {"idle", "saving", "writing", "written", "body", "stuck"},
   data : CopiesOf(Configs \cup {NoText, Error}), asked : Int,
   body : CopiesOf(Configs \cup {NoText, Null})]
DrillRecords == [flag : Flags, old : Variants]

\* Only a configuration is edited, and only what flagd or null can be is sent.
WriterOK(r) ==
  /\ r \in WriterRecords
  /\ r.data.text \notin Configs => r.data.edited = {}
  /\ r.body.text \notin Configs => r.body.edited = {}
  /\ r.step \in {"saving", "writing"} => r.body.text \in Configs \cup {Null}

\* A drill that has begun has a configuration to write, which edits nothing for
\* good, and in its body the flag to restore.
DrillOK(r, k) ==
  /\ k \in DrillRecords \cup {NoDrill}
  /\ r.data.text = NoText
  /\ r.step \in {"idle", "saving", "writing", "body"}
  /\ r.step # "idle" => r.body.text \in Configs /\ r.body.edited = {}
  /\ r.step = "body" => k # NoDrill

FileShape ==
  /\ file \in Configs \cup {Empty, Null, Torn}
  /\ wanted \in Configs
  /\ writer \in [Writers -> WriterRecords]
  /\ drill \in [Drills -> DrillRecords \cup {NoDrill}]
  /\ \A w \in Writers : WriterOK(writer[w])
  /\ \A d \in Drills : DrillOK(writer[d], drill[d])

\* A lone writer finds the file as it truncated it.
DamageHasCause ==
  /\ file = Torn => "overlap" \in causes
  /\ file = Null => "unread" \in causes
  /\ file = Empty /\ Writing = {} => "failed" \in causes
  /\ \A w \in Writing : "overlap" \in causes \/ (file = Empty /\ Writing = {w})

Active == {d \in Drills : ~At(d, "idle")}

\* So far nobody wrote an old copy, no drill was cut short, and none will be:
\* the one at work, if any, holds what is in the file.
Orderly ==
  /\ ~overwritten /\ ~interrupted
  /\ \A d \in Active : writer[d].body.fresh /\ Active = {d}

\* A copy that nobody wrote after has what is wanted, but for its own changes.
Agrees(copy) ==
  copy.fresh /\ copy.text \in Configs =>
    \A f \in Flags \ copy.edited : copy.text[f] = wanted[f]

\* What a drill writes in the end.
RestoredBy(d) ==
  IF drill[d] = NoDrill THEN writer[d].body.text
  ELSE [writer[d].body.text EXCEPT ![drill[d].flag] = drill[d].old]

QuietAgrees ==
  /\ file \in Configs => file = wanted
  /\ \A w \in Pages : Agrees(writer[w].data) /\ Agrees(writer[w].body)

WantedKept ==
  Orderly =>
    /\ Active = {} => QuietAgrees
    /\ \A d \in Active : RestoredBy(d) = wanted

FileInv == FileShape /\ DamageHasCause /\ WantedKept

-----------------------------------------------------------------------------
(* The shape of the file's state. *)

\* One writer changes, and remains one.
LEMMA OneWriterChanges ==
  ASSUME FileShape, NEW w \in Writers, NEW r, WriterOK(r),
         w \in Drills => DrillOK(r, drill'[w]),
         writer' = [writer EXCEPT ![w] = r],
         \A d \in Drills : d # w => drill'[d] = drill[d],
         drill' \in [Drills -> DrillRecords \cup {NoDrill}],
         UNCHANGED <<file, wanted>>
  PROVE  FileShape'
<1>1. writer' \in [Writers -> WriterRecords] /\ \A v \in Writers : WriterOK(writer'[v])
  BY DEF FileShape, WriterOK
<1>2. \A d \in Drills : DrillOK(writer'[d], drill'[d])
  BY DEF FileShape, Writers
<1> QED
  BY <1>1, <1>2 DEF FileShape, WriterOK, DrillOK

LEMMA WriterFields ==
  ASSUME FileShape, NEW w \in Writers
  PROVE  /\ WriterOK(writer[w]) /\ writer[w] \in WriterRecords
         /\ w \in Drills => DrillOK(writer[w], drill[w])
BY DEF FileShape

LEMMA CopyType ==
  ASSUME NEW S, NEW text \in S
  PROVE  Copy(text) \in CopiesOf(S) /\ Copy(text).text = text /\ Copy(text).edited = {}
BY DEF Copy, CopiesOf

LEMMA BlankOK ==
  WriterOK(Blank) /\ Blank.step = "idle" /\ Blank.data.text = NoText
<1>1. Copy(NoText) \in CopiesOf(Configs \cup {NoText, Error})
      /\ Copy(NoText) \in CopiesOf(Configs \cup {NoText, Null})
      /\ Copy(NoText).edited = {} /\ Copy(NoText).text = NoText
  BY CopyType
<1> QED
  BY <1>1 DEF Blank, WriterOK, WriterRecords

\* A page shows what it may show.
LEMMA ShownOK ==
  ASSUME FileShape, NEW w \in Writers
  PROVE  /\ Shown(w) \in CopiesOf(Configs \cup {NoText, Error})
         /\ Shown(w).text \notin Configs => Shown(w).edited = {}
<1>1. Answer \in CopiesOf(Configs \cup {NoText, Error}) /\ Answer.edited = {}
  <2> DEFINE text == IF file \in Configs THEN file ELSE IF file = Null THEN NoText ELSE Error
  <2>1. text \in Configs \cup {NoText, Error}
    OBVIOUS
  <2> HIDE DEF text
  <2>2. Copy(text) \in CopiesOf(Configs \cup {NoText, Error}) /\ Copy(text).edited = {}
    BY <2>1, CopyType
  <2> QED
    BY <2>2 DEF Answer, text
<1>2. /\ writer[w].data \in CopiesOf(Configs \cup {NoText, Error})
      /\ writer[w].data.text \notin Configs => writer[w].data.edited = {}
  BY WriterFields DEF WriterOK, WriterRecords
<1>3. Shown(w) = Answer \/ Shown(w) = writer[w].data
  BY DEF Shown
<1> QED
  BY <1>1, <1>2, <1>3

LEMMA EditedOK ==
  ASSUME FileShape, NEW w \in Writers, NEW f \in Flags, NEW variant \in Variants,
         writer[w].data.text \in Configs
  PROVE  /\ updateFlagData(writer[w].data, f, variant) \in CopiesOf(Configs \cup {NoText, Error})
         /\ updateFlagData(writer[w].data, f, variant).text \in Configs
BY WriterFields DEF WriterOK, WriterRecords, CopiesOf, updateFlagData, Configs

\* A page that is not gone sends a configuration or null.
LEMMA SentOK ==
  ASSUME FileShape, NEW w \in Pages, writer[w].data.text # Error
  PROVE  /\ Body(writer[w].data) \in CopiesOf(Configs \cup {NoText, Null})
         /\ Body(writer[w].data).text \in Configs \cup {Null}
         /\ Body(writer[w].data).text \notin Configs => Body(writer[w].data).edited = {}
<1>1. /\ writer[w].data \in CopiesOf(Configs \cup {NoText, Error})
      /\ writer[w].data.text \notin Configs => writer[w].data.edited = {}
  BY WriterFields DEF WriterOK, WriterRecords, Writers
<1>2. CASE writer[w].data.text = NoText
  BY <1>1, <1>2, TextsAssumption DEF Body, CopiesOf
<1>3. CASE writer[w].data.text # NoText
  BY <1>1, <1>3 DEF Body, CopiesOf
<1> QED
  BY <1>2, <1>3

\* The pages keep the shape.
LEMMA PageKeepsShape ==
  ASSUME FileShape, NEW w \in Pages, PageNext(w)
  PROVE  FileShape'
<1>1. w \in Writers /\ w \notin Drills
  BY WritersAssumption DEF Writers
<1>2. WriterOK(writer[w]) /\ writer[w] \in WriterRecords
  BY <1>1, WriterFields
<1>3. UNCHANGED <<file, drill>> /\ drill \in [Drills -> DrillRecords \cup {NoDrill}]
  BY DEF PageNext, Load, ReadFile, Save, SaveRequest, HearAnswer, LoseAnswer, Edit, FileShape
<1>4. UNCHANGED wanted
  BY DEF PageNext, Load, ReadFile, Save, SaveRequest, HearAnswer, LoseAnswer, Edit
<1>5. \E r : WriterOK(r) /\ writer' = [writer EXCEPT ![w] = r]
  <2>1. CASE Load(w)
    <3>1. WriterOK([Blank EXCEPT !.asked = 1])
      BY BlankOK DEF WriterOK, WriterRecords
    <3> QED
      BY <2>1, <3>1 DEF Load
  <2>2. CASE ReadFile(w)
    <3> DEFINE new == Shown(w)
               left == writer[w].asked - 1
               r == [writer[w] EXCEPT !.asked = left, !.data = new]
    <3>1. /\ new \in CopiesOf(Configs \cup {NoText, Error})
          /\ new.text \notin Configs => new.edited = {}
      BY <1>1, ShownOK
    <3>2. writer' = [writer EXCEPT ![w] = r]
      BY <2>2 DEF ReadFile
    <3>3. left \in Int
      BY <1>2 DEF WriterRecords
    <3> HIDE DEF new, left
    <3>4. WriterOK(r)
      BY <1>2, <3>1, <3>3 DEF WriterOK, WriterRecords
    <3> QED
      BY <3>2, <3>4
  <2>3. CASE \E f \in Flags : Edit(w, f)
    <3>1. PICK f \in Flags, variant \in Variants :
            /\ writer[w].data.text \in Configs
            /\ writer' = [writer EXCEPT ![w].data = updateFlagData(@, f, variant)]
      BY <2>3 DEF Edit
    <3> DEFINE new == updateFlagData(writer[w].data, f, variant)
               r == [writer[w] EXCEPT !.data = new]
    <3>2. new \in CopiesOf(Configs \cup {NoText, Error}) /\ new.text \in Configs
      BY <1>1, <3>1, EditedOK
    <3>3. writer' = [writer EXCEPT ![w] = r]
      BY <3>1
    <3> HIDE DEF new
    <3>4. WriterOK(r)
      BY <1>2, <3>2 DEF WriterOK, WriterRecords
    <3> QED
      BY <3>3, <3>4
  <2>4. CASE Save(w)
    <3>1. writer[w].data.text # Error
      BY <2>4, TextsAssumption DEF Save, SaveRequest, Gone, Pages
    <3> DEFINE new == Body(writer[w].data)
               r == [writer[w] EXCEPT !.step = "saving", !.body = new]
    <3>2. /\ new \in CopiesOf(Configs \cup {NoText, Null}) /\ new.text \in Configs \cup {Null}
          /\ new.text \notin Configs => new.edited = {}
      BY <3>1, SentOK
    <3>3. writer' = [writer EXCEPT ![w] = r]
      BY <2>4 DEF Save, SaveRequest
    <3> HIDE DEF new
    <3>4. WriterOK(r)
      BY <1>2, <3>2 DEF WriterOK, WriterRecords
    <3> QED
      BY <3>3, <3>4
  <2>5. CASE HearAnswer(w)
    <3> DEFINE reads == IF Gone(w) THEN 0 ELSE 2
               r == [writer[w] EXCEPT !.step = "idle", !.asked = reads]
    <3>1. reads \in Int
      OBVIOUS
    <3>2. writer' = [writer EXCEPT ![w] = r]
      BY <2>5 DEF HearAnswer
    <3> HIDE DEF reads
    <3>3. WriterOK(r)
      BY <1>2, <3>1 DEF WriterOK, WriterRecords
    <3> QED
      BY <3>2, <3>3
  <2>6. CASE LoseAnswer(w)
    <3>1. WriterOK([Blank EXCEPT !.step = "stuck"])
      BY BlankOK DEF WriterOK, WriterRecords
    <3>2. WriterOK([writer[w] EXCEPT !.step = "idle", !.body = Copy(NoText)])
      BY <1>2, CopyType DEF WriterOK, WriterRecords
    <3> QED
      BY <2>6, <3>1, <3>2 DEF LoseAnswer
  <2> QED
    BY <2>1, <2>2, <2>3, <2>4, <2>5, <2>6 DEF PageNext
<1> QED
  BY <1>1, <1>3, <1>4, <1>5, OneWriterChanges

\* The drills keep it.
LEMMA DrillKeepsShape ==
  ASSUME FileShape, NEW d \in Drills, DrillNext(d)
  PROVE  FileShape'
<1>1. d \in Writers /\ UNCHANGED <<file, wanted>>
      /\ drill \in [Drills -> DrillRecords \cup {NoDrill}]
  BY DEF Writers, DrillNext, EndDrill, Kill, StartDrill, FileShape
<1>2. /\ WriterOK(writer[d]) /\ writer[d] \in WriterRecords
      /\ DrillOK(writer[d], drill[d])
  BY <1>1, WriterFields
<1>3. CASE Kill(d)
  <2>1. DrillOK(Blank, NoDrill)
    BY BlankOK DEF DrillOK
  <2>2. writer' = [writer EXCEPT ![d] = Blank] /\ drill' = [drill EXCEPT ![d] = NoDrill]
    BY <1>3 DEF Kill
  <2>3. drill'[d] = NoDrill /\ drill' \in [Drills -> DrillRecords \cup {NoDrill}]
        /\ \A e \in Drills : e # d => drill'[e] = drill[e]
    BY <1>1, <2>2
  <2> QED
    BY <1>1, <2>1, <2>2, <2>3, BlankOK, OneWriterChanges
<1>4. CASE EndDrill(d)
  <2> DEFINE text == [writer[d].body.text EXCEPT ![drill[d].flag] = drill[d].old]
             new == [writer[d].body EXCEPT !.text = text]
             r == [writer[d] EXCEPT !.step = "saving", !.body = new]
  <2>1. drill[d] \in DrillRecords /\ writer[d].body.text \in Configs
    BY <1>2, <1>4 DEF EndDrill, DrillOK, At
  <2>2. text \in Configs
    BY <2>1 DEF DrillRecords, Configs
  <2>3. writer' = [writer EXCEPT ![d] = r]
    BY <1>4 DEF EndDrill
  <2>4. drill'[d] = NoDrill /\ drill' \in [Drills -> DrillRecords \cup {NoDrill}]
        /\ \A e \in Drills : e # d => drill'[e] = drill[e]
    BY <1>1, <1>4 DEF EndDrill
  <2> HIDE DEF text
  <2>5. new \in CopiesOf(Configs \cup {NoText, Null}) /\ new.text \in Configs
        /\ new.edited = writer[d].body.edited
    BY <1>2, <2>2 DEF WriterRecords, CopiesOf
  <2>6. writer[d].body.edited = {}
    BY <1>2, <1>4 DEF EndDrill, DrillOK, At
  <2> HIDE DEF new
  <2>7. WriterOK(r) /\ DrillOK(r, NoDrill)
    BY <1>2, <2>5, <2>6 DEF WriterOK, DrillOK, WriterRecords
  <2> QED
    BY <1>1, <2>3, <2>4, <2>7, OneWriterChanges
<1>5. ASSUME NEW f \in Flags, StartDrill(d, f)
      PROVE  FileShape'
  <2> DEFINE text == [file EXCEPT ![f] = "on"]
             new == Copy(text)
             r == [writer[d] EXCEPT !.step = "saving", !.body = new]
             k == [flag |-> f, old |-> file[f]]
  <2>1. text \in Configs /\ k \in DrillRecords
    BY <1>5 DEF StartDrill, Configs, Variants, DrillRecords
  <2>2. writer' = [writer EXCEPT ![d] = r] /\ drill' = [drill EXCEPT ![d] = k]
    BY <1>5 DEF StartDrill
  <2> HIDE DEF text, k
  <2>3. drill'[d] = k /\ drill' \in [Drills -> DrillRecords \cup {NoDrill}]
        /\ \A e \in Drills : e # d => drill'[e] = drill[e]
    BY <1>1, <2>1, <2>2
  <2>4. new \in CopiesOf(Configs \cup {NoText, Null}) /\ new.text \in Configs
        /\ new.edited = {}
    BY <2>1, CopyType
  <2> HIDE DEF new
  <2>5. WriterOK(r) /\ DrillOK(r, k)
    BY <1>2, <2>1, <2>4 DEF WriterOK, DrillOK, WriterRecords
  <2> QED
    BY <1>1, <2>2, <2>3, <2>5, OneWriterChanges
<1> QED
  BY <1>3, <1>4, <1>5 DEF DrillNext

\* What a writer is after its write, and what another is whose copies it made old.
LEMMA FinishedOK ==
  ASSUME FileShape, NEW w \in Writers, writer[w].step \in {"saving", "writing"}
  PROVE  /\ WriterOK(Finished(w))
         /\ w \in Drills => DrillOK(Finished(w), drill[w])
<1>1. /\ WriterOK(writer[w]) /\ writer[w] \in WriterRecords
      /\ w \in Drills => DrillOK(writer[w], drill[w])
  BY WriterFields
<1>2. CASE w \in Pages
  <2> DEFINE new == Copy(NoText)
  <2>1. new \in CopiesOf(Configs \cup {NoText, Null}) /\ new.edited = {}
    BY CopyType
  <2>2. Finished(w) = [writer[w] EXCEPT !.step = "written", !.body = new]
    BY <1>2 DEF Finished
  <2> HIDE DEF new
  <2>3. w \notin Drills
    BY <1>2, WritersAssumption
  <2> QED
    BY <1>1, <2>1, <2>2, <2>3 DEF WriterOK, WriterRecords
<1>3. CASE w \notin Pages /\ Restoring(w)
  BY <1>3, BlankOK DEF Finished, Restoring, DrillOK
<1>4. CASE w \notin Pages /\ ~Restoring(w)
  <2>1. Finished(w) = [writer[w] EXCEPT !.step = "body"]
    BY <1>4 DEF Finished
  <2>2. w \in Drills /\ drill[w] # NoDrill
    BY <1>4 DEF Writers, Restoring
  <2> QED
    BY <1>1, <2>1, <2>2 DEF WriterOK, WriterRecords, DrillOK
<1> QED
  BY <1>2, <1>3, <1>4

LEMMA OvertakenOK ==
  ASSUME FileShape, NEW v \in Writers
  PROVE  /\ WriterOK(Overtaken(v)) /\ Overtaken(v) \in WriterRecords
         /\ v \in Drills => DrillOK(Overtaken(v), drill[v])
         /\ Overtaken(v).step = writer[v].step /\ Overtaken(v).asked = writer[v].asked
         /\ Overtaken(v).data.text = writer[v].data.text
         /\ Overtaken(v).data.edited = writer[v].data.edited
         /\ Overtaken(v).data.fresh = (writer[v].data.text \notin Configs)
         /\ Overtaken(v).body.text = writer[v].body.text
         /\ Overtaken(v).body.edited = writer[v].body.edited
         /\ Overtaken(v).body.fresh = (writer[v].body.text \notin Configs)
<1> DEFINE data == [writer[v].data EXCEPT !.fresh = writer[v].data.text \notin Configs]
           body == [writer[v].body EXCEPT !.fresh = writer[v].body.text \notin Configs]
<1>1. /\ WriterOK(writer[v]) /\ writer[v] \in WriterRecords
      /\ v \in Drills => DrillOK(writer[v], drill[v])
  BY WriterFields
<1>2. Overtaken(v) = [writer[v] EXCEPT !.data = data, !.body = body]
  BY DEF Overtaken
<1>3. /\ data \in CopiesOf(Configs \cup {NoText, Error})
      /\ data.text = writer[v].data.text /\ data.edited = writer[v].data.edited
      /\ data.fresh = (writer[v].data.text \notin Configs)
  BY <1>1 DEF WriterRecords, CopiesOf
<1>4. /\ body \in CopiesOf(Configs \cup {NoText, Null})
      /\ body.text = writer[v].body.text /\ body.edited = writer[v].body.edited
      /\ body.fresh = (writer[v].body.text \notin Configs)
  BY <1>1 DEF WriterRecords, CopiesOf
<1> HIDE DEF data, body
<1>5. Overtaken(v) \in WriterRecords /\ Overtaken(v).data = data /\ Overtaken(v).body = body
      /\ Overtaken(v).step = writer[v].step /\ Overtaken(v).asked = writer[v].asked
  BY <1>1, <1>2, <1>3, <1>4 DEF WriterRecords
<1>6. WriterOK(Overtaken(v)) /\ (v \in Drills => DrillOK(Overtaken(v), drill[v]))
  BY <1>1, <1>3, <1>4, <1>5 DEF WriterOK, DrillOK
<1> QED
  BY <1>3, <1>4, <1>5, <1>6

\* After its write a page has a copy of its own that is fresh only if it says what
\* was written; a drill goes on with what it has written, or is done.
LEMMA LandedPage ==
  ASSUME FileShape, NEW w \in Pages, writer[w].step \in {"saving", "writing"}
  PROVE  /\ WriterOK(Landed(w)) /\ Landed(w).step = "written"
         /\ Landed(w).body.text = NoText
         /\ \/ /\ Landed(w).data.text = writer[w].data.text
               /\ Body(writer[w].data) = writer[w].body
               /\ Landed(w).data.edited = {}
            \/ Landed(w).data.fresh = (Landed(w).data.text \notin Configs)
<1> DEFINE done == Copy(NoText)
           kept == Copy(writer[w].data.text)
           old == Overtaken(w).data
<1>1. w \in Writers
  BY DEF Writers
<1>2. /\ writer[w] \in WriterRecords
      /\ writer[w].data \in CopiesOf(Configs \cup {NoText, Error})
  BY <1>1, WriterFields DEF WriterRecords
<1>3. done \in CopiesOf(Configs \cup {NoText, Null}) /\ done.edited = {} /\ done.text = NoText
  BY CopyType
<1>4. /\ kept \in CopiesOf(Configs \cup {NoText, Error}) /\ kept.edited = {}
      /\ kept.text = writer[w].data.text
  <2>1. writer[w].data.text \in Configs \cup {NoText, Error}
    BY <1>2 DEF CopiesOf
  <2> QED
    BY <2>1, CopyType
<1>5. /\ old \in CopiesOf(Configs \cup {NoText, Error})
      /\ old.text \notin Configs => old.edited = {}
      /\ old.fresh = (old.text \notin Configs)
  BY <1>1, OvertakenOK DEF WriterOK, WriterRecords
<1>6. /\ Finished(w) \in WriterRecords /\ Finished(w).step = "written"
      /\ Finished(w).body = done
  <2>1. Finished(w) = [writer[w] EXCEPT !.step = "written", !.body = done]
    BY DEF Finished
  <2> HIDE DEF done
  <2> QED
    BY <1>2, <1>3, <2>1 DEF WriterRecords
<1>7. CASE Body(writer[w].data) = writer[w].body
  <2>1. Landed(w) = [Finished(w) EXCEPT !.data = kept]
    BY <1>7 DEF Landed
  <2> HIDE DEF done, kept, old
  <2>2. /\ Landed(w) \in WriterRecords /\ Landed(w).step = "written"
        /\ Landed(w).data = kept /\ Landed(w).body = done
    BY <1>4, <1>6, <2>1 DEF WriterRecords
  <2> QED
    BY <1>3, <1>4, <1>7, <2>2 DEF WriterOK
<1>8. CASE Body(writer[w].data) # writer[w].body
  <2>1. Landed(w) = [Finished(w) EXCEPT !.data = old]
    BY <1>8 DEF Landed
  <2> HIDE DEF done, kept, old
  <2>2. /\ Landed(w) \in WriterRecords /\ Landed(w).step = "written"
        /\ Landed(w).data = old /\ Landed(w).body = done
    BY <1>5, <1>6, <2>1 DEF WriterRecords
  <2> QED
    BY <1>3, <1>5, <2>2 DEF WriterOK
<1> QED
  BY <1>7, <1>8

LEMMA LandedDrill ==
  ASSUME FileShape, NEW d \in Drills, writer[d].step \in {"saving", "writing"}
  PROVE  /\ WriterOK(Landed(d)) /\ DrillOK(Landed(d), drill[d])
         /\ drill[d] = NoDrill => Landed(d).step = "idle"
         /\ drill[d] # NoDrill =>
              Landed(d).step = "body" /\ Landed(d).body.text = writer[d].body.text
<1> DEFINE kept == Copy(writer[d].body.text)
<1>1. d \in Writers /\ d \notin Pages
  BY WritersAssumption DEF Writers
<1>2. /\ writer[d] \in WriterRecords /\ writer[d].data.text = NoText
      /\ writer[d].body.text \in Configs
      /\ WriterOK(writer[d]) /\ DrillOK(writer[d], drill[d])
  BY <1>1, WriterFields DEF DrillOK
<1>3. Body(writer[d].data) # writer[d].body
  <2>1. Body(writer[d].data).text = Null
    BY <1>2 DEF Body, WriterRecords, CopiesOf
  <2> QED
    BY <1>2, <2>1, TextsAssumption
<1>4. CASE drill[d] = NoDrill
  BY <1>1, <1>3, <1>4, BlankOK DEF Landed, Finished, Restoring, DrillOK
<1>5. CASE drill[d] # NoDrill
  <2>1. /\ kept \in CopiesOf(Configs \cup {NoText, Null})
        /\ kept.edited = {} /\ kept.text = writer[d].body.text
    BY <1>2, CopyType
  <2>2. Landed(d) = [[writer[d] EXCEPT !.step = "body"] EXCEPT !.body = kept]
    BY <1>1, <1>3, <1>5 DEF Landed, Finished, Restoring
  <2> HIDE DEF kept
  <2> QED
    BY <1>2, <1>5, <2>1, <2>2 DEF WriterOK, WriterRecords, DrillOK
<1> QED
  BY <1>4, <1>5

LEMMA LandedOK ==
  ASSUME FileShape, NEW w \in Writers, writer[w].step \in {"saving", "writing"}
  PROVE  /\ WriterOK(Landed(w)) /\ Landed(w).step # "writing"
         /\ w \in Drills => DrillOK(Landed(w), drill[w])
BY LandedPage, LandedDrill, WritersAssumption DEF Writers

\* What a write makes of the file: it is torn only if the file was not empty.
LEMMA Written ==
  ASSUME FileShape, NEW w \in Writers, Land(w)
  PROVE  /\ file' \in {Torn, writer[w].body.text}
         /\ writer[w].body.text \in Configs \cup {Null}
         /\ file = Empty => file' = writer[w].body.text
<1>1. writer[w].body.text \in Configs \cup {Null} /\ file' \in Over(file, writer[w].body.text)
  BY WriterFields DEF WriterOK, Land, At
<1> QED
  BY <1>1, TextsAssumption DEF Over

LEMMA WriteKeepsShape ==
  ASSUME FileShape, NEW w \in Writers, WriteNext(w)
  PROVE  FileShape'
<1>1. /\ WriterOK(writer[w]) /\ writer[w] \in WriterRecords
      /\ w \in Drills => DrillOK(writer[w], drill[w])
  BY WriterFields
<1>2. drill' = drill /\ drill \in [Drills -> DrillRecords \cup {NoDrill}]
  BY DEF WriteNext, Truncate, Land, WriteFails, FileShape
<1>3. CASE Truncate(w)
  <2> DEFINE r == [writer[w] EXCEPT !.step = "writing"]
  <2>1. WriterOK(r) /\ (w \in Drills => DrillOK(r, drill[w]))
    BY <1>1, <1>3 DEF Truncate, At, WriterOK, WriterRecords, DrillOK
  <2>2. writer' = [writer EXCEPT ![w] = r] /\ file' = Empty /\ wanted' = wanted
    BY <1>3 DEF Truncate
  <2> HIDE DEF r
  <2>3. writer' \in [Writers -> WriterRecords] /\ \A v \in Writers : WriterOK(writer'[v])
    BY <2>1, <2>2 DEF FileShape, WriterOK
  <2>4. \A d \in Drills : DrillOK(writer'[d], drill'[d])
    BY <1>2, <2>1, <2>2 DEF FileShape, Writers
  <2> QED
    BY <1>2, <2>2, <2>3, <2>4 DEF FileShape, WriterOK, DrillOK
<1>4. CASE WriteFails(w)
  <2>1. writer' = [writer EXCEPT ![w] = Finished(w)] /\ UNCHANGED <<file, wanted>>
        /\ writer[w].step \in {"saving", "writing"}
    BY <1>4 DEF WriteFails
  <2> QED
    BY <1>2, <2>1, FinishedOK, OneWriterChanges
<1>5. CASE Land(w)
  <2>1. writer[w].step = "writing"
    BY <1>5 DEF Land, At
  <2>2. \A v \in Writers : /\ WriterOK(writer'[v])
                           /\ v \in Drills => DrillOK(writer'[v], drill[v])
    BY <1>5, <2>1, LandedOK, OvertakenOK DEF Land
  <2>3. writer' \in [Writers -> WriterRecords]
    BY <1>5, <2>2 DEF Land, WriterOK
  <2>4. wanted' \in Configs
    BY <1>1, <1>5 DEF Land, FileShape, WriterOK, WriterRecords, CopiesOf, Configs
  <2>5. file' \in Configs \cup {Empty, Null, Torn}
    BY <1>5, Written
  <2> QED
    BY <1>2, <2>2, <2>3, <2>4, <2>5 DEF FileShape, WriterOK, DrillOK, Writers
<1> QED
  BY <1>3, <1>4, <1>5 DEF WriteNext

LEMMA NextKeepsShape == FileShape /\ FileNext => FileShape'
<1>1. ASSUME FileShape, Watch PROVE FileShape'
  BY <1>1 DEF FileShape, Watch, WriterOK, DrillOK
<1> QED
  BY <1>1, PageKeepsShape, DrillKeepsShape, WriteKeepsShape DEF FileNext

-----------------------------------------------------------------------------
(* Damage has a cause. *)

LEMMA PageStepsWriteNothing ==
  ASSUME FileShape, NEW w \in Pages, PageNext(w)
  PROVE  Writing' = Writing /\ UNCHANGED <<file, causes>>
<1>1. UNCHANGED <<file, causes>>
  BY DEF PageNext, Load, ReadFile, Save, SaveRequest, HearAnswer, LoseAnswer, Edit
<1>2. \A v \in Writers : v # w => writer'[v] = writer[v]
  BY DEF PageNext, Load, ReadFile, Save, SaveRequest, HearAnswer, LoseAnswer, Edit, FileShape
<1>3. \/ writer'[w].step # "writing" /\ writer[w].step # "writing"
      \/ writer'[w].step = writer[w].step
  <2>1. writer \in [Writers -> WriterRecords] /\ w \in Writers /\ writer[w] \in WriterRecords
    BY DEF FileShape, Writers
  <2>2. CASE Load(w)
    BY <2>1, <2>2, BlankOK DEF Load, Blank
  <2>3. CASE ReadFile(w)
    BY <2>1, <2>3 DEF ReadFile, WriterRecords
  <2>4. CASE \E f \in Flags : Edit(w, f)
    BY <2>1, <2>4 DEF Edit, WriterRecords
  <2>5. CASE Save(w)
    BY <2>1, <2>5 DEF Save, SaveRequest, At, WriterRecords
  <2>6. CASE HearAnswer(w)
    BY <2>1, <2>6 DEF HearAnswer, At, WriterRecords
  <2>7. CASE LoseAnswer(w)
    BY <2>1, <2>7 DEF LoseAnswer, At, WriterRecords, Blank
  <2> QED
    BY <2>2, <2>3, <2>4, <2>5, <2>6, <2>7 DEF PageNext
<1> QED
  BY <1>1, <1>2, <1>3 DEF Writing, At, Writers

\* A writer that stops writing half way leaves a cause, one that was alone, and
\* none if another is at it: their writes overlapped.
LEMMA StopsHalfWay ==
  ASSUME FileShape, DamageHasCause, NEW w \in Writers, At(w, "writing"), file' = file,
         causes' = causes \cup {"failed"}, Writing' = Writing \ {w}
  PROVE  DamageHasCause'
BY DEF DamageHasCause, Writing

LEMMA WritesNothing ==
  ASSUME DamageHasCause, Writing' = Writing, UNCHANGED <<file, causes>>
  PROVE  DamageHasCause'
BY DEF DamageHasCause

LEMMA DrillKeepsCause ==
  ASSUME FileShape, DamageHasCause, NEW d \in Drills, DrillNext(d)
  PROVE  DamageHasCause'
<1>1. writer \in [Writers -> WriterRecords] /\ d \in Writers /\ writer[d] \in WriterRecords
  BY DEF FileShape, Writers
<1>2. CASE Kill(d)
  <2>1. file' = file /\ writer' = [writer EXCEPT ![d] = Blank]
        /\ Writing' = Writing \ {d}
    BY <1>1, <1>2, BlankOK DEF Kill, Writing, At
  <2>2. CASE At(d, "writing")
    BY <1>1, <1>2, <2>1, <2>2, StopsHalfWay DEF Kill
  <2>3. CASE ~At(d, "writing")
    BY <1>1, <1>2, <2>1, <2>3, WritesNothing DEF Kill, Writing
  <2> QED
    BY <2>2, <2>3
<1>3. CASE EndDrill(d)
  <2>1. Writing' = Writing
    BY <1>1, <1>3 DEF EndDrill, Writing, At, WriterRecords
  <2> QED
    BY <1>3, <2>1, WritesNothing DEF EndDrill
<1>4. ASSUME NEW f \in Flags, StartDrill(d, f) PROVE DamageHasCause'
  <2>1. Writing' = Writing
    BY <1>1, <1>4 DEF StartDrill, Writing, At, WriterRecords
  <2> QED
    BY <1>4, <2>1, WritesNothing DEF StartDrill
<1> QED
  BY <1>2, <1>3, <1>4 DEF DrillNext

LEMMA WriteKeepsCause ==
  ASSUME FileShape, DamageHasCause, NEW w \in Writers, WriteNext(w)
  PROVE  DamageHasCause'
<1>1. writer \in [Writers -> WriterRecords] /\ writer[w] \in WriterRecords
  BY DEF FileShape
<1>2. CASE Truncate(w)
  <2>1. Writing' = Writing \cup {w}
    BY <1>1, <1>2 DEF Truncate, Writing, At, WriterRecords
  <2> QED
    BY <1>2, <2>1, TextsAssumption DEF Truncate, DamageHasCause
<1>3. CASE WriteFails(w)
  <2>1. Finished(w).step # "writing"
    BY <1>1, BlankOK DEF Finished, WriterRecords
  <2>2. file' = file /\ Writing' = Writing \ {w}
    BY <1>1, <1>3, <2>1 DEF WriteFails, Writing, At
  <2>3. CASE At(w, "writing")
    BY <1>3, <2>2, <2>3, StopsHalfWay DEF WriteFails
  <2>4. CASE ~At(w, "writing")
    BY <1>3, <2>2, <2>4, WritesNothing DEF WriteFails, Writing
  <2> QED
    BY <2>3, <2>4
<1>4. CASE Land(w)
  <2>1. writer[w].step = "writing" /\ w \in Writing
    BY <1>4 DEF Land, At, Writing
  <2>2. Writing' = Writing \ {w}
    BY <1>4, <2>1, LandedOK, OvertakenOK DEF Land, Writing, At
  <2>3. causes \subseteq causes' /\ (writer[w].body.text = Null => "unread" \in causes')
    BY <1>4 DEF Land
  <2>4. /\ file' \in {Torn, writer[w].body.text}
        /\ writer[w].body.text \in Configs \cup {Null}
        /\ file = Empty => file' = writer[w].body.text
    BY <1>4, Written
  <2>5. "overlap" \in causes \/ (file = Empty /\ Writing = {w})
    BY <2>1 DEF DamageHasCause
  <2>6. file' = Torn => "overlap" \in causes'
    BY <2>3, <2>4, <2>5, TextsAssumption
  <2>7. file' # Empty /\ (file' = Null => "unread" \in causes')
    BY <2>3, <2>4, TextsAssumption
  <2>8. \A v \in Writing' : "overlap" \in causes'
    BY <2>2, <2>3, <2>5
  <2> QED
    BY <2>6, <2>7, <2>8 DEF DamageHasCause
<1> QED
  BY <1>2, <1>3, <1>4 DEF WriteNext

LEMMA NextKeepsCause == FileShape /\ DamageHasCause /\ FileNext => DamageHasCause'
<1>1. ASSUME DamageHasCause, Watch PROVE DamageHasCause'
  BY <1>1, WritesNothing DEF Watch, Writing, At
<1>2. ASSUME FileShape, DamageHasCause, NEW w \in Pages, PageNext(w) PROVE DamageHasCause'
  BY <1>2, PageStepsWriteNothing, WritesNothing
<1> QED
  BY <1>1, <1>2, DrillKeepsCause, WriteKeepsCause DEF FileNext

-----------------------------------------------------------------------------
(* What is wanted stays.                                                     *)

\* A page's step gives it copies that agree with what is wanted.
LEMMA PageCopiesAgree ==
  ASSUME FileShape, QuietAgrees, NEW w \in Pages, PageNext(w)
  PROVE  \E r : /\ writer' = [writer EXCEPT ![w] = r]
                /\ Agrees(r.data) /\ Agrees(r.body)
<1>1. w \in Writers /\ writer[w] \in WriterRecords
      /\ writer[w].data \in CopiesOf(Configs \cup {NoText, Error})
  BY DEF Writers, FileShape, WriterRecords
<1>2. Agrees(writer[w].data) /\ Agrees(writer[w].body)
  BY DEF QuietAgrees
<1>3. Agrees(Copy(NoText))
  BY TextsAssumption DEF Agrees, Copy
<1>4. Agrees(Blank.data) /\ Agrees(Blank.body)
  BY <1>3 DEF Blank
<1>5. CASE Load(w)
  <2> DEFINE r == [Blank EXCEPT !.asked = 1]
  <2>1. writer' = [writer EXCEPT ![w] = r]
    BY <1>5 DEF Load
  <2>2. Agrees(r.data) /\ Agrees(r.body)
    BY <1>4 DEF Blank
  <2> QED
    BY <2>1, <2>2
<1>6. CASE ReadFile(w)
  <2> DEFINE r == [writer[w] EXCEPT !.asked = @ - 1, !.data = Shown(w)]
  <2>1. writer' = [writer EXCEPT ![w] = r]
    BY <1>6 DEF ReadFile
  <2>2. Agrees(Answer)
    <3>1. CASE file \in Configs
      BY <3>1 DEF Answer, Copy, Agrees, QuietAgrees
    <3>2. CASE file \notin Configs
      BY <3>2, TextsAssumption DEF Answer, Copy, Agrees
    <3> QED
      BY <3>1, <3>2
  <2>3. r.data = Shown(w) /\ r.body = writer[w].body
    BY <1>1 DEF WriterRecords
  <2>4. Shown(w) = Answer \/ Shown(w) = writer[w].data
    BY DEF Shown
  <2> QED
    BY <1>2, <2>1, <2>2, <2>3, <2>4
<1>7. CASE \E f \in Flags : Edit(w, f)
  <2>1. PICK f \in Flags, variant \in Variants :
          /\ writer[w].data.text \in Configs
          /\ writer' = [writer EXCEPT ![w].data = updateFlagData(@, f, variant)]
    BY <1>7 DEF Edit
  <2> DEFINE new == updateFlagData(writer[w].data, f, variant)
             r == [writer[w] EXCEPT !.data = new]
  <2>2. writer' = [writer EXCEPT ![w] = r]
    BY <2>1
  <2>3. /\ new.fresh = writer[w].data.fresh
        /\ new.edited = writer[w].data.edited \cup {f}
        /\ new.text = [writer[w].data.text EXCEPT ![f] = variant]
    BY <1>1 DEF updateFlagData, CopiesOf
  <2> HIDE DEF new
  <2>4. Agrees(new)
    BY <1>2, <2>1, <2>3 DEF Agrees, Configs
  <2>5. r.data = new /\ r.body = writer[w].body
    BY <1>1 DEF WriterRecords
  <2> QED
    BY <1>2, <2>2, <2>4, <2>5
<1>8. CASE Save(w)
  <2> DEFINE new == Body(writer[w].data)
             r == [writer[w] EXCEPT !.step = "saving", !.body = new]
  <2>1. writer' = [writer EXCEPT ![w] = r]
    BY <1>8 DEF Save, SaveRequest
  <2>2. Agrees(new)
    <3>1. CASE writer[w].data.text = NoText
      <4>1. new.text = Null
        BY <1>1, <3>1 DEF Body, CopiesOf
      <4> QED
        BY <4>1, TextsAssumption DEF Agrees
    <3>2. CASE writer[w].data.text # NoText
      BY <1>2, <3>2 DEF Body
    <3> QED
      BY <3>1, <3>2
  <2> HIDE DEF new
  <2>3. r.data = writer[w].data /\ r.body = new
    BY <1>1 DEF WriterRecords
  <2> QED
    BY <1>2, <2>1, <2>2, <2>3
<1>9. CASE HearAnswer(w)
  <2> DEFINE r == [writer[w] EXCEPT !.step = "idle", !.asked = IF Gone(w) THEN 0 ELSE 2]
  <2>1. writer' = [writer EXCEPT ![w] = r]
    BY <1>9 DEF HearAnswer
  <2>2. r.data = writer[w].data /\ r.body = writer[w].body
    BY <1>1 DEF WriterRecords
  <2> QED
    BY <1>2, <2>1, <2>2
<1>10. CASE LoseAnswer(w)
  <2> DEFINE stuck == [Blank EXCEPT !.step = "stuck"]
             idle == [writer[w] EXCEPT !.step = "idle", !.body = Copy(NoText)]
  <2>1. writer' = [writer EXCEPT ![w] = stuck] \/ writer' = [writer EXCEPT ![w] = idle]
    BY <1>10 DEF LoseAnswer
  <2>2. Agrees(stuck.data) /\ Agrees(stuck.body)
    BY <1>4 DEF Blank
  <2>3. idle.data = writer[w].data /\ idle.body = Copy(NoText)
    BY <1>1 DEF WriterRecords
  <2> HIDE DEF stuck, idle
  <2> QED
    BY <1>2, <1>3, <2>1, <2>2, <2>3
<1> QED
  BY <1>5, <1>6, <1>7, <1>8, <1>9, <1>10 DEF PageNext

\* Where no drill is written, the drills at work and what they restore stay.
LEMMA DrillsStay ==
  ASSUME drill' = drill, \A d \in Drills : writer'[d] = writer[d],
         UNCHANGED <<overwritten, interrupted>>
  PROVE  /\ Active' = Active /\ Orderly' = Orderly
         /\ \A d \in Drills : RestoredBy(d)' = RestoredBy(d)
<1>1. Active' = Active
  BY DEF Active, At
<1>2. \A d \in Drills : RestoredBy(d)' = RestoredBy(d)
  BY DEF RestoredBy
<1>3. Orderly' = Orderly
  BY <1>1 DEF Orderly, Active
<1> QED
  BY <1>1, <1>2, <1>3

LEMMA PageKeepsWanted ==
  ASSUME FileShape, WantedKept, NEW w \in Pages, PageNext(w)
  PROVE  WantedKept'
<1>1. UNCHANGED <<file, wanted, drill, overwritten, interrupted>>
  BY DEF PageNext, Load, ReadFile, Save, SaveRequest, HearAnswer, LoseAnswer, Edit
<1>2. \A v \in Writers : v # w => writer'[v] = writer[v]
  BY DEF PageNext, Load, ReadFile, Save, SaveRequest, HearAnswer, LoseAnswer, Edit, FileShape
<1>3. \A d \in Drills : writer'[d] = writer[d]
  BY <1>2, WritersAssumption DEF Writers
<1>4. /\ Active' = Active /\ Orderly' = Orderly
      /\ \A d \in Drills : RestoredBy(d)' = RestoredBy(d)
  BY <1>1, <1>3, DrillsStay
<1>5. ASSUME QuietAgrees PROVE QuietAgrees'
  <2>1. PICK r : writer' = [writer EXCEPT ![w] = r] /\ Agrees(r.data) /\ Agrees(r.body)
    BY <1>5, PageCopiesAgree
  <2>2. writer \in [Writers -> WriterRecords]
    BY DEF FileShape
  <2> QED
    BY <1>1, <1>5, <2>1, <2>2 DEF QuietAgrees, Agrees, Writers
<1> QED
  BY <1>1, <1>4, <1>5 DEF WantedKept, Active

LEMMA DrillKeepsWanted ==
  ASSUME FileShape, WantedKept, NEW d \in Drills, DrillNext(d)
  PROVE  WantedKept'
<1>1. /\ d \in Writers /\ writer \in [Writers -> WriterRecords]
      /\ drill \in [Drills -> DrillRecords \cup {NoDrill}]
      /\ writer[d] \in WriterRecords /\ DrillOK(writer[d], drill[d])
  BY DEF FileShape, Writers
<1>2. CASE Kill(d)
  BY <1>2 DEF Kill, WantedKept, Orderly
<1>3. CASE EndDrill(d)
  <2>1. /\ drill[d] \in DrillRecords /\ drill[d] # NoDrill
        /\ writer[d].body.text \in Configs /\ writer[d].step = "body"
    BY <1>1, <1>3, WritersAssumption DEF EndDrill, DrillOK, At
  <2> DEFINE restored == [writer[d].body.text EXCEPT ![drill[d].flag] = drill[d].old]
             r == [writer[d] EXCEPT !.step = "saving", !.body.text = restored]
  <2>2. writer' = [writer EXCEPT ![d] = r] /\ drill' = [drill EXCEPT ![d] = NoDrill]
        /\ UNCHANGED <<file, wanted, overwritten, interrupted>>
    BY <1>3 DEF EndDrill
  <2> HIDE DEF restored
  <2>3. /\ r.step = "saving" /\ r.body.text = restored
        /\ r.body.fresh = writer[d].body.fresh
    BY <1>1 DEF WriterRecords, CopiesOf
  <2> HIDE DEF r
  <2>4. d \in Active /\ Active' = Active
    BY <1>1, <2>1, <2>2, <2>3 DEF Active, At
  <2>5. ASSUME Orderly' PROVE Orderly /\ RestoredBy(d)' = wanted'
    <3>1. Orderly
      BY <1>1, <2>2, <2>3, <2>4, <2>5 DEF Orderly
    <3>2. RestoredBy(d) = wanted
      BY <2>4, <3>1 DEF WantedKept
    <3>3. RestoredBy(d)' = restored /\ RestoredBy(d) = restored
      BY <1>1, <2>1, <2>2, <2>3 DEF RestoredBy, restored
    <3> QED
      BY <2>2, <3>1, <3>2, <3>3
  <2>6. Orderly => Active = {d}
    BY <2>4 DEF Orderly
  <2> QED
    BY <2>4, <2>5, <2>6 DEF WantedKept
<1>4. ASSUME NEW f \in Flags, StartDrill(d, f) PROVE WantedKept'
  <2> DEFINE text == [file EXCEPT ![f] = "on"]
             k == [flag |-> f, old |-> file[f]]
             r == [writer[d] EXCEPT !.step = "saving", !.body = Copy(text)]
  <2>1. /\ writer' = [writer EXCEPT ![d] = r] /\ drill' = [drill EXCEPT ![d] = k]
        /\ UNCHANGED <<file, wanted, overwritten, interrupted>>
        /\ file \in Configs /\ writer[d].step = "idle"
    BY <1>4 DEF StartDrill, At
  <2>2. r.step = "saving" /\ r.body.text = text
    BY <1>1 DEF WriterRecords, Copy
  <2>3. k # NoDrill /\ k.flag = f /\ k.old = file[f]
    <3>1. k \in [flag : Flags, old : Variants]
      BY <2>1 DEF Configs
    <3> QED
      BY <3>1, WritersAssumption
  <2>4. [text EXCEPT ![f] = file[f]] = file
    BY <2>1 DEF Configs
  <2> HIDE DEF text, k, r
  <2>5. Active' = Active \cup {d} /\ d \notin Active
    BY <1>1, <2>1, <2>2 DEF Active, At
  <2>6. ASSUME Orderly' PROVE Active = {} /\ Active' = {d} /\ Orderly
    <3>1. Active' = {d} /\ ~overwritten /\ ~interrupted
      BY <2>1, <2>5, <2>6 DEF Orderly
    <3>2. Active = {}
      BY <2>5, <3>1
    <3> QED
      BY <3>1, <3>2 DEF Orderly
  <2>7. RestoredBy(d)' = file
    BY <1>1, <2>1, <2>2, <2>3, <2>4 DEF RestoredBy
  <2> QED
    BY <2>1, <2>6, <2>7 DEF WantedKept, QuietAgrees
<1> QED
  BY <1>2, <1>3, <1>4 DEF DrillNext

\* A text that lands is what is wanted from then on, if nobody wrote before it.
LEMMA LandKeepsWanted ==
  ASSUME FileShape, WantedKept, NEW w \in Writers, Land(w)
  PROVE  WantedKept'
<1> DEFINE body == writer[w].body
<1>1. /\ writer[w].step = "writing" /\ drill' = drill /\ interrupted' = interrupted
      /\ overwritten' = (overwritten \/ ~body.fresh)
      /\ wanted' = [f \in Flags |-> IF f \in body.edited THEN body.text[f] ELSE wanted[f]]
      /\ writer' = [v \in Writers |-> IF v = w THEN Landed(w) ELSE Overtaken(v)]
  BY DEF Land, At
<1>2. /\ WriterOK(writer[w]) /\ body.text \in Configs \cup {Null}
      /\ file' \in {Torn, body.text} /\ wanted \in Configs
  BY Written, WriterFields DEF FileShape
<1>3. \A d \in Drills : d # w /\ writer[d].step # "idle" => ~writer'[d].body.fresh
  BY <1>1, WriterFields, OvertakenOK DEF DrillOK, Writers
<1>4. \A v \in Pages : v # w =>
        /\ writer'[v].data.fresh = (writer'[v].data.text \notin Configs)
        /\ writer'[v].body.fresh = (writer'[v].body.text \notin Configs)
  BY <1>1, OvertakenOK DEF Writers
<1>5. ASSUME NEW copy, copy.fresh = (copy.text \notin Configs)
      PROVE  copy.fresh /\ copy.text \in Configs => FALSE
  BY <1>5
<1>6. \A d \in Drills : d # w => writer'[d].step = writer[d].step
  BY <1>1, OvertakenOK DEF Writers
<1>7. CASE w \in Pages
  <2>1. Active' = Active
    BY <1>6, <1>7, WritersAssumption DEF Active, At
  <2>2. ASSUME Orderly' PROVE Active = {} /\ Orderly
    <3>1. \A d \in Active : writer'[d].body.fresh
      BY <2>1, <2>2 DEF Orderly
    <3>2. Active = {}
      BY <1>3, <1>7, <3>1, WritersAssumption DEF Active, At
    <3> QED
      BY <1>1, <2>2, <3>2 DEF Orderly
  <2>3. ASSUME QuietAgrees, body.fresh, body.text \in Configs PROVE wanted' = body.text
    BY <1>1, <1>2, <1>7, <2>3 DEF QuietAgrees, Agrees, Configs
  <2>4. ASSUME body.text \notin Configs PROVE wanted' = wanted
    BY <1>1, <1>2, <2>4 DEF WriterOK, Configs
  <2>5. ASSUME QuietAgrees, body.fresh PROVE QuietAgrees'
    <3>1. file' \in Configs => file' = wanted'
      BY <1>2, <2>3, <2>5, TextsAssumption
    <3>2. /\ Landed(w).body.text = NoText
          /\ \/ /\ Landed(w).data.text = writer[w].data.text
                /\ Body(writer[w].data) = body
                /\ Landed(w).data.edited = {}
             \/ Landed(w).data.fresh = (Landed(w).data.text \notin Configs)
      BY <1>1, <1>7, LandedPage
    <3>3. /\ writer[w].data.text \in Configs /\ Body(writer[w].data) = body
          => body.text \in Configs /\ body.text = writer[w].data.text
      BY TextsAssumption DEF Body
    <3>4. Agrees(writer[w].data)' /\ Agrees(writer[w].body)'
      <4>1. writer'[w] = Landed(w)
        BY <1>1
      <4>2. writer'[w].body.text \notin Configs
        BY <3>2, <4>1, TextsAssumption
      <4>3. CASE Landed(w).data.fresh = (Landed(w).data.text \notin Configs)
        BY <4>1, <4>2, <4>3 DEF Agrees
      <4>4. CASE /\ Landed(w).data.text = writer[w].data.text
                 /\ Body(writer[w].data) = body
        BY <2>3, <2>5, <3>3, <4>1, <4>2, <4>4 DEF Agrees
      <4> QED
        BY <3>2, <4>3, <4>4
    <3>5. \A v \in Pages : v # w => Agrees(writer[v].data)' /\ Agrees(writer[v].body)'
      BY <1>4 DEF Agrees
    <3> QED
      BY <3>1, <3>4, <3>5 DEF QuietAgrees
  <2>6. ASSUME Orderly' PROVE QuietAgrees'
    BY <1>1, <2>2, <2>5, <2>6 DEF Orderly, WantedKept
  <2> QED
    BY <2>1, <2>2, <2>6 DEF WantedKept
<1>8. CASE w \in Drills
  <2>1. /\ w \in Active /\ body.edited = {} /\ body.text \in Configs
        /\ w \notin Pages
    BY <1>1, <1>8, WriterFields, WritersAssumption DEF Active, At, DrillOK
  <2>2. wanted' = wanted
    BY <1>1, <1>2, <2>1 DEF Configs
  <2>3. /\ drill[w] = NoDrill => Landed(w).step = "idle"
        /\ drill[w] # NoDrill => Landed(w).step = "body" /\ Landed(w).body.text = body.text
    BY <1>1, <1>8, LandedDrill
  <2>4. writer'[w] = Landed(w)
    BY <1>1
  <2>5. Active \ {w} \subseteq Active' /\ Active' \subseteq Active
    BY <1>6, <2>1 DEF Active, At
  <2>6. ASSUME Orderly' PROVE Orderly /\ Active = {w} /\ RestoredBy(w) = wanted
    <3>1. \A d \in Active : d # w => d \in Active' /\ ~writer'[d].body.fresh
      BY <1>3, <2>5 DEF Active, At
    <3>2. Active = {w}
      BY <2>1, <2>6, <3>1 DEF Orderly
    <3>3. Orderly
      BY <1>1, <2>6, <3>2 DEF Orderly
    <3> QED
      BY <2>1, <3>2, <3>3 DEF WantedKept
  <2>7. CASE drill[w] = NoDrill
    <3>1. w \notin Active'
      BY <2>3, <2>4, <2>7 DEF Active, At
    <3>2. ASSUME Orderly' PROVE Active' = {} /\ QuietAgrees'
      <4>1. body.text = wanted /\ Active' = {}
        BY <2>5, <2>6, <2>7, <3>1, <3>2 DEF RestoredBy
      <4>2. file' \in Configs => file' = wanted'
        BY <1>2, <2>2, <4>1, TextsAssumption
      <4>3. \A v \in Pages : Agrees(writer[v].data)' /\ Agrees(writer[v].body)'
        BY <1>4, <2>1 DEF Agrees
      <4> QED
        BY <4>1, <4>2, <4>3 DEF QuietAgrees
    <3> QED
      BY <3>2 DEF WantedKept
  <2>8. CASE drill[w] # NoDrill
    <3>1. w \in Active'
      BY <1>8, <2>3, <2>4, <2>8 DEF Active, At
    <3>2. RestoredBy(w)' = RestoredBy(w)
      BY <1>1, <2>3, <2>4, <2>8 DEF RestoredBy
    <3>3. ASSUME Orderly' PROVE Active' = {w} /\ RestoredBy(w)' = wanted'
      BY <2>2, <2>5, <2>6, <3>1, <3>2, <3>3
    <3> QED
      BY <3>3 DEF WantedKept
  <2> QED
    BY <2>7, <2>8
<1> QED
  BY <1>7, <1>8 DEF Writers

\* A writer whose text is not in the file, and which goes on, changes nothing of it.
LEMMA NotYetWritten ==
  ASSUME FileShape, WantedKept, NEW w \in Writers, NEW r,
         writer' = [writer EXCEPT ![w] = r],
         writer[w].step # "idle", r.step # "idle", r.data = writer[w].data,
         r.body \in {writer[w].body, Copy(NoText)},
         w \in Drills => r.body = writer[w].body,
         UNCHANGED <<drill, wanted, overwritten>>, interrupted' <=> interrupted,
         file' = Empty \/ file' = file
  PROVE  WantedKept'
<1>1. writer \in [Writers -> WriterRecords]
  BY DEF FileShape
<1>2. \A d \in Drills : writer'[d].step = "idle" <=> writer[d].step = "idle"
  BY <1>1 DEF Writers
<1>3. \A d \in Drills : writer'[d].body = writer[d].body
  BY <1>1, WritersAssumption DEF Writers
<1>4. Active' = Active
  BY <1>2 DEF Active, At
<1>5. (Orderly' <=> Orderly) /\ \A d \in Drills : RestoredBy(d)' = RestoredBy(d)
  BY <1>3, <1>4 DEF Orderly, Active, RestoredBy
<1>6. ASSUME QuietAgrees PROVE QuietAgrees'
  <2>1. file' \in Configs => file' = wanted'
    BY <1>6, TextsAssumption DEF QuietAgrees
  <2>2. \A v \in Pages : /\ writer'[v].data = writer[v].data
                         /\ writer'[v].body \in {writer[v].body, Copy(NoText)}
    BY <1>1 DEF Writers
  <2>3. Agrees(Copy(NoText))
    BY TextsAssumption DEF Agrees, Copy
  <2>4. \A v \in Pages : Agrees(writer'[v].data) /\ Agrees(writer'[v].body)
    BY <1>6, <2>2, <2>3 DEF QuietAgrees
  <2>5. \A v \in Pages : Agrees(writer[v].data)' /\ Agrees(writer[v].body)'
    BY <2>4 DEF Agrees
  <2> QED
    BY <2>1, <2>5 DEF QuietAgrees
<1> QED
  BY <1>4, <1>5, <1>6 DEF WantedKept, Active

LEMMA WriteKeepsWanted ==
  ASSUME FileShape, WantedKept, NEW w \in Writers, WriteNext(w)
  PROVE  WantedKept'
<1>1. writer[w] \in WriterRecords
  BY DEF FileShape
<1>2. CASE Truncate(w)
  <2> DEFINE r == [writer[w] EXCEPT !.step = "writing"]
  <2>1. /\ writer' = [writer EXCEPT ![w] = r] /\ writer[w].step = "saving"
        /\ UNCHANGED <<drill, wanted, overwritten, interrupted>> /\ file' = Empty
    BY <1>2 DEF Truncate, At
  <2>2. r.step # "idle" /\ r.data = writer[w].data /\ r.body = writer[w].body
    BY <1>1 DEF WriterRecords
  <2>3. writer[w].step # "idle" /\ (interrupted' <=> interrupted)
    BY <2>1
  <2> HIDE DEF r
  <2> QED
    BY <2>1, <2>2, <2>3, NotYetWritten
<1>3. CASE WriteFails(w)
  <2> DEFINE done == Copy(NoText)
             told == [writer[w] EXCEPT !.step = "written", !.body = done]
             goOn == [writer[w] EXCEPT !.step = "body"]
  <2>1. /\ writer' = [writer EXCEPT ![w] = Finished(w)] /\ writer[w].step # "idle"
        /\ UNCHANGED <<drill, wanted, overwritten, file>>
        /\ interrupted' <=> interrupted \/ Restoring(w)
    BY <1>3 DEF WriteFails
  <2>2. told.step # "idle" /\ told.data = writer[w].data /\ told.body = done
    BY <1>1 DEF WriterRecords
  <2>3. goOn.step # "idle" /\ goOn.data = writer[w].data /\ goOn.body = writer[w].body
    BY <1>1 DEF WriterRecords
  <2>4. CASE Restoring(w)
    BY <2>1, <2>4 DEF WantedKept, Orderly
  <2>5. CASE ~Restoring(w) /\ w \in Pages
    <3>1. Finished(w) = told
      BY <2>5 DEF Finished
    <3> HIDE DEF told
    <3> QED
      BY <2>1, <2>2, <2>5, <3>1, NotYetWritten, WritersAssumption
  <2>6. CASE ~Restoring(w) /\ w \notin Pages
    <3>1. Finished(w) = goOn
      BY <2>6 DEF Finished
    <3> HIDE DEF goOn
    <3> QED
      BY <2>1, <2>3, <2>6, <3>1, NotYetWritten
  <2> QED
    BY <2>4, <2>5, <2>6
<1>4. CASE Land(w)
  BY <1>4, LandKeepsWanted
<1> QED
  BY <1>2, <1>3, <1>4 DEF WriteNext

LEMMA NextKeepsWanted == FileShape /\ WantedKept /\ FileNext => WantedKept'
<1>1. ASSUME WantedKept, Watch PROVE WantedKept'
  BY <1>1 DEF Watch, WantedKept, Orderly, Active, At, RestoredBy, QuietAgrees, Agrees
<1> QED
  BY <1>1, PageKeepsWanted, DrillKeepsWanted, WriteKeepsWanted DEF FileNext

-----------------------------------------------------------------------------

LEMMA InitFileInv == FileInit => FileInv
<1> SUFFICES ASSUME FileInit PROVE FileInv
  OBVIOUS
<1>1. AllOff \in Configs
  BY DEF AllOff, Configs, Variants
<1>2. \A w \in Writers : writer[w] = Blank
  BY DEF FileInit
<1>3. Blank \in WriterRecords /\ DrillOK(Blank, NoDrill)
  BY BlankOK DEF WriterOK, DrillOK
<1>4. FileShape
  BY <1>1, <1>2, <1>3, BlankOK DEF FileShape, FileInit, Writers
<1>5. Writing = {} /\ Active = {}
  BY <1>2, BlankOK DEF Writing, Active, At, Writers
<1>6. DamageHasCause
  BY <1>1, <1>5, TextsAssumption DEF DamageHasCause, FileInit
<1>7. Agrees(Blank.data) /\ Agrees(Blank.body)
  BY TextsAssumption DEF Agrees, Blank, Copy
<1>8. WantedKept
  BY <1>1, <1>2, <1>5, <1>7 DEF WantedKept, QuietAgrees, Writers, FileInit
<1> QED
  BY <1>4, <1>6, <1>8 DEF FileInv

LEMMA NextFileInv == FileInv /\ [Next]_vars => FileInv'
<1> SUFFICES ASSUME FileInv, [Next]_vars PROVE FileInv'
  OBVIOUS
<1>1. CASE FileNext
  BY <1>1, NextKeepsShape, NextKeepsCause, NextKeepsWanted DEF FileInv
<1>2. CASE UNCHANGED fileVars
  <2>1. FileShape'
    BY <1>2 DEF FileInv, FileShape, fileVars
  <2>2. DamageHasCause'
    BY <1>2 DEF FileInv, DamageHasCause, Writing, At, fileVars
  <2>3. WantedKept'
    BY <1>2 DEF FileInv, WantedKept, Orderly, Active, At, RestoredBy, QuietAgrees, Agrees, fileVars
  <2> QED
    BY <2>1, <2>2, <2>3 DEF FileInv
<1> QED
  BY <1>1, <1>2 DEF Next, Files, Ads, Recommendations, vars

LEMMA AlwaysFileInv == Spec => []FileInv
<1>1. Init => FileInv
  BY InitFileInv DEF Init
<1> QED
  BY <1>1, NextFileInv, PTL DEF Spec

\* However many pages and drills write the flag file, and whatever their writes
\* do to each other, a file that nobody writes can be read by flagd and the pages
\* unless a write failed half way, two overlapped, or null was saved.
THEOREM FileDamageHasCause == Spec => []BadFileHasCause
<1>1. FileInv => BadFileHasCause
  BY DEF FileInv, FileShape, DamageHasCause, BadFileHasCause
<1> QED
  BY <1>1, AlwaysFileInv, PTL

\* And the file then has every change that was saved and no other, if no writer
\* wrote a copy older than another's write and no drill was cut short.
THEOREM SavedChangesSurvive == Spec => []ChangesSurvive
<1>1. FileInv => ChangesSurvive
  <2> SUFFICES ASSUME FileInv, \A d \in Drills : At(d, "idle"), ~overwritten, ~interrupted,
                      file \in Configs
               PROVE  file = wanted
    BY DEF ChangesSurvive
  <2>1. Active = {} /\ Orderly
    BY DEF Active, Orderly
  <2> QED
    BY <2>1 DEF FileInv, WantedKept, QuietAgrees
<1> QED
  BY <1>1, AlwaysFileInv, PTL
=============================================================================
