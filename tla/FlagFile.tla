------------------------------- MODULE FlagFile -------------------------------
(***************************************************************************)
(* The feature flags are one file, demo.flagd.json, which flagd watches.   *)
(* Three programs write it, each the whole text of a copy it has read:     *)
(* flagd-ui's basic page (a menu for each flag), its advanced page (a text *)
(* area), both through the routes read-file and write-to-file, and the     *)
(* drills of test/pagerduty (temporary_flag), which set a flag and restore *)
(* it at the end.  A write truncates the file and then fills it.           *)
(*                                                                         *)
(* A page that is loaded again while its request is under way leaves it to *)
(* the route: that is, for the file, one more page.                        *)
(***************************************************************************)
EXTENDS Integers

LOCAL INSTANCE FiniteSets

CONSTANTS
  Basic, Advanced,   \* pages of the two kinds
  Drills,
  Flags,
  MaxWrites,         \* bound: saves and drills in all
  NoText,            \* a copy that has not been read
  Empty,             \* a file that was truncated and not filled
  Null,              \* the text null
  Error,             \* {error: "Failed to read file"}
  Torn,              \* a text with the tail of a longer one behind it
  NoDrill

ASSUME MaxWritesAssumption == MaxWrites \in Nat

VARIABLES
  file,
  flagd,        \* the configuration flagd serves
  writer,       \* of each page and drill, its copies and what it does
  drill,        \* of each drill, the flag it set and its old variant
  writes,       \* saves and drills so far
  wanted,       \* history: the configuration with the changes that were saved
  causes,       \* history: what may have damaged the file
  overwritten,  \* history: a writer wrote a copy others had written after
  interrupted   \* history: a drill was killed or could not restore its flag

fileVars ==
  <<file, flagd, writer, drill, writes, wanted, causes, overwritten, interrupted>>

Pages == Basic \cup Advanced
Writers == Pages \cup Drills

Variants == {"on", "off"}
Configs == [Flags -> Variants]
AllOff == [f \in Flags |-> "off"]

ASSUME TextsAssumption ==
  /\ {NoText, Empty, Null, Error, Torn} \cap Configs = {}
  /\ Empty \notin {Null, Torn} /\ Null # Torn /\ NoText # Error

ASSUME WritersAssumption ==
  /\ Pages \cap Drills = {}
  /\ NoDrill \notin [flag : Flags, old : Variants]

\* The copy a writer holds: the flags it has changed in it, and whether nobody
\* has written the file since it was read.
Copy(text) == [text |-> text, edited |-> {}, fresh |-> TRUE]

\* A writer: the copy a page holds, how often it still reads the file, and the
\* copy the page or the drill writes.
Blank ==
  [step |-> "idle", data |-> Copy(NoText), asked |-> 0, body |-> Copy(NoText)]

FileInit ==
  /\ file = AllOff
  /\ flagd = AllOff
  /\ writer = [w \in Writers |-> Blank]
  /\ drill = [d \in Drills |-> NoDrill]
  /\ writes = 0
  /\ wanted = AllOff
  /\ causes = {}
  /\ overwritten = FALSE
  /\ interrupted = FALSE

At(w, step) == writer[w].step = step

-----------------------------------------------------------------------------
(* The pages. *)

\* A page is loaded: the effect of its first render reads the file.
Load(w) ==
  /\ writer[w].step \in {"idle", "stuck"}
  /\ writer' = [writer EXCEPT ![w] = [Blank EXCEPT !.asked = 1]]
  /\ UNCHANGED <<file, flagd, drill, writes, wanted, causes, overwritten, interrupted>>

Gone(w) == w \in Basic /\ writer[w].data.text = Error

\* GET read-file: what is no JSON is answered with an error, in JSON.
Answer == Copy(IF file \in Configs THEN file ELSE IF file = Null THEN NoText ELSE Error)

\* The basic page takes whatever it is answered for its data.  It shows no flags
\* of null, and fails to show those of an error: it is gone.  The advanced page
\* fills its text area when that appears, and not again; null removes it.
Shown(w) ==
  IF w \in Basic \/ NoText \in {writer[w].data.text, Answer.text} THEN Answer
  ELSE writer[w].data

\* A page reads the file, and shows what it is answered at once: the last to be
\* sent is taken to be the last to arrive.
ReadFile(w) ==
  /\ writer[w].asked > 0
  /\ ~Gone(w)
  /\ writer' = [writer EXCEPT ![w].asked = @ - 1, ![w].data = Shown(w)]
  /\ UNCHANGED <<file, flagd, drill, writes, wanted, causes, overwritten, interrupted>>

updateFlagData(data, f, variant) ==
  [data EXCEPT !.text[f] = variant, !.edited = @ \cup {f}]

\* A variant is selected, or typed; not under the spinner of a save.
Edit(w, f) ==
  /\ At(w, "idle")
  /\ writer[w].data.text \in Configs
  /\ \E variant \in Variants \ {writer[w].data.text[f]} :
       writer' = [writer EXCEPT ![w].data = updateFlagData(@, f, variant)]
  /\ UNCHANGED <<file, flagd, drill, writes, wanted, causes, overwritten, interrupted>>

\* What a page sends: JSON.stringify({data: null}) when there is nothing.
Body(data) == IF data.text = NoText THEN [data EXCEPT !.text = Null] ELSE data

SaveRequest(w) ==
  /\ At(w, "idle")
  /\ ~Gone(w)
  /\ writes < MaxWrites
  /\ writes' = writes + 1
  /\ writer' = [writer EXCEPT ![w].step = "saving", ![w].body = Body(writer[w].data)]
  /\ UNCHANGED <<file, flagd, drill, wanted, causes, overwritten, interrupted>>

\* Faulty: the text is not validated.
SaveUnchecked(w) ==
  /\ w \in Advanced => writer[w].data.text # NoText
  /\ SaveRequest(w)

\* save of the basic page, and update of the advanced one, which parses and
\* validates the text.
Save(w) ==
  /\ w \in Advanced => writer[w].data.text \in Configs
  /\ SaveRequest(w)

\* The page hears of the end of its write, good or bad: it reads the file twice,
\* as the effect that resets reloadData is triggered by the reset again.
HearAnswer(w) ==
  /\ w \in Pages
  /\ At(w, "written")
  /\ writer' = [writer EXCEPT ![w].step = "idle",
                              ![w].asked = IF Gone(w) THEN 0 ELSE 2]
  /\ UNCHANGED <<file, flagd, drill, writes, wanted, causes, overwritten, interrupted>>

\* The request or its answer is lost; the basic page keeps its spinner.
LoseAnswer(w) ==
  /\ w \in Pages
  /\ writer[w].step \in {"saving", "written"}
  /\ writer' = [writer EXCEPT ![w] = IF w \in Basic THEN [Blank EXCEPT !.step = "stuck"]
                                ELSE [@ EXCEPT !.step = "idle", !.body = Copy(NoText)]]
  /\ UNCHANGED <<file, flagd, drill, writes, wanted, causes, overwritten, interrupted>>

-----------------------------------------------------------------------------
(* The drills. *)

\* temporary_flag reads the file and sets the flag in its copy.
StartDrill(d, f) ==
  /\ At(d, "idle")
  /\ writes < MaxWrites
  /\ file \in Configs
  /\ writes' = writes + 1
  /\ drill' = [drill EXCEPT ![d] = [flag |-> f, old |-> file[f]]]
  /\ writer' = [writer EXCEPT ![d].step = "saving",
                              ![d].body = Copy([file EXCEPT ![f] = "on"])]
  /\ UNCHANGED <<file, flagd, wanted, causes, overwritten, interrupted>>

\* Faulty: the copy is written back as it is.
EndDrillUnchanged(d) ==
  /\ At(d, "body")
  /\ drill' = [drill EXCEPT ![d] = NoDrill]
  /\ writer' = [writer EXCEPT ![d].step = "saving"]
  /\ UNCHANGED <<file, flagd, writes, wanted, causes, overwritten, interrupted>>

\* The end of the with block, or of the try when the first write failed.
EndDrill(d) ==
  /\ At(d, "body")
  /\ drill' = [drill EXCEPT ![d] = NoDrill]
  /\ writer' = [writer EXCEPT ![d].step = "saving",
                              ![d].body.text[drill[d].flag] = drill[d].old]
  /\ UNCHANGED <<file, flagd, writes, wanted, causes, overwritten, interrupted>>

\* The test run is killed.
Kill(d) ==
  /\ ~At(d, "idle")
  /\ writer' = [writer EXCEPT ![d] = Blank]
  /\ drill' = [drill EXCEPT ![d] = NoDrill]
  /\ causes' = IF At(d, "writing") THEN causes \cup {"failed"} ELSE causes
  /\ interrupted' = TRUE
  /\ UNCHANGED <<file, flagd, writes, wanted, overwritten>>

-----------------------------------------------------------------------------
(* Writing, by the route write-to-file or by write_text. *)

Writing == {w \in Writers : At(w, "writing")}

\* The file is opened, which truncates it.
Truncate(w) ==
  /\ At(w, "saving")
  /\ writer' = [writer EXCEPT ![w].step = "writing"]
  /\ file' = Empty
  /\ causes' = IF Writing = {} THEN {} ELSE causes \cup {"overlap"}
  /\ UNCHANGED <<flagd, drill, writes, wanted, overwritten, interrupted>>

Restoring(w) == w \in Drills /\ drill[w] = NoDrill

\* After its write a page waits for the answer, and a drill goes on.
Finished(w) ==
  IF w \in Pages
  THEN [writer[w] EXCEPT !.step = "written", !.body = Copy(NoText)]
  ELSE IF Restoring(w) THEN Blank
  ELSE [writer[w] EXCEPT !.step = "body"]

\* "on" is shorter than "off", and null shorter than any configuration.
Length(text) ==
  IF text \notin Configs THEN 0 ELSE 1 + Cardinality({f \in Flags : text[f] = "off"})

\* What a text written at the start of the file can make of it.
Over(old, new) ==
  IF old = Torn THEN {Torn, new}
  ELSE IF old # Empty /\ Length(new) < Length(old) THEN {Torn} ELSE {new}

\* A text is in the file: only copies that say the same are fresh.
Overtaken(v) ==
  LET stale(copy) == [copy EXCEPT !.fresh = copy.text \notin Configs]
  IN [writer[v] EXCEPT !.data = stale(@), !.body = stale(@)]

Landed(w) ==
  LET data == writer[w].data
      body == writer[w].body
  IN IF Body(data) = body THEN [Finished(w) EXCEPT !.data = Copy(data.text)]
     ELSE IF w \in Pages THEN [Finished(w) EXCEPT !.data = Overtaken(w).data]
     ELSE IF Restoring(w) THEN Finished(w)
     ELSE [Finished(w) EXCEPT !.body = Copy(body.text)]

\* The text is written.
Land(w) ==
  /\ At(w, "writing")
  /\ LET body == writer[w].body IN
     /\ file' \in Over(file, body.text)
     /\ wanted' = [f \in Flags |-> IF f \in body.edited THEN body.text[f] ELSE wanted[f]]
     /\ overwritten' = (overwritten \/ ~body.fresh)
     /\ causes' = IF body.text = Null THEN causes \cup {"unread"} ELSE causes
  /\ writer' = [v \in Writers |-> IF v = w THEN Landed(w) ELSE Overtaken(v)]
  /\ UNCHANGED <<flagd, drill, writes, interrupted>>

\* The file cannot be opened, or not be written.
WriteFails(w) ==
  /\ writer[w].step \in {"saving", "writing"}
  /\ writer' = [writer EXCEPT ![w] = Finished(w)]
  /\ causes' = IF At(w, "writing") THEN causes \cup {"failed"} ELSE causes
  /\ interrupted' = (interrupted \/ Restoring(w))
  /\ UNCHANGED <<file, flagd, drill, writes, wanted, overwritten>>

\* flagd reads the file when it changes, and keeps its flags when it cannot.
Watch ==
  /\ file \in Configs \ {flagd}
  /\ flagd' = file
  /\ UNCHANGED <<file, writer, drill, writes, wanted, causes, overwritten, interrupted>>

PageNext(w) ==
  \/ Load(w) \/ ReadFile(w) \/ Save(w) \/ HearAnswer(w) \/ LoseAnswer(w)
  \/ \E f \in Flags : Edit(w, f)

DrillNext(d) == EndDrill(d) \/ Kill(d) \/ \E f \in Flags : StartDrill(d, f)

WriteNext(w) == Truncate(w) \/ Land(w) \/ WriteFails(w)

FileNext ==
  \/ \E w \in Pages : PageNext(w)
  \/ \E d \in Drills : DrillNext(d)
  \/ \E w \in Writers : WriteNext(w)
  \/ Watch

-----------------------------------------------------------------------------
(* Properties. *)

\* When nobody writes the file, flagd and the pages can read it, except after a
\* write that failed half way (neither writer replaces the file at once), two
\* writes that overlapped, or a save of a basic page that had not read the file:
\* its button is never disabled.  Nothing else that a page may show or a user
\* may do leaves a file nobody can read.
BadFileHasCause ==
  Writing = {} =>
    \/ file \in Configs
    \/ file = Empty /\ "failed" \in causes
    \/ file = Torn /\ "overlap" \in causes
    \/ file = Null /\ "unread" \in causes

\* Every change that was saved stays, and only those: a save changes no flag its
\* user did not touch, and a drill leaves no trace - unless somebody wrote a copy
\* older than another's write, or a drill could not finish.
ChangesSurvive ==
  /\ Writing = {}
  /\ \A d \in Drills : At(d, "idle")
  /\ ~overwritten /\ ~interrupted
  /\ file \in Configs
  => file = wanted
=============================================================================
