------------------------------- MODULE EnvKeys -------------------------------
(***************************************************************************)
(* The API keys of the repository's .env file.  The main process edits the *)
(* file (electron/env/keys.ts): edits queue up, each reads the file,       *)
(* writes a temporary one and renames it.  The Keys section shows a copy   *)
(* (KeysSection.tsx) grouped by the provider that uses each key            *)
(* (keySections.ts).  The user may also press Enter in a row, which no     *)
(* busy flag prevents, so edits and loads overlap.                         *)
(***************************************************************************)
EXTENDS Naturals, Sequences, FiniteSets, SequencesExt

CONSTANTS
  Slots,            \* the built-in key slots (KNOWN_SLOTS)
  Others,           \* further variables of the file
  Secrets,          \* the values a user gives
  Profiles,         \* the configured provider profiles
  BoundTo,          \* [Profiles -> Slots \cup Others \cup {Nothing}]: apiKeyEnv
  FirstFile,        \* the lines of the file at the start
  Nothing,          \* no value, no line, no work
  MaxKeyEdits,      \* edits the user submits
  MaxBadReads,      \* reads of the file that fail although it exists
  MaxBadWrites,     \* writes or renames that fail
  MaxKeyCrashes     \* times Studio dies

Names == Slots \cup Others
Comment == [name |-> Nothing, value |-> Nothing]
Line(n, v) == [name |-> n, value |-> v]

ASSUME KeysAssumption ==
  /\ Slots \cap Others = {} /\ Nothing \notin Names \cup Secrets
  /\ BoundTo \in [Profiles -> Names \cup {Nothing}]
  /\ \A i \in DOMAIN FirstFile :
       FirstFile[i] = Comment \/ FirstFile[i].name \in Names
  /\ {MaxKeyEdits, MaxBadReads, MaxBadWrites, MaxKeyCrashes} \subseteq Nat

VARIABLES
  file,       \* the lines of .env
  jobs,       \* mutationQueue: the edits, with the lines to write and the stage
  done,       \* history: the edits whose rename was done, in order
  keyView,    \* what the section shows: [name -> value], or Nothing
  keyLoads,   \* the loads under way: what the list read, or Nothing before
  keyBusy,    \* the section is busy: the buttons are disabled
  keyError,   \* the section shows an error
  overlapped, \* history: a load was under way while an edit was
  counts      \* edits, bad reads, bad writes and crashes so far

keyVars == <<file, jobs, done, keyView, keyLoads, keyBusy, keyError, overlapped, counts>>

-----------------------------------------------------------------------------
\* The value of each variable the lines set, the last line winning; a slot that
\* is absent is shown as not set.
Parse(lines) ==
  [n \in Slots \cup ({lines[i].name : i \in DOMAIN lines} \ {Nothing}) |->
     LET at == {i \in DOMAIN lines : lines[i].name = n}
     IN IF at = {} THEN Nothing
        ELSE lines[CHOOSE i \in at : \A j \in at : j <= i].value]

Sets(lines, n) == \E i \in DOMAIN lines : lines[i].name = n

\* setKeyImpl: every line that sets the name is rewritten in place, and a name
\* no line sets gets a line at the end.
SetLines(lines, n, v) ==
  IF Sets(lines, n)
  THEN [i \in DOMAIN lines |-> IF lines[i].name = n THEN Line(n, v) ELSE lines[i]]
  ELSE Append(lines, Line(n, v))

\* removeKeyImpl: the lines that do not set the name.
RemoveLines(lines, n) == SelectSeq(lines, LAMBDA l : l.name # n)

Edits == [name : Names, value : Secrets \cup {Nothing}]     \* Nothing: remove

Edited(lines, e) == IF e.value = Nothing THEN RemoveLines(lines, e.name)
                                         ELSE SetLines(lines, e.name, e.value)

-----------------------------------------------------------------------------
KeysInit ==
  /\ file = FirstFile /\ jobs = <<>> /\ done = <<>>
  /\ keyView = Nothing /\ keyLoads = <<Nothing>> /\ keyBusy = TRUE
  /\ keyError = FALSE /\ overlapped = FALSE
  /\ counts = [edits |-> 0, reads |-> 0, writes |-> 0, crashes |-> 0]

Counted(what) == counts' = [counts EXCEPT ![what] = @ + 1]

\* A load and an edit under way at once: what the load read may be older than
\* the file the edit leaves.
NoteOverlap == overlapped' = (overlapped \/ (keyLoads' # <<>> /\ jobs' # <<>>))

\* The user saves a value, with the button or with Enter, which is never
\* disabled, or removes a variable: the edit joins the queue.
SubmitEdit(e) ==
  /\ keyView # Nothing /\ counts.edits < MaxKeyEdits
  /\ e.value = Nothing => ~keyBusy /\ e.name \in DOMAIN keyView /\ keyView[e.name] # Nothing
  /\ jobs' = Append(jobs, [edit |-> e, lines |-> <<>>, stage |-> "queued"])
  /\ keyBusy' = TRUE
  /\ Counted("edits")
  /\ UNCHANGED <<file, done, keyView, keyLoads, keyError>>
  /\ NoteOverlap

\* Every edit runs as soon as it is asked for.
MayRunAtOnce(i) == TRUE

\* serialized: an edit runs when those before it have settled.
MayRun(i) == i = 1

\* An edit that succeeded is not followed by a load.
SettleQuietly(i, ok) ==
  jobs' = RemoveAt(jobs, i) /\ keyError' = ~ok /\ keyBusy' = FALSE /\ keyLoads' = keyLoads

\* The edit is over.  One that failed leaves its error; one that succeeded
\* reloads the list, which keeps the section busy.
Settle(i, ok) ==
  /\ jobs' = RemoveAt(jobs, i)
  /\ keyError' = ~ok /\ keyBusy' = ok
  /\ keyLoads' = IF ok THEN Append(keyLoads, Nothing) ELSE keyLoads

\* What a read of the file yields: any error, not only a missing file, yields
\* no lines.
Reads(lines) ==
  \/ lines = file /\ UNCHANGED counts
  \/ lines = <<>> /\ file # <<>> /\ counts.reads < MaxBadReads /\ Counted("reads")

\* The edit reads the file.  Removing a variable that is not set fails.
ReadForEdit(i) ==
  /\ jobs[i].stage = "queued" /\ MayRun(i)
  /\ \E lines \in {file, <<>>} :
       LET e == jobs[i].edit IN
       /\ Reads(lines)
       /\ IF e.value = Nothing /\ ~Sets(lines, e.name)
          THEN Settle(i, FALSE)
          ELSE /\ jobs' = [jobs EXCEPT ![i].lines = Edited(lines, e), ![i].stage = "edited"]
               /\ UNCHANGED <<keyLoads, keyBusy, keyError>>
  /\ UNCHANGED <<file, done, keyView>>
  /\ NoteOverlap

\* The temporary file is written; a crash during this leaves .env as it was.
WriteTemp(i) ==
  /\ jobs[i].stage = "edited"
  /\ jobs' = [jobs EXCEPT ![i].stage = "written"]
  /\ UNCHANGED <<file, done, keyView, keyLoads, keyBusy, keyError, overlapped, counts>>

\* The rename replaces the file in one step, and the edit is answered.
RenameTemp(i) ==
  /\ jobs[i].stage = "written"
  /\ file' = jobs[i].lines
  /\ done' = Append(done, jobs[i].edit)
  /\ Settle(i, TRUE)
  /\ UNCHANGED <<keyView, counts>>
  /\ NoteOverlap

\* The write or the rename fails: the temporary file is removed.
WriteFails(i) ==
  /\ jobs[i].stage # "queued" /\ counts.writes < MaxBadWrites
  /\ Counted("writes")
  /\ Settle(i, FALSE)
  /\ UNCHANGED <<file, done, keyView>>
  /\ NoteOverlap

\* The list of a load reads the file.
ListReads(i) ==
  /\ keyLoads[i] = Nothing
  /\ \E lines \in {file, <<>>} :
       Reads(lines) /\ keyLoads' = [keyLoads EXCEPT ![i] = Parse(lines)]
  /\ UNCHANGED <<file, jobs, done, keyView, keyBusy, keyError, overlapped>>

\* The load has its list and the profiles, which take as long as the runtime
\* takes to answer: loads end in any order.
LoadKeysEnds(i) ==
  /\ keyLoads[i] # Nothing
  /\ keyView' = keyLoads[i]
  /\ keyLoads' = RemoveAt(keyLoads, i)
  /\ keyBusy' = FALSE /\ keyError' = FALSE
  /\ UNCHANGED <<file, jobs, done, counts, overlapped>>

\* The reload button.
ReloadKeys ==
  /\ keyView # Nothing /\ ~keyBusy
  /\ Len(keyLoads) < 2      \* bound: the loads a reload is added to
  /\ keyLoads' = Append(keyLoads, Nothing) /\ keyBusy' = TRUE
  /\ UNCHANGED <<file, jobs, done, keyView, keyError, counts>>
  /\ NoteOverlap

\* Studio dies and starts again: what was queued is lost, and the section
\* loads.
StudioDies ==
  /\ counts.crashes < MaxKeyCrashes
  /\ Counted("crashes")
  /\ jobs' = <<>>
  /\ keyView' = Nothing /\ keyLoads' = <<Nothing>> /\ keyBusy' = TRUE
  /\ keyError' = FALSE /\ overlapped' = FALSE
  /\ UNCHANGED <<file, done>>

KeysNext ==
  \/ \E e \in Edits : SubmitEdit(e)
  \/ \E i \in DOMAIN jobs : ReadForEdit(i)
  \/ \E i \in DOMAIN jobs : WriteTemp(i)
  \/ \E i \in DOMAIN jobs : RenameTemp(i)
  \/ \E i \in DOMAIN jobs : WriteFails(i)
  \/ \E i \in DOMAIN keyLoads : ListReads(i)
  \/ \E i \in DOMAIN keyLoads : LoadKeysEnds(i)
  \/ ReloadKeys
  \/ StudioDies

-----------------------------------------------------------------------------
\* buildKeySections.  The keys on display: the listed ones and those the
\* profiles name; the sections: one per built-in provider (here one for the
\* slots), one per profile that uses a variable of its own, one for the rest.
Displayed(view) == DOMAIN view \cup ({BoundTo[p] : p \in Profiles} \ {Nothing})

\* The profile a variable is shown under: the first that names it.
FirstWith(order, n) ==
  order[CHOOSE i \in DOMAIN order :
          BoundTo[order[i]] = n /\ \A j \in 1..(i - 1) : BoundTo[order[j]] # n]

\* A section for every profile that names a variable.
HasSectionAlways(order, p) == BoundTo[p] \in Others

HasSection(order, p) ==
  BoundTo[p] \in Others /\ FirstWith(order, BoundTo[p]) = p

KeySections(view, order) ==
  [s \in {"slots", "other"} \cup {p \in Profiles : HasSection(order, p)} |->
     CASE s = "slots" -> Slots
       [] s = "other" -> (Displayed(view) \cap Others) \ {BoundTo[p] : p \in Profiles}
       [] OTHER -> {BoundTo[s]}]

-----------------------------------------------------------------------------
(***************************************************************************)
(* Properties.                                                             *)
(***************************************************************************)
Touched == {done[i].name : i \in DOMAIN done}

\* The value the answered edits leave a variable with.
LastEdit(n) ==
  done[CHOOSE i \in DOMAIN done :
         done[i].name = n /\ \A j \in (i + 1)..Len(done) : done[j].name # n].value

\* keys.ts:115-119 and 163: whatever edits, failures and crashes come, the file
\* holds the last completed edit of every variable and every other line, comments
\* included, in its place, unless a read failed and was taken for a missing file.
FileIsTheEdits ==
  counts.reads = 0 =>
    /\ \A n \in Touched :
         IF LastEdit(n) = Nothing THEN ~Sets(file, n)
         ELSE Sets(file, n) /\ Parse(file)[n] = LastEdit(n)
    /\ SelectSeq(file, LAMBDA l : l.name \notin Touched)
         = SelectSeq(FirstFile, LAMBDA l : l.name \notin Touched)

\* KeysSection.tsx:57-117: when nothing is under way, no error is shown and no
\* edit overlapped a load and no read failed, the section shows the file.
KeysSettle ==
  (keyLoads = <<>> /\ jobs = <<>> /\ ~keyError /\ ~overlapped /\ counts.reads = 0)
    => keyView = Parse(file)

\* keySections.ts:24-84: every key is on display in exactly one section, in
\* whatever order the profiles are listed.
EachKeyOnce ==
  keyView # Nothing =>
    \A order \in SetToSeqs(Profiles) : \A n \in Displayed(keyView) :
      LET sections == KeySections(keyView, order)
      IN Cardinality({s \in DOMAIN sections : n \in sections[s]}) = 1
=============================================================================
