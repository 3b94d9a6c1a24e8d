-------------------------------- MODULE Browser --------------------------------
(***************************************************************************)
(* The state of the file browser (telescope/FileBrowserApp.tsx): which     *)
(* share and file are selected, what is shown and edited, and the tool     *)
(* calls under way, whose answers come late and in any order.              *)
(*                                                                         *)
(* An action is an event handler, or the code after the await of one call. *)
(* Handlers see the state of the last render, which is the current one: an *)
(* event is handled after what happened before it was rendered.            *)
(*                                                                         *)
(* Left out: layout (sidebar, word wrap, display mode, status line, the    *)
(* pulse that explains a blocked click), the 2 s between two refreshes,    *)
(* subdirectories (each is a listing of its own, like the root's), and     *)
(* the content of files: shown is the file that the content was read from. *)
(***************************************************************************)
EXTENDS Naturals

CONSTANTS
  Share,                       \* a share of a host
  Path,
  NoShare, NoPath, NoFile,
  MaxOpens,                    \* bound: files opened
  MaxSaves                     \* bound: saves

ASSUME BrowserAssumption ==
  /\ NoShare \notin Share /\ NoPath \notin Path /\ NoFile \notin Share \X Path
  /\ MaxOpens \in Nat /\ MaxSaves \in Nat

VARIABLES
  phase,       \* shares are loading, loaded, or could not be loaded
  share, path, \* selectedShare with selectedHost, selectedPath
  shown,       \* the file that fileContent was read from
  loading,     \* isLoadingFile
  editing,     \* isEditing
  saving,      \* isSaving
  seq,         \* openFileSeq
  opens,       \* calls of openFile under way
  saves,       \* calls of saveFile under way
  started,     \* how many saves were started
  listings,    \* list_directory calls under way, of these shares, not cancelled
  tree         \* the share whose listing the tree shows

selection == <<share, path>>
editor == <<shown, loading, editing>>
calls == <<seq, opens, saves, started>>
sidebar == <<listings, tree>>
vars == <<phase, selection, editor, saving, calls, sidebar>>

File == Share \X Path
Open == [seq : 1..MaxOpens, file : File]
Save == [id : 1..MaxSaves, seq : 0..MaxOpens, file : File, text : File, step : {"write", "reread"}]

Init ==
  /\ phase = "loading"
  /\ share = NoShare /\ path = NoPath
  /\ shown = NoFile /\ loading = FALSE /\ editing = FALSE /\ saving = FALSE
  /\ seq = 0 /\ opens = {} /\ saves = {} /\ started = 0
  /\ listings = {} /\ tree = NoShare

-----------------------------------------------------------------------------
(* Helpers *)

\* A draft that only the text area holds.
Unsaved == editing /\ ~saving

\* Mutant: the skeleton does not replace the editor.
AlwaysShown == shown # NoFile

\* The editor pane is there, with its buttons.
EditorShown == ~loading /\ shown # NoFile

\* A newer openFile has begun since the call took this number.
Superseded(number) == number # seq

\* Mutant: without the cleanup of the effect.
WithoutCleanup == listings

\* What is left of the listings after the cleanup of the tree's effect, on a
\* change of share or on unmounting: the answer to a cancelled call is dropped.
AfterCleanup == {}

\* The tree's effect runs when share or host change; without a share there is
\* no tree.
TreeFollows(s) ==
  IF s = share THEN UNCHANGED sidebar
  ELSE IF s = NoShare THEN listings' = AfterCleanup /\ tree' = NoShare
  ELSE listings' = AfterCleanup \cup {s} /\ UNCHANGED tree

\* selectShare, and the same without a share.
Selects(s) ==
  /\ share' = s /\ path' = NoPath
  /\ shown' = NoFile /\ editing' = FALSE
  /\ TreeFollows(s)

\* Mutant: the call takes the number before it is incremented.
StartsWithOldNumber(file) ==
  /\ seq < MaxOpens /\ seq' = seq + 1
  /\ opens' = opens \cup {[seq |-> seq, file |-> file]}
  /\ loading' = TRUE
  /\ editing' = FALSE

\* openFile up to its first await.
StartsOpening(file) ==
  /\ seq < MaxOpens /\ seq' = seq + 1
  /\ opens' = opens \cup {[seq |-> seq + 1, file |-> file]}
  /\ loading' = TRUE
  /\ editing' = FALSE

-----------------------------------------------------------------------------
(* Shares *)

SharesLoaded ==
  /\ phase = "loading" /\ phase' = "loaded"
  /\ UNCHANGED <<selection, editor, saving, calls, sidebar>>

\* The app was launched with a share, and maybe a file.
SharesLoadedWithInput(s) ==
  /\ phase = "loading" /\ phase' = "loaded"
  /\ Selects(s)
  /\ \/ UNCHANGED <<loading, calls>>
     \/ \E p \in Path : StartsOpening(<<s, p>>) /\ UNCHANGED <<saves, started>>
  /\ UNCHANGED saving

SharesFail ==
  /\ phase = "loading" /\ phase' = "failed"
  /\ UNCHANGED <<selection, editor, saving, calls, sidebar>>

\* handleShareChange.
ChooseShare(s) ==
  /\ phase = "loaded" /\ ~Unsaved
  /\ Selects(s)
  /\ UNCHANGED <<phase, loading, saving, calls>>

-----------------------------------------------------------------------------
(* The tree *)

\* After a failure the tree shows the error.
Listed(s) ==
  /\ s \in listings /\ listings' = listings \ {s}
  /\ tree' \in {s, NoShare}
  /\ UNCHANGED <<phase, selection, editor, saving, calls>>

\* A click on a file of the tree, which may still be that of the previous share.
ClickFile(p) ==
  /\ tree # NoShare /\ ~Unsaved
  /\ StartsOpening(<<share, p>>)
  /\ UNCHANGED <<phase, selection, shown, saving, saves, started, sidebar>>

-----------------------------------------------------------------------------
(* Reading *)

\* handleRefresh; the button is there unless the file is being edited.
Refresh ==
  /\ EditorShown /\ ~editing /\ share # NoShare /\ path # NoPath
  /\ StartsOpening(<<share, path>>)
  /\ UNCHANGED <<phase, selection, shown, saving, saves, started, sidebar>>

Read(o) ==
  /\ o \in opens /\ opens' = opens \ {o}
  /\ IF Superseded(o.seq) THEN UNCHANGED <<path, shown, loading>>
     ELSE path' = o.file[2] /\ shown' = o.file /\ loading' = FALSE
  /\ UNCHANGED <<phase, share, editing, saving, seq, saves, started, sidebar>>

\* Mutant: the skeleton stays.
KeepsLoading == UNCHANGED loading

StopsLoading == loading' = FALSE

\* The call threw, or its result is an error.
ReadFails(o) ==
  /\ o \in opens /\ opens' = opens \ {o}
  /\ IF Superseded(o.seq) THEN UNCHANGED <<path, shown, loading>>
     ELSE path' = NoPath /\ shown' = NoFile /\ StopsLoading
  /\ UNCHANGED <<phase, share, editing, saving, seq, saves, started, sidebar>>

-----------------------------------------------------------------------------
(* Editing *)

StartEditing ==
  /\ EditorShown /\ ~editing /\ editing' = TRUE
  /\ UNCHANGED <<phase, selection, shown, loading, saving, calls, sidebar>>

CancelEditing ==
  /\ EditorShown /\ editing /\ editing' = FALSE
  /\ UNCHANGED <<phase, selection, shown, loading, saving, calls, sidebar>>

\* saveFile up to its first await; the button stays enabled while it runs.
StartSave ==
  /\ EditorShown /\ editing /\ share # NoShare /\ path # NoPath
  /\ started < MaxSaves /\ started' = started + 1
  /\ saves' = saves \cup {[id |-> started + 1, seq |-> seq, file |-> <<share, path>>,
                           text |-> shown, step |-> "write"]}
  /\ saving' = TRUE
  /\ UNCHANGED <<phase, selection, editor, seq, opens, sidebar>>

\* Mutant: the finally block is missing.
LeavesSaving == UNCHANGED saving

\* The finally block of saveFile.
Finally == saving' = FALSE

Written(s) ==
  /\ s \in saves /\ s.step = "write"
  /\ IF Superseded(s.seq) THEN saves' = saves \ {s} /\ Finally
     ELSE saves' = (saves \ {s}) \cup {[s EXCEPT !.step = "reread"]} /\ UNCHANGED saving
  /\ UNCHANGED <<phase, selection, editor, seq, opens, started, sidebar>>

\* One of both calls threw, or its result is an error: the draft stays.
SaveFails(s) ==
  /\ s \in saves /\ saves' = saves \ {s}
  /\ Finally
  /\ UNCHANGED <<phase, selection, editor, seq, opens, started, sidebar>>

\* Mutant: the second look at the number is missing.
RereadUnchecked(s) ==
  /\ s \in saves /\ s.step = "reread" /\ saves' = saves \ {s}
  /\ shown' = s.file /\ editing' = FALSE
  /\ Finally
  /\ UNCHANGED <<phase, selection, loading, seq, opens, started, sidebar>>

Reread(s) ==
  /\ s \in saves /\ s.step = "reread" /\ saves' = saves \ {s}
  /\ IF Superseded(s.seq) THEN UNCHANGED <<shown, editing>>
     ELSE shown' = s.file /\ editing' = FALSE
  /\ Finally
  /\ UNCHANGED <<phase, selection, loading, seq, opens, started, sidebar>>

-----------------------------------------------------------------------------
OpenAnswered(o) == Read(o) \/ ReadFails(o)
SaveAnswered(s) == Written(s) \/ SaveFails(s) \/ Reread(s)

Next ==
  \/ SharesLoaded \/ SharesFail \/ \E s \in Share : SharesLoadedWithInput(s)
  \/ \E s \in Share \cup {NoShare} : ChooseShare(s)
  \/ \E s \in listings : Listed(s)
  \/ \E p \in Path : ClickFile(p)
  \/ Refresh \/ StartEditing \/ CancelEditing \/ StartSave
  \/ \E o \in opens : OpenAnswered(o)
  \/ \E s \in saves : SaveAnswered(s)

Spec == Init /\ [][Next]_vars

\* Every call is answered or fails, in the end (the host's timeout).
Fairness ==
  /\ \A o \in Open : WF_vars(OpenAnswered(o))
  /\ \A s \in Save : WF_vars(SaveAnswered(s))

FairSpec == Spec /\ Fairness

-----------------------------------------------------------------------------
(* Safety *)

\* Every variable has its type; calls of openFile are numbered from 1.
TypeOK ==
  /\ phase \in {"loading", "loaded", "failed"}
  /\ share \in Share \cup {NoShare} /\ path \in Path \cup {NoPath}
  /\ shown \in File \cup {NoFile} /\ loading \in BOOLEAN /\ editing \in BOOLEAN /\ saving \in BOOLEAN
  /\ seq \in 0..MaxOpens /\ opens \subseteq Open /\ saves \subseteq Save /\ started \in 0..MaxSaves
  /\ listings \subseteq Share /\ tree \in Share \cup {NoShare}

\* Content is never shown under the path of another file, in whatever order
\* answers to openFile and saveFile arrive (FileBrowserApp.tsx:203-205).
ShownUnderItsPath == shown # NoFile /\ path # NoPath => shown[2] = path

\* The tree shows the selected share, or will: a listing of the previous one
\* never replaces it (the effect of DirectoryTree).
TreeIsOfShare == tree \in {NoShare, share} \/ share \in listings

\* While a file is being edited no open under way can replace what the text
\* area holds (openFile, FileEditor).
EditsAreUndisturbed == editing => \A o \in opens : o.seq < seq

-----------------------------------------------------------------------------
(* Liveness *)

\* The skeleton and isSaving, which lifts the guard against losing a draft, go away again, also
\* when calls fail, overtake each other or the share changes meanwhile, unless the user opens
\* or saves for ever (FileBrowserApp.tsx:259, 345).
BusyEnds == (loading ~> ~loading) /\ (saving ~> ~saving)

=============================================================================
