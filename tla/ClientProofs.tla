----------------------------- MODULE ClientProofs ------------------------------
(***************************************************************************)
(* Proofs about two clients of the relay that keep state of their own:     *)
(* the file browser (Browser), and the processes of a node's machine that  *)
(* share its credential (NodeControl).                                     *)
(*                                                                         *)
(* Browser: what is shown is shown under its own path, an edit is not      *)
(* disturbed by files opened before it, and the tree is that of the        *)
(* selected share, for any shares and paths and any number of calls.  The  *)
(* argument is about numbers.  The call of openFile that is current, if    *)
(* any, is alone with its number, and the skeleton hides the editor until  *)
(* it is answered; so a save, which starts in the editor, is either of an  *)
(* older number or of the path selected now.                               *)
(*                                                                         *)
(* NodeControl: a rotation that reports success has retired the token it   *)
(* found, for any number of commands, and two commands never leave         *)
(* node.yaml with only dead tokens, whatever becomes of the daemon.  The   *)
(* argument is about the one token that is on offer: one reply carries it, *)
(* to the one registered connection, and until the minute is over nobody   *)
(* can ask for another.                                                    *)
(***************************************************************************)
EXTENDS Browser, NodeControl, TLAPS

(* Browser *)


Clicks ==
  \/ \E p \in Path : ClickFile(p)
  \/ Refresh

\* Calls take numbers up to the current one, and no two of openFile the same.
Numbered ==
  /\ \A o \in opens : o.seq <= seq
  /\ \A s \in saves : s.seq <= seq
  /\ \A a, b \in opens : a.seq = b.seq => a = b

\* The skeleton is there while the current call is under way, and there is
\* no editor then.
SkeletonHidesEditor ==
  /\ ~loading => \A o \in opens : o.seq < seq
  /\ editing => ~loading

\* A save of the current number is of the selected path, if there is one.
SavesOfThisNumber == \A s \in saves : s.seq = seq => ~loading /\ path \in {s.file[2], NoPath}

Inv == TypeOK /\ Numbered /\ SkeletonHidesEditor /\ SavesOfThisNumber /\ ShownUnderItsPath

\* The tree's calls are of the selected share.
TreeInv == listings \subseteq {share} /\ TreeIsOfShare

-----------------------------------------------------------------------------
LEMMA TreeInit == Init => TreeInv
BY DEF Init, TreeInv, TreeIsOfShare

\* Choosing a share cancels the listing of another one, and asks for its own.
LEMMA TreeFollowing ==
  ASSUME TreeInv, NEW s, share' = s, TreeFollows(s)
  PROVE  TreeInv'
<1>1. CASE s = share
  BY <1>1 DEF TreeInv, TreeIsOfShare, TreeFollows, sidebar
<1>2. CASE s # share /\ s = NoShare
  BY <1>2 DEF TreeInv, TreeIsOfShare, TreeFollows, AfterCleanup
<1>3. CASE s # share /\ s # NoShare
  BY <1>3 DEF TreeInv, TreeIsOfShare, TreeFollows, AfterCleanup
<1> QED
  BY <1>1, <1>2, <1>3

LEMMA TreeNext == TreeInv /\ [Next]_vars => TreeInv'
<1> SUFFICES ASSUME TreeInv, [Next]_vars
             PROVE  TreeInv'
  OBVIOUS
<1>1. CASE UNCHANGED <<share, listings, tree>>
  BY <1>1 DEF TreeInv, TreeIsOfShare
<1>2. CASE \E s \in Share : SharesLoadedWithInput(s)
  BY <1>2, TreeFollowing DEF SharesLoadedWithInput, Selects
<1>3. CASE \E s \in Share \cup {NoShare} : ChooseShare(s)
  BY <1>3, TreeFollowing DEF ChooseShare, Selects
<1>4. CASE \E s \in listings : Listed(s)
  <2> PICK s \in listings : Listed(s)
    BY <1>4
  <2>1. s = share /\ tree' \in {s, NoShare} /\ listings' = listings \ {s} /\ share' = share
    BY DEF Listed, TreeInv, selection
  <2> QED
    BY <2>1 DEF TreeInv, TreeIsOfShare
<1>5. CASE SharesLoaded \/ SharesFail \/ StartEditing \/ CancelEditing \/ StartSave
  BY <1>1, <1>5 DEF SharesLoaded, SharesFail, StartEditing, CancelEditing, StartSave,
                    selection, sidebar
<1>6. CASE Clicks
  BY <1>1, <1>6 DEF Clicks, ClickFile, Refresh, selection, sidebar
<1>7. CASE (\E o \in opens : OpenAnswered(o)) \/ (\E s \in saves : SaveAnswered(s))
  BY <1>1, <1>7 DEF OpenAnswered, Read, ReadFails, SaveAnswered, Written, SaveFails, Reread,
                    selection, sidebar
<1>8. CASE UNCHANGED vars
  BY <1>1, <1>8 DEF vars, selection, sidebar
<1> QED
  BY <1>2, <1>3, <1>4, <1>5, <1>6, <1>7, <1>8 DEF Next, Clicks

-----------------------------------------------------------------------------
LEMMA InitInv == Init => Inv
<1> SUFFICES ASSUME Init
             PROVE  Inv
  OBVIOUS
<1>1. seq = 0 /\ opens = {} /\ saves = {} /\ editing = FALSE /\ shown = NoFile
  BY DEF Init
<1>2. TypeOK
  <2>1. 0 \in 0..MaxOpens /\ 0 \in 0..MaxSaves
    BY BrowserAssumption DEF BrowserAssumption
  <2> QED
    BY <2>1 DEF Init, TypeOK
<1> QED
  BY <1>1, <1>2 DEF Inv, Numbered, SkeletonHidesEditor, SavesOfThisNumber, ShownUnderItsPath

\* A new number: nothing under way has it.
LEMMA OpeningKeepsInv ==
  ASSUME Inv, NEW file \in File, StartsOpening(file),
         \/ UNCHANGED path
         \/ path' = NoPath,
         shown' = shown \/ shown' = NoFile,
         UNCHANGED <<saves, started>>,
         phase' \in {"loading", "loaded", "failed"}, share' \in Share \cup {NoShare},
         saving' \in BOOLEAN, listings' \subseteq Share, tree' \in Share \cup {NoShare}
  PROVE  Inv'
<1>1. /\ seq \in 0..MaxOpens /\ seq < MaxOpens /\ seq' = seq + 1
      /\ opens \subseteq Open /\ saves \subseteq Save
      /\ opens' = opens \cup {[seq |-> seq + 1, file |-> file]}
      /\ saves' = saves /\ loading' = TRUE /\ editing' = FALSE
  BY DEF Inv, TypeOK, StartsOpening
<1>2. [seq |-> seq + 1, file |-> file] \in Open
  BY <1>1, BrowserAssumption DEF BrowserAssumption, Open
<1>3. TypeOK'
  <2>1. opens' \subseteq Open /\ saves' \subseteq Save /\ seq' \in 0..MaxOpens
    BY <1>1, <1>2, BrowserAssumption DEF BrowserAssumption
  <2> QED
    BY <1>1, <2>1 DEF Inv, TypeOK
<1>4. Numbered'
  <2>1. \A o \in opens : o.seq \in Nat /\ o.seq <= seq
    BY <1>1 DEF Inv, Numbered, Open
  <2>2. \A s \in saves : s.seq \in Nat /\ s.seq <= seq
    BY <1>1 DEF Inv, Numbered, Save
  <2>3. \A a, b \in opens : a.seq = b.seq => a = b
    BY DEF Inv, Numbered
  <2>4. seq \in Nat
    BY <1>1
  <2>5. \A o \in opens' : o.seq <= seq'
    BY <1>1, <2>1, <2>4
  <2>6. \A s \in saves' : s.seq <= seq'
    BY <1>1, <2>2, <2>4
  <2>7. \A a, b \in opens' : a.seq = b.seq => a = b
    BY <1>1, <2>1, <2>3, <2>4
  <2> QED
    BY <2>5, <2>6, <2>7 DEF Numbered
<1>5. SkeletonHidesEditor'
  BY <1>1 DEF SkeletonHidesEditor
<1>6. SavesOfThisNumber'
  <2>1. \A s \in saves : s.seq \in Nat /\ s.seq <= seq
    BY <1>1 DEF Inv, Numbered, Save
  <2> QED
    BY <1>1, <2>1 DEF SavesOfThisNumber
<1>7. ShownUnderItsPath'
  BY DEF Inv, ShownUnderItsPath
<1> QED
  BY <1>3, <1>4, <1>5, <1>6, <1>7 DEF Inv

\* Choosing a share clears the path and what is shown, and starts nothing.
LEMMA SelectingKeepsInv ==
  ASSUME Inv, NEW s \in Share \cup {NoShare}, Selects(s),
         UNCHANGED <<loading, saving, calls>>, phase' \in {"loading", "loaded", "failed"}
  PROVE  Inv'
<1>1. listings' \subseteq Share /\ tree' \in Share \cup {NoShare}
  BY DEF Inv, TypeOK, Selects, TreeFollows, AfterCleanup, sidebar
<1>2. /\ share' = s /\ path' = NoPath /\ shown' = NoFile /\ editing' = FALSE
      /\ loading' = loading /\ saving' = saving
      /\ seq' = seq /\ opens' = opens /\ saves' = saves /\ started' = started
  BY DEF Selects, calls
<1>3. TypeOK'
  BY <1>1, <1>2 DEF Inv, TypeOK
<1>4. Numbered' /\ ShownUnderItsPath'
  BY <1>2 DEF Inv, Numbered, ShownUnderItsPath
<1>5. SkeletonHidesEditor' /\ SavesOfThisNumber'
  BY <1>2 DEF Inv, SkeletonHidesEditor, SavesOfThisNumber
<1> QED
  BY <1>3, <1>4, <1>5 DEF Inv

\* The tree has files to click on only while a share is selected.
LEMMA NextInv == Inv /\ TreeInv /\ [Next]_vars => Inv'
<1> SUFFICES ASSUME Inv, TreeInv, [Next]_vars
             PROVE  Inv'
  OBVIOUS
<1> USE DEF Inv
<1>1. CASE SharesLoaded
  BY <1>1 DEF SharesLoaded, TypeOK, Numbered, SkeletonHidesEditor, SavesOfThisNumber, ShownUnderItsPath,
              selection, editor, calls, sidebar
<1>2. CASE SharesFail
  BY <1>2 DEF SharesFail, TypeOK, Numbered, SkeletonHidesEditor, SavesOfThisNumber, ShownUnderItsPath,
              selection, editor, calls, sidebar
<1>3. CASE \E s \in Share : SharesLoadedWithInput(s)
  <2> PICK s \in Share : SharesLoadedWithInput(s)
    BY <1>3
  <2>1. CASE UNCHANGED <<loading, calls>>
    BY <2>1, SelectingKeepsInv DEF SharesLoadedWithInput
  <2>2. CASE \E p \in Path : StartsOpening(<<s, p>>) /\ UNCHANGED <<saves, started>>
    <3> PICK p \in Path : StartsOpening(<<s, p>>) /\ UNCHANGED <<saves, started>>
      BY <2>2
    <3>1. <<s, p>> \in File
      BY DEF File
    <3>2. listings' \subseteq Share /\ tree' \in Share \cup {NoShare}
      BY DEF TypeOK, SharesLoadedWithInput, Selects, TreeFollows, AfterCleanup, sidebar
    <3>3. path' = NoPath /\ shown' = NoFile /\ share' = s /\ phase' = "loaded" /\ saving' = saving
      BY DEF SharesLoadedWithInput, Selects
    <3>4. saving \in BOOLEAN
      BY DEF TypeOK
    <3> QED
      BY <3>1, <3>2, <3>3, <3>4, OpeningKeepsInv
  <2> QED
    BY <2>1, <2>2 DEF SharesLoadedWithInput
<1>4. CASE \E s \in Share \cup {NoShare} : ChooseShare(s)
  BY <1>4, SelectingKeepsInv DEF ChooseShare
<1>5. CASE \E s \in listings : Listed(s)
  BY <1>5 DEF Listed, TypeOK, Numbered, SkeletonHidesEditor, SavesOfThisNumber, ShownUnderItsPath,
              selection, editor, calls
<1>6. CASE Clicks
  <2>1. \E file \in File : StartsOpening(file)
    <3>1. CASE Refresh
      BY <3>1 DEF Refresh, TypeOK, File
    <3>2. CASE \E p \in Path : ClickFile(p)
      <4> PICK p \in Path : ClickFile(p)
        BY <3>2
      <4>1. tree # NoShare /\ StartsOpening(<<share, p>>)
        BY DEF ClickFile
      <4>2. share \in Share
        BY <4>1, BrowserAssumption DEF BrowserAssumption, TreeInv, TreeIsOfShare, TypeOK
      <4>3. <<share, p>> \in File
        BY <4>2 DEF File
      <4> QED
        BY <4>1, <4>3
    <3> QED
      BY <1>6, <3>1, <3>2 DEF Clicks
  <2>2. UNCHANGED <<phase, selection, shown, saving, saves, started, sidebar>>
    BY <1>6 DEF Clicks, ClickFile, Refresh
  <2> QED
    BY <2>1, <2>2, OpeningKeepsInv DEF TypeOK, selection, sidebar
<1>7. CASE StartEditing
  BY <1>7 DEF StartEditing, EditorShown, TypeOK, Numbered, SkeletonHidesEditor, SavesOfThisNumber,
              ShownUnderItsPath, selection, calls, sidebar
<1>8. CASE CancelEditing
  BY <1>8 DEF CancelEditing, TypeOK, Numbered, SkeletonHidesEditor, SavesOfThisNumber,
              ShownUnderItsPath, selection, calls, sidebar
<1>9. CASE StartSave
  <2> DEFINE new == [id |-> started + 1, seq |-> seq, file |-> <<share, path>>,
                     text |-> shown, step |-> "write"]
  <2>1. /\ ~loading /\ shown # NoFile /\ share # NoShare /\ path # NoPath
        /\ started < MaxSaves /\ started' = started + 1
        /\ saves' = saves \cup {new} /\ saving' = TRUE
        /\ UNCHANGED <<phase, share, path, shown, loading, editing, seq, opens, listings, tree>>
    BY <1>9 DEF StartSave, EditorShown, selection, editor, sidebar
  <2>2. /\ started \in 0..MaxSaves /\ seq \in 0..MaxOpens /\ share \in Share /\ path \in Path
        /\ shown \in File
    BY <2>1 DEF TypeOK
  <2>3. new \in Save /\ started' \in 0..MaxSaves
    BY <2>1, <2>2, BrowserAssumption DEF BrowserAssumption, Save, File
  <2>4. TypeOK'
    BY <2>1, <2>3 DEF TypeOK
  <2>5. new.seq = seq /\ new.file[2] = path
    OBVIOUS
  <2>6. Numbered'
    BY <2>1, <2>2, <2>5 DEF Numbered
  <2>7. SavesOfThisNumber'
    BY <2>1, <2>5 DEF SavesOfThisNumber
  <2> QED
    BY <2>1, <2>4, <2>6, <2>7 DEF SkeletonHidesEditor, ShownUnderItsPath
<1>10. CASE \E o \in opens : OpenAnswered(o)
  <2> PICK o \in opens : OpenAnswered(o)
    BY <1>10
  <2>1. /\ opens' = opens \ {o}
        /\ UNCHANGED <<phase, share, editing, saving, seq, saves, started, listings, tree>>
    BY DEF OpenAnswered, Read, ReadFails, sidebar
  <2>2. CASE Superseded(o.seq)
    <3>1. UNCHANGED <<path, shown, loading>>
      BY <2>2 DEF OpenAnswered, Read, ReadFails
    <3> QED
      BY <2>1, <3>1 DEF TypeOK, Numbered, SkeletonHidesEditor, SavesOfThisNumber, ShownUnderItsPath
  <2>3. CASE ~Superseded(o.seq)
    <3>1. o.seq = seq /\ o \in Open
      BY <2>3 DEF Superseded, TypeOK
    <3>2. loading' = FALSE
      BY <2>3 DEF OpenAnswered, Read, ReadFails, StopsLoading
    <3>3. \/ path' = o.file[2] /\ shown' = o.file
          \/ path' = NoPath /\ shown' = NoFile
      BY <2>3 DEF OpenAnswered, Read, ReadFails
    <3>4. o.file \in File /\ o.file[2] \in Path
      BY <3>1 DEF Open, File
    <3>5. TypeOK'
      BY <2>1, <3>2, <3>3, <3>4 DEF TypeOK
    <3>6. loading
      <4>1. seq \in Nat
        BY DEF TypeOK
      <4> QED
        BY <3>1, <4>1 DEF SkeletonHidesEditor
    <3>7. Numbered'
      BY <2>1 DEF Numbered
    <3>8. \A a \in opens' : a.seq < seq'
      <4>1. \A a \in opens : a.seq \in Nat /\ a.seq <= seq
        BY DEF TypeOK, Numbered, Open
      <4>2. \A a \in opens' : a \in opens /\ a.seq # seq
        BY <2>1, <3>1 DEF Numbered
      <4>3. seq \in Nat
        BY DEF TypeOK
      <4> QED
        BY <2>1, <4>1, <4>2, <4>3
    <3>9. SkeletonHidesEditor'
      BY <2>1, <3>2, <3>8 DEF SkeletonHidesEditor
    <3>10. SavesOfThisNumber'
      BY <2>1, <3>6 DEF SavesOfThisNumber
    <3>11. ShownUnderItsPath'
      BY <3>3 DEF ShownUnderItsPath
    <3> QED
      BY <3>5, <3>7, <3>9, <3>10, <3>11
  <2> QED
    BY <2>2, <2>3
<1>11. CASE \E s \in saves : SaveAnswered(s)
  <2> PICK s \in saves : SaveAnswered(s)
    BY <1>11
  <2>1. UNCHANGED <<phase, share, path, loading, seq, opens, started, listings, tree>>
    BY DEF SaveAnswered, Written, SaveFails, Reread, selection, editor, sidebar
  <2>2. s \in Save /\ s.file \in File /\ s.file[2] \in Path
    BY DEF TypeOK, Save, File
  <2>3. CASE /\ \/ saves' = saves \ {s}
                \/ saves' = (saves \ {s}) \cup {[s EXCEPT !.step = "reread"]}
             /\ saving' \in BOOLEAN /\ UNCHANGED <<shown, editing>>
    <3>1. /\ [s EXCEPT !.step = "reread"] \in Save
          /\ [s EXCEPT !.step = "reread"].seq = s.seq
          /\ [s EXCEPT !.step = "reread"].file = s.file
      BY <2>2 DEF Save
    <3>2. \A t \in saves' : t \in Save /\ \E u \in saves : t.seq = u.seq /\ t.file = u.file
      BY <2>3, <3>1 DEF TypeOK
    <3>3. TypeOK'
      BY <2>1, <2>3, <3>2 DEF TypeOK
    <3>4. Numbered'
      BY <2>1, <3>2 DEF Numbered
    <3>5. SavesOfThisNumber'
      BY <2>1, <3>2 DEF SavesOfThisNumber
    <3> QED
      BY <2>1, <2>3, <3>3, <3>4, <3>5 DEF SkeletonHidesEditor, ShownUnderItsPath
  <2>4. CASE /\ s.seq = seq /\ saves' = saves \ {s} /\ saving' = FALSE
             /\ shown' = s.file /\ editing' = FALSE
    <3>1. TypeOK'
      BY <2>1, <2>2, <2>4 DEF TypeOK
    <3>2. Numbered'
      BY <2>1, <2>4 DEF Numbered
    <3>3. SkeletonHidesEditor' /\ SavesOfThisNumber'
      BY <2>1, <2>4 DEF SkeletonHidesEditor, SavesOfThisNumber
    <3>4. ShownUnderItsPath'
      BY <2>1, <2>4 DEF SavesOfThisNumber, ShownUnderItsPath
    <3> QED
      BY <3>1, <3>2, <3>3, <3>4
  <2>5. \/ /\ \/ saves' = saves \ {s}
              \/ saves' = (saves \ {s}) \cup {[s EXCEPT !.step = "reread"]}
           /\ saving' \in BOOLEAN /\ UNCHANGED <<shown, editing>>
        \/ /\ s.seq = seq /\ saves' = saves \ {s} /\ saving' = FALSE
           /\ shown' = s.file /\ editing' = FALSE
    <3>1. CASE Written(s)
      BY <3>1 DEF Written, Finally, TypeOK, editor
    <3>2. CASE SaveFails(s)
      BY <3>2 DEF SaveFails, Finally, editor
    <3>3. CASE Reread(s)
      BY <3>3 DEF Reread, Finally, Superseded
    <3> QED
      BY <3>1, <3>2, <3>3 DEF SaveAnswered
  <2> QED
    BY <2>3, <2>4, <2>5
<1>12. CASE UNCHANGED vars
  BY <1>12 DEF vars, TypeOK, Numbered, SkeletonHidesEditor, SavesOfThisNumber, ShownUnderItsPath,
               selection, editor, calls, sidebar
<1> QED
  BY <1>1, <1>2, <1>3, <1>4, <1>5, <1>6, <1>7, <1>8, <1>9, <1>10, <1>11, <1>12 DEF Next, Clicks

-----------------------------------------------------------------------------
LEMMA Invariant == Spec => [](Inv /\ TreeInv)
BY InitInv, TreeInit, NextInv, TreeNext, PTL DEF Spec

\* Every variable keeps its type; the numbers of openFile start at 1
\* (FileBrowserApp.tsx:245).
THEOREM TypeCorrect == Spec => []TypeOK
<1>1. Inv => TypeOK
  BY DEF Inv
<1> QED
  BY <1>1, Invariant, PTL

\* Content is never shown under the path of another file: neither openFile nor
\* saveFile applies a stale answer to a path chosen since
\* (FileBrowserApp.tsx:272, 320 and 331).
THEOREM ShownRight == Spec => []ShownUnderItsPath
<1>1. Inv => ShownUnderItsPath
  BY DEF Inv
<1> QED
  BY <1>1, Invariant, PTL

\* While a file is being edited every openFile under way is superseded, so its
\* answer leaves the text area alone (FileBrowserApp.tsx:246, 272 and 833).
THEOREM EditsUndisturbed == Spec => []EditsAreUndisturbed
<1>1. Inv => EditsAreUndisturbed
  BY DEF Inv, SkeletonHidesEditor, EditsAreUndisturbed
<1> QED
  BY <1>1, Invariant, PTL

\* The listing of a share that is no longer selected never gets into the tree
\* (the cancelled flag in the effect of DirectoryTree).
THEOREM TreeRight == Spec => []TreeIsOfShare
<1>1. TreeInv => TreeIsOfShare
  BY DEF TreeInv
<1> QED
  BY <1>1, Invariant, PTL

-----------------------------------------------------------------------------
(* NodeControl: the shapes of its state, and what holds in every state *)


Pc == {"start", "control", "direct", "asked", "confirm", "confirming"} \cup Ended

\* The types of the records, with names.
Socket  == [st : {"none", "adopting", "open", "lost"}, token : Token \cup {NoToken}]
DaemonRec == [up : BOOLEAN, reachable : BOOLEAN, rot : {"idle", "asked", "awaiting"},
           asker : Cli \cup {NoCli}, naming : Cli \cup {NoCli}]
CliRec == [cmd : {"rotate", "rename"}, found : Token, pc : Pc]
Yaml   == [token : Token, prev : Token \cup {NoToken}]

Shapes ==
  /\ current \in Token
  /\ row \in [Token -> {"none", "live", "revoked"}]
  /\ pending \in [Token -> Token \cup {NoToken}]
  /\ claim \in [Token -> Token \cup {NoToken}]
  /\ recent \in BOOLEAN
  /\ handling \subseteq Message
  /\ ws \in [Proc -> Socket]
  /\ inbox \in [Proc -> Seq(Reply)]
  /\ yaml \in Yaml
  /\ daemon \in DaemonRec
  /\ cli \in [Cli -> CliRec]
  /\ lapsed \in BOOLEAN
  /\ stops \in Nat

\* The tokens, and the kinds, of the replies of an inbox.
TokensOf(s) == {s[i].token : i \in {j \in 1..Len(s) : s[j].kind = "token"}}
KindsOf(s)  == {s[i].kind : i \in 1..Len(s)}

Carried(p) == TokensOf(inbox[p])

\* No adoption of t is under way or to come.
Over(t) == pending[t] = NoToken /\ claim[t] = NoToken

Rotates(c, pcs) == cli[c].cmd = "rotate" /\ cli[c].pc \in pcs

Kinds(cmd) == IF cmd = "rotate" THEN {"token", "refused", "synced"} ELSE {"named", "misnamed"}

\* A process has one socket, the relay one registered connection of the node.
Sockets ==
  /\ \A p \in Proc : /\ ws[p].st # "none" => ws[p].token \in Token
                     /\ ws[p].st \in {"none", "adopting"} => inbox[p] = <<>>
  /\ \A p, q \in Proc : ws[p].st = "open" /\ ws[q].st = "open" => p = q
  /\ \A c \in Cli : cli[c].pc \notin {"asked", "confirming"} => ws[c].st = "none"

\* Each message and reply belongs to what its process waits for.
Exchanges ==
  /\ \A c \in Cli : cli[c].pc \in {"confirm", "confirming"} => cli[c].cmd = "rotate"
  /\ \A c \in Cli : KindsOf(inbox[c]) \subseteq Kinds(cli[c].cmd)
  /\ \A m \in handling :
       /\ m.proc \in Cli => m.kind \in {cli[m.proc].cmd} \cup (IF cli[m.proc].cmd = "rotate" THEN {"sync"} ELSE {})
       /\ m.alive => ws[m.proc].st = "open" /\ ws[m.proc].token = m.token
       /\ m.alive /\ m.proc \in Cli => cli[m.proc].pc = (IF m.kind = "sync" THEN "confirming" ELSE "asked")
  /\ daemon.asker \in Cli => cli[daemon.asker].cmd = "rotate" /\ cli[daemon.asker].pc # "start"
  /\ daemon.naming \in Cli => cli[daemon.naming].cmd = "rename"

\* Tokens that are in use somewhere have a row.
Known ==
  /\ row[current] # "none" /\ row[yaml.token] # "none"
  /\ yaml.prev # NoToken => row[yaml.prev] # "none"
  /\ \A c \in Cli : row[cli[c].found] # "none"
  /\ \A t \in Token : ~Over(t) => row[t] # "none"
  /\ \A p \in Proc : /\ \A t \in Carried(p) : t \in Token /\ row[t] # "none"
                     /\ ws[p].st # "none" => row[ws[p].token] # "none"

\* One token is on offer, the last; one reply has it, and nobody else has heard of it.
Latest ==
  /\ \A t, u \in Token : pending[t] # NoToken /\ pending[u] # NoToken => t = u
  /\ \A t \in Token : claim[t] # NoToken => pending[t] = NoToken
  /\ Over(current)
  /\ \A p, q \in Proc : Carried(p) # {} /\ Carried(q) # {} => p = q
  /\ \A p \in Proc : \A t \in Carried(p) :
       /\ recent /\ t # yaml.token /\ t # yaml.prev
       /\ \A c \in Cli : cli[c].found # t
       /\ \A u \in Token : pending[u] # NoToken => u = t

\* The last token is the one in the file.
Arrived ==
  /\ recent /\ \A p \in Proc : Carried(p) = {}
  /\ \A u \in Token : pending[u] # NoToken => u = yaml.token

\* Once another rotation is asked for, the token c has found is not adopted any more.
Behind(c) == pending[cli[c].found] = NoToken /\ (recent \/ claim[cli[c].found] = NoToken)

\* Where a rotation that c asked for stands.
Progress ==
  /\ daemon.rot = "awaiting" =>
       /\ Arrived
       /\ daemon.asker \in Cli /\ cli[daemon.asker].pc = "control" => yaml.token # cli[daemon.asker].found
  /\ \A c \in Cli :
       /\ Rotates(c, {"control", "direct"}) => yaml.token = cli[c].found \/ Behind(c)
       /\ Rotates(c, {"asked"}) =>
            /\ ws[c].token = cli[c].found \/ Behind(c)
            /\ ws[c].st \in {"open", "lost"} /\ ws[c].token = cli[c].found => Over(cli[c].found)
            /\ Carried(c) # {} => Over(cli[c].found)
       /\ Rotates(c, {"confirm", "confirming"}) =>
            Arrived /\ yaml.token # cli[c].found /\ Over(cli[c].found)
       /\ Rotates(c, {"confirming"}) =>
            /\ ws[c].st # "none" /\ ws[c].token # cli[c].found
            /\ ws[c].st = "adopting" \/ current # cli[c].found

\* One connection waits for an adoption.
Adopters ==
  /\ \A p \in Proc : ws[p].st = "adopting" => claim[ws[p].token] # NoToken
  /\ \A p, q \in Proc : ws[p].st = "adopting" /\ ws[q].st = "adopting" /\ ws[p].token = ws[q].token => p = q

CInv == Shapes /\ Sockets /\ Adopters /\ Exchanges /\ Known /\ Latest /\ Progress

ReplyShape(r) ==
  \/ r.kind = "token" /\ r.token \in Token
  \/ r.kind \in {"refused", "named", "misnamed", "synced"}

LEMMA ReplyShapes == \A r \in Reply : ReplyShape(r)
BY DEF Reply, ReplyShape

LEMMA AppendReply ==
  ASSUME NEW s \in Seq(Reply), NEW r \in Reply
  PROVE  /\ Append(s, r) \in Seq(Reply)
         /\ KindsOf(Append(s, r)) = KindsOf(s) \cup {r.kind}
         /\ TokensOf(Append(s, r)) = TokensOf(s) \cup (IF r.kind = "token" THEN {r.token} ELSE {})
<1> DEFINE t == Append(s, r)
<1>1. /\ t \in Seq(Reply) /\ Len(t) = Len(s) + 1 /\ Len(s) \in Nat
      /\ \A i \in 1..Len(s) : t[i] = s[i]
      /\ t[Len(s) + 1] = r
  OBVIOUS
<1> HIDE DEF t
<1>2. \A i \in 1..Len(t) : i \in 1..Len(s) \/ i = Len(s) + 1
  BY <1>1
<1>3. (\A i \in 1..Len(s) : i \in 1..Len(t)) /\ Len(s) + 1 \in 1..Len(t)
  BY <1>1
<1>4. KindsOf(t) = KindsOf(s) \cup {r.kind}
  BY <1>1, <1>2, <1>3 DEF KindsOf
<1>5. TokensOf(t) = TokensOf(s) \cup (IF r.kind = "token" THEN {r.token} ELSE {})
  BY <1>1, <1>2, <1>3 DEF TokensOf
<1> QED
  BY <1>1, <1>4, <1>5 DEF t

LEMMA TailReply ==
  ASSUME NEW s \in Seq(Reply), s # <<>>
  PROVE  /\ Tail(s) \in Seq(Reply) /\ Head(s) \in Reply
         /\ KindsOf(Tail(s)) \subseteq KindsOf(s) /\ Head(s).kind \in KindsOf(s)
         /\ TokensOf(Tail(s)) \subseteq TokensOf(s)
         /\ Head(s).kind = "token" => Head(s).token \in TokensOf(s)
<1>1. /\ Len(s) \in Nat \ {0} /\ Tail(s) \in Seq(Reply) /\ Len(Tail(s)) = Len(s) - 1
      /\ \A i \in 1..Len(Tail(s)) : i + 1 \in 1..Len(s) /\ Tail(s)[i] = s[i + 1]
      /\ Head(s) = s[1] /\ 1 \in 1..Len(s) /\ Head(s) \in Reply
  OBVIOUS
<1> QED
  BY <1>1 DEF KindsOf, TokensOf

LEMMA NoReply == <<>> \in Seq(Reply) /\ KindsOf(<<>>) = {} /\ TokensOf(<<>>) = {}
BY DEF KindsOf, TokensOf

LEMMA TypesAreShapes == ControlTypeOK <=> Shapes
BY DEF ControlTypeOK, Shapes, Socket, DaemonRec, CliRec, Yaml, Pc

-----------------------------------------------------------------------------
(* What the parts of the steps do, element by element *)

LEMMA Settles ==
  ASSUME Shapes, NEW c \in Cli \cup {NoCli}, NEW pc \in Pc
  PROVE  /\ Settled(c, pc) \in [Cli -> CliRec]
         /\ \A d \in Cli : /\ Settled(c, pc)[d].cmd = cli[d].cmd /\ Settled(c, pc)[d].found = cli[d].found
                           /\ Settled(c, pc)[d].pc = IF d = c /\ cli[d].pc = "control" THEN pc ELSE cli[d].pc
<1>1. cli \in [Cli -> CliRec] /\ NoCli \notin Cli
  BY ControlAssumption DEF Shapes, ControlAssumption
<1>2. CASE c # NoCli /\ cli[c].pc = "control"
  <2>1. Settled(c, pc) = [cli EXCEPT ![c].pc = pc] /\ c \in Cli
    BY <1>2 DEF Settled
  <2> QED
    BY <1>1, <1>2, <2>1 DEF CliRec
<1>3. CASE c = NoCli \/ cli[c].pc # "control"
  <2>1. Settled(c, pc) = cli
    BY <1>3 DEF Settled
  <2> QED
    BY <1>1, <1>3, <2>1
<1> QED
  BY <1>2, <1>3

\* c goes on to pc, having read node.yaml or not.
At(c, pc)     == [cli EXCEPT ![c].pc = pc]
Begins(c, pc) == [cli EXCEPT ![c].pc = pc, ![c].found = yaml.token]

LEMMA PcStep ==
  ASSUME Shapes, NEW c \in Cli, NEW pc \in Pc
  PROVE  /\ At(c, pc) \in [Cli -> CliRec]
         /\ \A d \in Cli : /\ At(c, pc)[d].cmd = cli[d].cmd /\ At(c, pc)[d].found = cli[d].found
                           /\ At(c, pc)[d].pc = IF d = c THEN pc ELSE cli[d].pc
BY DEF Shapes, CliRec, At

LEMMA StartStep ==
  ASSUME Shapes, NEW c \in Cli, NEW pc \in Pc
  PROVE  /\ Begins(c, pc) \in [Cli -> CliRec]
         /\ \A d \in Cli : /\ Begins(c, pc)[d].cmd = cli[d].cmd
                           /\ Begins(c, pc)[d].found = IF d = c THEN yaml.token ELSE cli[d].found
                           /\ Begins(c, pc)[d].pc = IF d = c THEN pc ELSE cli[d].pc
BY DEF Shapes, CliRec, Yaml, Begins

LEMMA Orphans ==
  ASSUME Shapes, NEW S
  PROVE  /\ Orphaned(S) \subseteq Message
         /\ \A m \in Orphaned(S) :
              \E h \in handling : /\ m.proc = h.proc /\ m.kind = h.kind /\ m.token = h.token
                                  /\ m.alive = (h.alive /\ h.proc \notin S)
<1>1. \A h \in handling : LET m == [h EXCEPT !.alive = @ /\ h.proc \notin S]
                          IN /\ m \in Message /\ m.proc = h.proc /\ m.kind = h.kind /\ m.token = h.token
                             /\ m.alive = (h.alive /\ h.proc \notin S)
  BY DEF Shapes, Message
<1> QED
  BY <1>1 DEF Orphaned

LEMMA Evicts ==
  ASSUME NEW sockets \in [Proc -> Socket], NEW S
  PROVE  /\ Evicted(S, sockets) \in [Proc -> Socket]
         /\ \A p \in Proc :
              /\ Evicted(S, sockets)[p].token = sockets[p].token
              /\ Evicted(S, sockets)[p].st =
                   IF p \in S /\ sockets[p].st # "none" THEN "lost" ELSE sockets[p].st
BY DEF Evicted, Socket

LEMMA Answers ==
  ASSUME Shapes, NEW m \in handling, NEW r \in Reply, Answered(m, r)
  PROVE  /\ handling' \subseteq handling
         /\ inbox' \in [Proc -> Seq(Reply)]
         /\ \A p \in Proc :
              IF p = m.proc /\ m.alive
              THEN /\ KindsOf(inbox'[p]) = KindsOf(inbox[p]) \cup {r.kind}
                   /\ TokensOf(inbox'[p]) = TokensOf(inbox[p]) \cup (IF r.kind = "token" THEN {r.token} ELSE {})
              ELSE inbox'[p] = inbox[p]
<1>1. m \in Message /\ m.proc \in Proc /\ inbox[m.proc] \in Seq(Reply)
  BY DEF Shapes, Message
<1>2. CASE m.alive
  <2>1. inbox' = [inbox EXCEPT ![m.proc] = Append(inbox[m.proc], r)]
    BY <1>2 DEF Answered
  <2>2. Append(inbox[m.proc], r) \in Seq(Reply)
    BY <1>1, AppendReply
  <2>3. inbox'[m.proc] = Append(inbox[m.proc], r)
    BY <1>1, <2>1 DEF Shapes
  <2> QED
    BY <1>1, <1>2, <2>1, <2>2, <2>3, AppendReply DEF Answered, Shapes
<1>3. CASE ~m.alive
  BY <1>3 DEF Answered, Shapes
<1> QED
  BY <1>2, <1>3

\* The relay takes a connection: it is registered, or its adoption begins.
LEMMA Connects ==
  ASSUME Shapes, NEW p \in Proc, NEW t \in Token, NEW k \in SUBSET {"rotate", "rename", "sync"},
         ConnectWith(p, t, k)
  PROVE  /\ UNCHANGED <<current, row, recent>>
         /\ pending' \in [Token -> Token \cup {NoToken}] /\ claim' \in [Token -> Token \cup {NoToken}]
         /\ ws' \in [Proc -> Socket] /\ handling' \subseteq Message
         /\ ws'[p].token = t
         /\ \A q \in Proc \ {p} : ws'[q].token = ws[q].token
         /\ \A m \in handling' :
              \/ \E h \in handling : /\ m.proc = h.proc /\ m.kind = h.kind /\ m.token = h.token
                                     /\ m.alive => /\ h.alive /\ h.proc # p
                                                   /\ pending[t] = NoToken => ws[h.proc].st # "open"
              \/ pending[t] = NoToken /\ m.proc = p /\ m.kind \in k /\ m.token = t /\ m.alive
         /\ IF pending[t] # NoToken
            THEN /\ ws'[p].st = "adopting" /\ \A q \in Proc \ {p} : ws'[q].st = ws[q].st
                 /\ pending'[t] = NoToken /\ claim'[t] = pending[t]
                 /\ \A u \in Token \ {t} : pending'[u] = pending[u] /\ claim'[u] = claim[u]
            ELSE /\ ws'[p].st = "open"
                 /\ \A q \in Proc \ {p} : ws'[q].st = IF ws[q].st = "open" THEN "lost" ELSE ws[q].st
                 /\ pending' = pending /\ claim' = claim
<1> DEFINE others == {q \in Proc \ {p} : ws[q].st = "open"}
           opened == [ws EXCEPT ![p] = [st |-> "open", token |-> t]]
<1>1. CASE pending[t] # NoToken
  <2>1. /\ ws' = [ws EXCEPT ![p] = [st |-> "adopting", token |-> t]]
        /\ pending' = [pending EXCEPT ![t] = NoToken] /\ claim' = [claim EXCEPT ![t] = pending[t]]
        /\ handling' = Orphaned({p}) /\ UNCHANGED <<current, row, recent>>
    BY <1>1 DEF ConnectWith
  <2>2. ws' \in [Proc -> Socket]
    BY <2>1 DEF Shapes, Socket
  <2>3. /\ ws'[p].token = t /\ ws'[p].st = "adopting"
        /\ \A q \in Proc \ {p} : ws'[q] = ws[q]
    BY <2>1 DEF Shapes
  <2>4. /\ pending' \in [Token -> Token \cup {NoToken}] /\ claim' \in [Token -> Token \cup {NoToken}]
        /\ pending'[t] = NoToken /\ claim'[t] = pending[t]
        /\ \A u \in Token \ {t} : pending'[u] = pending[u] /\ claim'[u] = claim[u]
    BY <2>1 DEF Shapes
  <2>5. \A m \in handling' :
          \E h \in handling : /\ m.proc = h.proc /\ m.kind = h.kind /\ m.token = h.token
                              /\ m.alive = (h.alive /\ h.proc \notin {p})
    BY <2>1, Orphans
  <2>6. handling' \subseteq Message
    BY <2>1, Orphans
  <2> HIDE DEF others, opened
  <2>7. \A m \in handling' :
          \E h \in handling : /\ m.proc = h.proc /\ m.kind = h.kind /\ m.token = h.token
                              /\ m.alive => /\ h.alive /\ h.proc # p
                                            /\ pending[t] = NoToken => ws[h.proc].st # "open"
    <3> TAKE m \in handling'
    <3>1. PICK h \in handling : /\ m.proc = h.proc /\ m.kind = h.kind /\ m.token = h.token
                                /\ m.alive = (h.alive /\ h.proc \notin {p})
      BY <2>5
    <3>2. m.alive => h.alive /\ h.proc # p
      BY <3>1
    <3> QED
      BY <1>1, <3>1, <3>2
  <2>8. p \in Proc /\ t \in Token
    OBVIOUS
  <2> QED
    BY <1>1, <2>1, <2>2, <2>3, <2>4, <2>6, <2>7
<1>2. CASE pending[t] = NoToken
  <2>1. /\ ws' = Evicted(others, opened) /\ UNCHANGED relay
        /\ handling' = Orphaned(others \cup {p})
                          \cup {[proc |-> p, kind |-> x, token |-> t, alive |-> TRUE] : x \in k}
    BY <1>2 DEF ConnectWith
  <2>2. opened \in [Proc -> Socket] /\ opened[p] = [st |-> "open", token |-> t]
        /\ \A q \in Proc \ {p} : opened[q] = ws[q]
    BY DEF Shapes, Socket
  <2>3. p \notin others /\ \A q \in Proc \ {p} : q \in others <=> ws[q].st = "open"
    OBVIOUS
  <2>4. \A x \in k : [proc |-> p, kind |-> x, token |-> t, alive |-> TRUE] \in Message
    BY DEF Message
  <2>5. \A h \in handling : h \in Message /\ h.proc \in Proc
    BY DEF Shapes, Message
  <2> HIDE DEF others, opened
  <2>6. /\ ws' \in [Proc -> Socket] /\ ws'[p].token = t /\ ws'[p].st = "open"
        /\ \A q \in Proc \ {p} : /\ ws'[q].token = ws[q].token
                                 /\ ws'[q].st = IF ws[q].st = "open" THEN "lost" ELSE ws[q].st
    BY <2>1, <2>2, <2>3, Evicts
  <2>7. handling' \subseteq Message
    BY <2>1, <2>4, Orphans
  <2>8. \A m \in handling' :
          \/ \E h \in handling : /\ m.proc = h.proc /\ m.kind = h.kind /\ m.token = h.token
                                 /\ m.alive => h.alive /\ h.proc # p /\ ws[h.proc].st # "open"
          \/ m.proc = p /\ m.kind \in k /\ m.token = t /\ m.alive
    <3> TAKE m \in handling'
    <3>1. CASE m \in Orphaned(others \cup {p})
      <4>1. PICK h \in handling : /\ m.proc = h.proc /\ m.kind = h.kind /\ m.token = h.token
                                  /\ m.alive = (h.alive /\ h.proc \notin others \cup {p})
        BY <3>1, Orphans
      <4>2. m.alive => h.alive /\ h.proc # p /\ ws[h.proc].st # "open"
        BY <2>3, <2>5, <4>1
      <4> QED
        BY <4>1, <4>2
    <3>2. CASE m \in {[proc |-> p, kind |-> x, token |-> t, alive |-> TRUE] : x \in k}
      BY <3>2
    <3> QED
      BY <2>1, <3>1, <3>2
  <2>9. UNCHANGED <<current, row, recent>> /\ pending' = pending /\ claim' = claim
    BY <2>1 DEF relay
  <2>10. pending' \in [Token -> Token \cup {NoToken}] /\ claim' \in [Token -> Token \cup {NoToken}]
    BY <2>9 DEF Shapes
  <2>11. \A m \in handling' :
           \/ \E h \in handling : /\ m.proc = h.proc /\ m.kind = h.kind /\ m.token = h.token
                                  /\ m.alive => /\ h.alive /\ h.proc # p
                                                /\ pending[t] = NoToken => ws[h.proc].st # "open"
           \/ pending[t] = NoToken /\ m.proc = p /\ m.kind \in k /\ m.token = t /\ m.alive
    BY <1>2, <2>8
  <2> QED
    BY <1>2, <2>6, <2>7, <2>9, <2>10, <2>11
<1> QED
  BY <1>1, <1>2

LEMMA ConnectsRelay ==
  ASSUME Shapes, NEW p \in Proc, NEW t \in Token, NEW k \in SUBSET {"rotate", "rename", "sync"},
         ConnectWith(p, t, k)
  PROVE  /\ UNCHANGED <<current, row, recent>> /\ ws'[p].token = t
         /\ \A q \in Proc \ {p} : ws'[q].token = ws[q].token
         /\ pending[t] # NoToken =>
              /\ ws'[p].st = "adopting" /\ \A q \in Proc \ {p} : ws'[q].st = ws[q].st
              /\ pending'[t] = NoToken /\ claim'[t] = pending[t]
              /\ \A u \in Token \ {t} : pending'[u] = pending[u] /\ claim'[u] = claim[u]
         /\ pending[t] = NoToken =>
              /\ ws'[p].st = "open"
              /\ \A q \in Proc \ {p} : ws'[q].st = IF ws[q].st = "open" THEN "lost" ELSE ws[q].st
              /\ pending' = pending /\ claim' = claim
<1>1. CASE pending[t] # NoToken
  BY <1>1, Connects
<1>2. CASE pending[t] = NoToken
  BY <1>2, Connects
<1> QED
  BY <1>1, <1>2

\* The messages after p has connected with t.
HandledAfter(p, t) ==
  \A m \in handling' :
    \/ \E h \in handling : /\ m.proc = h.proc /\ m.kind = h.kind /\ m.token = h.token
                           /\ m.alive => h.alive /\ h.proc # p
    \/ pending[t] = NoToken /\ m.token = t

LEMMA ConnectsMessages ==
  ASSUME Shapes, NEW p \in Proc, NEW t \in Token, NEW k \in SUBSET {"rotate", "rename", "sync"},
         ConnectWith(p, t, k)
  PROVE  HandledAfter(p, t)
<1> SUFFICES ASSUME NEW m \in handling'
             PROVE  \/ \E h \in handling : /\ m.proc = h.proc /\ m.kind = h.kind /\ m.token = h.token
                                           /\ m.alive => h.alive /\ h.proc # p
                    \/ pending[t] = NoToken /\ m.token = t
  BY DEF HandledAfter
<1>1. \/ \E h \in handling : /\ m.proc = h.proc /\ m.kind = h.kind /\ m.token = h.token
                             /\ m.alive => /\ h.alive /\ h.proc # p
                                           /\ pending[t] = NoToken => ws[h.proc].st # "open"
      \/ pending[t] = NoToken /\ m.proc = p /\ m.kind \in k /\ m.token = t /\ m.alive
  BY Connects
<1>2. CASE \E h \in handling : /\ m.proc = h.proc /\ m.kind = h.kind /\ m.token = h.token
                               /\ m.alive => /\ h.alive /\ h.proc # p
                                             /\ pending[t] = NoToken => ws[h.proc].st # "open"
  <2>1. PICK h \in handling : /\ m.proc = h.proc /\ m.kind = h.kind /\ m.token = h.token
                              /\ m.alive => h.alive /\ h.proc # p
    BY <1>2
  <2> QED
    BY <2>1
<1> QED
  BY <1>1, <1>2

\* p's socket is gone, with what was on its way to it.
Gone(p) ==
  /\ ws' = [ws EXCEPT ![p] = NoSocket]
  /\ inbox' = [inbox EXCEPT ![p] = <<>>]
  /\ handling' = Orphaned({p})

LEMMA Goes ==
  ASSUME Shapes, NEW p \in Proc, Gone(p)
  PROVE  /\ ws' \in [Proc -> Socket] /\ inbox' \in [Proc -> Seq(Reply)] /\ handling' \subseteq Message
         /\ ws'[p].st = "none" /\ inbox'[p] = <<>>
         /\ \A q \in Proc \ {p} : ws'[q] = ws[q] /\ inbox'[q] = inbox[q]
         /\ \A m \in handling' :
              \E h \in handling : /\ m.proc = h.proc /\ m.kind = h.kind /\ m.token = h.token
                                  /\ m.alive => h.alive /\ h.proc # p
<1>1. /\ ws' \in [Proc -> Socket] /\ ws'[p].st = "none" /\ \A q \in Proc \ {p} : ws'[q] = ws[q]
  BY DEF Gone, Shapes, NoSocket, Socket
<1>2. /\ inbox' \in [Proc -> Seq(Reply)] /\ inbox'[p] = <<>> /\ \A q \in Proc \ {p} : inbox'[q] = inbox[q]
  BY NoReply DEF Gone, Shapes
<1>3. \A m \in handling' :
        \E h \in handling : /\ m.proc = h.proc /\ m.kind = h.kind /\ m.token = h.token
                            /\ m.alive => h.alive /\ h.proc # p
  <2> TAKE m \in handling'
  <2>1. PICK h \in handling : /\ m.proc = h.proc /\ m.kind = h.kind /\ m.token = h.token
                              /\ m.alive = (h.alive /\ h.proc \notin {p})
    BY Orphans DEF Gone
  <2> QED
    BY <2>1
<1>4. handling' \subseteq Message
  BY Orphans DEF Gone
<1> QED
  BY <1>1, <1>2, <1>3, <1>4

\* The adoption of t is committed.
LEMMA Commits ==
  ASSUME Shapes, NEW t \in Token, FinishAdoption(t)
  PROVE  /\ claim[t] # NoToken /\ claim' \in [Token -> Token \cup {NoToken}] /\ claim'[t] = NoToken
         /\ \A u \in Token \ {t} : claim'[u] = claim[u]
         /\ current' = t /\ row' \in [Token -> {"none", "live", "revoked"}]
         /\ \A u \in Token : row'[u] = IF u = claim[t] THEN "revoked" ELSE row[u]
         /\ ws' \in [Proc -> Socket] /\ handling' \subseteq Message
         /\ \A p \in Proc : /\ ws'[p].token = ws[p].token
                            /\ ws'[p].st = IF ws[p].st = "adopting" /\ ws[p].token = t THEN "open"
                                           ELSE IF ws[p].st = "open" THEN "lost" ELSE ws[p].st
         /\ \A m \in handling' :
              \/ \E h \in handling : /\ m.proc = h.proc /\ m.kind = h.kind /\ m.token = h.token
                                     /\ m.alive => h.alive /\ ws[h.proc].st # "open"
              \/ /\ m.proc \in Cli /\ ws[m.proc].st = "adopting" /\ ws[m.proc].token = t
                 /\ m = Opening(m.proc)
<1> DEFINE mine   == {p \in Proc : ws[p] = [st |-> "adopting", token |-> t]}
           others == {q \in Proc : ws[q].st = "open"}
<1>1. \A p \in Proc : ws[p] \in Socket
  BY DEF Shapes
<1>2. \A p \in Proc : (p \in mine <=> ws[p].st = "adopting" /\ ws[p].token = t) /\ (p \in others <=> ws[p].st = "open")
  BY <1>1 DEF Socket
<1>3. /\ claim[t] # NoToken /\ claim' \in [Token -> Token \cup {NoToken}] /\ claim'[t] = NoToken
      /\ \A u \in Token \ {t} : claim'[u] = claim[u]
      /\ current' = t /\ row' \in [Token -> {"none", "live", "revoked"}]
      /\ \A u \in Token : row'[u] = IF u = claim[t] THEN "revoked" ELSE row[u]
  BY DEF FinishAdoption, Shapes
<1>4. /\ ws' = [p \in Proc |-> IF p \in mine THEN [ws[p] EXCEPT !.st = "open"] ELSE Evicted(others, ws)[p]]
      /\ \E heard \in SUBSET (mine \cap Cli) : handling' = Orphaned(others) \cup {Opening(c) : c \in heard}
  BY DEF FinishAdoption
<1>5. /\ Evicted(others, ws) \in [Proc -> Socket]
      /\ \A p \in Proc : /\ Evicted(others, ws)[p].token = ws[p].token
                         /\ Evicted(others, ws)[p].st = IF p \in others /\ ws[p].st # "none" THEN "lost" ELSE ws[p].st
  <2> HIDE DEF others
  <2> QED
    BY Evicts DEF Shapes
<1>6. PICK heard \in SUBSET (mine \cap Cli) : handling' = Orphaned(others) \cup {Opening(c) : c \in heard}
  BY <1>4
<1>7. \A c \in Cli : ws[c].token \in Token => Opening(c) \in Message
  BY DEF Opening, Message, Proc, Shapes, CliRec
<1> HIDE DEF mine, others
<1>8. ws' \in [Proc -> Socket]
  BY <1>1, <1>4, <1>5 DEF Socket
<1>9. \A p \in Proc : /\ ws'[p].token = ws[p].token
                      /\ ws'[p].st = IF ws[p].st = "adopting" /\ ws[p].token = t THEN "open"
                                     ELSE IF ws[p].st = "open" THEN "lost" ELSE ws[p].st
  BY <1>1, <1>2, <1>4, <1>5 DEF Socket
<1>10. Cli \subseteq Proc /\ \A h \in handling : h.proc \in Proc
  BY DEF Proc, Shapes, Message
<1>11. \A c \in heard : /\ c \in Cli /\ ws[c].st = "adopting" /\ ws[c].token = t /\ Opening(c) \in Message
                        /\ Opening(c).proc = c
  BY <1>2, <1>7, <1>10 DEF Opening
<1>12. handling' \subseteq Message
  BY <1>6, <1>11, Orphans
<1>13. \A m \in handling' :
         \/ \E h \in handling : /\ m.proc = h.proc /\ m.kind = h.kind /\ m.token = h.token
                                /\ m.alive => h.alive /\ ws[h.proc].st # "open"
         \/ /\ m.proc \in Cli /\ ws[m.proc].st = "adopting" /\ ws[m.proc].token = t
            /\ m = Opening(m.proc)
  <2> TAKE m \in handling'
  <2>1. CASE m \in Orphaned(others)
    <3>1. PICK h \in handling : /\ m.proc = h.proc /\ m.kind = h.kind /\ m.token = h.token
                                /\ m.alive = (h.alive /\ h.proc \notin others)
      BY <2>1, Orphans
    <3>2. m.alive => h.alive /\ ws[h.proc].st # "open"
      BY <1>2, <1>10, <3>1
    <3> QED
      BY <3>1, <3>2
  <2>2. CASE m \in {Opening(c) : c \in heard}
    BY <1>11, <2>2
  <2> QED
    BY <1>6, <2>1, <2>2
<1> QED
  BY <1>3, <1>8, <1>9, <1>12, <1>13

LEMMA NotUpShape == NotUp \in DaemonRec
BY ControlAssumption DEF NotUp, DaemonRec, ControlAssumption

LEMMA DaemonShapes ==
  ASSUME Shapes
  PROVE  /\ [daemon EXCEPT !.rot = "idle", !.asker = NoCli] \in DaemonRec
         /\ [daemon EXCEPT !.naming = NoCli] \in DaemonRec
         /\ [daemon EXCEPT !.rot = "awaiting"] \in DaemonRec
         /\ [daemon EXCEPT !.reachable = TRUE] \in DaemonRec
         /\ \A c \in Cli : /\ [daemon EXCEPT !.rot = "asked", !.asker = c] \in DaemonRec
                           /\ [daemon EXCEPT !.naming = c] \in DaemonRec
         /\ daemon.asker \in Cli \cup {NoCli} /\ daemon.naming \in Cli \cup {NoCli}
BY DEF Shapes, DaemonRec

LEMMA Processes == Daemon \in Proc /\ Daemon \notin Cli /\ Cli \subseteq Proc /\ NoCli \notin Cli /\ NoToken \notin Token
BY ControlAssumption DEF Proc, ControlAssumption

LEMMA YamlShapes ==
  ASSUME Shapes
  PROVE  /\ Confirmed \in Yaml /\ Confirmed.token = yaml.token /\ Confirmed.prev = NoToken
         /\ \A t \in Token : Rotated(t) \in Yaml /\ Rotated(t).token = t /\ Rotated(t).prev = yaml.token
         /\ yaml.token \in Token /\ yaml.prev \in Token \cup {NoToken}
BY DEF Shapes, Confirmed, Rotated, Yaml

LEMMA ShapesInit == ControlInit => Shapes
<1> SUFFICES ASSUME ControlInit PROVE Shapes
  OBVIOUS
<1>1. /\ daemon \in DaemonRec /\ yaml \in Yaml /\ current \in Token
  BY ControlAssumption, NotUpShape DEF ControlInit, ControlAssumption, Yaml
<1>2. /\ ws \in [Proc -> Socket] /\ inbox \in [Proc -> Seq(Reply)] /\ handling \subseteq Message
  BY NoReply DEF ControlInit, NoSocket, Socket
<1>3. PICK cmd \in [Cli -> {"rotate", "rename"}] :
        cli = [c \in Cli |-> [cmd |-> cmd[c], found |-> First, pc |-> "start"]]
  BY DEF ControlInit
<1>4. cli \in [Cli -> CliRec]
  BY <1>3, ControlAssumption DEF CliRec, Pc, ControlAssumption
<1> QED
  BY <1>1, <1>2, <1>4 DEF ControlInit, Shapes

\* The replies of the relay.
LEMMA Handles ==
  ASSUME Shapes, NEW m \in handling, HandleRotate(m) \/ HandleOther(m)
  PROVE  \E r \in Reply :
           /\ Answered(m, r)
           /\ \/ /\ UNCHANGED relay
                 /\ \/ m.kind = "rotate" /\ r.kind = "refused"
                    \/ m.kind = "rename" /\ r.kind \in {"named", "misnamed"}
                    \/ m.kind = "sync" /\ r.kind = "synced"
              \/ /\ m.kind = "rotate" /\ r.kind = "token" /\ r.token \in Token /\ row[r.token] = "none"
                 /\ ~recent /\ recent' = TRUE /\ UNCHANGED <<current, claim>>
                 /\ row' \in [Token -> {"none", "live", "revoked"}]
                 /\ pending' \in [Token -> Token \cup {NoToken}]
                 /\ row'[r.token] = "live" /\ pending'[r.token] = m.token
                 /\ \A u \in Token \ {r.token} :
                      /\ row'[u] = IF pending[u] # NoToken THEN "revoked" ELSE row[u]
                      /\ pending'[u] = NoToken
<1>1. m \in Message
  BY DEF Shapes
<1>2. CASE HandleOther(m)
  <2>1. CASE m.kind = "sync" /\ Answered(m, [kind |-> "synced"])
    BY <1>2, <2>1 DEF HandleOther, Reply
  <2>2. CASE m.kind = "rename" /\ \E k \in {"named", "misnamed"} : Answered(m, [kind |-> k])
    <3>1. PICK k \in {"named", "misnamed"} : Answered(m, [kind |-> k])
      BY <2>2
    <3>2. [kind |-> k] \in Reply
      BY DEF Reply
    <3> QED
      BY <1>2, <2>2, <3>1, <3>2 DEF HandleOther
  <2> QED
    BY <1>2, <2>1, <2>2 DEF HandleOther
<1>3. CASE HandleRotate(m) /\ recent
  BY <1>3 DEF HandleRotate, Reply
<1>4. CASE HandleRotate(m) /\ ~recent
  <2>1. PICK t \in Token :
          /\ row[t] = "none"
          /\ row' = [u \in Token |-> IF u = t THEN "live"
                                     ELSE IF u \in Cancelled THEN "revoked" ELSE row[u]]
          /\ pending' = [u \in Token |-> IF u = t THEN m.token ELSE NoToken]
          /\ Answered(m, [kind |-> "token", token |-> t])
    BY <1>4 DEF HandleRotate
  <2>2. [kind |-> "token", token |-> t] \in Reply
    BY DEF Reply
  <2>3. /\ m.kind = "rotate" /\ recent' = TRUE /\ UNCHANGED <<current, claim>>
    BY <1>4 DEF HandleRotate
  <2>4. m.token \in Token
    BY <1>1 DEF Message
  <2>5. /\ row' \in [Token -> {"none", "live", "revoked"}] /\ pending' \in [Token -> Token \cup {NoToken}]
        /\ row'[t] = "live" /\ pending'[t] = m.token
        /\ \A u \in Token \ {t} : /\ row'[u] = IF pending[u] # NoToken THEN "revoked" ELSE row[u]
                                  /\ pending'[u] = NoToken
    BY <2>1, <2>4 DEF Shapes, Cancelled
  <2> WITNESS [kind |-> "token", token |-> t] \in Reply
  <2> QED
    BY <1>4, <2>1, <2>3, <2>5
<1> QED
  BY <1>2, <1>3, <1>4

LEMMA ShapesNext == Shapes /\ Sockets /\ [ControlNext]_controlVars => Shapes'
<1> SUFFICES ASSUME Shapes, Sockets, [ControlNext]_controlVars PROVE Shapes'
  OBVIOUS
<1> USE Processes
<1>1. ASSUME NEW t \in Token, FinishAdoption(t) PROVE Shapes'
  <2>1. UNCHANGED <<pending, recent, inbox, yaml, daemon, cli, lapsed, stops>>
    BY <1>1 DEF FinishAdoption
  <2> QED
    BY <1>1, <2>1, Commits DEF Shapes
<1>2. ASSUME NEW t \in Token, RotationExpires(t) PROVE Shapes'
  BY <1>2 DEF RotationExpires, Shapes
<1>3. ASSUME NEW m \in handling, HandleRotate(m) \/ HandleOther(m) PROVE Shapes'
  <2>1. PICK r \in Reply :
          /\ Answered(m, r)
          /\ \/ UNCHANGED relay
             \/ /\ recent' = TRUE /\ UNCHANGED <<current, claim>>
                /\ row' \in [Token -> {"none", "live", "revoked"}]
                /\ pending' \in [Token -> Token \cup {NoToken}]
    BY <1>3, Handles
  <2>2. handling' \subseteq handling /\ inbox' \in [Proc -> Seq(Reply)]
    BY <2>1, Answers
  <2>3. UNCHANGED <<ws, yaml, daemon, cli, lapsed, stops>>
    BY <1>3 DEF HandleRotate, HandleOther
  <2> QED
    BY <2>1, <2>2, <2>3 DEF Shapes, relay
<1>4. ASSUME MinuteElapses PROVE Shapes'
  BY <1>4 DEF MinuteElapses, Shapes
<1>5. ASSUME DaemonStarts PROVE Shapes'
  <2>1. daemon' \in DaemonRec
    BY <1>5 DEF DaemonStarts, NotUp, DaemonRec
  <2> QED
    BY <1>5, <2>1 DEF DaemonStarts, Shapes, relay
<1>6. ASSUME DaemonListens PROVE Shapes'
  BY <1>6, DaemonShapes DEF DaemonListens, Shapes, relay
<1>7. ASSUME DaemonStops PROVE Shapes'
  <2>1. Gone(Daemon) /\ UNCHANGED <<relay, yaml, cli, lapsed>> /\ daemon' = NotUp
    BY <1>7 DEF DaemonStops, Gone
  <2>2. stops' \in Nat
    BY <1>7 DEF DaemonStops, Shapes
  <2>3. ws' \in [Proc -> Socket] /\ inbox' \in [Proc -> Seq(Reply)] /\ handling' \subseteq Message
    BY <2>1, Goes
  <2> QED
    BY <2>1, <2>2, <2>3, NotUpShape DEF Shapes, relay
<1>8. ASSUME DaemonConnects PROVE Shapes'
  <2>1. yaml.token \in Token /\ ConnectWith(Daemon, yaml.token, {})
    BY <1>8, YamlShapes DEF DaemonConnects
  <2>2. /\ UNCHANGED <<current, row, recent>> /\ pending' \in [Token -> Token \cup {NoToken}]
        /\ claim' \in [Token -> Token \cup {NoToken}]
        /\ ws' \in [Proc -> Socket] /\ handling' \subseteq Message
    BY <2>1, Connects
  <2>3. yaml' \in Yaml /\ daemon' \in DaemonRec /\ cli' \in [Cli -> CliRec]
    <3>1. CASE Confirms
      <4>1. /\ yaml' = Confirmed /\ cli' = Settled(daemon.asker, "done")
            /\ daemon' = [daemon EXCEPT !.rot = "idle", !.asker = NoCli]
        BY <1>8, <3>1 DEF DaemonConnects
      <4>2. "done" \in Pc
        BY DEF Pc, Ended
      <4> QED
        BY <4>1, <4>2, YamlShapes, DaemonShapes, Settles
    <3>2. CASE ~Confirms
      BY <1>8, <3>2 DEF DaemonConnects, Shapes
    <3> QED
      BY <3>1, <3>2
  <2>4. UNCHANGED <<inbox, lapsed, stops>>
    BY <1>8 DEF DaemonConnects
  <2> QED
    BY <2>2, <2>3, <2>4 DEF Shapes
<1>9. ASSUME DaemonLosesSocket PROVE Shapes'
  <2>1. Gone(Daemon) /\ UNCHANGED <<relay, yaml, daemon, cli, lapsed>>
    BY <1>9 DEF DaemonLosesSocket, Gone
  <2>2. stops' \in Nat
    BY <1>9 DEF DaemonLosesSocket, Shapes
  <2>3. ws' \in [Proc -> Socket] /\ inbox' \in [Proc -> Seq(Reply)] /\ handling' \subseteq Message
    BY <2>1, Goes
  <2> QED
    BY <2>1, <2>2, <2>3 DEF Shapes, relay
<1>10. ASSUME DaemonReceives PROVE Shapes'
  <2> DEFINE m == Head(inbox[Daemon])
  <2>1. /\ inbox[Daemon] \in Seq(Reply) /\ inbox[Daemon] # <<>> /\ UNCHANGED <<relay, lapsed, stops>>
    BY <1>10 DEF DaemonReceives, Shapes
  <2>2. m \in Reply /\ Tail(inbox[Daemon]) \in Seq(Reply)
    BY <2>1, TailReply
  <2>3. CASE m.kind = "token" /\ AwaitsToken
    <3>1. Gone(Daemon) /\ yaml' = Rotated(m.token) /\ daemon' = [daemon EXCEPT !.rot = "awaiting"]
          /\ UNCHANGED cli
      BY <1>10, <2>3 DEF DaemonReceives, Gone
    <3>2. m.token \in Token
      BY <2>2, <2>3, ReplyShapes DEF ReplyShape
    <3> QED
      BY <2>1, <3>1, <3>2, Goes, YamlShapes, DaemonShapes DEF Shapes, relay
  <2>4. CASE m.kind # "token" \/ ~AwaitsToken
    <3>1. /\ inbox' = [inbox EXCEPT ![Daemon] = Tail(inbox[Daemon])] /\ UNCHANGED <<yaml, ws, handling>>
          /\ \/ /\ cli' = Settled(daemon.asker, "failed")
                /\ daemon' = [daemon EXCEPT !.rot = "idle", !.asker = NoCli]
             \/ /\ cli' = Settled(daemon.naming, "done") \/ cli' = Settled(daemon.naming, "failed")
                /\ daemon' = [daemon EXCEPT !.naming = NoCli]
             \/ UNCHANGED <<cli, daemon>>
      BY <1>10, <2>4 DEF DaemonReceives
    <3>2. inbox' \in [Proc -> Seq(Reply)]
      BY <2>2, <3>1 DEF Shapes
    <3>3. "done" \in Pc /\ "failed" \in Pc
      BY DEF Pc, Ended
    <3>4. cli' \in [Cli -> CliRec] /\ daemon' \in DaemonRec
      <4> HIDE DEF m
      <4>1. \A c \in Cli \cup {NoCli} : Settled(c, "done") \in [Cli -> CliRec] /\ Settled(c, "failed") \in [Cli -> CliRec]
        BY <3>3, Settles
      <4>2. cli \in [Cli -> CliRec] /\ daemon \in DaemonRec
        BY DEF Shapes
      <4>3. cli' \in [Cli -> CliRec]
        <5>1. daemon.asker \in Cli \cup {NoCli} /\ daemon.naming \in Cli \cup {NoCli}
          BY DaemonShapes
        <5>2. \/ cli' = Settled(daemon.asker, "failed") \/ cli' = cli
              \/ cli' = Settled(daemon.naming, "done") \/ cli' = Settled(daemon.naming, "failed")
          BY <3>1
        <5> QED
          BY <4>1, <4>2, <5>1, <5>2
      <4>4. daemon' \in DaemonRec
        BY <3>1, <4>2, DaemonShapes
      <4> QED
        BY <4>3, <4>4
    <3> QED
      BY <2>1, <3>1, <3>2, <3>4 DEF Shapes, relay
  <2> QED
    BY <2>3, <2>4
<1>11. ASSUME RotationTimesOut \/ RenameTimesOut PROVE Shapes'
  <2>1. "failed" \in Pc
    BY DEF Pc, Ended
  <2>2. cli' \in [Cli -> CliRec] /\ daemon' \in DaemonRec
    <3>1. \A c \in Cli \cup {NoCli} : Settled(c, "failed") \in [Cli -> CliRec]
      BY <2>1, Settles
    <3> QED
      BY <1>11, <3>1, DaemonShapes DEF RotationTimesOut, RenameTimesOut
  <2>3. UNCHANGED <<relay, handling, ws, inbox, yaml, lapsed, stops>>
    BY <1>11 DEF RotationTimesOut, RenameTimesOut
  <2> QED
    BY <2>2, <2>3 DEF Shapes, relay
<1>12. ASSUME NEW c \in Cli, AskDaemon(c) PROVE Shapes'
  <2>1. "control" \in Pc /\ "failed" \in Pc
    BY DEF Pc, Ended
  <2>2. cli' \in [Cli -> CliRec]
    <3>1. cli' = Begins(c, "failed") \/ cli' = Begins(c, "control")
      BY <1>12 DEF AskDaemon, Begins
    <3> QED
      BY <2>1, <3>1, StartStep
  <2>3. daemon' \in DaemonRec
    BY <1>12, DaemonShapes DEF AskDaemon, Shapes
  <2>4. ws[Daemon].st = "open" =>
          [proc |-> Daemon, kind |-> cli[c].cmd, token |-> ws[Daemon].token, alive |-> TRUE] \in Message
    BY DEF Shapes, Sockets, CliRec, Message
  <2> QED
    BY <1>12, <2>2, <2>3, <2>4 DEF AskDaemon, Shapes, relay
<1>13. ASSUME NEW c \in Cli, NoDaemon(c) PROVE Shapes'
  <2>1. "direct" \in Pc
    BY DEF Pc
  <2> QED
    BY <1>13, <2>1, StartStep DEF Begins, NoDaemon, Shapes, relay
<1>14. ASSUME NEW c \in Cli, ControlTimesOut(c) PROVE Shapes'
  <2>1. "direct" \in Pc
    BY DEF Pc
  <2> QED
    BY <1>14, <2>1, PcStep DEF At, ControlTimesOut, Shapes, relay
<1>15. ASSUME NEW c \in Cli, Dial(c) \/ DialAgain(c) PROVE Shapes'
  <2>1. /\ "asked" \in Pc /\ "confirming" \in Pc /\ c \in Proc /\ yaml.token \in Token
        /\ cli[c].cmd \in {"rotate", "rename"}
    BY YamlShapes DEF Pc, Shapes, CliRec
  <2>2. \E k \in SUBSET {"rotate", "rename", "sync"} : ConnectWith(c, yaml.token, k)
    BY <1>15, <2>1 DEF Dial, DialAgain
  <2>3. /\ UNCHANGED <<current, row, recent>> /\ pending' \in [Token -> Token \cup {NoToken}]
        /\ claim' \in [Token -> Token \cup {NoToken}]
        /\ ws' \in [Proc -> Socket] /\ handling' \subseteq Message
    BY <2>1, <2>2, Connects
  <2>4. /\ cli' = At(c, "asked") \/ cli' = At(c, "confirming")
        /\ UNCHANGED <<inbox, yaml, daemon, lapsed, stops>>
    BY <1>15 DEF Dial, DialAgain, At
  <2>5. cli' \in [Cli -> CliRec]
    BY <2>1, <2>4, PcStep
  <2> QED
    BY <2>3, <2>4, <2>5 DEF Shapes
<1>16. ASSUME NEW c \in Cli, CommandFails(c) PROVE Shapes'
  <2>1. "failed" \in Pc /\ c \in Proc
    BY DEF Pc, Ended
  <2>2. Gone(c)
    BY <1>16 DEF CommandFails, HangUp, Gone
  <2> QED
    BY <1>16, <2>1, <2>2, Goes, PcStep DEF At, CommandFails, Shapes, relay
<1>17. ASSUME NEW c \in Cli, CommandReceives(c) PROVE Shapes'
  <2> DEFINE m == Head(inbox[c])
  <2>1. /\ {"confirm", "done", "failed"} \subseteq Pc /\ c \in Proc /\ inbox[c] \in Seq(Reply) /\ inbox[c] # <<>>
    BY <1>17 DEF Pc, Ended, CommandReceives, Shapes
  <2>2. Gone(c) /\ UNCHANGED <<relay, daemon, lapsed, stops>>
    BY <1>17 DEF CommandReceives, HangUp, Gone
  <2>3. m \in Reply /\ (m.kind = "token" => m.token \in Token)
    BY <2>1, TailReply, ReplyShapes DEF ReplyShape
  <2>4. \/ m.kind = "token" /\ yaml' = Rotated(m.token) /\ cli' = [cli EXCEPT ![c].pc = "confirm"]
        \/ yaml' = Confirmed /\ cli' = [cli EXCEPT ![c].pc = "done"]
        \/ UNCHANGED yaml /\ cli' = [cli EXCEPT ![c].pc = IF m.kind = "named" THEN "done" ELSE "failed"]
    BY <1>17 DEF CommandReceives
  <2> HIDE DEF m
  <2>5. cli' \in [Cli -> CliRec]
    <3>1. cli' = At(c, "confirm") \/ cli' = At(c, "done") \/ cli' = At(c, "failed")
      BY <2>4 DEF At
    <3> QED
      BY <2>1, <3>1, PcStep
  <2>6. yaml' \in Yaml
    BY <2>3, <2>4, YamlShapes DEF Shapes
  <2> QED
    BY <2>2, <2>1, <2>5, <2>6, Goes DEF Shapes, relay
<1>18. CASE UNCHANGED controlVars
  BY <1>18 DEF controlVars, relay, Shapes
<1> QED
  BY <1>1, <1>2, <1>3, <1>4, <1>5, <1>6, <1>7, <1>8, <1>9, <1>10, <1>11, <1>12, <1>13, <1>14, <1>15,
     <1>16, <1>17, <1>18 DEF ControlNext, Relay, DaemonSteps, Command, Waits

-----------------------------------------------------------------------------
(* CInv is inductive *)

LEMMA CInvInit == ControlInit => CInv
<1> SUFFICES ASSUME ControlInit PROVE CInv
  OBVIOUS
<1>1. Shapes
  BY ShapesInit
<1>2. PICK cmd \in [Cli -> {"rotate", "rename"}] :
        cli = [c \in Cli |-> [cmd |-> cmd[c], found |-> First, pc |-> "start"]]
  BY DEF ControlInit
<1>3. \A c \in Cli : cli[c].found = First /\ cli[c].pc = "start"
  BY <1>2
<1>4. \A p \in Proc : ws[p].st = "none" /\ inbox[p] = <<>> /\ Carried(p) = {} /\ KindsOf(inbox[p]) = {}
  BY NoReply DEF ControlInit, NoSocket, Carried
<1>5. Sockets /\ Adopters /\ Exchanges
  BY <1>3, <1>4, Processes DEF ControlInit, Sockets, Adopters, Exchanges, NotUp
<1>6. \A t \in Token : Over(t)
  BY DEF ControlInit, Over
<1>7. First \in Token
  BY ControlAssumption DEF ControlAssumption
<1>8. Known
  BY <1>3, <1>4, <1>6, <1>7 DEF ControlInit, Known
<1>9. Latest
  BY <1>4, <1>6, <1>7 DEF ControlInit, Latest, Over
<1>10. Progress
  BY <1>3 DEF ControlInit, Progress, Rotates, NotUp
<1> QED
  BY <1>1, <1>5, <1>8, <1>9, <1>10 DEF CInv

LEMMA RelaySame ==
  ASSUME UNCHANGED <<relay, inbox>>
  PROVE  /\ UNCHANGED <<current, row, pending, claim, recent>>
         /\ \A t : Over(t)' <=> Over(t)
         /\ \A p : Carried(p)' = Carried(p) /\ KindsOf(inbox[p])' = KindsOf(inbox[p])
BY DEF relay, Over, Carried

\* What the daemon's record becomes.
AskedBy(c)     == [daemon EXCEPT !.rot = "asked", !.asker = c]
Naming(c)      == [daemon EXCEPT !.naming = c]
Awaiting       == [daemon EXCEPT !.rot = "awaiting"]
RotationEnded  == [daemon EXCEPT !.rot = "idle", !.asker = NoCli]

LEMMA DaemonFields ==
  ASSUME Shapes
  PROVE  /\ \A c : /\ AskedBy(c).rot = "asked" /\ AskedBy(c).asker = c /\ AskedBy(c).naming = daemon.naming
                   /\ Naming(c).rot = daemon.rot /\ Naming(c).asker = daemon.asker /\ Naming(c).naming = c
         /\ RotationEnded.rot = "idle" /\ RotationEnded.asker = NoCli /\ RotationEnded.naming = daemon.naming
         /\ Awaiting.rot = "awaiting" /\ Awaiting.asker = daemon.asker /\ Awaiting.naming = daemon.naming
         /\ daemon.rot \in {"idle", "asked", "awaiting"}
BY DEF Shapes, DaemonRec, AskedBy, Naming, Awaiting, RotationEnded

LEMMA KeepsDaemonStarts == CInv /\ (DaemonStarts \/ DaemonListens) => CInv'
<1> SUFFICES ASSUME CInv, DaemonStarts \/ DaemonListens PROVE CInv'
  OBVIOUS
<1>1. Shapes'
  BY ShapesNext DEF CInv, ControlNext, DaemonSteps
<1>2. /\ UNCHANGED <<relay, handling, ws, inbox, yaml, cli>>
      /\ daemon'.rot = daemon.rot \/ daemon'.rot = "idle"
      /\ daemon'.asker = daemon.asker \/ daemon'.asker \notin Cli
      /\ daemon'.naming = daemon.naming \/ daemon'.naming \notin Cli
  <2>1. CASE DaemonStarts
    BY <2>1, Processes DEF DaemonStarts, NotUp
  <2>2. CASE DaemonListens
    BY <2>2 DEF DaemonListens, CInv, Shapes, DaemonRec
  <2> QED
    BY <2>1, <2>2
<1>3. Sockets' /\ Adopters' /\ Exchanges'
  BY <1>2 DEF CInv, Sockets, Adopters, Exchanges, relay
<1>4. Known' /\ Latest'
  BY <1>2 DEF CInv, Known, Latest, relay, Carried, Over
<1>5. Progress'
  BY <1>2 DEF CInv, Progress, relay, Carried, Over, Arrived, Behind, Rotates
<1> QED
  BY <1>1, <1>3, <1>4, <1>5 DEF CInv

LEMMA KeepsNoDaemon == \A c \in Cli : CInv /\ NoDaemon(c) => CInv'
<1> SUFFICES ASSUME NEW c \in Cli, CInv, NoDaemon(c) PROVE CInv'
  OBVIOUS
<1>0. Shapes /\ Sockets /\ Adopters /\ Exchanges /\ Known /\ Latest /\ Progress
  BY DEF CInv
<1>1. Shapes'
  BY ShapesNext DEF CInv, ControlNext, Command
<1>2. /\ UNCHANGED <<relay, handling, ws, inbox, yaml, daemon>>
      /\ cli' = Begins(c, "direct") /\ cli[c].pc = "start" /\ Shapes
  BY DEF NoDaemon, Begins, CInv
<1>3. "direct" \in Pc
  BY DEF Pc
<1>4. \A d \in Cli : /\ cli'[d].cmd = cli[d].cmd
                     /\ cli'[d].found = IF d = c THEN yaml.token ELSE cli[d].found
                     /\ cli'[d].pc = IF d = c THEN "direct" ELSE cli[d].pc
  BY <1>2, <1>3, StartStep
<1>5. Sockets'
  BY <1>0, RelaySame, <1>2, <1>4 DEF Sockets
<1>a. Adopters'
  BY <1>0, <1>2, RelaySame DEF Adopters
<1>6. Exchanges'
  BY <1>0, RelaySame, <1>2, <1>4 DEF Exchanges
<1>7. Known'
  BY <1>0, RelaySame, <1>2, <1>4 DEF Known
<1>8. Latest'
  BY <1>0, RelaySame, <1>2, <1>4 DEF Latest
<1>9. Progress'
  BY <1>0, RelaySame, <1>2, <1>4 DEF Progress, Arrived, Behind, Rotates
<1> QED
  BY <1>1, <1>a, <1>5, <1>6, <1>7, <1>8, <1>9 DEF CInv

LEMMA KeepsControlTimesOut == \A c \in Cli : CInv /\ ControlTimesOut(c) => CInv'
<1> SUFFICES ASSUME NEW c \in Cli, CInv, ControlTimesOut(c) PROVE CInv'
  OBVIOUS
<1>0. Shapes /\ Sockets /\ Adopters /\ Exchanges /\ Known /\ Latest /\ Progress
  BY DEF CInv
<1>1. Shapes'
  BY ShapesNext DEF CInv, ControlNext, Command, Waits
<1>2. /\ UNCHANGED <<relay, handling, ws, inbox, yaml, daemon>>
      /\ cli' = At(c, "direct") /\ cli[c].pc = "control" /\ Shapes
  BY DEF ControlTimesOut, GivesUp, At, CInv
<1>3. "direct" \in Pc
  BY DEF Pc
<1>4. \A d \in Cli : /\ cli'[d].cmd = cli[d].cmd /\ cli'[d].found = cli[d].found
                     /\ cli'[d].pc = IF d = c THEN "direct" ELSE cli[d].pc
  BY <1>2, <1>3, PcStep
<1>5. Sockets'
  BY <1>0, RelaySame, <1>2, <1>4 DEF Sockets
<1>a. Adopters'
  BY <1>0, <1>2, RelaySame DEF Adopters
<1>6. Exchanges'
  BY <1>0, RelaySame, <1>2, <1>4 DEF Exchanges
<1>7. Known'
  BY <1>0, RelaySame, <1>2, <1>4 DEF Known
<1>8. Latest'
  BY <1>0, RelaySame, <1>2, <1>4 DEF Latest
<1>9. Progress'
  BY <1>0, RelaySame, <1>2, <1>4 DEF Progress, Arrived, Behind, Rotates
<1> QED
  BY <1>1, <1>a, <1>5, <1>6, <1>7, <1>8, <1>9 DEF CInv

LEMMA KeepsAskDaemon == \A c \in Cli : CInv /\ AskDaemon(c) => CInv'
<1> SUFFICES ASSUME NEW c \in Cli, CInv, AskDaemon(c) PROVE CInv'
  OBVIOUS
<1> DEFINE sent == [proc |-> Daemon, kind |-> cli[c].cmd, token |-> ws[Daemon].token, alive |-> TRUE]
<1>0. Shapes /\ Sockets /\ Adopters /\ Exchanges /\ Known /\ Latest /\ Progress
  BY DEF CInv
<1>1. Shapes'
  BY ShapesNext DEF CInv, ControlNext, Command
<1>2. /\ UNCHANGED <<relay, ws, inbox, yaml>> /\ cli[c].pc = "start" /\ Shapes
      /\ \/ cli' = Begins(c, "failed") /\ UNCHANGED <<daemon, handling>>
         \/ /\ cli' = Begins(c, "control")
            /\ \/ /\ cli[c].cmd = "rotate" /\ daemon.rot = "idle"
                  /\ daemon' = AskedBy(c)
               \/ /\ cli[c].cmd # "rotate"
                  /\ daemon' = Naming(c)
            /\ \/ handling' = handling
               \/ handling' = handling \cup {sent} /\ ws[Daemon].st = "open"
  BY DEF AskDaemon, Begins, CInv, AskedBy, Naming
<1>3. "failed" \in Pc /\ "control" \in Pc
  BY DEF Pc, Ended
<1>4. \A d \in Cli : /\ cli'[d].cmd = cli[d].cmd
                     /\ cli'[d].found = IF d = c THEN yaml.token ELSE cli[d].found
                     /\ d # c => cli'[d].pc = cli[d].pc
                     /\ d = c => cli'[d].pc \in {"failed", "control"}
  BY <1>2, <1>3, StartStep
<1>5. /\ daemon'.rot = "awaiting" => daemon.rot = "awaiting" /\ daemon'.asker = daemon.asker
      /\ daemon'.asker = daemon.asker \/ (daemon'.asker = c /\ cli[c].cmd = "rotate")
      /\ daemon'.naming = daemon.naming \/ (daemon'.naming = c /\ cli[c].cmd = "rename")
      /\ daemon'.rot = "awaiting" => daemon'.asker # c
  <2>1. cli[c].cmd \in {"rotate", "rename"}
    BY <1>0 DEF Shapes, CliRec
  <2>2. daemon.asker # c
    BY <1>0, <1>2 DEF Exchanges
  <2>3. CASE UNCHANGED daemon
    BY <2>2, <2>3
  <2>4. CASE cli[c].cmd = "rotate" /\ daemon' = AskedBy(c)
    BY <1>0, <2>4, DaemonFields
  <2>5. CASE cli[c].cmd # "rotate" /\ daemon' = Naming(c)
    BY <1>0, <2>1, <2>2, <2>5, DaemonFields
  <2> QED
    BY <1>2, <2>3, <2>4, <2>5
<1>6. \A m \in handling' : m \in handling \/ /\ m.proc = Daemon /\ ws[m.proc].st = "open"
                                             /\ ws[m.proc].token = m.token
  BY <1>2
<1> HIDE DEF sent
<1>7. Sockets'
  BY <1>0, RelaySame, <1>2, <1>4 DEF Sockets
<1>a. Adopters'
  BY <1>0, <1>2, RelaySame DEF Adopters
<1>8. Exchanges'
  BY <1>0, RelaySame, <1>2, <1>4, <1>5, <1>6, Processes DEF Exchanges
<1>9. Known'
  BY <1>0, RelaySame, <1>2, <1>4 DEF Known
<1>10. Latest'
  BY <1>0, RelaySame, <1>2, <1>4 DEF Latest
<1>11. Progress'
  BY <1>0, RelaySame, <1>2, <1>4, <1>5 DEF Progress, Arrived, Behind, Rotates
<1> QED
  BY <1>1, <1>a, <1>7, <1>8, <1>9, <1>10, <1>11 DEF CInv

LEMMA KeepsTimeOuts == CInv /\ (RotationTimesOut \/ RenameTimesOut) => CInv'
<1> SUFFICES ASSUME CInv, RotationTimesOut \/ RenameTimesOut PROVE CInv'
  OBVIOUS
<1>0. Shapes /\ Sockets /\ Adopters /\ Exchanges /\ Known /\ Latest /\ Progress
  BY DEF CInv
<1>1. Shapes'
  BY ShapesNext DEF CInv, ControlNext, DaemonSteps
<1>2. /\ UNCHANGED <<relay, handling, ws, inbox, yaml>> /\ Shapes
      /\ \/ /\ cli' = Settled(daemon.asker, "failed")
            /\ daemon' = RotationEnded
         \/ /\ cli' = Settled(daemon.naming, "failed")
            /\ daemon' = Naming(NoCli)
  BY DEF RotationTimesOut, RenameTimesOut, CInv, RotationEnded, Naming
<1>3. "failed" \in Pc /\ daemon.asker \in Cli \cup {NoCli} /\ daemon.naming \in Cli \cup {NoCli}
  BY <1>2, DaemonShapes DEF Pc, Ended
<1>4. \A d \in Cli : /\ cli'[d].cmd = cli[d].cmd /\ cli'[d].found = cli[d].found
                     /\ cli'[d].pc = cli[d].pc \/ (cli[d].pc = "control" /\ cli'[d].pc = "failed")
  <2>1. CASE cli' = Settled(daemon.asker, "failed")
    BY <1>2, <1>3, <2>1, Settles
  <2>2. CASE cli' = Settled(daemon.naming, "failed")
    BY <1>2, <1>3, <2>2, Settles
  <2> QED
    BY <1>2, <2>1, <2>2
<1>5. /\ \/ daemon'.rot = daemon.rot /\ daemon'.asker = daemon.asker
         \/ daemon'.rot = "idle" /\ daemon'.asker \notin Cli
      /\ daemon'.naming = daemon.naming \/ daemon'.naming \notin Cli
  BY <1>0, <1>2, Processes, DaemonFields
<1>6. Sockets'
  BY <1>0, RelaySame, <1>2, <1>4 DEF Sockets
<1>a. Adopters'
  BY <1>0, <1>2, RelaySame DEF Adopters
<1>7. Exchanges'
  BY <1>0, RelaySame, <1>2, <1>4, <1>5 DEF Exchanges
<1>8. Known'
  BY <1>0, RelaySame, <1>2, <1>4 DEF Known
<1>9. Latest'
  BY <1>0, RelaySame, <1>2, <1>4 DEF Latest
<1>10. Progress'
  BY <1>0, RelaySame, <1>2, <1>4, <1>5 DEF Progress, Arrived, Behind, Rotates
<1> QED
  BY <1>1, <1>a, <1>6, <1>7, <1>8, <1>9, <1>10 DEF CInv

LEMMA GoneFrame ==
  ASSUME Shapes, NEW p \in Proc, Gone(p)
  PROVE  /\ Carried(p)' = {} /\ KindsOf(inbox[p])' = {} /\ inbox'[p] = <<>>
         /\ \A q \in Proc \ {p} : Carried(q)' = Carried(q) /\ KindsOf(inbox[q])' = KindsOf(inbox[q])
         /\ \A q \in Proc : Carried(q)' = {} \/ Carried(q)' = Carried(q)
<1>1. inbox'[p] = <<>> /\ \A q \in Proc \ {p} : inbox'[q] = inbox[q]
  BY Goes
<1> QED
  BY <1>1, NoReply DEF Carried

LEMMA RelayKept ==
  ASSUME UNCHANGED relay
  PROVE  UNCHANGED <<current, row, pending, claim, recent>> /\ \A t : Over(t)' <=> Over(t)
BY DEF relay, Over

\* The messages that are left, when those of p have lost their socket.
LEMMA MessagesLeft ==
  ASSUME CInv, Shapes', NEW p \in Proc, \A q \in Proc \ {p} : ws'[q] = ws[q],
         \A m \in handling' :
           \E h \in handling : /\ m.proc = h.proc /\ m.kind = h.kind /\ m.token = h.token
                               /\ m.alive => h.alive /\ h.proc # p
  PROVE  \A m \in handling' :
           /\ m.proc \in Cli => m.kind \in {cli[m.proc].cmd} \cup (IF cli[m.proc].cmd = "rotate" THEN {"sync"} ELSE {})
           /\ m.alive => /\ m.proc # p /\ ws'[m.proc].st = "open" /\ ws'[m.proc].token = m.token
                         /\ m.proc \in Cli => cli[m.proc].pc = (IF m.kind = "sync" THEN "confirming" ELSE "asked")
<1> SUFFICES ASSUME NEW m \in handling'
             PROVE  /\ m.proc \in Cli => m.kind \in {cli[m.proc].cmd} \cup (IF cli[m.proc].cmd = "rotate" THEN {"sync"} ELSE {})
                    /\ m.alive => /\ m.proc # p /\ ws'[m.proc].st = "open" /\ ws'[m.proc].token = m.token
                                  /\ m.proc \in Cli => cli[m.proc].pc = (IF m.kind = "sync" THEN "confirming" ELSE "asked")
  OBVIOUS
<1>1. PICK h \in handling : /\ m.proc = h.proc /\ m.kind = h.kind /\ m.token = h.token
                            /\ m.alive => h.alive /\ h.proc # p
  OBVIOUS
<1>2. m.proc \in Proc
  BY DEF Shapes, Message
<1> QED
  BY <1>1, <1>2 DEF CInv, Exchanges

LEMMA KeepsDaemonStops == CInv /\ (DaemonStops \/ DaemonLosesSocket) => CInv'
<1> SUFFICES ASSUME CInv, DaemonStops \/ DaemonLosesSocket PROVE CInv'
  OBVIOUS
<1>0. Shapes /\ Sockets /\ Adopters /\ Exchanges /\ Known /\ Latest /\ Progress
  BY DEF CInv
<1>1. Shapes'
  BY ShapesNext DEF CInv, ControlNext, DaemonSteps
<1>2. /\ Gone(Daemon) /\ UNCHANGED <<yaml, cli>> /\ UNCHANGED relay
      /\ UNCHANGED daemon \/ daemon' = NotUp
  BY DEF DaemonStops, DaemonLosesSocket, Gone
<1>3. UNCHANGED daemon \/ (daemon'.rot = "idle" /\ daemon'.asker \notin Cli /\ daemon'.naming \notin Cli)
  BY <1>2, Processes DEF NotUp
<1>4. /\ ws'[Daemon].st = "none" /\ \A q \in Proc \ {Daemon} : ws'[q] = ws[q] /\ inbox'[q] = inbox[q]
      /\ \A m \in handling' :
           \E h \in handling : /\ m.proc = h.proc /\ m.kind = h.kind /\ m.token = h.token
                               /\ m.alive => h.alive /\ h.proc # Daemon
  BY <1>0, <1>2, Processes, Goes
<1>5. \A c \in Cli : c \in Proc /\ c # Daemon
  BY Processes
<1>6. Sockets'
  BY <1>0, <1>2, <1>4, <1>5, GoneFrame, Processes DEF Sockets
<1>a. Adopters'
  <2>1. \A p \in Proc : ws'[p].st = "adopting" => ws'[p] = ws[p]
    BY <1>4
  <2> QED
    BY <1>0, <1>2, <2>1, RelayKept DEF Adopters
<1>7. Exchanges'
  <2>1. \A m \in handling' :
           /\ m.proc \in Cli => m.kind \in {cli[m.proc].cmd} \cup (IF cli[m.proc].cmd = "rotate" THEN {"sync"} ELSE {})
           /\ m.alive => /\ m.proc # Daemon /\ ws'[m.proc].st = "open" /\ ws'[m.proc].token = m.token
                         /\ m.proc \in Cli => cli[m.proc].pc = (IF m.kind = "sync" THEN "confirming" ELSE "asked")
    BY <1>1, <1>4, Processes, MessagesLeft
  <2>2. \A d \in Cli : KindsOf(inbox[d])' \subseteq KindsOf(inbox[d])
    BY <1>0, <1>2, <1>5, GoneFrame, Processes
  <2> QED
    BY <1>0, <1>2, <1>3, <2>1, <2>2 DEF Exchanges
<1>8. Known'
  BY <1>0, <1>2, <1>4, GoneFrame, RelayKept, Processes DEF Known
<1>9. Latest'
  BY <1>0, <1>2, GoneFrame, RelayKept, Processes DEF Latest
<1>10. Progress'
  BY <1>0, <1>2, <1>3, <1>4, <1>5, GoneFrame, RelayKept, Processes DEF Progress, Arrived, Behind, Rotates
<1> QED
  BY <1>1, <1>a, <1>6, <1>7, <1>8, <1>9, <1>10 DEF CInv

LEMMA KeepsCommandFails == \A c \in Cli : CInv /\ CommandFails(c) => CInv'
<1> SUFFICES ASSUME NEW c \in Cli, CInv, CommandFails(c) PROVE CInv'
  OBVIOUS
<1>0. Shapes /\ Sockets /\ Adopters /\ Exchanges /\ Known /\ Latest /\ Progress
  BY DEF CInv
<1>1. Shapes'
  BY ShapesNext DEF CInv, ControlNext, Command, Waits
<1>2. /\ Gone(c) /\ UNCHANGED <<yaml, daemon>> /\ UNCHANGED relay /\ cli' = At(c, "failed")
      /\ cli[c].pc \in {"direct", "confirm", "asked", "confirming"}
  BY DEF CommandFails, HangUp, Gone, At
<1>3. "failed" \in Pc /\ c \in Proc
  BY Processes DEF Pc, Ended
<1>4. \A d \in Cli : /\ cli'[d].cmd = cli[d].cmd /\ cli'[d].found = cli[d].found
                     /\ cli'[d].pc = IF d = c THEN "failed" ELSE cli[d].pc
  BY <1>0, <1>2, <1>3, PcStep
<1>5. /\ ws'[c].st = "none" /\ \A q \in Proc \ {c} : ws'[q] = ws[q] /\ inbox'[q] = inbox[q]
      /\ \A m \in handling' :
           \E h \in handling : /\ m.proc = h.proc /\ m.kind = h.kind /\ m.token = h.token
                               /\ m.alive => h.alive /\ h.proc # c
  BY <1>0, <1>2, <1>3, Goes
<1>6. Sockets'
  BY <1>0, <1>2, <1>3, <1>4, <1>5, GoneFrame, Processes DEF Sockets
<1>a. Adopters'
  <2>1. \A p \in Proc : ws'[p].st = "adopting" => ws'[p] = ws[p]
    BY <1>5
  <2> QED
    BY <1>0, <1>2, <2>1, RelayKept DEF Adopters
<1>7. Exchanges'
  <2>1. \A m \in handling' :
           /\ m.proc \in Cli => m.kind \in {cli[m.proc].cmd} \cup (IF cli[m.proc].cmd = "rotate" THEN {"sync"} ELSE {})
           /\ m.alive => /\ m.proc # c /\ ws'[m.proc].st = "open" /\ ws'[m.proc].token = m.token
                         /\ m.proc \in Cli => cli[m.proc].pc = (IF m.kind = "sync" THEN "confirming" ELSE "asked")
    BY <1>1, <1>3, <1>5, MessagesLeft
  <2>2. \A d \in Cli : KindsOf(inbox[d])' \subseteq KindsOf(inbox[d])
    BY <1>0, <1>2, <1>3, GoneFrame, Processes
  <2> QED
    BY <1>0, <1>2, <1>4, <2>1, <2>2 DEF Exchanges
<1>8. Known'
  BY <1>0, <1>2, <1>3, <1>4, <1>5, GoneFrame, RelayKept, Processes DEF Known
<1>9. Latest'
  BY <1>0, <1>2, <1>3, <1>4, GoneFrame, RelayKept, Processes DEF Latest
<1>10. Progress'
  BY <1>0, <1>2, <1>3, <1>4, <1>5, GoneFrame, RelayKept, Processes DEF Progress, Arrived, Behind, Rotates
<1> QED
  BY <1>1, <1>a, <1>6, <1>7, <1>8, <1>9, <1>10 DEF CInv

\* What c waits for, and has received, when it is to take it.
LEMMA KeepsCommandReceives == \A c \in Cli : CInv /\ CommandReceives(c) => CInv'
<1> SUFFICES ASSUME NEW c \in Cli, CInv, CommandReceives(c) PROVE CInv'
  OBVIOUS
<1> DEFINE m == Head(inbox[c])
<1>0. Shapes /\ Sockets /\ Adopters /\ Exchanges /\ Known /\ Latest /\ Progress
  BY DEF CInv
<1>1. Shapes'
  BY ShapesNext, <1>0 DEF ControlNext, Command
<1>2. /\ Gone(c) /\ UNCHANGED daemon /\ UNCHANGED relay /\ cli[c].pc \in {"asked", "confirming"}
      /\ \/ cli[c].pc = "asked" /\ m.kind = "token" /\ yaml' = Rotated(m.token) /\ cli' = At(c, "confirm")
         \/ cli[c].pc = "confirming" /\ yaml' = Confirmed /\ cli' = At(c, "done")
         \/ UNCHANGED yaml /\ (cli' = At(c, "done") \/ cli' = At(c, "failed"))
  BY DEF CommandReceives, HangUp, Gone, At
<1>3. {"confirm", "done", "failed"} \subseteq Pc /\ c \in Proc
  BY Processes DEF Pc, Ended
<1>4. /\ inbox[c] \in Seq(Reply) /\ inbox[c] # <<>>
      /\ m.kind \in KindsOf(inbox[c]) /\ (m.kind = "token" => m.token \in Carried(c) /\ m.token \in Token)
  <2>1. inbox[c] \in Seq(Reply) /\ inbox[c] # <<>>
    BY <1>0, <1>3 DEF Shapes, CommandReceives
  <2> QED
    BY <2>1, TailReply, ReplyShapes DEF ReplyShape, Carried
<1> HIDE DEF m
<1>5. /\ ws'[c].st = "none" /\ \A q \in Proc \ {c} : ws'[q] = ws[q] /\ inbox'[q] = inbox[q]
      /\ \A x \in handling' :
           \E h \in handling : /\ x.proc = h.proc /\ x.kind = h.kind /\ x.token = h.token
                               /\ x.alive => h.alive /\ h.proc # c
  BY <1>0, <1>2, <1>3, Goes
<1>6. /\ \A d \in Cli : /\ cli'[d].cmd = cli[d].cmd /\ cli'[d].found = cli[d].found
                        /\ d # c => cli'[d].pc = cli[d].pc
      /\ \/ cli[c].pc = "asked" /\ m.kind = "token" /\ yaml' = Rotated(m.token) /\ cli'[c].pc = "confirm"
         \/ cli[c].pc = "confirming" /\ yaml' = Confirmed /\ cli'[c].pc \in {"done", "failed"}
         \/ UNCHANGED yaml /\ cli'[c].pc \in {"done", "failed"}
  <2>1. CASE cli' = At(c, "confirm")
    BY <1>0, <1>2, <1>3, <2>1, PcStep
  <2>2. CASE cli' = At(c, "done")
    BY <1>0, <1>2, <1>3, <2>2, PcStep
  <2>3. CASE cli' = At(c, "failed")
    BY <1>0, <1>2, <1>3, <2>3, PcStep
  <2> QED
    BY <1>2, <2>1, <2>2, <2>3
<1>7. m.kind = "token" => cli[c].cmd = "rotate"
  BY <1>0, <1>4 DEF Exchanges, Kinds
<1>8. Sockets'
  BY <1>0, <1>2, <1>3, <1>5, <1>6, GoneFrame, Processes DEF Sockets
<1>9. Adopters'
  <2>1. \A p \in Proc : ws'[p].st = "adopting" => ws'[p] = ws[p]
    BY <1>5
  <2> QED
    BY <1>0, <1>2, <2>1, RelayKept DEF Adopters
<1>10. Exchanges'
  <2>1. \A x \in handling' :
           /\ x.proc \in Cli => x.kind \in {cli[x.proc].cmd} \cup (IF cli[x.proc].cmd = "rotate" THEN {"sync"} ELSE {})
           /\ x.alive => /\ x.proc # c /\ ws'[x.proc].st = "open" /\ ws'[x.proc].token = x.token
                         /\ x.proc \in Cli => cli[x.proc].pc = (IF x.kind = "sync" THEN "confirming" ELSE "asked")
    BY <1>1, <1>3, <1>5, MessagesLeft
  <2>2. \A d \in Cli : KindsOf(inbox[d])' \subseteq KindsOf(inbox[d])
    BY <1>0, <1>2, <1>3, GoneFrame, Processes
  <2>3. cli'[c].pc # "start"
    BY <1>6
  <2>4. \A d \in Cli : cli'[d].pc \in {"confirm", "confirming"} => cli'[d].cmd = "rotate"
    BY <1>0, <1>6, <1>7 DEF Exchanges
  <2> QED
    BY <1>0, <1>2, <1>6, <2>1, <2>2, <2>3, <2>4 DEF Exchanges
<1>11. /\ yaml.token \in Token /\ yaml.prev \in Token \cup {NoToken}
       /\ \/ m.kind = "token" /\ yaml'.token = m.token /\ yaml'.prev = yaml.token
          \/ yaml'.token = yaml.token /\ yaml'.prev \in {yaml.prev, NoToken}
  BY <1>0, <1>4, <1>6, YamlShapes
<1>12. Known'
  BY <1>0, <1>2, <1>3, <1>4, <1>5, <1>6, <1>11, GoneFrame, RelayKept, Processes DEF Known
<1>13. m.kind = "token" => \A p \in Proc : Carried(p)' = {}
  BY <1>0, <1>2, <1>3, <1>4, GoneFrame DEF Latest
<1>14. Latest'
  BY <1>0, <1>2, <1>3, <1>6, <1>11, <1>13, GoneFrame, RelayKept, Processes DEF Latest, Known
<1>15. Progress'
  <2>1. CASE yaml'.token = yaml.token /\ cli'[c].pc # "confirm"
    BY <1>0, <1>2, <1>3, <1>5, <1>6, <2>1, GoneFrame, RelayKept, Processes DEF Progress, Arrived, Behind, Rotates
  <2>2. CASE cli[c].pc = "asked" /\ m.kind = "token" /\ yaml'.token = m.token /\ cli'[c].pc = "confirm"
    <3>1. ~Arrived
      BY <1>3, <1>4, <2>2 DEF Arrived
    <3>2. /\ \A u \in Token : pending[u] # NoToken => u = m.token
          /\ \A d \in Cli : cli[d].found # m.token
          /\ recent
      BY <1>0, <1>3, <1>4, <2>2 DEF Latest
    <3>3. Arrived'
      BY <1>2, <1>13, <2>2, <3>2, RelayKept DEF Arrived
    <3>4. Over(cli[c].found)
      BY <1>0, <1>4, <1>7, <2>2 DEF Progress, Rotates
    <3>5. \A d \in Cli : Behind(d) /\ Behind(d)'
      BY <1>0, <1>2, <1>6, <3>2, RelayKept DEF Behind, Shapes, CliRec
    <3>6. daemon.rot # "awaiting" /\ \A d \in Cli : ~Rotates(d, {"confirm", "confirming"})
      BY <1>0, <3>1 DEF Progress
    <3> QED
      BY <1>0, <1>2, <1>3, <1>5, <1>6, <2>2, <3>2, <3>3, <3>4, <3>5, <3>6, GoneFrame, RelayKept, Processes
         DEF Progress, Rotates
  <2> QED
    BY <1>6, <1>11, <2>1, <2>2, YamlShapes, <1>4, <1>0
<1> QED
  BY <1>1, <1>8, <1>9, <1>10, <1>12, <1>14, <1>15 DEF CInv

\* A new token for the daemon's own rotation.
LEMMA KeepsTokenReceived ==
  CInv /\ DaemonReceives /\ Head(inbox[Daemon]).kind = "token" /\ AwaitsToken => CInv'
<1> DEFINE m == Head(inbox[Daemon])
<1> SUFFICES ASSUME CInv, DaemonReceives, m.kind = "token", AwaitsToken PROVE CInv'
  OBVIOUS
<1>0. Shapes /\ Sockets /\ Adopters /\ Exchanges /\ Known /\ Latest /\ Progress
  BY DEF CInv
<1>1. Shapes'
  BY ShapesNext, <1>0 DEF ControlNext, DaemonSteps
<1>2. /\ Gone(Daemon) /\ UNCHANGED cli /\ UNCHANGED relay /\ inbox[Daemon] # <<>>
      /\ yaml' = Rotated(m.token) /\ daemon' = Awaiting
  BY DEF DaemonReceives, Gone, Awaiting
<1>3. m.token \in Carried(Daemon) /\ m.token \in Token
  <2>1. inbox[Daemon] \in Seq(Reply)
    BY <1>0, Processes DEF Shapes
  <2> QED
    BY <1>2, <2>1, TailReply, ReplyShapes DEF ReplyShape, Carried
<1> HIDE DEF m
<1>4. /\ ws'[Daemon].st = "none" /\ \A q \in Proc \ {Daemon} : ws'[q] = ws[q] /\ inbox'[q] = inbox[q]
      /\ \A x \in handling' :
           \E h \in handling : /\ x.proc = h.proc /\ x.kind = h.kind /\ x.token = h.token
                               /\ x.alive => h.alive /\ h.proc # Daemon
  BY <1>0, <1>2, Processes, Goes
<1>5. \A c \in Cli : c \in Proc /\ c # Daemon
  BY Processes
<1>6. daemon'.asker = daemon.asker /\ daemon'.naming = daemon.naming
  BY <1>0, <1>2, DaemonFields
<1>7. yaml'.token = m.token /\ yaml'.prev = yaml.token
  BY <1>0, <1>2, <1>3, YamlShapes
<1>8. Sockets'
  BY <1>0, <1>2, <1>4, <1>5, GoneFrame, Processes DEF Sockets
<1>9. Adopters'
  <2>1. \A p \in Proc : ws'[p].st = "adopting" => ws'[p] = ws[p]
    BY <1>4
  <2> QED
    BY <1>0, <1>2, <2>1, RelayKept DEF Adopters
<1>10. Exchanges'
  <2>1. \A x \in handling' :
           /\ x.proc \in Cli => x.kind \in {cli[x.proc].cmd} \cup (IF cli[x.proc].cmd = "rotate" THEN {"sync"} ELSE {})
           /\ x.alive => /\ x.proc # Daemon /\ ws'[x.proc].st = "open" /\ ws'[x.proc].token = x.token
                         /\ x.proc \in Cli => cli[x.proc].pc = (IF x.kind = "sync" THEN "confirming" ELSE "asked")
    BY <1>1, <1>4, Processes, MessagesLeft
  <2>2. \A d \in Cli : KindsOf(inbox[d])' \subseteq KindsOf(inbox[d])
    BY <1>0, <1>2, <1>5, GoneFrame, Processes
  <2> QED
    BY <1>0, <1>2, <1>6, <2>1, <2>2 DEF Exchanges
<1>11. Known'
  BY <1>0, <1>2, <1>3, <1>4, <1>7, GoneFrame, RelayKept, Processes DEF Known
<1>12. \A p \in Proc : Carried(p)' = {}
  BY <1>0, <1>2, <1>3, GoneFrame, Processes DEF Latest
<1>13. Latest'
  BY <1>0, <1>2, <1>12, RelayKept DEF Latest
<1>14. Progress'
  <2>1. ~Arrived
    BY <1>3, Processes DEF Arrived
  <2>2. /\ \A u \in Token : pending[u] # NoToken => u = m.token
        /\ \A d \in Cli : cli[d].found # m.token
        /\ recent
    BY <1>0, <1>3, Processes DEF Latest
  <2>3. Arrived'
    BY <1>2, <1>7, <1>12, <2>2, RelayKept DEF Arrived
  <2>4. \A d \in Cli : Behind(d) /\ Behind(d)'
    BY <1>0, <1>2, <2>2, RelayKept DEF Behind, Shapes, CliRec
  <2>5. \A d \in Cli : ~Rotates(d, {"confirm", "confirming"})
    BY <1>0, <2>1 DEF Progress
  <2> QED
    BY <1>0, <1>2, <1>4, <1>5, <1>6, <1>7, <2>2, <2>3, <2>4, <2>5, GoneFrame, RelayKept, Processes
       DEF Progress, Rotates
<1> QED
  BY <1>1, <1>8, <1>9, <1>10, <1>11, <1>13, <1>14 DEF CInv

\* Any other reply is taken off the inbox.
LEMMA KeepsReceived ==
  CInv /\ DaemonReceives /\ ~(Head(inbox[Daemon]).kind = "token" /\ AwaitsToken) => CInv'
<1> DEFINE m == Head(inbox[Daemon])
<1> SUFFICES ASSUME CInv, DaemonReceives, ~(m.kind = "token" /\ AwaitsToken) PROVE CInv'
  OBVIOUS
<1>0. Shapes /\ Sockets /\ Adopters /\ Exchanges /\ Known /\ Latest /\ Progress
  BY DEF CInv
<1>1. Shapes'
  BY ShapesNext, <1>0 DEF ControlNext, DaemonSteps
<1>2. /\ UNCHANGED <<yaml, ws, handling>> /\ UNCHANGED relay /\ inbox[Daemon] # <<>>
      /\ inbox' = [inbox EXCEPT ![Daemon] = Tail(inbox[Daemon])]
      /\ \/ cli' = Settled(daemon.asker, "failed") /\ daemon' = RotationEnded
         \/ /\ cli' = Settled(daemon.naming, "done") \/ cli' = Settled(daemon.naming, "failed")
            /\ daemon' = Naming(NoCli)
         \/ UNCHANGED <<cli, daemon>>
  BY DEF DaemonReceives, RotationEnded, Naming
<1>3. /\ inbox[Daemon] \in Seq(Reply)
      /\ inbox'[Daemon] = Tail(inbox[Daemon]) /\ \A q \in Proc \ {Daemon} : inbox'[q] = inbox[q]
  BY <1>0, <1>2, Processes DEF Shapes
<1>4. /\ \A q \in Proc \ {Daemon} : Carried(q)' = Carried(q) /\ KindsOf(inbox[q])' = KindsOf(inbox[q])
      /\ \A q \in Proc : Carried(q)' \subseteq Carried(q)
  BY <1>2, <1>3, TailReply DEF Carried
<1>5. {"done", "failed"} \subseteq Pc /\ daemon.asker \in Cli \cup {NoCli} /\ daemon.naming \in Cli \cup {NoCli}
  BY <1>0, DaemonShapes DEF Pc, Ended
<1>6. \A d \in Cli : /\ cli'[d].cmd = cli[d].cmd /\ cli'[d].found = cli[d].found
                     /\ cli'[d].pc = cli[d].pc \/ (cli[d].pc = "control" /\ cli'[d].pc \in {"done", "failed"})
  <2>1. \A a \in Cli \cup {NoCli}, pc \in {"done", "failed"} : \A d \in Cli :
          /\ Settled(a, pc)[d].cmd = cli[d].cmd /\ Settled(a, pc)[d].found = cli[d].found
          /\ Settled(a, pc)[d].pc = IF d = a /\ cli[d].pc = "control" THEN pc ELSE cli[d].pc
    BY <1>0, <1>5, Settles
  <2>2. \/ cli' = cli
        \/ \E a \in Cli \cup {NoCli}, pc \in {"done", "failed"} : cli' = Settled(a, pc)
    BY <1>2, <1>5
  <2>3. CASE \E a \in Cli \cup {NoCli}, pc \in {"done", "failed"} : cli' = Settled(a, pc)
    BY <2>1, <2>3
  <2> QED
    BY <2>2, <2>3
<1>7. /\ \/ daemon'.rot = daemon.rot /\ daemon'.asker = daemon.asker
         \/ daemon'.rot = "idle" /\ daemon'.asker \notin Cli
      /\ daemon'.naming = daemon.naming \/ daemon'.naming \notin Cli
  BY <1>0, <1>2, Processes, DaemonFields
<1>8. \A c \in Cli : c \in Proc \ {Daemon}
  BY Processes
<1>9. Sockets'
  BY <1>0, <1>2, <1>3, <1>6, Processes DEF Sockets
<1>10. Adopters'
  BY <1>0, <1>2, RelayKept DEF Adopters
<1>11. Exchanges'
  <2>1. \A d \in Cli : KindsOf(inbox[d])' = KindsOf(inbox[d])
    BY <1>4, <1>8
  <2>2. \A d \in Cli : cli'[d].pc = cli[d].pc \/ cli'[d].pc \notin {"start", "confirm", "confirming", "asked"}
    BY <1>6
  <2>3. \A x \in handling : x.proc \in Cli /\ x.alive => cli'[x.proc].pc = cli[x.proc].pc
    BY <1>0, <1>6 DEF Exchanges
  <2>4. \A c \in Cli : /\ cli'[c].pc \in {"confirm", "confirming"} => cli'[c].cmd = "rotate"
                       /\ KindsOf(inbox[c])' \subseteq Kinds(cli'[c].cmd)
    BY <1>0, <1>6, <2>1, <2>2 DEF Exchanges
  <2>5. /\ daemon'.asker \in Cli => cli'[daemon'.asker].cmd = "rotate" /\ cli'[daemon'.asker].pc # "start"
        /\ daemon'.naming \in Cli => cli'[daemon'.naming].cmd = "rename"
    <3>1. /\ daemon'.asker \in Cli => daemon.asker = daemon'.asker
          /\ daemon'.naming \in Cli => daemon.naming = daemon'.naming
      BY <1>7
    <3>2. \A d \in Cli : cli'[d].cmd = cli[d].cmd /\ (cli'[d].pc = "start" => cli[d].pc = "start")
      BY <1>6
    <3> QED
      BY <1>0, <3>1, <3>2 DEF Exchanges
  <2>6. \A x \in handling :
          /\ x.proc \in Cli => cli'[x.proc].cmd = cli[x.proc].cmd
          /\ x.alive /\ x.proc \in Cli => cli'[x.proc].pc = cli[x.proc].pc
    BY <1>6, <2>3
  <2> QED
    BY <1>0, <1>2, <2>4, <2>5, <2>6 DEF Exchanges
<1>12. Known'
  BY <1>0, <1>2, <1>4, <1>6, RelayKept DEF Known
<1>13. Latest'
  BY <1>0, <1>2, <1>4, <1>6, RelayKept DEF Latest
<1>14. Progress'
  <2>1. Arrived => Arrived'
    BY <1>2, <1>4, RelayKept DEF Arrived
  <2>2. \A c \in Cli : Behind(c)' <=> Behind(c)
    BY <1>2, <1>6, RelayKept DEF Behind
  <2> QED
    BY <1>0, <1>2, <1>4, <1>6, <1>7, <1>8, <2>1, <2>2, RelayKept DEF Progress, Rotates
<1> QED
  BY <1>1, <1>9, <1>10, <1>11, <1>12, <1>13, <1>14 DEF CInv

LEMMA KeepsFinishAdoption == \A t \in Token : CInv /\ FinishAdoption(t) => CInv'
<1> SUFFICES ASSUME NEW t \in Token, CInv, FinishAdoption(t) PROVE CInv'
  OBVIOUS
<1>0. Shapes /\ Sockets /\ Adopters /\ Exchanges /\ Known /\ Latest /\ Progress
  BY DEF CInv
<1>1. Shapes'
  BY ShapesNext, <1>0 DEF ControlNext, Relay
<1>2. UNCHANGED <<pending, recent, inbox, yaml, daemon, cli>>
  BY DEF FinishAdoption
<1>3. /\ claim[t] # NoToken /\ claim'[t] = NoToken
      /\ \A u \in Token \ {t} : claim'[u] = claim[u]
      /\ current' = t
      /\ \A u \in Token : row'[u] = IF u = claim[t] THEN "revoked" ELSE row[u]
      /\ \A p \in Proc : /\ ws'[p].token = ws[p].token
                         /\ ws'[p].st = IF ws[p].st = "adopting" /\ ws[p].token = t THEN "open"
                                        ELSE IF ws[p].st = "open" THEN "lost" ELSE ws[p].st
      /\ \A m \in handling' :
           \/ \E h \in handling : /\ m.proc = h.proc /\ m.kind = h.kind /\ m.token = h.token
                                  /\ m.alive => h.alive /\ ws[h.proc].st # "open"
           \/ /\ m.proc \in Cli /\ ws[m.proc].st = "adopting" /\ ws[m.proc].token = t
              /\ m = Opening(m.proc)
  BY <1>0, Commits
<1>4. /\ \A p : Carried(p)' = Carried(p) /\ KindsOf(inbox[p])' = KindsOf(inbox[p])
      /\ \A u \in Token : /\ row[u] # "none" => row'[u] # "none"
                          /\ Over(u) => Over(u)'
      /\ Over(t)' /\ row[t] # "none"
  BY <1>0, <1>2, <1>3 DEF Carried, Over, Latest, Known, Shapes
<1>5. /\ current \in Token /\ yaml.token \in Token /\ yaml.prev \in Token \cup {NoToken}
      /\ \A c \in Cli : cli[c].found \in Token
  BY <1>0, YamlShapes DEF Shapes, CliRec
<1>6. Sockets'
  BY <1>0, <1>2, <1>3, Processes DEF Sockets, Adopters
<1>7. Adopters'
  <2>1. \A p \in Proc : ws'[p].st = "adopting" => ws[p].st = "adopting" /\ ws[p].token # t /\ ws[p].token \in Token
    BY <1>0, <1>3 DEF Sockets
  <2> QED
    BY <1>0, <1>3, <2>1 DEF Adopters
<1>8. Exchanges'
  <2>1. \A m \in handling' :
          /\ m.proc \in Cli => m.kind \in {cli[m.proc].cmd} \cup (IF cli[m.proc].cmd = "rotate" THEN {"sync"} ELSE {})
          /\ m.alive => ws'[m.proc].st = "open" /\ ws'[m.proc].token = m.token
          /\ m.alive /\ m.proc \in Cli => cli[m.proc].pc = (IF m.kind = "sync" THEN "confirming" ELSE "asked")
    <3> TAKE m \in handling'
    <3>1. CASE \E h \in handling : /\ m.proc = h.proc /\ m.kind = h.kind /\ m.token = h.token
                                   /\ m.alive => h.alive /\ ws[h.proc].st # "open"
      BY <1>0, <3>1 DEF Exchanges
    <3>2. CASE /\ m.proc \in Cli /\ ws[m.proc].st = "adopting" /\ ws[m.proc].token = t
               /\ m = Opening(m.proc)
      <4>1. /\ m.kind = (IF cli[m.proc].pc = "confirming" THEN "sync" ELSE cli[m.proc].cmd) /\ m.token = t
        BY <3>2 DEF Opening
      <4>2. ws'[m.proc].st = "open" /\ ws'[m.proc].token = t
        BY <1>3, <3>2, Processes
      <4>3. cli[m.proc].pc \in {"asked", "confirming"} /\ cli[m.proc].cmd \in {"rotate", "rename"}
        BY <1>0, <3>2 DEF Sockets, Shapes, CliRec
      <4> QED
        BY <1>0, <3>2, <4>1, <4>2, <4>3 DEF Exchanges
    <3> QED
      BY <1>3, <3>1, <3>2
  <2> QED
    BY <1>0, <1>2, <1>4, <2>1 DEF Exchanges
<1>9. Known'
  BY <1>0, <1>2, <1>3, <1>4, <1>5 DEF Known, Sockets, Over
<1>10. Latest'
  BY <1>0, <1>2, <1>3, <1>4 DEF Latest
<1>11. Progress'
  <2>1. Arrived => Arrived'
    BY <1>2, <1>4 DEF Arrived
  <2>2. \A c \in Cli : Behind(c) => Behind(c)'
    BY <1>2, <1>3, <1>5 DEF Behind
  <2>3. \A c \in Cli : Rotates(c, {"asked"}) /\ ws'[c].st \in {"open", "lost"} /\ ws'[c].token = cli[c].found
                         => Over(cli[c].found)'
    <3> SUFFICES ASSUME NEW c \in Cli, Rotates(c, {"asked"}), ws'[c].st \in {"open", "lost"},
                        ws'[c].token = cli[c].found
                 PROVE  Over(cli[c].found)'
      OBVIOUS
    <3>1. CASE ws[c].st \in {"open", "lost"}
      BY <1>0, <1>2, <1>3, <1>4, <1>5, <3>1, Processes DEF Progress
    <3>2. CASE ws[c].st \notin {"open", "lost"}
      BY <1>2, <1>3, <1>4, <3>2, Processes
    <3> QED
      BY <3>1, <3>2
  <2>4. \A c \in Cli : Rotates(c, {"confirm", "confirming"}) => Over(cli[c].found)' /\ t # cli[c].found
    BY <1>0, <1>2, <1>3, <1>4, <1>5 DEF Progress, Over
  <2>5. \A c \in Cli : Rotates(c, {"confirming"}) => /\ ws'[c].st # "none" /\ ws'[c].token # cli[c].found
                                                     /\ current' # cli[c].found
    BY <1>0, <1>3, <2>4, Processes DEF Progress, Rotates
  <2>6. \A c \in Cli : /\ ws'[c].token = ws[c].token
                       /\ Carried(c)' # {} /\ Rotates(c, {"asked"}) => Over(cli[c].found)'
    BY <1>0, <1>2, <1>3, <1>4, <1>5, Processes DEF Progress
  <2> QED
    BY <1>0, <1>2, <2>1, <2>2, <2>3, <2>4, <2>5, <2>6 DEF Progress, Rotates
<1> QED
  BY <1>1, <1>6, <1>7, <1>8, <1>9, <1>10, <1>11 DEF CInv

LEMMA KeepsRotationExpires == \A t \in Token : CInv /\ RotationExpires(t) => CInv'
<1> SUFFICES ASSUME NEW t \in Token, CInv, RotationExpires(t) PROVE CInv'
  OBVIOUS
<1>0. Shapes /\ Sockets /\ Adopters /\ Exchanges /\ Known /\ Latest /\ Progress
  BY DEF CInv
<1>1. Shapes'
  BY ShapesNext, <1>0 DEF ControlNext, Relay
<1>2. UNCHANGED <<current, claim, recent, handling, ws, inbox, yaml, daemon, cli>> /\ ~recent
  BY DEF RotationExpires
<1>3. /\ pending'[t] = NoToken /\ row'[t] = "revoked"
      /\ \A u \in Token \ {t} : pending'[u] = pending[u] /\ row'[u] = row[u]
  BY <1>0 DEF RotationExpires, Shapes
<1>4. /\ \A p : Carried(p)' = Carried(p) /\ KindsOf(inbox[p])' = KindsOf(inbox[p])
      /\ \A u \in Token : /\ row[u] # "none" => row'[u] # "none"
                          /\ Over(u) => Over(u)'
                          /\ pending'[u] # NoToken => pending[u] # NoToken
                          /\ row'[u] = "none" => Over(u)'
  BY <1>0, <1>2, <1>3 DEF Carried, Over, Known
<1>5. /\ current \in Token /\ yaml.token \in Token /\ yaml.prev \in Token \cup {NoToken}
      /\ \A c \in Cli : cli[c].found \in Token
  BY <1>0, YamlShapes DEF Shapes, CliRec
<1>6. Sockets' /\ Adopters'
  BY <1>0, <1>2 DEF Sockets, Adopters
<1>7. Exchanges'
  BY <1>0, <1>2, <1>4 DEF Exchanges
<1>8. Known'
  BY <1>0, <1>2, <1>4, <1>5 DEF Known, Sockets
<1>9. Latest'
  BY <1>0, <1>2, <1>4, <1>5 DEF Latest
<1>10. Progress'
  <2>1. ~Arrived
    BY <1>2 DEF Arrived
  <2>2. \A c \in Cli : Behind(c) => Behind(c)'
    BY <1>2, <1>4, <1>5 DEF Behind
  <2> QED
    BY <1>0, <1>2, <1>4, <1>5, <2>1, <2>2 DEF Progress, Rotates
<1> QED
  BY <1>1, <1>6, <1>7, <1>8, <1>9, <1>10 DEF CInv

LEMMA KeepsMinuteElapses == CInv /\ MinuteElapses => CInv'
<1> SUFFICES ASSUME CInv, MinuteElapses PROVE CInv'
  OBVIOUS
<1>0. Shapes /\ Sockets /\ Adopters /\ Exchanges /\ Known /\ Latest /\ Progress
  BY DEF CInv
<1>1. Shapes'
  BY ShapesNext, <1>0 DEF ControlNext, Relay
<1>2. /\ UNCHANGED <<current, row, pending, claim, handling, ws, inbox, yaml, daemon, cli>>
      /\ \A t \in Token : claim[t] = NoToken
      /\ daemon.rot = "idle" /\ \A c \in Cli : ~Rotates(c, {"asked", "confirm", "confirming"})
      /\ \A p \in Proc : inbox[p] = <<>>
  BY DEF MinuteElapses, NobodyRotates, Rotates
<1>3. /\ \A p : Carried(p)' = Carried(p) /\ KindsOf(inbox[p])' = KindsOf(inbox[p])
      /\ \A u : Over(u)' <=> Over(u)
      /\ \A p \in Proc : Carried(p)' = {}
  BY <1>2, NoReply DEF Carried, Over
<1>4. \A c \in Cli : cli[c].found \in Token
  BY <1>0 DEF Shapes, CliRec
<1>5. Sockets' /\ Adopters'
  BY <1>0, <1>2 DEF Sockets, Adopters
<1>6. Exchanges'
  BY <1>0, <1>2, <1>3 DEF Exchanges
<1>7. Known'
  BY <1>0, <1>2, <1>3 DEF Known
<1>8. Latest'
  BY <1>0, <1>2, <1>3 DEF Latest
<1>9. Progress'
  BY <1>0, <1>2, <1>4 DEF Progress, Rotates, Behind
<1> QED
  BY <1>1, <1>5, <1>6, <1>7, <1>8, <1>9 DEF CInv

\* The relay answers.
LEMMA KeepsHandles == \A m \in handling : CInv /\ (HandleRotate(m) \/ HandleOther(m)) => CInv'
<1> SUFFICES ASSUME NEW m \in handling, CInv, HandleRotate(m) \/ HandleOther(m) PROVE CInv'
  OBVIOUS
<1>0. Shapes /\ Sockets /\ Adopters /\ Exchanges /\ Known /\ Latest /\ Progress
  BY DEF CInv
<1>1. Shapes'
  BY ShapesNext, <1>0 DEF ControlNext, Relay
<1>2. PICK r \in Reply :
        /\ Answered(m, r)
        /\ \/ /\ UNCHANGED relay
              /\ \/ m.kind = "rotate" /\ r.kind = "refused"
                 \/ m.kind = "rename" /\ r.kind \in {"named", "misnamed"}
                 \/ m.kind = "sync" /\ r.kind = "synced"
           \/ /\ m.kind = "rotate" /\ r.kind = "token" /\ r.token \in Token /\ row[r.token] = "none"
              /\ ~recent /\ recent' = TRUE /\ UNCHANGED <<current, claim>>
              /\ row' \in [Token -> {"none", "live", "revoked"}]
              /\ pending' \in [Token -> Token \cup {NoToken}]
              /\ row'[r.token] = "live" /\ pending'[r.token] = m.token
              /\ \A u \in Token \ {r.token} :
                   /\ row'[u] = IF pending[u] # NoToken THEN "revoked" ELSE row[u]
                   /\ pending'[u] = NoToken
  BY <1>0, Handles
<1>3. /\ handling' \subseteq handling
      /\ \A p \in Proc :
           IF p = m.proc /\ m.alive
           THEN /\ KindsOf(inbox'[p]) = KindsOf(inbox[p]) \cup {r.kind}
                /\ TokensOf(inbox'[p]) = TokensOf(inbox[p]) \cup (IF r.kind = "token" THEN {r.token} ELSE {})
           ELSE inbox'[p] = inbox[p]
  BY <1>0, <1>2, Answers
<1>4. UNCHANGED <<ws, yaml, daemon, cli>>
  BY DEF HandleRotate, HandleOther
<1>5. /\ \A p \in Proc : p = m.proc /\ m.alive => KindsOf(inbox[p])' = KindsOf(inbox[p]) \cup {r.kind}
      /\ \A p \in Proc : ~(p = m.proc /\ m.alive) => /\ KindsOf(inbox[p])' = KindsOf(inbox[p])
                                                     /\ Carried(p)' = Carried(p) /\ inbox'[p] = inbox[p]
      /\ \A p \in Proc : p = m.proc /\ m.alive =>
           Carried(p)' = Carried(p) \cup (IF r.kind = "token" THEN {r.token} ELSE {})
  BY <1>3 DEF Carried
<1>6. m.proc \in Proc /\ m.token \in Token /\ (m.alive => ws[m.proc].st = "open" /\ ws[m.proc].token = m.token)
  BY <1>0 DEF Shapes, Message, Exchanges
<1>7. /\ current \in Token /\ yaml.token \in Token /\ yaml.prev \in Token \cup {NoToken} /\ NoToken \notin Token
      /\ \A c \in Cli : c \in Proc /\ cli[c].found \in Token
  BY <1>0, YamlShapes, Processes DEF Shapes, CliRec
<1>8. Sockets'
  BY <1>0, <1>4, <1>5, <1>6 DEF Sockets
<1>9. Adopters'
  BY <1>0, <1>2, <1>4, RelayKept DEF Adopters
<1>10. Exchanges'
  <2>1. m.proc \in Cli => r.kind \in Kinds(cli[m.proc].cmd)
    <3> SUFFICES ASSUME m.proc \in Cli PROVE r.kind \in Kinds(cli[m.proc].cmd)
      OBVIOUS
    <3>1. m.kind \in {cli[m.proc].cmd} \cup (IF cli[m.proc].cmd = "rotate" THEN {"sync"} ELSE {})
      BY <1>0 DEF Exchanges
    <3>2. cli[m.proc].cmd \in {"rotate", "rename"}
      BY <1>0 DEF Shapes, CliRec
    <3>3. CASE cli[m.proc].cmd = "rotate"
      BY <1>2, <3>1, <3>3 DEF Kinds
    <3>4. CASE cli[m.proc].cmd = "rename"
      BY <1>2, <3>1, <3>4 DEF Kinds
    <3> QED
      BY <3>2, <3>3, <3>4
  <2>2. \A c \in Cli : KindsOf(inbox[c])' \subseteq Kinds(cli[c].cmd)
    BY <1>0, <1>5, <1>7, <2>1 DEF Exchanges
  <2> QED
    BY <1>0, <1>3, <1>4, <2>2 DEF Exchanges
<1>11. CASE UNCHANGED relay /\ r.kind # "token"
  <2>1. \A p \in Proc : Carried(p)' = Carried(p)
    BY <1>5, <1>11
  <2>2. Known'
    BY <1>0, <1>4, <1>11, <2>1, RelayKept DEF Known
  <2>3. Latest'
    BY <1>0, <1>4, <1>11, <2>1, RelayKept DEF Latest
  <2>4. (Arrived => Arrived') /\ \A c \in Cli : Behind(c) => Behind(c)'
    BY <1>4, <1>11, <2>1, RelayKept DEF Arrived, Behind
  <2>5. Progress'
    BY <1>0, <1>4, <1>7, <1>11, <2>1, <2>4, RelayKept DEF Progress, Rotates
  <2> QED
    BY <1>1, <1>8, <1>9, <1>10, <2>2, <2>3, <2>5 DEF CInv
<1>12. ASSUME m.kind = "rotate", r.kind = "token", r.token \in Token, row[r.token] = "none",
              ~recent, recent' = TRUE, UNCHANGED <<current, claim>>,
              row'[r.token] = "live", pending'[r.token] = m.token,
              \A u \in Token \ {r.token} :
                /\ row'[u] = IF pending[u] # NoToken THEN "revoked" ELSE row[u]
                /\ pending'[u] = NoToken
       PROVE  CInv'
  <2> DEFINE n == r.token
  <2>1. /\ \A p \in Proc : Carried(p) = {}
        /\ \A p \in Proc : Carried(p)' \subseteq {n}
        /\ \A p \in Proc : Carried(p)' # {} => p = m.proc /\ m.alive
    BY <1>0, <1>5, <1>12 DEF Latest
  <2>2. ~Arrived
    BY <1>12 DEF Arrived
  <2>3. /\ n # current /\ n # yaml.token /\ n # yaml.prev /\ claim[n] = NoToken
        /\ \A c \in Cli : cli[c].found # n
    BY <1>0, <1>7, <1>12 DEF Known, Over
  <2>4. /\ \A u \in Token : row[u] # "none" => row'[u] # "none"
        /\ row'[n] # "none"
        /\ \A u \in Token : Over(u) /\ u # n => Over(u)'
        /\ \A u \in Token : pending'[u] # NoToken => u = n
        /\ \A u \in Token : row'[u] = "none" => Over(u)'
    BY <1>0, <1>12 DEF Over, Known
  <2> HIDE DEF n
  <2>5. Known'
    BY <1>0, <1>4, <1>7, <1>12, <2>1, <2>4 DEF Known, Sockets, n
  <2>6. Latest'
    <3>1. \A t \in Token : claim[t] # NoToken => t # n
      BY <2>3
    <3> QED
      BY <1>0, <1>4, <1>7, <1>12, <2>1, <2>3, <2>4, <3>1 DEF Latest
  <2>7. \A c \in Cli : Behind(c)'
    BY <1>4, <1>7, <1>12, <2>3, <2>4 DEF Behind
  <2>8. \A c \in Cli : Rotates(c, {"asked"}) /\ Carried(c)' # {} => Over(cli[c].found)'
    <3> SUFFICES ASSUME NEW c \in Cli, Rotates(c, {"asked"}), Carried(c)' # {} PROVE Over(cli[c].found)'
      OBVIOUS
    <3>1. c = m.proc /\ ws[c].st = "open"
      BY <1>6, <1>7, <2>1
    <3>5. /\ ws[c].token = cli[c].found \/ Behind(c)
          /\ ws[c].st \in {"open", "lost"} /\ ws[c].token = cli[c].found => Over(cli[c].found)
      BY <1>0 DEF Progress
    <3>2. /\ ws[c].token = cli[c].found \/ Behind(c)
          /\ ws[c].token = cli[c].found => Over(cli[c].found)
      BY <3>1, <3>5
    <3>3. claim[cli[c].found] = NoToken
      BY <1>12, <3>2 DEF Over, Behind
    <3> QED
      BY <1>4, <1>7, <1>12, <2>3, <2>4, <3>3 DEF Over
  <2>9. daemon.rot # "awaiting" /\ \A c \in Cli : ~Rotates(c, {"confirm", "confirming"})
    BY <1>0, <2>2 DEF Progress
  <2>10. \A c \in Cli : ~Rotates(c, {"confirming"})
    BY <2>9 DEF Rotates
  <2>11. \A c \in Cli : Over(cli[c].found) => Over(cli[c].found)'
    BY <1>4, <1>7, <2>3, <2>4
  <2>12. Progress'
    BY <1>0, <1>4, <2>7, <2>8, <2>9, <2>10, <2>11 DEF Progress, Rotates
  <2> QED
    BY <1>1, <1>8, <1>9, <1>10, <2>5, <2>6, <2>12 DEF CInv
<1> QED
  BY <1>2, <1>11, <1>12

-----------------------------------------------------------------------------
(* The three ways to connect *)

LEMMA ConnectFrame ==
  ASSUME CInv, NEW p \in Proc, NEW t \in Token, NEW k \in SUBSET {"rotate", "rename", "sync"},
         ConnectWith(p, t, k), Authenticates(t), ws[p].st = "none"
  PROVE  /\ UNCHANGED <<current, row, recent>> /\ row[t] # "none"
         /\ \A u \in Token : /\ pending'[u] # NoToken => pending[u] # NoToken
                             /\ claim'[u] # NoToken => pending'[u] = NoToken
                             /\ u # t => (Over(u)' <=> Over(u)) /\ pending'[u] = pending[u] /\ claim'[u] = claim[u]
         /\ Over(current)' /\ ws'[p].token = t
         /\ \/ ws'[p].st = "open" /\ current = t /\ Over(t)' /\ Over(t)
            \/ ws'[p].st = "adopting" /\ pending[t] # NoToken /\ claim'[t] = pending[t]
         /\ \A q \in Proc \ {p} : /\ ws'[q].token = ws[q].token
                                  /\ ws'[q].st \in {"open", "lost"} <=> ws[q].st \in {"open", "lost"}
                                  /\ ws'[q].st \notin {"open", "lost"} => ws'[q].st = ws[q].st
         /\ \A q, r \in Proc : ws'[q].st = "open" /\ ws'[r].st = "open" => q = r
         /\ Adopters'
         /\ \A m \in handling' :
              /\ m.alive => ws'[m.proc].st = "open" /\ ws'[m.proc].token = m.token
              /\ \/ \E h \in handling : /\ m.proc = h.proc /\ m.kind = h.kind /\ m.token = h.token
                                        /\ m.alive => h.alive /\ h.proc # p
                 \/ m.proc = p /\ m.kind \in k /\ m.token = t /\ m.alive
<1>0. Shapes /\ Sockets /\ Adopters /\ Exchanges /\ Known /\ Latest
  BY DEF CInv
<1>1. /\ UNCHANGED <<current, row, recent>>
      /\ ws'[p].token = t
      /\ \A q \in Proc \ {p} : ws'[q].token = ws[q].token
      /\ \A m \in handling' :
           \/ \E h \in handling : /\ m.proc = h.proc /\ m.kind = h.kind /\ m.token = h.token
                                  /\ m.alive => /\ h.alive /\ h.proc # p
                                                /\ pending[t] = NoToken => ws[h.proc].st # "open"
           \/ pending[t] = NoToken /\ m.proc = p /\ m.kind \in k /\ m.token = t /\ m.alive
      /\ pending[t] # NoToken =>
           /\ ws'[p].st = "adopting" /\ \A q \in Proc \ {p} : ws'[q].st = ws[q].st
           /\ pending'[t] = NoToken /\ claim'[t] = pending[t]
           /\ \A u \in Token \ {t} : pending'[u] = pending[u] /\ claim'[u] = claim[u]
      /\ pending[t] = NoToken =>
           /\ ws'[p].st = "open"
           /\ \A q \in Proc \ {p} : ws'[q].st = IF ws[q].st = "open" THEN "lost" ELSE ws[q].st
           /\ pending' = pending /\ claim' = claim
  BY <1>0, Connects
<1>2. /\ current \in Token /\ Over(current) /\ row[t] # "none"
      /\ \A u \in Token : claim[u] # NoToken => pending[u] = NoToken
      /\ pending[t] = NoToken => current = t
  BY <1>0 DEF Shapes, Latest, Authenticates
<1>3. \A h \in handling : h.alive => ws[h.proc].st = "open" /\ ws[h.proc].token = h.token /\ h.proc \in Proc
  BY <1>0 DEF Exchanges, Shapes, Message
<1>4. Adopters'
  <2>1. \A q \in Proc \ {p} : ws'[q].st = "adopting" =>
          /\ ws[q].st = "adopting" /\ ws[q].token \in Token /\ claim[ws[q].token] # NoToken
          /\ pending[t] # NoToken => ws[q].token # t
    BY <1>0, <1>1, <1>2 DEF Adopters, Sockets
  <2>2. \A q \in Proc : ws'[q].st = "adopting" => claim'[ws'[q].token] # NoToken
    BY <1>1, <2>1
  <2>3. \A q, r \in Proc : ws'[q].st = "adopting" /\ ws'[r].st = "adopting" /\ ws'[q].token = ws'[r].token => q = r
    BY <1>0, <1>1, <2>1 DEF Adopters
  <2> QED
    BY <2>2, <2>3 DEF Adopters
<1>5. CASE pending[t] # NoToken
  <2>1. \A u \in Token : /\ pending'[u] # NoToken => pending[u] # NoToken
                         /\ claim'[u] # NoToken => pending'[u] = NoToken
                         /\ u # t => (Over(u)' <=> Over(u)) /\ pending'[u] = pending[u] /\ claim'[u] = claim[u]
    BY <1>1, <1>2, <1>5 DEF Over
  <2>2. Over(current)'
    BY <1>1, <1>2, <1>5 DEF Over
  <2>3. \A q, r \in Proc : ws'[q].st = "open" /\ ws'[r].st = "open" => q = r
    BY <1>0, <1>1, <1>5 DEF Sockets
  <2>4. \A m \in handling' :
          /\ m.alive => ws'[m.proc].st = "open" /\ ws'[m.proc].token = m.token
          /\ \E h \in handling : /\ m.proc = h.proc /\ m.kind = h.kind /\ m.token = h.token
                                 /\ m.alive => h.alive /\ h.proc # p
    BY <1>1, <1>3, <1>5
  <2> QED
    BY <1>1, <1>2, <1>4, <1>5, <2>1, <2>2, <2>3, <2>4
<1>6. CASE pending[t] = NoToken
  <2>1. \A u \in Token : /\ pending'[u] # NoToken => pending[u] # NoToken
                         /\ claim'[u] # NoToken => pending'[u] = NoToken
                         /\ u # t => (Over(u)' <=> Over(u)) /\ pending'[u] = pending[u] /\ claim'[u] = claim[u]
    BY <1>1, <1>2, <1>6 DEF Over
  <2>2. Over(current)' /\ Over(t)' /\ Over(t) /\ current = t
    BY <1>1, <1>2, <1>6 DEF Over
  <2>3. \A q, r \in Proc : ws'[q].st = "open" /\ ws'[r].st = "open" => q = r
    BY <1>1, <1>6
  <2>4. \A m \in handling' :
          /\ m.alive => ws'[m.proc].st = "open" /\ ws'[m.proc].token = m.token
          /\ \/ \E h \in handling : /\ m.proc = h.proc /\ m.kind = h.kind /\ m.token = h.token
                                    /\ m.alive => h.alive /\ h.proc # p
             \/ m.proc = p /\ m.kind \in k /\ m.token = t /\ m.alive
    BY <1>1, <1>3, <1>6
  <2> QED
    BY <1>1, <1>2, <1>4, <1>6, <2>1, <2>2, <2>3, <2>4
<1> QED
  BY <1>5, <1>6

LEMMA ConnectKnown ==
  ASSUME CInv, NEW p \in Proc, NEW t \in Token, NEW k \in SUBSET {"rotate", "rename", "sync"},
         ConnectWith(p, t, k), Authenticates(t), ws[p].st = "none", t = yaml.token,
         inbox' = inbox, yaml'.token = yaml.token, yaml'.prev = yaml.prev \/ yaml'.prev = NoToken,
         \A c \in Cli : cli'[c].found = cli[c].found
  PROVE  /\ Known' /\ Latest' /\ \A q : Carried(q)' = Carried(q)
         /\ Arrived => Arrived'
         /\ \A c \in Cli : /\ Behind(c) /\ cli[c].found # t => Behind(c)'
                           /\ Behind(c) /\ pending[t] = NoToken => Behind(c)'
<1>0. Shapes /\ Sockets /\ Known /\ Latest
  BY DEF CInv
<1>1. \A q : Carried(q)' = Carried(q)
  BY DEF Carried
<1>2. /\ UNCHANGED <<current, row, recent>> /\ row[t] # "none"
      /\ \A u \in Token : /\ pending'[u] # NoToken => pending[u] # NoToken
                          /\ claim'[u] # NoToken => pending'[u] = NoToken
                          /\ u # t => (Over(u)' <=> Over(u)) /\ pending'[u] = pending[u] /\ claim'[u] = claim[u]
      /\ Over(current)' /\ ws'[p].token = t
      /\ Over(t)' \/ pending[t] # NoToken
      /\ \A q \in Proc \ {p} : /\ ws'[q].token = ws[q].token
                               /\ ws'[q].st # "none" => ws[q].st # "none"
  BY ConnectFrame
<1>3. Known'
  BY <1>0, <1>1, <1>2 DEF Known
<1>4. NoToken \notin Token /\ \A q \in Proc : \A u \in Carried(q) : u \in Token
  BY <1>0, Processes DEF Known
<1>5. Latest'
  BY <1>0, <1>1, <1>2, <1>4 DEF Latest
<1>6. Arrived => Arrived'
  BY <1>1, <1>2 DEF Arrived
<1>7. \A c \in Cli : /\ cli[c].found \in Token
                     /\ Behind(c) /\ cli[c].found # t => Behind(c)'
                     /\ Behind(c) /\ pending[t] = NoToken => Behind(c)'
  BY <1>0, <1>2 DEF Behind, Shapes, CliRec, Over
<1> QED
  BY <1>1, <1>3, <1>5, <1>6, <1>7

LEMMA KeepsDaemonConnects == CInv /\ DaemonConnects => CInv'
<1> SUFFICES ASSUME CInv, DaemonConnects PROVE CInv'
  OBVIOUS
<1>0. Shapes /\ Sockets /\ Adopters /\ Exchanges /\ Known /\ Latest /\ Progress
  BY DEF CInv
<1>t. PICK t \in Token : t = yaml.token
  BY <1>0, YamlShapes
<1>1. Shapes'
  BY ShapesNext, <1>0 DEF ControlNext, DaemonSteps
<1>2. /\ ConnectWith(Daemon, t, {}) /\ Authenticates(t) /\ ws[Daemon].st = "none" /\ inbox' = inbox
      /\ \/ yaml' = Confirmed /\ cli' = Settled(daemon.asker, "done") /\ daemon' = RotationEnded
         \/ UNCHANGED <<yaml, cli, daemon>>
  BY <1>t DEF DaemonConnects, RotationEnded
<1>3. t \in Token /\ Daemon \in Proc /\ {} \in SUBSET {"rotate", "rename", "sync"} /\ \A c \in Cli : c \in Proc \ {Daemon}
  BY <1>0, YamlShapes, Processes
<1>4. yaml'.token = yaml.token /\ (yaml'.prev = yaml.prev \/ yaml'.prev = NoToken)
  BY <1>0, <1>2, YamlShapes
<1>5. "done" \in Pc /\ daemon.asker \in Cli \cup {NoCli}
  BY <1>0, DaemonShapes DEF Pc, Ended
<1>6. \A d \in Cli : /\ cli'[d].cmd = cli[d].cmd /\ cli'[d].found = cli[d].found
                     /\ cli'[d].pc = cli[d].pc \/ (cli[d].pc = "control" /\ cli'[d].pc = "done")
  <2>1. CASE cli' = Settled(daemon.asker, "done")
    BY <1>0, <1>5, <2>1, Settles
  <2> QED
    BY <1>2, <2>1
<1>7. UNCHANGED daemon \/ (daemon'.rot = "idle" /\ daemon'.asker \notin Cli /\ daemon'.naming = daemon.naming)
  BY <1>0, <1>2, Processes, DaemonFields
<1>8. /\ UNCHANGED <<current, row, recent>>
      /\ \A u \in Token : u # t => (Over(u)' <=> Over(u))
      /\ ws'[Daemon].token = t /\ ws'[Daemon].st # "none"
      /\ \A q \in Proc \ {Daemon} : /\ ws'[q].token = ws[q].token
                                    /\ ws'[q].st \in {"open", "lost"} <=> ws[q].st \in {"open", "lost"}
                                    /\ ws'[q].st \notin {"open", "lost"} => ws'[q].st = ws[q].st
      /\ \A q, r \in Proc : ws'[q].st = "open" /\ ws'[r].st = "open" => q = r
      /\ Adopters'
      /\ Over(t) \/ pending[t] # NoToken
      /\ Over(t)' \/ pending[t] # NoToken
  BY <1>2, <1>3, ConnectFrame
<1>9. \A m \in handling' :
        /\ m.alive => ws'[m.proc].st = "open" /\ ws'[m.proc].token = m.token
        /\ \E h \in handling : /\ m.proc = h.proc /\ m.kind = h.kind /\ m.token = h.token
                               /\ m.alive => h.alive /\ h.proc # Daemon
  BY <1>2, <1>3, ConnectFrame
<1>10. /\ Known' /\ Latest' /\ (\A q : Carried(q)' = Carried(q))
       /\ Arrived => Arrived'
       /\ \A c \in Cli : /\ Behind(c) /\ cli[c].found # t => Behind(c)'
                         /\ Behind(c) /\ pending[t] = NoToken => Behind(c)'
  BY <1>t, <1>2, <1>3, <1>4, <1>6, ConnectKnown
<1>11. Sockets'
  BY <1>0, <1>2, <1>3, <1>6, <1>8 DEF Sockets
<1>12. Exchanges'
  <2>1. \A m \in handling' :
          /\ m.proc \in Cli => m.kind \in {cli[m.proc].cmd} \cup (IF cli[m.proc].cmd = "rotate" THEN {"sync"} ELSE {})
          /\ m.alive /\ m.proc \in Cli => cli'[m.proc].pc = (IF m.kind = "sync" THEN "confirming" ELSE "asked")
    BY <1>0, <1>6, <1>9 DEF Exchanges
  <2>2. \A d \in Cli : cli'[d].pc = cli[d].pc \/ cli'[d].pc \notin {"start", "confirm", "confirming"}
    BY <1>6
  <2> QED
    BY <1>0, <1>2, <1>6, <1>7, <1>9, <2>1, <2>2 DEF Exchanges
<1>13. Progress'
  <2>1. \A c \in Cli : cli[c].found = t => pending[t] # NoToken \/ Over(cli[c].found)'
    BY <1>6, <1>8
  <2>2. \A c \in Cli : cli[c].found # t => (Over(cli[c].found)' <=> Over(cli[c].found))
    BY <1>0, <1>6, <1>8 DEF Shapes, CliRec
  <2>3. \A c \in Cli : Over(cli[c].found) => Over(cli[c].found)'
    BY <2>1, <2>2 DEF Over
  <2>4. \A c \in Cli : Behind(c) => Behind(c)'
    BY <1>10 DEF Behind
  <2> QED
    BY <1>0, <1>2, <1>3, <1>4, <1>6, <1>7, <1>8, <1>10, <2>3, <2>4 DEF Progress, Rotates
<1> QED
  BY <1>1, <1>8, <1>10, <1>11, <1>12, <1>13 DEF CInv

LEMMA KeepsDials == \A c \in Cli : CInv /\ (Dial(c) \/ DialAgain(c)) => CInv'
<1> SUFFICES ASSUME NEW c \in Cli, CInv, Dial(c) \/ DialAgain(c) PROVE CInv'
  OBVIOUS
<1>0. Shapes /\ Sockets /\ Adopters /\ Exchanges /\ Known /\ Latest /\ Progress
  BY DEF CInv
<1>t. PICK t \in Token : t = yaml.token
  BY <1>0, YamlShapes
<1>k. PICK k : k = IF cli[c].pc = "direct" THEN {cli[c].cmd} ELSE {"sync"}
  OBVIOUS
<1>1. Shapes'
  BY ShapesNext, <1>0 DEF ControlNext, Command
<1>2. /\ ConnectWith(c, t, k) /\ Authenticates(t) /\ UNCHANGED <<inbox, yaml, daemon>>
      /\ \/ cli[c].pc = "direct" /\ cli' = At(c, "asked")
         \/ cli[c].pc = "confirm" /\ cli' = At(c, "confirming")
  BY <1>t, <1>k DEF Dial, DialAgain, At
<1>3. t \in Token /\ c \in Proc /\ {"asked", "confirming"} \subseteq Pc /\ cli[c].cmd \in {"rotate", "rename"}
  BY <1>0, YamlShapes, Processes DEF Pc, Shapes, CliRec
<1>4. ws[c].st = "none" /\ inbox[c] = <<>> /\ Carried(c) = {}
  BY <1>0, <1>2, <1>3, NoReply DEF Sockets, Carried
<1>5. k \in SUBSET {"rotate", "rename", "sync"}
  BY <1>3, <1>k
<1>6. /\ \A d \in Cli : /\ cli'[d].cmd = cli[d].cmd /\ cli'[d].found = cli[d].found
                        /\ d # c => cli'[d].pc = cli[d].pc
      /\ \/ cli[c].pc = "direct" /\ cli'[c].pc = "asked"
         \/ cli[c].pc = "confirm" /\ cli'[c].pc = "confirming"
  <2>1. CASE cli' = At(c, "asked")
    BY <1>0, <1>2, <1>3, <2>1, PcStep
  <2>2. CASE cli' = At(c, "confirming")
    BY <1>0, <1>2, <1>3, <2>2, PcStep
  <2> QED
    BY <1>2, <2>1, <2>2
<1>7. \A x \in k : (cli[c].pc = "direct" /\ x = cli[c].cmd) \/ (cli[c].pc = "confirm" /\ x = "sync")
  BY <1>2, <1>k
<1>8. /\ UNCHANGED <<current, row, recent>>
      /\ \A u \in Token : u # t => (Over(u)' <=> Over(u))
      /\ ws'[c].token = t
      /\ \/ ws'[c].st = "open" /\ current = t /\ Over(t)' /\ Over(t)
         \/ ws'[c].st = "adopting" /\ pending[t] # NoToken
      /\ \A q \in Proc \ {c} : /\ ws'[q].token = ws[q].token
                               /\ ws'[q].st \in {"open", "lost"} <=> ws[q].st \in {"open", "lost"}
                               /\ ws'[q].st \notin {"open", "lost"} => ws'[q].st = ws[q].st
      /\ \A q, r \in Proc : ws'[q].st = "open" /\ ws'[r].st = "open" => q = r
      /\ Adopters'
  BY <1>2, <1>3, <1>4, <1>5, ConnectFrame
<1>9. \A m \in handling' :
        /\ m.alive => ws'[m.proc].st = "open" /\ ws'[m.proc].token = m.token
        /\ \/ \E h \in handling : /\ m.proc = h.proc /\ m.kind = h.kind /\ m.token = h.token
                                  /\ m.alive => h.alive /\ h.proc # c
           \/ m.proc = c /\ m.kind \in k /\ m.token = t /\ m.alive
  BY <1>2, <1>3, <1>4, <1>5, ConnectFrame
<1>10. /\ Known' /\ Latest' /\ (\A q : Carried(q)' = Carried(q))
       /\ Arrived => Arrived'
       /\ \A d \in Cli : /\ Behind(d) /\ cli[d].found # t => Behind(d)'
                         /\ Behind(d) /\ pending[t] = NoToken => Behind(d)'
  BY <1>t, <1>2, <1>3, <1>4, <1>5, <1>6, ConnectKnown
<1>11. Sockets'
  BY <1>0, <1>2, <1>3, <1>4, <1>6, <1>8, Processes DEF Sockets
<1>12. Exchanges'
  <2>1. cli'[c].pc = "confirming" => cli[c].cmd = "rotate"
    BY <1>0, <1>6 DEF Exchanges
  <2>2. \A m \in handling' :
          /\ m.proc \in Cli => m.kind \in {cli[m.proc].cmd} \cup (IF cli[m.proc].cmd = "rotate" THEN {"sync"} ELSE {})
          /\ m.alive /\ m.proc \in Cli => cli'[m.proc].pc = (IF m.kind = "sync" THEN "confirming" ELSE "asked")
    <3> TAKE m \in handling'
    <3>1. CASE \E h \in handling : /\ m.proc = h.proc /\ m.kind = h.kind /\ m.token = h.token
                                   /\ m.alive => h.alive /\ h.proc # c
      BY <1>0, <1>6, <3>1 DEF Exchanges
    <3>2. CASE m.proc = c /\ m.kind \in k
      BY <1>3, <1>6, <1>7, <2>1, <3>2
    <3> QED
      BY <1>9, <3>1, <3>2
  <2> QED
    BY <1>0, <1>2, <1>6, <1>9, <2>1, <2>2 DEF Exchanges
<1>13. Progress'
  <2>1. \A d \in Cli : cli[d].found # t => (Over(cli[d].found)' <=> Over(cli[d].found))
    BY <1>0, <1>6, <1>8 DEF Shapes, CliRec
  <2>2. \A d \in Cli : Over(cli[d].found) => Over(cli[d].found)'
    BY <1>6, <1>8, <2>1 DEF Over
  <2>3. \A d \in Cli : Behind(d) => Behind(d)'
    BY <1>10 DEF Behind
  <2>4. daemon'.rot = "awaiting" =>
          /\ Arrived'
          /\ daemon'.asker \in Cli /\ cli'[daemon'.asker].pc = "control" => yaml'.token # cli'[daemon'.asker].found
    BY <1>0, <1>2, <1>6, <1>10 DEF Progress
  <2>5. ASSUME NEW d \in Cli, d # c
        PROVE  /\ Rotates(d, {"control", "direct"})' => yaml'.token = cli'[d].found \/ Behind(d)'
               /\ Rotates(d, {"asked"})' =>
                    /\ ws'[d].token = cli'[d].found \/ Behind(d)'
                    /\ ws'[d].st \in {"open", "lost"} /\ ws'[d].token = cli'[d].found => Over(cli[d].found)'
                    /\ Carried(d)' # {} => Over(cli[d].found)'
               /\ Rotates(d, {"confirm", "confirming"})' =>
                    Arrived' /\ yaml'.token # cli'[d].found /\ Over(cli[d].found)'
               /\ Rotates(d, {"confirming"})' =>
                    /\ ws'[d].st # "none" /\ ws'[d].token # cli'[d].found
                    /\ ws'[d].st = "adopting" \/ current' # cli'[d].found
    BY <1>0, <1>2, <1>6, <1>8, <1>10, <2>2, <2>3, <2>5, Processes DEF Progress, Rotates
  <2>6. /\ Rotates(c, {"control", "direct"})' => yaml'.token = cli'[c].found \/ Behind(c)'
        /\ Rotates(c, {"asked"})' =>
             /\ ws'[c].token = cli'[c].found \/ Behind(c)'
             /\ ws'[c].st \in {"open", "lost"} /\ ws'[c].token = cli'[c].found => Over(cli[c].found)'
             /\ Carried(c)' # {} => Over(cli[c].found)'
        /\ Rotates(c, {"confirm", "confirming"})' =>
             Arrived' /\ yaml'.token # cli'[c].found /\ Over(cli[c].found)'
        /\ Rotates(c, {"confirming"})' =>
             /\ ws'[c].st # "none" /\ ws'[c].token # cli'[c].found
             /\ ws'[c].st = "adopting" \/ current' # cli'[c].found
    <3>1. CASE cli[c].pc = "direct" /\ cli'[c].pc = "asked"
      BY <1>t, <1>0, <1>2, <1>4, <1>6, <1>8, <1>10, <2>3, <3>1 DEF Progress, Rotates
    <3>2. CASE cli[c].pc = "confirm" /\ cli'[c].pc = "confirming"
      BY <1>t, <1>0, <1>2, <1>6, <1>8, <1>10, <2>2, <3>2 DEF Progress, Rotates
    <3> QED
      BY <1>6, <3>1, <3>2
  <2> QED
    BY <2>4, <2>5, <2>6 DEF Progress
<1> QED
  BY <1>1, <1>8, <1>10, <1>11, <1>12, <1>13 DEF CInv

LEMMA CInvNext == CInv /\ [ControlNext]_controlVars => CInv'
<1> SUFFICES ASSUME CInv, [ControlNext]_controlVars PROVE CInv'
  OBVIOUS
<1>1. CASE UNCHANGED controlVars
  <2>1. /\ UNCHANGED <<current, row, pending, claim, recent, handling, ws, inbox, yaml, daemon, cli>>
        /\ Shapes' /\ UNCHANGED relay
    BY <1>1, ShapesNext DEF controlVars, relay, CInv
  <2>2. Sockets' /\ Adopters'
    BY <2>1 DEF CInv, Sockets, Adopters
  <2>3. Exchanges'
    BY <2>1 DEF CInv, Exchanges
  <2>4. Known'
    BY <2>1, RelaySame DEF CInv, Known
  <2>5. Latest'
    BY <2>1, RelaySame DEF CInv, Latest
  <2>6. Progress'
    BY <2>1, RelaySame DEF CInv, Progress, Arrived, Behind, Rotates
  <2> QED
    BY <2>1, <2>2, <2>3, <2>4, <2>5, <2>6 DEF CInv
<1>2. CASE Relay
  BY <1>2, KeepsFinishAdoption, KeepsRotationExpires, KeepsHandles, KeepsMinuteElapses DEF Relay
<1>3. CASE DaemonSteps
  BY <1>3, KeepsDaemonStarts, KeepsDaemonStops, KeepsDaemonConnects, KeepsTokenReceived, KeepsReceived,
     KeepsTimeOuts DEF DaemonSteps
<1>4. CASE \E c \in Cli : Command(c)
  BY <1>4, KeepsAskDaemon, KeepsNoDaemon, KeepsDials, KeepsCommandReceives, KeepsControlTimesOut,
     KeepsCommandFails DEF Command, Waits
<1> QED
  BY <1>1, <1>2, <1>3, <1>4 DEF ControlNext

LEMMA CInvAlways == ControlSpec => []CInv
BY CInvInit, CInvNext, PTL DEF ControlSpec

\* The variables keep their types: a socket or a reply without a token, or a message of no
\* process, does not arise.
THEOREM ControlTypeCorrect == ControlSpec => []ControlTypeOK
<1>1. CInv => ControlTypeOK
  BY TypesAreShapes DEF CInv
<1> QED
  BY <1>1, CInvAlways, PTL

\* Where a rotation can report success: at the daemon's connect, or at the command's own reply.
LEMMA SuccessIsReported ==
  ASSUME CInv, ControlNext, NEW c \in Cli,
         cli[c].cmd = "rotate", cli[c].pc # "done", cli'[c].pc = "done"
  PROVE  \/ DaemonConnects /\ Confirms /\ daemon.asker = c /\ cli[c].pc = "control"
         \/ CommandReceives(c) /\ cli[c].pc = "confirming"
<1>0. Shapes /\ Exchanges
  BY DEF CInv
<1>1. \A d \in Cli : \A pc \in Pc \ {"done"} : At(d, pc)[c].pc # "done" /\ Begins(d, pc)[c].pc # "done"
  BY <1>0, PcStep, StartStep
<1>2. /\ {"direct", "failed", "control", "asked", "confirming", "confirm"} \subseteq Pc \ {"done"}
      /\ "done" \in Pc
  BY DEF Pc, Ended
<1>3. \A d \in Cli \cup {NoCli} : Settled(d, "failed")[c].pc # "done"
          /\ (d # c => Settled(d, "done")[c].pc = cli[c].pc)
  BY <1>0, <1>2, Settles
<1>4. /\ daemon.asker \in Cli \cup {NoCli} /\ daemon.naming \in Cli \cup {NoCli} /\ daemon.naming # c
  BY <1>0, DaemonShapes DEF Exchanges
<1>5. cli' # cli
  OBVIOUS
<1>6. CASE DaemonSteps
  <2>1. CASE DaemonConnects
    <3>1. Confirms /\ cli' = Settled(daemon.asker, "done")
      BY <1>5, <2>1 DEF DaemonConnects
    <3>2. cli'[c].pc = IF c = daemon.asker /\ cli[c].pc = "control" THEN "done" ELSE cli[c].pc
      BY <1>0, <1>2, <1>4, <3>1, Settles
    <3> QED
      BY <2>1, <3>1, <3>2
  <2>2. CASE DaemonReceives
    <3>1. \/ cli' = Settled(daemon.asker, "failed")
          \/ cli' = Settled(daemon.naming, "done") \/ cli' = Settled(daemon.naming, "failed")
      BY <1>5, <2>2 DEF DaemonReceives
    <3>2. Settled(daemon.naming, "done")[c].pc = cli[c].pc
      BY <1>3, <1>4
    <3>3. Settled(daemon.asker, "failed")[c].pc # "done" /\ Settled(daemon.naming, "failed")[c].pc # "done"
      BY <1>3, <1>4
    <3> HIDE <2>2
    <3> QED
      BY <3>1, <3>2, <3>3
  <2>3. CASE RotationTimesOut \/ RenameTimesOut
    BY <1>3, <1>4, <2>3 DEF RotationTimesOut, RenameTimesOut
  <2> QED
    BY <1>5, <1>6, <2>1, <2>2, <2>3
       DEF DaemonSteps, DaemonStarts, DaemonListens, DaemonStops, DaemonLosesSocket
<1>7. CASE Relay
  BY <1>5, <1>7 DEF Relay, FinishAdoption, RotationExpires, HandleRotate, HandleOther, MinuteElapses
<1>8. CASE \E d \in Cli : Command(d)
  <2>1. PICK d \in Cli : Command(d)
    BY <1>8
  <2>2. CASE CommandReceives(d)
    <3>1. \/ cli[d].pc = "confirming" /\ cli' = At(d, "done")
          \/ cli' = At(d, "confirm") \/ cli' = At(d, "failed")
          \/ Head(inbox[d]).kind = "named" /\ cli' = At(d, "done")
      BY <2>2 DEF CommandReceives, At
    <3>2. cli' = At(d, "done")
      BY <1>1, <1>2, <3>1
    <3>3. d = c
      BY <1>0, <1>2, <3>2, PcStep
    <3>4. Head(inbox[d]).kind # "named"
      <4>1. inbox[c] \in Seq(Reply) /\ inbox[c] # <<>>
        BY <1>0, <2>2, <3>3, Processes DEF CommandReceives, Shapes
      <4>2. Head(inbox[c]).kind \in KindsOf(inbox[c])
        BY <4>1, TailReply
      <4> QED
        BY <1>0, <3>3, <4>2 DEF Exchanges, Kinds
    <3> QED
      BY <1>1, <1>2, <2>2, <3>1, <3>3, <3>4
  <2>3. CASE AskDaemon(d) \/ NoDaemon(d)
    <3>1. cli' = Begins(d, "failed") \/ cli' = Begins(d, "control") \/ cli' = Begins(d, "direct")
      BY <2>3 DEF AskDaemon, NoDaemon, Begins
    <3> QED
      BY <1>1, <1>2, <3>1
  <2>4. CASE Dial(d) \/ DialAgain(d) \/ ControlTimesOut(d) \/ CommandFails(d)
    <3>1. cli' = At(d, "asked") \/ cli' = At(d, "confirming") \/ cli' = At(d, "direct") \/ cli' = At(d, "failed")
      BY <2>4 DEF Dial, DialAgain, ControlTimesOut, CommandFails, At
    <3> QED
      BY <1>1, <1>2, <3>1
  <2> QED
    BY <2>1, <2>2, <2>3, <2>4 DEF Command, Waits
<1> QED
  BY <1>6, <1>7, <1>8 DEF ControlNext

\* A rotation that reports success has retired the token the command found in node.yaml, for
\* any number of commands that rotate at once, by the daemon or around it.
THEOREM RotationsRetire == ControlSpec => SuccessRetires
<1> DEFINE Retires(c, f) ==
      cli[c].cmd = "rotate" /\ cli[c].found = f /\ cli[c].pc # "done" /\ cli'[c].pc = "done"
        => ~Authenticates(f)' \/ (yaml'.token # f /\ claim'[yaml'.token] # NoToken)
<1>1. ASSUME CInv, [ControlNext]_controlVars, NEW c \in Cli, NEW f \in Token PROVE Retires(c, f)
  <2> SUFFICES ASSUME cli[c].cmd = "rotate", cli[c].found = f, cli[c].pc # "done", cli'[c].pc = "done"
               PROVE  ~Authenticates(f)' \/ (yaml'.token # f /\ claim'[yaml'.token] # NoToken)
    OBVIOUS
  <2>0. Shapes /\ Sockets /\ Exchanges /\ Latest /\ Progress
    BY <1>1 DEF CInv
  <2>1. ControlNext
    BY <1>1 DEF controlVars
  <2>2. CASE DaemonConnects /\ Confirms /\ daemon.asker = c /\ cli[c].pc = "control"
    <3>1. PICK t \in Token : t = yaml.token
      BY <2>0, YamlShapes
    <3>2. /\ ConnectWith(Daemon, t, {}) /\ Authenticates(t) /\ ws[Daemon].st = "none"
          /\ yaml' = Confirmed
      BY <2>2, <3>1 DEF DaemonConnects
    <3>3. Arrived /\ t # f
      BY <2>0, <2>2, <3>1 DEF Progress, Confirms
    <3>4. yaml'.token = t
      BY <2>0, <3>1, <3>2, YamlShapes
    <3>5. /\ current' = current /\ \A u \in Token : pending'[u] # NoToken => pending[u] # NoToken
          /\ current = t \/ (pending[t] # NoToken /\ claim'[t] = pending[t])
      BY <1>1, <3>2, Processes, ConnectFrame
    <3> QED
      BY <3>1, <3>3, <3>4, <3>5 DEF Arrived, Authenticates
  <2>3. CASE CommandReceives(c) /\ cli[c].pc = "confirming"
    <3>1. inbox[c] # <<>> /\ UNCHANGED relay
      BY <2>3 DEF CommandReceives
    <3>2. Over(f) /\ current # f
      BY <2>0, <2>3, <3>1, Processes DEF Progress, Rotates, Sockets
    <3> QED
      BY <3>1, <3>2 DEF relay, Over, Authenticates
  <2> QED
    BY <1>1, <2>1, <2>2, <2>3, SuccessIsReported
<1>2. CInv /\ [ControlNext]_controlVars => [\A c \in Cli, f \in Token : Retires(c, f)]_controlVars
  BY <1>1
<1> QED
  BY <1>2, CInvAlways, PTL DEF ControlSpec, SuccessRetires

-----------------------------------------------------------------------------
(* node.yaml, while adoptions do not overlap *)

\* One adoption is committed at a time.
OneAdoption == \A t, u \in Token : claim[t] # NoToken /\ claim[u] # NoToken => t = u

\* What is offered or adopted is live, and replaces another token that is not on offer itself.
Displaced ==
  /\ row[current] = "live" /\ \A t \in Token : ~Over(t) => row[t] = "live"
  /\ \A t \in Token : pending[t] # NoToken =>
       pending[t] # t /\ pending[pending[t]] = NoToken /\ row[pending[t]] # "none"
  /\ \A t \in Token : claim[t] # NoToken =>
       claim[t] # t /\ pending[claim[t]] = NoToken /\ row[claim[t]] # "none"
  /\ \A p \in Proc : ws[p].st = "open" => pending[ws[p].token] = NoToken
  /\ \A m \in handling : row[m.token] # "none"
  /\ \A p \in Proc : \A t \in Carried(p) : pending[t] # NoToken

\* Where the two tokens of node.yaml stand: the first is the executor's, ...
NoClaim       == \A t \in Token : claim[t] = NoToken
FileCurrent   == current = yaml.token /\ NoClaim
\* ... is being adopted, ...
FileAdopting  == claim[yaml.token] # NoToken
\* ... or is on offer, while the second is the executor's, is being adopted, or no other
\* rotation can be asked for.
NoneOpen      == \A p \in Proc : ws[p].st # "open"
NoneAsked     == recent \/ \A m \in handling : m.kind # "rotate"
FileOffered   ==
  /\ pending[yaml.token] # NoToken
  /\ \/ current = yaml.prev /\ NoClaim
     \/ yaml.prev # NoToken /\ claim[yaml.prev] # NoToken /\ recent
     \/ NoneOpen /\ NoneAsked /\ NoClaim
\* The offer has been withdrawn for another, which nobody else has a connection to receive.
FileCancelled ==
  /\ row[yaml.token] = "revoked" /\ current = yaml.prev /\ NoClaim
  /\ \A p, q \in Proc : Carried(p) # {} /\ ws[q].st = "open" => p = q

FileGood == lapsed \/ FileCurrent \/ FileAdopting \/ FileOffered

\* A rotation is about to drop the second token.
Trusts == daemon.rot = "awaiting" \/ \E c \in Cli : Rotates(c, {"confirm", "confirming"})

FileInv ==
  /\ FileGood \/ (FileCancelled /\ ~Trusts)
  /\ \A c \in Cli : Rotates(c, {"confirming"}) => pending[yaml.token] = NoToken

DInv == Displaced /\ FileInv

LEMMA DInvInit == ControlInit => DInv
<1> SUFFICES ASSUME ControlInit PROVE DInv
  OBVIOUS
<1>1. First \in Token /\ NoToken \notin Token
  BY ControlAssumption DEF ControlAssumption
<1>2. \A p \in Proc : Carried(p) = {} /\ ws[p].st = "none"
  BY NoReply DEF ControlInit, Carried, NoSocket
<1>3. Displaced
  BY <1>1, <1>2 DEF ControlInit, Displaced, Over
<1>4. FileInv
  BY <1>1 DEF ControlInit, FileInv, FileGood, FileCurrent, NoClaim
<1> QED
  BY <1>3, <1>4 DEF DInv

\* A step that leaves the relay's rows and the file alone and adds no connection.
LEMMA QuietSteps ==
  ASSUME CInv, DInv, UNCHANGED relay, UNCHANGED <<yaml, lapsed>>,
         \A p \in Proc : /\ ws'[p].st = "open" => ws[p].st = "open" /\ ws'[p].token = ws[p].token
                         /\ Carried(p)' \subseteq Carried(p),
         \A m \in handling' :
           \/ \E h \in handling : m.kind = h.kind /\ m.token = h.token
           \/ \E p \in Proc : ws[p].st = "open" /\ m.token = ws[p].token,
         Trusts' => Trusts,
         \A c \in Cli : Rotates(c, {"confirming"})' => Rotates(c, {"confirming"})
  PROVE  DInv'
<1>0. Displaced /\ FileInv /\ Known
  BY DEF DInv, CInv
<1>1. Displaced'
  <2>1. \A m \in handling' : row[m.token] # "none"
    BY <1>0 DEF Displaced, Known
  <2> QED
    BY <1>0, <2>1, RelayKept DEF Displaced
<1>2. NoneOpen => NoneOpen' /\ (NoneAsked => NoneAsked')
  BY RelayKept DEF NoneOpen, NoneAsked
<1>3. FileGood => FileGood'
  BY <1>2, RelayKept DEF FileGood, FileCurrent, FileAdopting, FileOffered, NoClaim
<1>4. FileCancelled => FileCancelled'
  BY RelayKept DEF FileCancelled, NoClaim
<1>5. pending'[yaml'.token] = pending[yaml.token]
  BY RelayKept
<1>6. FileInv'
  BY <1>0, <1>3, <1>4, <1>5 DEF FileInv
<1> QED
  BY <1>1, <1>6 DEF DInv

LEMMA DFinishAdoption ==
  \A t \in Token : CInv /\ DInv /\ OneAdoption /\ FinishAdoption(t) => DInv'
<1> SUFFICES ASSUME NEW t \in Token, CInv, DInv, OneAdoption, FinishAdoption(t) PROVE DInv'
  OBVIOUS
<1>0. Displaced /\ FileInv /\ Shapes /\ Known /\ Latest /\ Adopters /\ Exchanges
  BY DEF DInv, CInv
<1>1. UNCHANGED <<pending, recent, inbox, yaml, daemon, cli, lapsed>>
  BY DEF FinishAdoption
<1>2. /\ claim[t] # NoToken /\ claim'[t] = NoToken
      /\ \A u \in Token \ {t} : claim'[u] = claim[u]
      /\ current' = t
      /\ \A u \in Token : row'[u] = IF u = claim[t] THEN "revoked" ELSE row[u]
      /\ \A p \in Proc : /\ ws'[p].token = ws[p].token
                         /\ ws'[p].st = IF ws[p].st = "adopting" /\ ws[p].token = t THEN "open"
                                        ELSE IF ws[p].st = "open" THEN "lost" ELSE ws[p].st
      /\ \A m \in handling' :
           \/ \E h \in handling : /\ m.proc = h.proc /\ m.kind = h.kind /\ m.token = h.token
                                  /\ m.alive => h.alive /\ ws[h.proc].st # "open"
           \/ /\ m.proc \in Cli /\ ws[m.proc].st = "adopting" /\ ws[m.proc].token = t
              /\ m = Opening(m.proc)
  BY <1>0, Commits
<1>3. /\ claim[t] \in Token /\ pending[t] = NoToken /\ NoClaim' /\ claim[t] # t
      /\ \A u \in Token : claim[u] # NoToken => u = t
  BY <1>0, <1>2 DEF Shapes, Latest, OneAdoption, NoClaim, Displaced
<1>4. \A p : Carried(p)' = Carried(p)
  BY <1>1 DEF Carried
<1>5. Displaced'
  <2>1. row'[current'] = "live" /\ \A u \in Token : ~Over(u)' => row'[u] = "live"
    BY <1>0, <1>1, <1>2, <1>3 DEF Displaced, Over, NoClaim
  <2>2. \A u \in Token : row[u] # "none" => row'[u] # "none"
    BY <1>2
  <2>3. \A m \in handling' : row'[m.token] # "none"
    <3> TAKE m \in handling'
    <3>1. CASE \E h \in handling : m.token = h.token
      BY <1>0, <2>2, <3>1 DEF Displaced, Shapes, Message
    <3>2. CASE m = Opening(m.proc) /\ ws[m.proc].token = t
      BY <1>0, <1>2, <2>2, <3>2 DEF Opening, Known, Over
    <3> QED
      BY <1>2, <3>1, <3>2
  <2>4. \A p \in Proc : ws'[p].st = "open" => pending[ws'[p].token] = NoToken
    BY <1>0, <1>2, <1>3
  <2>5. \A u \in Token : pending[u] # NoToken => pending[u] \in Token
    BY <1>0 DEF Shapes
  <2> QED
    BY <1>0, <1>1, <1>3, <1>4, <2>1, <2>2, <2>3, <2>4, <2>5 DEF Displaced, NoClaim
<1>6. yaml.token \in Token /\ (yaml.prev # NoToken => yaml.prev \in Token)
  BY <1>0, YamlShapes
<1>7. FileGood'
  <2>1. CASE lapsed
    BY <1>1, <2>1 DEF FileGood
  <2>2. CASE FileCurrent \/ FileCancelled
    BY <1>2, <2>2 DEF FileCurrent, FileCancelled, NoClaim
  <2>3. CASE FileAdopting
    BY <1>1, <1>2, <1>3, <1>6, <2>3 DEF FileAdopting, FileGood, FileCurrent
  <2>4. CASE FileOffered
    <3>1. pending[yaml.token] # NoToken /\ yaml.prev = t
      BY <1>2, <1>3, <1>6, <2>4 DEF FileOffered, NoClaim
    <3> QED
      BY <1>1, <1>2, <1>3, <3>1 DEF FileOffered, FileGood
  <2> QED
    BY <1>0, <2>1, <2>2, <2>3, <2>4 DEF FileInv, FileGood
<1>8. FileInv'
  BY <1>0, <1>1, <1>7 DEF FileInv, Rotates
<1> QED
  BY <1>5, <1>8 DEF DInv

LEMMA DRotationExpires == \A t \in Token : CInv /\ DInv /\ RotationExpires(t) => DInv'
<1> SUFFICES ASSUME NEW t \in Token, CInv, DInv, RotationExpires(t) PROVE DInv'
  OBVIOUS
<1>0. Displaced /\ FileInv /\ Shapes /\ Known /\ Latest /\ Progress
  BY DEF DInv, CInv
<1>1. /\ UNCHANGED <<current, claim, recent, handling, ws, inbox, yaml, daemon, cli>> /\ ~recent
      /\ pending[t] # NoToken /\ lapsed' = (lapsed \/ t \in {yaml.token, yaml.prev})
  BY DEF RotationExpires
<1>2. /\ pending'[t] = NoToken /\ row'[t] = "revoked"
      /\ \A u \in Token \ {t} : pending'[u] = pending[u] /\ row'[u] = row[u]
  BY <1>0 DEF RotationExpires, Shapes
<1>3. \A p : Carried(p)' = Carried(p)
  BY <1>1 DEF Carried
<1>4. /\ \A u \in Token : pending[u] # NoToken => u = t
      /\ \A u \in Token : claim[u] # NoToken => u # t /\ claim[u] \in Token
      /\ \A p \in Proc : Carried(p) = {}
      /\ current \in Token /\ current # t /\ yaml.token \in Token
  BY <1>0, <1>1, YamlShapes DEF Latest, Shapes, Over
<1>5. Displaced'
  <2>1. \A u \in Token : pending'[u] = NoToken
    BY <1>2, <1>4
  <2>2. \A m \in handling : m.token \in Token
    BY <1>0 DEF Shapes, Message
  <2>3. \A u \in Token : row[u] # "none" => row'[u] # "none"
    BY <1>2
  <2>4. \A p \in Proc : ws[p].st = "open" => ws[p].token \in Token
    BY DEF CInv, Sockets
  <2> QED
    BY <1>0, <1>1, <1>2, <1>3, <1>4, <2>1, <2>2, <2>3, <2>4 DEF Displaced, Over
<1>6. ~Trusts'
  BY <1>0, <1>1 DEF Trusts, Progress, Rotates, Arrived
<1>7. FileGood \/ FileCancelled => FileGood' \/ FileCancelled'
  <2>1. CASE lapsed \/ t = yaml.token
    BY <1>1, <2>1 DEF FileGood
  <2>2. CASE FileCurrent \/ FileAdopting
    BY <1>1, <2>2 DEF FileCurrent, FileAdopting, NoClaim, FileGood
  <2>3. CASE FileOffered
    BY <1>4, <2>1, <2>3 DEF FileOffered
  <2>4. CASE FileCancelled /\ t # yaml.token
    BY <1>1, <1>2, <1>3, <1>4, <2>4 DEF FileCancelled, NoClaim
  <2> QED
    BY <2>1, <2>2, <2>3, <2>4 DEF FileGood
<1>8. FileInv'
  <2>1. \A c \in Cli : ~Rotates(c, {"confirming"})'
    BY <1>6 DEF Trusts, Rotates
  <2> QED
    BY <1>0, <1>6, <1>7, <2>1 DEF FileInv
<1> QED
  BY <1>5, <1>8 DEF DInv

LEMMA DMinuteElapses == CInv /\ DInv /\ MinuteElapses => DInv'
<1> SUFFICES ASSUME CInv, DInv, MinuteElapses PROVE DInv'
  OBVIOUS
<1>0. Displaced /\ FileInv /\ Shapes /\ Known
  BY DEF DInv, CInv
<1>1. /\ UNCHANGED <<current, row, pending, claim, handling, ws, inbox, yaml, daemon, cli, lapsed>>
      /\ handling = {} /\ NoClaim
  BY DEF MinuteElapses, NoClaim
<1>2. /\ \A p : Carried(p)' = Carried(p)
      /\ yaml.prev # NoToken => yaml.prev \in Token
  BY <1>0, <1>1, YamlShapes DEF Carried
<1>3. Displaced'
  BY <1>0, <1>1, <1>2 DEF Displaced, Over
<1>4. FileOffered => FileOffered'
  BY <1>1, <1>2 DEF FileOffered, NoneOpen, NoneAsked, NoClaim
<1>5. FileGood => FileGood'
  BY <1>1, <1>4 DEF FileGood, FileCurrent, FileAdopting, NoClaim
<1>6. FileCancelled => FileCancelled'
  BY <1>1, <1>2 DEF FileCancelled, NoClaim
<1>7. FileInv'
  BY <1>0, <1>1, <1>5, <1>6 DEF FileInv, Trusts, Rotates
<1> QED
  BY <1>3, <1>7 DEF DInv

\* A rotation withdraws the one before it, and its token is on its way to the only connection.
LEMMA DHandles == \A m \in handling : CInv /\ DInv /\ (HandleRotate(m) \/ HandleOther(m)) => DInv'
<1> SUFFICES ASSUME NEW m \in handling, CInv, DInv, HandleRotate(m) \/ HandleOther(m) PROVE DInv'
  OBVIOUS
<1>0. Displaced /\ FileInv /\ Shapes /\ Sockets /\ Exchanges /\ Known /\ Latest /\ Progress
  BY DEF DInv, CInv
<1>1. PICK r \in Reply :
        /\ Answered(m, r)
        /\ \/ /\ UNCHANGED relay
              /\ \/ m.kind = "rotate" /\ r.kind = "refused"
                 \/ m.kind = "rename" /\ r.kind \in {"named", "misnamed"}
                 \/ m.kind = "sync" /\ r.kind = "synced"
           \/ /\ m.kind = "rotate" /\ r.kind = "token" /\ r.token \in Token /\ row[r.token] = "none"
              /\ ~recent /\ recent' = TRUE /\ UNCHANGED <<current, claim>>
              /\ row' \in [Token -> {"none", "live", "revoked"}]
              /\ pending' \in [Token -> Token \cup {NoToken}]
              /\ row'[r.token] = "live" /\ pending'[r.token] = m.token
              /\ \A u \in Token \ {r.token} :
                   /\ row'[u] = IF pending[u] # NoToken THEN "revoked" ELSE row[u]
                   /\ pending'[u] = NoToken
  BY <1>0, Handles
<1>2. UNCHANGED <<ws, yaml, daemon, cli, lapsed>>
  BY DEF HandleRotate, HandleOther
<1>3. /\ handling' \subseteq handling
      /\ \A p \in Proc :
           IF p = m.proc /\ m.alive
           THEN TokensOf(inbox'[p]) = TokensOf(inbox[p]) \cup (IF r.kind = "token" THEN {r.token} ELSE {})
           ELSE inbox'[p] = inbox[p]
  BY <1>0, <1>1, Answers
<1>4. \A p \in Proc :
        /\ r.kind # "token" \/ ~(p = m.proc /\ m.alive) => Carried(p)' = Carried(p)
        /\ r.kind = "token" => Carried(p)' \subseteq Carried(p) \cup {r.token}
  BY <1>3 DEF Carried
<1>5. /\ Trusts' => Trusts
      /\ \A c \in Cli : Rotates(c, {"confirming"})' => Rotates(c, {"confirming"})
  BY <1>2 DEF Trusts, Rotates
<1>6. CASE UNCHANGED relay /\ r.kind # "token"
  <2>1. \A x \in handling' : \E h \in handling : x.kind = h.kind /\ x.token = h.token
    BY <1>3
  <2>2. \A p \in Proc : /\ ws'[p].st = "open" => ws[p].st = "open" /\ ws'[p].token = ws[p].token
                        /\ Carried(p)' \subseteq Carried(p)
    BY <1>2, <1>4, <1>6
  <2> QED
    BY <1>2, <1>5, <1>6, <2>1, <2>2, QuietSteps
<1>7. ASSUME m.kind = "rotate", r.kind = "token", r.token \in Token, row[r.token] = "none",
             ~recent, recent' = TRUE, UNCHANGED <<current, claim>>,
             row'[r.token] = "live", pending'[r.token] = m.token,
             \A u \in Token \ {r.token} :
               /\ row'[u] = IF pending[u] # NoToken THEN "revoked" ELSE row[u]
               /\ pending'[u] = NoToken
      PROVE  DInv'
  <2>1. PICK n \in Token : n = r.token
    BY <1>7
  <2>2. /\ \A p \in Proc : Carried(p)' \subseteq {n}
        /\ \A p \in Proc : Carried(p)' # {} => p = m.proc /\ m.alive
    BY <1>0, <1>4, <1>7, <2>1 DEF Latest
  <2>3. /\ m.token \in Token /\ m.token # NoToken /\ row[m.token] # "none"
        /\ m.proc \in Proc /\ (m.alive => ws[m.proc].st = "open")
    BY <1>0, Processes DEF Shapes, Message, Exchanges, Displaced
  <2>4. /\ n # current /\ n # yaml.token /\ row[n] = "none" /\ claim[n] = NoToken
        /\ \A u \in Token : claim[u] # NoToken => u # n /\ claim[u] \in Token /\ pending[u] = NoToken
        /\ current \in Token /\ pending[current] = NoToken /\ yaml.token \in Token
        /\ NoToken \notin Token
    BY <1>0, <1>7, <2>1, YamlShapes, Processes DEF Known, Over, Shapes, Latest
  <2>5. Displaced'
    <3>1. \A u \in Token : row[u] # "none" => u # n /\ pending'[u] = NoToken /\ row'[u] # "none"
      BY <1>7, <2>1, <2>4
    <3>2. row'[current] = "live" /\ \A u \in Token : ~Over(u)' => row'[u] = "live"
      BY <1>0, <1>7, <2>1, <2>4 DEF Displaced, Over
    <3>3. \A u \in Token : pending'[u] # NoToken =>
            pending'[u] # u /\ pending'[pending'[u]] = NoToken /\ row'[pending'[u]] # "none"
      BY <1>7, <2>1, <2>3, <3>1
    <3>4. \A u \in Token : claim[u] # NoToken =>
            claim[u] # u /\ pending'[claim[u]] = NoToken /\ row'[claim[u]] # "none"
      BY <1>0, <2>4, <3>1 DEF Displaced
    <3>5. \A p \in Proc : ws[p].st = "open" => pending'[ws[p].token] = NoToken
      BY <1>0, <3>1 DEF Known, Sockets
    <3>6. \A x \in handling' : row'[x.token] # "none"
      BY <1>0, <1>3, <3>1 DEF Displaced, Shapes, Message
    <3>7. \A p \in Proc : \A t \in Carried(p)' : pending'[t] # NoToken
      BY <1>7, <2>1, <2>2, <2>3
    <3> QED
      BY <1>2, <1>7, <3>2, <3>3, <3>4, <3>5, <3>6, <3>7 DEF Displaced
  <2>6. ~Trusts'
    BY <1>0, <1>2, <1>7 DEF Trusts, Progress, Arrived, Rotates
  <2>7. \A c \in Cli : ~Rotates(c, {"confirming"})'
    BY <2>6 DEF Trusts, Rotates
  <2>8. \A p, q \in Proc : Carried(p)' # {} /\ ws[q].st = "open" => p = q
    BY <1>0, <2>2, <2>3 DEF Sockets
  <2>9. FileGood' \/ FileCancelled'
    <3>1. CASE lapsed \/ FileCurrent \/ FileAdopting
      BY <1>2, <1>7, <3>1 DEF FileGood, FileCurrent, FileAdopting, NoClaim
    <3>2. CASE FileOffered
      <4>1. current = yaml.prev /\ NoClaim
        BY <1>7, <3>2 DEF FileOffered, NoneAsked
      <4>2. row'[yaml.token] = "revoked"
        BY <1>7, <2>1, <2>4, <3>2 DEF FileOffered
      <4> QED
        BY <1>2, <1>7, <2>8, <4>1, <4>2 DEF FileCancelled, NoClaim
    <3>3. CASE FileCancelled
      <4>1. row'[yaml.token] = "revoked"
        BY <1>7, <2>1, <2>4, <3>3 DEF FileCancelled
      <4> QED
        BY <1>2, <1>7, <2>8, <3>3, <4>1 DEF FileCancelled, NoClaim
    <3> QED
      BY <1>0, <3>1, <3>2, <3>3 DEF FileInv, FileGood
  <2> QED
    BY <2>5, <2>6, <2>7, <2>9 DEF DInv, FileInv
<1> QED
  BY <1>1, <1>6, <1>7

\* A connection with the file's token is the executor's, or begins its adoption.
LEMMA DConnects ==
  ASSUME CInv, DInv, NEW p \in Proc, NEW t \in Token, NEW k \in SUBSET {"rotate", "rename", "sync"},
         ConnectWith(p, t, k), Authenticates(t), ws[p].st = "none", t = yaml.token,
         inbox' = inbox, lapsed' = lapsed, yaml'.token = yaml.token
  PROVE  Displaced' /\ FileGood' /\ pending'[yaml'.token] = NoToken
<1>0. Displaced /\ FileInv /\ Shapes /\ Sockets /\ Known /\ Latest
  BY DEF DInv, CInv
<1>1. /\ UNCHANGED <<current, row, recent>>
      /\ ws'[p].token = t
      /\ \A q \in Proc \ {p} : ws'[q].token = ws[q].token
      /\ \A m \in handling' :
           \/ \E h \in handling : m.token = h.token
           \/ m.token = t
      /\ pending[t] # NoToken =>
           /\ ws'[p].st = "adopting" /\ \A q \in Proc \ {p} : ws'[q].st = ws[q].st
           /\ pending'[t] = NoToken /\ claim'[t] = pending[t]
           /\ \A u \in Token \ {t} : pending'[u] = pending[u] /\ claim'[u] = claim[u]
      /\ pending[t] = NoToken =>
           /\ ws'[p].st = "open"
           /\ \A q \in Proc \ {p} : ws'[q].st = IF ws[q].st = "open" THEN "lost" ELSE ws[q].st
           /\ pending' = pending /\ claim' = claim
  <2>1. \A m \in handling' : (\E h \in handling : m.token = h.token) \/ m.token = t
    <3>1. HandledAfter(p, t)
      BY <1>0, ConnectsMessages
    <3> QED
      BY <3>1 DEF HandledAfter
  <2> QED
    BY <1>0, <2>1, ConnectsRelay
<1>2. /\ row[t] = "live" /\ Over(current)
      /\ pending[t] = NoToken => current = t
      /\ \A u \in Token : claim[u] # NoToken => pending[u] = NoToken
      /\ \A u, v \in Token : pending[u] # NoToken /\ pending[v] # NoToken => u = v
  BY <1>0 DEF Latest, Authenticates
<1>3. \A q : Carried(q)' = Carried(q)
  BY DEF Carried
<1>4. \A q \in Proc : \A u \in Carried(q) : u \in Token /\ u # t
  BY <1>0 DEF Known, Latest
<1>5. \A m \in handling' : row[m.token] # "none"
  BY <1>0, <1>1, <1>2 DEF Displaced
<1>6. CASE pending[t] # NoToken
  <2>1. Displaced'
    <3>1. /\ pending[t] \in Token /\ pending[t] # t /\ pending[pending[t]] = NoToken
          /\ row[pending[t]] # "none"
      BY <1>0, <1>6 DEF Displaced, Shapes
    <3>2. /\ claim'[t] = pending[t] /\ pending'[t] = NoToken
          /\ \A u \in Token \ {t} : pending'[u] = pending[u] /\ claim'[u] = claim[u]
          /\ \A q \in Proc : ws'[q].st = "open" => ws[q].st = "open" /\ ws'[q].token = ws[q].token
      BY <1>1, <1>6
    <3>3. /\ \A u \in Token : pending'[u] = NoToken \/ (pending'[u] = pending[u] /\ u # t)
          /\ \A u \in Token : pending[u] = NoToken => pending'[u] = NoToken
      BY <3>2
    <3>4. row'[current'] = "live" /\ \A u \in Token : ~Over(u)' => row'[u] = "live"
      <4>1. \A u \in Token \ {t} : Over(u)' <=> Over(u)
        BY <3>2 DEF Over
      <4> QED
        BY <1>0, <1>1, <1>2, <4>1 DEF Displaced
    <3>5. \A u \in Token : pending'[u] # NoToken =>
            pending'[u] # u /\ pending'[pending'[u]] = NoToken /\ row'[pending'[u]] # "none"
      <4>1. \A u \in Token : pending[u] # NoToken => pending[u] \in Token
        BY <1>0 DEF Shapes
      <4> QED
        BY <1>0, <1>1, <3>3, <4>1 DEF Displaced
    <3>6. \A u \in Token : claim'[u] # NoToken =>
            claim'[u] # u /\ pending'[claim'[u]] = NoToken /\ row'[claim'[u]] # "none"
      <4>1. \A u \in Token : claim[u] # NoToken => claim[u] \in Token
        BY <1>0 DEF Shapes
      <4>2. TAKE u \in Token
      <4>3. CASE u = t
        BY <1>1, <3>1, <3>2, <3>3, <4>3
      <4>4. CASE u # t
        BY <1>0, <1>1, <3>2, <3>3, <4>1, <4>4 DEF Displaced
      <4> QED
        BY <4>3, <4>4
    <3>7. \A q \in Proc : ws'[q].st = "open" => pending'[ws'[q].token] = NoToken
      <4>1. \A q \in Proc : ws[q].st = "open" => ws[q].token \in Token /\ pending[ws[q].token] = NoToken
        BY <1>0 DEF Displaced, Sockets
      <4> QED
        BY <3>2, <3>3, <4>1
    <3>8. \A q \in Proc : \A u \in Carried(q)' : pending'[u] # NoToken
      BY <1>0, <1>3, <1>4, <3>2 DEF Displaced
    <3> QED
      BY <1>1, <1>5, <3>4, <3>5, <3>6, <3>7, <3>8 DEF Displaced
  <2> QED
    BY <1>1, <1>6, <2>1 DEF FileGood, FileAdopting
<1>7. CASE pending[t] = NoToken
  <2>1. Displaced'
    BY <1>0, <1>1, <1>2, <1>3, <1>5, <1>7 DEF Displaced, Over
  <2>2. ~FileAdopting /\ ~FileOffered /\ ~FileCancelled
    BY <1>2, <1>7 DEF FileAdopting, FileOffered, FileCancelled, Over
  <2>3. lapsed \/ FileCurrent
    BY <1>0, <2>2 DEF FileInv, FileGood
  <2>4. FileGood'
    BY <1>1, <1>7, <2>3 DEF FileGood, FileCurrent, NoClaim
  <2> QED
    BY <1>1, <1>7, <2>1, <2>4
<1> QED
  BY <1>6, <1>7
LEMMA DDaemonConnects == CInv /\ DInv /\ DaemonConnects => DInv'
<1> SUFFICES ASSUME CInv, DInv, DaemonConnects PROVE DInv'
  OBVIOUS
<1>1. PICK t \in Token : t = yaml.token
  BY YamlShapes DEF CInv
<1>2. /\ ConnectWith(Daemon, t, {}) /\ Authenticates(t) /\ ws[Daemon].st = "none"
      /\ inbox' = inbox /\ lapsed' = lapsed /\ (yaml' = Confirmed \/ yaml' = yaml)
  BY <1>1 DEF DaemonConnects
<1>3. yaml'.token = yaml.token
  BY <1>2, YamlShapes DEF CInv
<1>4. Displaced' /\ FileGood' /\ pending'[yaml'.token] = NoToken
  BY <1>1, <1>2, <1>3, Processes, DConnects
<1> QED
  BY <1>4 DEF DInv, FileInv

LEMMA DDials == \A c \in Cli : CInv /\ DInv /\ (Dial(c) \/ DialAgain(c)) => DInv'
<1> SUFFICES ASSUME NEW c \in Cli, CInv, DInv, Dial(c) \/ DialAgain(c) PROVE DInv'
  OBVIOUS
<1>0. Shapes /\ Sockets
  BY DEF CInv
<1>1. PICK t \in Token : t = yaml.token
  BY <1>0, YamlShapes
<1>2. PICK k \in SUBSET {"rotate", "rename", "sync"} : ConnectWith(c, t, k)
  <2>1. {cli[c].cmd} \in SUBSET {"rotate", "rename", "sync"} /\ {"sync"} \in SUBSET {"rotate", "rename", "sync"}
    BY <1>0 DEF Shapes, CliRec
  <2> QED
    BY <1>1, <2>1 DEF Dial, DialAgain
<1>3. /\ Authenticates(t) /\ ws[c].st = "none" /\ c \in Proc
      /\ inbox' = inbox /\ lapsed' = lapsed /\ yaml'.token = yaml.token
  BY <1>0, <1>1, Processes DEF Dial, DialAgain, Sockets
<1>4. Displaced' /\ FileGood' /\ pending'[yaml'.token] = NoToken
  BY <1>1, <1>2, <1>3, DConnects
<1> QED
  BY <1>4 DEF DInv, FileInv

\* A process that hangs up takes no part in what is offered or adopted.
LEMMA DisplacedGone ==
  ASSUME CInv, Displaced, NEW p \in Proc, Gone(p), UNCHANGED relay
  PROVE  /\ Displaced'
         /\ \A q \in Proc : /\ ws'[q].st = "open" => ws[q].st = "open" /\ q # p /\ ws'[q].token = ws[q].token
                            /\ Carried(q)' \subseteq Carried(q)
         /\ \A m \in handling' : \E h \in handling : m.kind = h.kind /\ m.token = h.token
<1>1. /\ \A q \in Proc : /\ ws'[q].st = "open" => ws[q].st = "open" /\ q # p /\ ws'[q].token = ws[q].token
                         /\ Carried(q)' \subseteq Carried(q)
      /\ \A m \in handling' : \E h \in handling : m.kind = h.kind /\ m.token = h.token
  BY Goes, GoneFrame DEF CInv
<1>2. Displaced'
  BY <1>1, RelayKept DEF Displaced
<1> QED
  BY <1>1, <1>2

\* p writes the token that it was sent to node.yaml: the one on offer.
LEMMA DTaken ==
  ASSUME CInv, DInv, NEW p \in Proc, NEW t \in Token, t \in Carried(p), Gone(p), UNCHANGED relay,
         lapsed' = lapsed, yaml'.token = t, yaml'.prev = yaml.token,
         \A c \in Cli : Rotates(c, {"confirming"})' => Rotates(c, {"confirming"})
  PROVE  DInv'
<1>0. Displaced /\ FileInv /\ Latest /\ Progress /\ Shapes
  BY DEF DInv, CInv
<1>1. /\ Displaced'
      /\ \A q \in Proc : ws'[q].st = "open" => ws[q].st = "open" /\ q # p
  BY <1>0, DisplacedGone
<1>2. /\ recent /\ t # yaml.token /\ pending[t] # NoToken
      /\ \A u \in Token : pending[u] # NoToken => u = t
  BY <1>0 DEF Latest, Displaced
<1>3. yaml.token \in Token /\ NoToken \notin Token
  BY <1>0, YamlShapes, Processes
<1>4. \A c \in Cli : ~Rotates(c, {"confirming"})'
  BY <1>0 DEF Progress, Arrived, Rotates
<1>5. UNCHANGED <<current, pending, claim, recent>>
  BY RelayKept
<1>6. FileGood'
  <2>1. CASE lapsed
    BY <2>1 DEF FileGood
  <2>2. CASE FileCurrent
    BY <1>2, <1>5, <2>2 DEF FileCurrent, FileGood, FileOffered, NoClaim
  <2>3. CASE FileAdopting
    BY <1>2, <1>3, <1>5, <2>3 DEF FileAdopting, FileGood, FileOffered
  <2>4. CASE FileOffered
    BY <1>2, <1>3, <2>4 DEF FileOffered
  <2>5. CASE FileCancelled
    <3>1. NoneOpen' /\ NoneAsked' /\ NoClaim'
      BY <1>1, <1>2, <1>5, <2>5 DEF FileCancelled, NoneOpen, NoneAsked, NoClaim
    <3> QED
      BY <1>2, <1>5, <3>1 DEF FileGood, FileOffered
  <2> QED
    BY <1>0, <2>1, <2>2, <2>3, <2>4, <2>5 DEF FileInv, FileGood
<1> QED
  BY <1>1, <1>4, <1>6 DEF DInv, FileInv

\* Whoever trusts the first token keeps trusting it.
LEMMA TrustsLess ==
  ASSUME daemon'.rot = "awaiting" => daemon.rot = "awaiting",
         \A c \in Cli : cli'[c].cmd = cli[c].cmd
                        /\ (cli'[c].pc \in {"confirm", "confirming"} => cli'[c].pc = cli[c].pc)
  PROVE  /\ Trusts' => Trusts
         /\ \A c \in Cli : Rotates(c, {"confirming"})' => Rotates(c, {"confirming"})
<1>1. \A c \in Cli : /\ Rotates(c, {"confirming"})' => Rotates(c, {"confirming"})
                     /\ Rotates(c, {"confirm", "confirming"})' => Rotates(c, {"confirm", "confirming"})
  BY DEF Rotates
<1> QED
  BY <1>1 DEF Trusts

LEMMA DCommandReceives == \A c \in Cli : CInv /\ DInv /\ CommandReceives(c) => DInv'
<1> SUFFICES ASSUME NEW c \in Cli, CInv, DInv, CommandReceives(c) PROVE DInv'
  OBVIOUS
<1> DEFINE m == Head(inbox[c])
<1>0. Shapes /\ Exchanges /\ Displaced /\ FileInv
  BY DEF CInv, DInv
<1>1. /\ Gone(c) /\ UNCHANGED relay /\ UNCHANGED <<daemon, lapsed>> /\ inbox[c] # <<>> /\ c \in Proc
  BY Processes DEF CommandReceives, HangUp, Gone
<1>2. /\ m \in Reply /\ (m.kind = "token" => m.token \in Carried(c)) /\ m.kind \in Kinds(cli[c].cmd)
  <2>1. inbox[c] \in Seq(Reply)
    BY <1>0, <1>1 DEF Shapes
  <2> QED
    BY <1>0, <1>1, <2>1, TailReply DEF Carried, Exchanges
<1>3. \/ cli[c].pc = "asked" /\ m.kind = "token" /\ yaml' = Rotated(m.token) /\ cli' = At(c, "confirm")
      \/ cli[c].pc = "confirming" /\ yaml' = Confirmed /\ cli' = At(c, "done")
      \/ (cli' = At(c, "done") \/ cli' = At(c, "failed")) /\ UNCHANGED yaml
  BY DEF CommandReceives, At
<1> HIDE DEF m
<1>4. {"confirm", "done", "failed"} \subseteq Pc
  BY DEF Pc, Ended
<1>5. CASE m.kind = "token" /\ yaml' = Rotated(m.token) /\ cli' = At(c, "confirm")
  <2>1. PICK t \in Token : t = m.token
    BY <1>2, <1>5, ReplyShapes DEF ReplyShape
  <2>2. yaml'.token = t /\ yaml'.prev = yaml.token
    BY <1>0, <1>5, <2>1, YamlShapes
  <2>3. \A d \in Cli : Rotates(d, {"confirming"})' => Rotates(d, {"confirming"})
    <3>1. \A d \in Cli : At(c, "confirm")[d].cmd = cli[d].cmd
                         /\ At(c, "confirm")[d].pc = (IF d = c THEN "confirm" ELSE cli[d].pc)
      BY <1>0, <1>4, PcStep
    <3> QED
      BY <1>5, <3>1 DEF Rotates
  <2>4. t \in Carried(c)
    BY <1>2, <1>5, <2>1
  <2>5. Gone(c) /\ UNCHANGED relay /\ lapsed' = lapsed /\ c \in Proc
    BY <1>1
  <2> HIDE <1>5
  <2> QED
    BY <2>2, <2>3, <2>4, <2>5, DTaken
<1>6. CASE cli[c].pc = "confirming" /\ yaml' = Confirmed /\ cli' = At(c, "done")
  <2>1. Rotates(c, {"confirming"}) /\ Trusts
    BY <1>0, <1>6 DEF Exchanges, Rotates, Trusts
  <2>2. FileGood /\ pending[yaml.token] = NoToken
    BY <1>0, <2>1 DEF FileInv
  <2>3. yaml'.token = yaml.token
    BY <1>0, <1>6, YamlShapes
  <2>4. FileGood'
    BY <1>1, <2>2, <2>3, RelayKept DEF FileGood, FileCurrent, FileAdopting, FileOffered, NoClaim
  <2>5. Displaced' /\ pending'[yaml'.token] = NoToken
    BY <1>0, <1>1, <2>2, <2>3, DisplacedGone, RelayKept
  <2> QED
    BY <2>4, <2>5 DEF DInv, FileInv
<1>7. CASE (cli' = At(c, "done") \/ cli' = At(c, "failed")) /\ UNCHANGED yaml
  <2>1. \A d \in Cli : cli'[d].cmd = cli[d].cmd
                       /\ (cli'[d].pc \in {"confirm", "confirming"} => cli'[d].pc = cli[d].pc)
    BY <1>0, <1>4, <1>7, PcStep
  <2>2. /\ Trusts' => Trusts
        /\ \A d \in Cli : Rotates(d, {"confirming"})' => Rotates(d, {"confirming"})
    BY <1>1, <2>1, TrustsLess
  <2> QED
    BY <1>0, <1>1, <1>7, <2>2, DisplacedGone, QuietSteps
<1> QED
  BY <1>3, <1>5, <1>6, <1>7

LEMMA DDaemonReceives == CInv /\ DInv /\ DaemonReceives => DInv'
<1> SUFFICES ASSUME CInv, DInv, DaemonReceives PROVE DInv'
  OBVIOUS
<1> DEFINE m == Head(inbox[Daemon])
<1>0. Shapes /\ Displaced
  BY DEF CInv, DInv
<1>1. UNCHANGED relay /\ UNCHANGED lapsed /\ inbox[Daemon] # <<>> /\ inbox[Daemon] \in Seq(Reply)
  BY <1>0, Processes DEF DaemonReceives, Shapes
<1>2. CASE m.kind = "token" /\ AwaitsToken
  <2>1. Gone(Daemon) /\ UNCHANGED cli /\ yaml' = Rotated(m.token)
    BY <1>2 DEF DaemonReceives, Gone
  <2>2. m.token \in Carried(Daemon) /\ m.token \in Token
    BY <1>1, <1>2, TailReply, ReplyShapes DEF ReplyShape, Carried
  <2> HIDE DEF m
  <2>3. PICK t \in Token : t = m.token
    BY <2>2
  <2>4. yaml'.token = t /\ yaml'.prev = yaml.token
    BY <1>0, <2>1, <2>3, YamlShapes
  <2>5. \A d \in Cli : Rotates(d, {"confirming"})' => Rotates(d, {"confirming"})
    BY <2>1 DEF Rotates
  <2> QED
    BY <1>1, <2>1, <2>2, <2>3, <2>4, <2>5, Processes, DTaken
<1>3. CASE ~(m.kind = "token" /\ AwaitsToken)
  <2>1. /\ UNCHANGED <<yaml, ws, handling>>
        /\ inbox' = [inbox EXCEPT ![Daemon] = Tail(inbox[Daemon])]
        /\ \/ cli' = Settled(daemon.asker, "failed") /\ daemon' = RotationEnded
           \/ /\ cli' = Settled(daemon.naming, "done") \/ cli' = Settled(daemon.naming, "failed")
              /\ daemon' = Naming(NoCli)
           \/ UNCHANGED <<cli, daemon>>
    BY <1>3 DEF DaemonReceives, RotationEnded, Naming
  <2>2. \A q \in Proc : Carried(q)' \subseteq Carried(q)
    <3>1. /\ inbox'[Daemon] = Tail(inbox[Daemon]) /\ \A q \in Proc \ {Daemon} : inbox'[q] = inbox[q]
      BY <1>0, <2>1, Processes DEF Shapes
    <3> QED
      BY <1>1, <3>1, TailReply DEF Carried
  <2>3. \A d \in Cli : cli'[d].cmd = cli[d].cmd
                       /\ (cli'[d].pc \in {"confirm", "confirming"} => cli'[d].pc = cli[d].pc)
    <3>1. {"done", "failed"} \subseteq Pc /\ daemon.asker \in Cli \cup {NoCli} /\ daemon.naming \in Cli \cup {NoCli}
      BY <1>0, DaemonShapes DEF Pc, Ended
    <3>2. CASE cli' = Settled(daemon.asker, "failed")
      BY <1>0, <3>1, <3>2, Settles
    <3>3. CASE cli' = Settled(daemon.naming, "done")
      BY <1>0, <3>1, <3>3, Settles
    <3>4. CASE cli' = Settled(daemon.naming, "failed")
      BY <1>0, <3>1, <3>4, Settles
    <3> QED
      BY <2>1, <3>2, <3>3, <3>4
  <2>4. daemon'.rot = "awaiting" => daemon.rot = "awaiting"
    BY <1>0, <2>1, DaemonFields
  <2>5. /\ Trusts' => Trusts
        /\ \A d \in Cli : Rotates(d, {"confirming"})' => Rotates(d, {"confirming"})
    BY <2>3, <2>4, TrustsLess
  <2> QED
    BY <1>1, <2>1, <2>2, <2>5, QuietSteps
<1> QED
  BY <1>2, <1>3

LEMMA DQuietDaemon ==
  CInv /\ DInv /\ (DaemonStarts \/ DaemonListens \/ DaemonStops \/ DaemonLosesSocket
                   \/ RotationTimesOut \/ RenameTimesOut) => DInv'
<1> SUFFICES ASSUME CInv, DInv, DaemonStarts \/ DaemonListens \/ DaemonStops \/ DaemonLosesSocket
                                \/ RotationTimesOut \/ RenameTimesOut
             PROVE DInv'
  OBVIOUS
<1>0. Shapes /\ Displaced
  BY DEF CInv, DInv
<1>1. /\ UNCHANGED relay /\ UNCHANGED <<yaml, lapsed>>
      /\ UNCHANGED <<ws, inbox, handling>> \/ Gone(Daemon)
      /\ \/ UNCHANGED cli /\ (UNCHANGED daemon \/ daemon'.rot = daemon.rot \/ daemon'.rot = "idle")
         \/ cli' = Settled(daemon.asker, "failed") /\ daemon' = RotationEnded
         \/ cli' = Settled(daemon.naming, "failed") /\ daemon' = Naming(NoCli)
  <2>1. CASE DaemonStarts \/ DaemonListens
    BY <1>0, <2>1 DEF DaemonStarts, DaemonListens, NotUp, Shapes, DaemonRec
  <2>2. CASE DaemonStops \/ DaemonLosesSocket
    BY <2>2 DEF DaemonStops, DaemonLosesSocket, Gone, NotUp
  <2>3. CASE RotationTimesOut \/ RenameTimesOut
    BY <2>3 DEF RotationTimesOut, RenameTimesOut, RotationEnded, Naming
  <2> QED
    BY <2>1, <2>2, <2>3
<1>2. /\ daemon'.rot = "awaiting" => daemon.rot = "awaiting"
      /\ \A d \in Cli : cli'[d].cmd = cli[d].cmd
                        /\ (cli'[d].pc \in {"confirm", "confirming"} => cli'[d].pc = cli[d].pc)
  <2>1. "failed" \in Pc /\ daemon.asker \in Cli \cup {NoCli} /\ daemon.naming \in Cli \cup {NoCli}
    BY <1>0, DaemonShapes DEF Pc, Ended
  <2>2. CASE cli' = Settled(daemon.asker, "failed") /\ daemon' = RotationEnded
    BY <1>0, <2>1, <2>2, Settles, DaemonFields
  <2>3. CASE cli' = Settled(daemon.naming, "failed") /\ daemon' = Naming(NoCli)
    BY <1>0, <2>1, <2>3, Settles, DaemonFields
  <2> QED
    BY <1>1, <2>2, <2>3
<1>3. /\ Trusts' => Trusts
      /\ \A d \in Cli : Rotates(d, {"confirming"})' => Rotates(d, {"confirming"})
  BY <1>2, TrustsLess
<1>4. CASE UNCHANGED <<ws, inbox, handling>>
  <2>1. \A p \in Proc : Carried(p)' = Carried(p)
    BY <1>4 DEF Carried
  <2> QED
    BY <1>1, <1>3, <1>4, <2>1, QuietSteps
<1>5. CASE Gone(Daemon)
  BY <1>0, <1>1, <1>3, <1>5, Processes, DisplacedGone, QuietSteps
<1> QED
  BY <1>1, <1>4, <1>5

LEMMA DQuietCommands ==
  \A c \in Cli : CInv /\ DInv /\ (AskDaemon(c) \/ NoDaemon(c) \/ ControlTimesOut(c) \/ CommandFails(c)) => DInv'
<1> SUFFICES ASSUME NEW c \in Cli, CInv, DInv,
                    AskDaemon(c) \/ NoDaemon(c) \/ ControlTimesOut(c) \/ CommandFails(c)
             PROVE  DInv'
  OBVIOUS
<1>0. Shapes /\ Displaced /\ c \in Proc
  BY Processes DEF CInv, DInv
<1>1. /\ UNCHANGED relay /\ UNCHANGED <<yaml, lapsed>>
      /\ UNCHANGED daemon \/ daemon' = AskedBy(c) \/ daemon' = Naming(c)
      /\ \/ cli' = Begins(c, "failed") \/ cli' = Begins(c, "control") \/ cli' = Begins(c, "direct")
         \/ cli' = At(c, "direct") \/ cli' = At(c, "failed")
      /\ \/ Gone(c)
         \/ UNCHANGED <<ws, inbox, handling>>
         \/ /\ UNCHANGED <<ws, inbox>> /\ ws[Daemon].st = "open"
            /\ handling' = handling \cup {[proc |-> Daemon, kind |-> cli[c].cmd,
                                           token |-> ws[Daemon].token, alive |-> TRUE]}
  <2>1. CASE AskDaemon(c)
    BY <2>1 DEF AskDaemon, AskedBy, Naming, Begins
  <2>2. CASE NoDaemon(c) \/ ControlTimesOut(c)
    BY <2>2 DEF NoDaemon, ControlTimesOut, Begins, At
  <2>3. CASE CommandFails(c)
    BY <2>3 DEF CommandFails, HangUp, Gone, At
  <2> QED
    BY <2>1, <2>2, <2>3
<1>2. /\ daemon'.rot = "awaiting" => daemon.rot = "awaiting"
      /\ \A d \in Cli : cli'[d].cmd = cli[d].cmd
                        /\ (cli'[d].pc \in {"confirm", "confirming"} => cli'[d].pc = cli[d].pc)
  <2>1. daemon'.rot = "awaiting" => daemon.rot = "awaiting"
    BY <1>0, <1>1, DaemonFields
  <2>2. {"failed", "control", "direct"} \subseteq Pc
    BY DEF Pc, Ended
  <2>3. CASE cli' = Begins(c, "failed") \/ cli' = Begins(c, "control") \/ cli' = Begins(c, "direct")
    BY <1>0, <2>1, <2>2, <2>3, StartStep
  <2>4. CASE cli' = At(c, "direct") \/ cli' = At(c, "failed")
    BY <1>0, <2>1, <2>2, <2>4, PcStep
  <2> QED
    BY <1>1, <2>3, <2>4
<1>3. /\ Trusts' => Trusts
      /\ \A d \in Cli : Rotates(d, {"confirming"})' => Rotates(d, {"confirming"})
  BY <1>2, TrustsLess
<1>4. CASE Gone(c)
  BY <1>0, <1>1, <1>3, <1>4, DisplacedGone, QuietSteps
<1>5. CASE UNCHANGED <<ws, inbox>> /\ ~Gone(c)
  <2>1. \A p \in Proc : Carried(p)' = Carried(p)
    BY <1>5 DEF Carried
  <2>2. \A m \in handling' :
           \/ \E h \in handling : m.kind = h.kind /\ m.token = h.token
           \/ \E p \in Proc : ws[p].st = "open" /\ m.token = ws[p].token
    BY <1>1, <1>5, Processes
  <2> QED
    BY <1>1, <1>3, <1>5, <2>1, <2>2, QuietSteps
<1> QED
  BY <1>1, <1>4, <1>5

LEMMA DInvNext == CInv /\ DInv /\ OneAdoption /\ [ControlNext]_controlVars => DInv'
<1> SUFFICES ASSUME CInv, DInv, OneAdoption, [ControlNext]_controlVars PROVE DInv'
  OBVIOUS
<1>1. CASE UNCHANGED controlVars
  <2>1. /\ UNCHANGED relay /\ UNCHANGED <<yaml, lapsed>> /\ UNCHANGED <<ws, inbox, handling, daemon, cli>>
    BY <1>1 DEF controlVars
  <2>2. \A p \in Proc : Carried(p)' = Carried(p)
    BY <2>1 DEF Carried
  <2>3. /\ Trusts' => Trusts
        /\ \A d \in Cli : Rotates(d, {"confirming"})' => Rotates(d, {"confirming"})
    BY <2>1, TrustsLess
  <2> QED
    BY <2>1, <2>2, <2>3, QuietSteps
<1>2. CASE Relay
  BY <1>2, DFinishAdoption, DRotationExpires, DHandles, DMinuteElapses DEF Relay
<1>3. CASE DaemonSteps
  BY <1>3, DDaemonConnects, DDaemonReceives, DQuietDaemon DEF DaemonSteps
<1>4. CASE \E c \in Cli : Command(c)
  BY <1>4, DDials, DCommandReceives, DQuietCommands DEF Command, Waits
<1> QED
  BY <1>1, <1>2, <1>3, <1>4 DEF ControlNext

LEMMA FileIsGood == CInv /\ DInv => NeverOnlyDead
<1> SUFFICES ASSUME CInv, DInv PROVE NeverOnlyDead
  OBVIOUS
<1>0. Displaced /\ FileInv /\ Shapes
  BY DEF DInv, CInv
<1>1. /\ yaml.token \in Token /\ current \in Token /\ NoToken \notin Token /\ row[current] = "live"
      /\ pending[yaml.token] # NoToken => row[yaml.token] = "live"
  BY <1>0, YamlShapes, Processes DEF Shapes, Displaced, Over
<1>2. CASE lapsed
  BY <1>2 DEF NeverOnlyDead
<1>3. CASE FileCurrent
  BY <1>1, <1>3 DEF FileCurrent, Authenticates, NeverOnlyDead
<1>4. CASE FileAdopting
  BY <1>1, <1>4 DEF FileAdopting, NeverOnlyDead
<1>5. CASE FileOffered
  BY <1>1, <1>5 DEF FileOffered, Authenticates, NeverOnlyDead
<1>6. CASE FileCancelled
  BY <1>1, <1>6 DEF FileCancelled, Authenticates, NeverOnlyDead
<1> QED
  BY <1>0, <1>2, <1>3, <1>4, <1>5, <1>6 DEF FileInv, FileGood

\* Whatever the commands, the daemon and the connections do, node.yaml holds a token that is
\* live or being adopted as long as the relay is not committing two adoptions at once: the
\* token on offer is never the only one that could be, and is withdrawn only by a rotation
\* that has the second token or a new one to fall back on (node.ts:311-314).
THEOREM NeverDead == ControlSpec /\ []OneAdoption => []NeverOnlyDead
<1>1. CInv /\ DInv => NeverOnlyDead
  BY FileIsGood
<1>2. ControlSpec /\ []OneAdoption => []DInv
  BY DInvInit, DInvNext, CInvAlways, PTL DEF ControlSpec
<1> QED
  BY <1>1, <1>2, CInvAlways, PTL
-----------------------------------------------------------------------------
(* Two commands: their adoptions do not overlap *)

AtMostTwo == \A b, c, d \in Cli : b = c \/ c = d \/ b = d

\* c has received a new token, or has ended.
Late == {"confirm", "confirming"} \cup Ended

\* c waits for the rotation that the daemon asks for in its place, or has ended.
Settling(c) == cli[c].pc \in Ended \/ (cli[c].pc = "control" /\ daemon.asker = c)

\* A rotation that will be answered.
Asks(m) == m.kind = "rotate" /\ m.alive

\* While the file's token is not the executor's, a daemon that is connected has another one: a
\* command has written the file's.
SomeoneIsLate == ~Over(yaml.token) /\ ws[Daemon].st = "open" => \E c \in Cli : cli[c].pc \in Late

\* A token that has waited for more than a minute is only replaced at the request of the daemon,
\* and no command connects before that is answered.
AskerWaits ==
  pending[yaml.token] # NoToken /\ ~recent =>
    \A m \in handling : Asks(m) => m.proc = Daemon /\ \A c \in Cli : Settling(c)

\* The token that is being adopted is the file's, and nobody will hear of another before it is
\* the executor's.
AdoptsLast ==
  \A t \in Token : claim[t] # NoToken =>
    /\ t = yaml.token /\ \A p \in Proc : Carried(p) = {}
    /\ recent \/ (/\ \A m \in handling : ~Asks(m)
                  /\ ws[Daemon].st = "open" => \A c \in Cli : cli[c].pc # "start")

DownIsBlank == daemon.up \/ daemon = NotUp

EInv == SomeoneIsLate /\ AskerWaits /\ AdoptsLast /\ DownIsBlank

LEMMA EInvInit == ControlInit => EInv
BY ControlAssumption DEF ControlAssumption, ControlInit, EInv, SomeoneIsLate, AskerWaits, AdoptsLast,
   DownIsBlank, Over, Asks

LEMMA OneIsAdopted == EInv => OneAdoption
BY DEF EInv, AdoptsLast, OneAdoption

LEMMA AsksOfOthers ==
  ASSUME Shapes, NEW p \in Proc, Gone(p)
  PROVE  \A m \in handling' : Asks(m) => \E h \in handling : Asks(h) /\ h.proc = m.proc /\ m.proc # p
<1> SUFFICES ASSUME NEW m \in handling', Asks(m)
             PROVE  \E h \in handling : Asks(h) /\ h.proc = m.proc /\ m.proc # p
  OBVIOUS
<1>1. PICK h \in handling : /\ m.proc = h.proc /\ m.kind = h.kind /\ m.token = h.token
                            /\ m.alive => h.alive /\ h.proc # p
  BY Goes
<1> QED
  BY <1>1 DEF Asks

\* A step that leaves the relay's rows and the file's token alone.
LEMMA EQuiet ==
  ASSUME EInv, UNCHANGED relay, yaml'.token = yaml.token,
         ws'[Daemon].st = "open" => ws[Daemon].st = "open",
         \A p \in Proc : Carried(p)' \subseteq Carried(p),
         \A c \in Cli : /\ cli[c].pc \in Late => cli'[c].pc \in Late
                        /\ cli'[c].pc = "start" => cli[c].pc = "start",
         \A m \in handling' : Asks(m) => \E h \in handling : Asks(h) /\ h.proc = m.proc,
         \A m \in handling' : Asks(m) /\ m.proc = Daemon =>
           \A c \in Cli : Settling(c) => Settling(c)',
         DownIsBlank'
  PROVE  EInv'
<1>1. SomeoneIsLate'
  BY RelayKept DEF EInv, SomeoneIsLate
<1>2. AskerWaits'
  <2> SUFFICES ASSUME pending[yaml.token] # NoToken, ~recent, NEW m \in handling', Asks(m)
               PROVE  m.proc = Daemon /\ \A c \in Cli : Settling(c)'
    BY RelayKept DEF AskerWaits, Asks
  <2>1. PICK h \in handling : Asks(h) /\ h.proc = m.proc
    OBVIOUS
  <2>2. m.proc = Daemon /\ \A c \in Cli : Settling(c)
    BY <2>1 DEF EInv, AskerWaits
  <2> QED
    BY <2>2
<1>3. AdoptsLast'
  <2> SUFFICES ASSUME NEW t \in Token, claim[t] # NoToken
               PROVE  /\ t = yaml.token /\ \A p \in Proc : Carried(p)' = {}
                      /\ recent \/ (/\ \A m \in handling' : ~Asks(m)
                                    /\ ws'[Daemon].st = "open" => \A c \in Cli : cli'[c].pc # "start")
    BY RelayKept DEF AdoptsLast, Asks
  <2>1. /\ t = yaml.token /\ \A p \in Proc : Carried(p) = {}
        /\ recent \/ (/\ \A m \in handling : ~Asks(m)
                      /\ ws[Daemon].st = "open" => \A c \in Cli : cli[c].pc # "start")
    BY DEF EInv, AdoptsLast
  <2>2. \A p \in Proc : Carried(p)' = {}
    BY <2>1
  <2> QED
    BY <2>1, <2>2
<1> QED
  BY <1>1, <1>2, <1>3 DEF EInv

LEMMA ETaken ==
  ASSUME CInv, EInv, NEW p \in Proc, NEW t \in Token, t \in Carried(p), Gone(p), UNCHANGED relay,
         yaml'.token = t, p \in Cli => cli'[p].pc = "confirm", DownIsBlank'
  PROVE  EInv'
<1>1. recent /\ \A u \in Token : claim[u] = NoToken
  BY DEF CInv, Latest, EInv, AdoptsLast
<1>2. SomeoneIsLate'
  <2>1. p \in Cli \/ ws'[Daemon].st # "open"
    BY Goes DEF CInv, Proc
  <2> QED
    BY <2>1 DEF SomeoneIsLate, Late
<1>3. AskerWaits' /\ AdoptsLast'
  BY <1>1, RelayKept DEF AskerWaits, AdoptsLast
<1> QED
  BY <1>2, <1>3 DEF EInv

\* The file's token begins to be adopted once: whoever could still ask for another is the one
\* that connects with it, or hears of the refusal.
LEMMA EConnects ==
  ASSUME AtMostTwo, CInv, EInv, NEW p \in Proc, NEW t \in Token,
         NEW k \in SUBSET {"rotate", "rename", "sync"},
         ConnectWith(p, t, k), Authenticates(t), ws[p].st = "none", t = yaml.token,
         inbox' = inbox, yaml'.token = yaml.token,
         p \in Cli => cli[p].pc \in {"direct", "confirm"} /\ cli'[p].pc # "start",
         \A c \in Cli : /\ cli[c].pc \in Late => cli'[c].pc \in Late
                        /\ cli'[c].pc = "start" => cli[c].pc = "start",
         DownIsBlank'
  PROVE  EInv'
<1>0. Shapes /\ Latest /\ Exchanges /\ Progress /\ SomeoneIsLate /\ AskerWaits /\ AdoptsLast
  BY DEF CInv, EInv
<1>1. /\ UNCHANGED <<current, row, recent>>
      /\ \A m \in handling' :
           \/ \E h \in handling : m.proc = h.proc /\ m.kind = h.kind /\ (m.alive => h.alive /\ h.proc # p)
           \/ pending[t] = NoToken
      /\ pending[t] # NoToken =>
           /\ ws'[p].st = "adopting" /\ \A q \in Proc \ {p} : ws'[q].st = ws[q].st
           /\ pending'[t] = NoToken /\ claim'[t] = pending[t]
           /\ \A u \in Token \ {t} : pending'[u] = pending[u] /\ claim'[u] = claim[u]
      /\ pending[t] = NoToken => pending' = pending /\ claim' = claim
  <2>1. \A m \in handling' :
          \/ \E h \in handling : m.proc = h.proc /\ m.kind = h.kind /\ (m.alive => h.alive /\ h.proc # p)
          \/ pending[t] = NoToken
    <3>1. HandledAfter(p, t)
      BY <1>0, ConnectsMessages
    <3> QED
      BY <3>1 DEF HandledAfter
  <2> QED
    BY <1>0, <2>1, ConnectsRelay
<1>2. Over(current) /\ (pending[t] = NoToken => current = t)
  BY <1>0 DEF Latest, Authenticates
<1>3. CASE pending[t] # NoToken
  <2>1. AskerWaits'
    BY <1>1, <1>3 DEF AskerWaits
  <2>2. ws'[Daemon].st = "open" => p \in Cli /\ ws[Daemon].st = "open"
    BY <1>1, <1>3, Processes DEF Proc
  <2>3. SomeoneIsLate'
    BY <1>0, <1>3, <2>2 DEF SomeoneIsLate, Over
  <2>4. \A q \in Proc : Carried(q)' = {}
    BY <1>0, <1>3 DEF Latest, Carried
  <2>5. ~recent => \A m \in handling' : ~Asks(m)
    <3> SUFFICES ASSUME ~recent, NEW m \in handling', Asks(m) PROVE FALSE
      OBVIOUS
    <3>1. PICK h \in handling : m.proc = h.proc /\ Asks(h) /\ h.proc # p
      BY <1>1, <1>3 DEF Asks
    <3>2. h.proc = Daemon /\ \A c \in Cli : Settling(c)
      BY <1>0, <1>3, <3>1 DEF AskerWaits
    <3> QED
      BY <3>1, <3>2 DEF Settling, Ended, Proc
  <2>6. ~recent /\ ws'[Daemon].st = "open" => \A c \in Cli : cli'[c].pc # "start"
    <3> SUFFICES ASSUME ~recent, ws'[Daemon].st = "open", NEW c \in Cli, cli'[c].pc = "start" PROVE FALSE
      OBVIOUS
    <3>0. p \in Cli
      BY <2>2
    <3>1. PICK d \in Cli : cli[d].pc \in Late
      BY <1>0, <1>3, <2>2 DEF SomeoneIsLate, Over
    <3>2. cli[d].pc \in Ended
      BY <1>0, <3>1 DEF Progress, Exchanges, Arrived, Rotates, Late
    <3>3. cli[c].pc = "start" /\ c # p /\ cli[p].pc \in {"direct", "confirm"}
      BY <3>0
    <3>4. d # p /\ d # c
      BY <3>2, <3>3 DEF Ended
    <3> QED
      BY <3>0, <3>3, <3>4 DEF AtMostTwo
  <2>7. AdoptsLast'
    BY <1>0, <1>1, <1>3, <2>4, <2>5, <2>6 DEF AdoptsLast, Asks
  <2> QED
    BY <2>1, <2>3, <2>7 DEF EInv
<1>4. CASE pending[t] = NoToken
  <2>1. Over(t) /\ \A u \in Token : claim[u] = NoToken
    BY <1>0, <1>2, <1>4 DEF AdoptsLast, Over
  <2> QED
    BY <1>1, <1>4, <2>1 DEF EInv, SomeoneIsLate, AskerWaits, AdoptsLast, Over
<1> QED
  BY <1>3, <1>4

LEMMA EDaemonConnects == AtMostTwo /\ CInv /\ EInv /\ DaemonConnects => EInv'
<1> SUFFICES ASSUME AtMostTwo, CInv, EInv, DaemonConnects PROVE EInv'
  OBVIOUS
<1>0. Shapes
  BY DEF CInv
<1>1. PICK t \in Token : t = yaml.token
  BY <1>0, YamlShapes
<1>2. /\ ConnectWith(Daemon, t, {}) /\ Authenticates(t) /\ ws[Daemon].st = "none"
      /\ inbox' = inbox /\ (yaml' = Confirmed \/ yaml' = yaml)
      /\ UNCHANGED <<cli, daemon>> \/ (cli' = Settled(daemon.asker, "done") /\ daemon' = RotationEnded)
  BY <1>1 DEF DaemonConnects, RotationEnded
<1>3. yaml'.token = yaml.token
  BY <1>0, <1>2, YamlShapes
<1>4. \A c \in Cli : /\ cli[c].pc \in Late => cli'[c].pc \in Late
                     /\ cli'[c].pc = "start" => cli[c].pc = "start"
  <2>1. "done" \in Pc /\ daemon.asker \in Cli \cup {NoCli}
    BY <1>0, DaemonShapes DEF Pc, Ended
  <2>2. CASE cli' = Settled(daemon.asker, "done")
    BY <1>0, <2>1, <2>2, Settles DEF Late, Ended
  <2> QED
    BY <1>2, <2>2
<1>5. DownIsBlank'
  BY <1>0 DEF DaemonConnects, DownIsBlank, Shapes, DaemonRec
<1> QED
  BY <1>1, <1>2, <1>3, <1>4, <1>5, Processes, EConnects

LEMMA EDials == \A c \in Cli : AtMostTwo /\ CInv /\ EInv /\ (Dial(c) \/ DialAgain(c)) => EInv'
<1> SUFFICES ASSUME NEW c \in Cli, AtMostTwo, CInv, EInv, Dial(c) \/ DialAgain(c) PROVE EInv'
  OBVIOUS
<1>0. Shapes /\ Sockets
  BY DEF CInv
<1>1. PICK t \in Token : t = yaml.token
  BY <1>0, YamlShapes
<1>2. PICK k \in SUBSET {"rotate", "rename", "sync"} : ConnectWith(c, t, k)
  <2>1. {cli[c].cmd} \in SUBSET {"rotate", "rename", "sync"} /\ {"sync"} \in SUBSET {"rotate", "rename", "sync"}
    BY <1>0 DEF Shapes, CliRec
  <2> QED
    BY <1>1, <2>1 DEF Dial, DialAgain
<1>3. /\ Authenticates(t) /\ ws[c].st = "none" /\ c \in Proc /\ inbox' = inbox /\ yaml'.token = yaml.token
      /\ DownIsBlank'
  BY <1>0, <1>1, Processes DEF Dial, DialAgain, Sockets, EInv, DownIsBlank, NotUp
<1>4. \/ cli[c].pc = "direct" /\ cli' = At(c, "asked")
      \/ cli[c].pc = "confirm" /\ cli' = At(c, "confirming")
  BY DEF Dial, DialAgain, At
<1>5. /\ cli[c].pc \in {"direct", "confirm"} /\ cli'[c].pc # "start"
      /\ \A d \in Cli : /\ cli[d].pc \in Late => cli'[d].pc \in Late
                        /\ cli'[d].pc = "start" => cli[d].pc = "start"
  <2>1. {"asked", "confirming"} \subseteq Pc
    BY DEF Pc
  <2> QED
    BY <1>0, <1>4, <2>1, PcStep DEF Late, Ended
<1> QED
  BY <1>1, <1>2, <1>3, <1>5, EConnects
LEMMA EHandles == \A m \in handling : CInv /\ EInv /\ (HandleRotate(m) \/ HandleOther(m)) => EInv'
<1> SUFFICES ASSUME NEW m \in handling, CInv, EInv, HandleRotate(m) \/ HandleOther(m) PROVE EInv'
  OBVIOUS
<1>0. Shapes /\ Known /\ AdoptsLast /\ SomeoneIsLate /\ DownIsBlank
  BY DEF CInv, EInv
<1>1. PICK r \in Reply :
        /\ Answered(m, r)
        /\ \/ /\ UNCHANGED relay
              /\ \/ m.kind = "rotate" /\ r.kind = "refused"
                 \/ m.kind = "rename" /\ r.kind \in {"named", "misnamed"}
                 \/ m.kind = "sync" /\ r.kind = "synced"
           \/ /\ m.kind = "rotate" /\ r.kind = "token" /\ r.token \in Token /\ row[r.token] = "none"
              /\ ~recent /\ recent' = TRUE /\ UNCHANGED <<current, claim>>
              /\ row' \in [Token -> {"none", "live", "revoked"}]
              /\ pending' \in [Token -> Token \cup {NoToken}]
              /\ row'[r.token] = "live" /\ pending'[r.token] = m.token
              /\ \A u \in Token \ {r.token} :
                   /\ row'[u] = IF pending[u] # NoToken THEN "revoked" ELSE row[u]
                   /\ pending'[u] = NoToken
  BY <1>0, Handles
<1>2. UNCHANGED <<ws, yaml, daemon, cli>> /\ DownIsBlank'
  BY <1>0 DEF HandleRotate, HandleOther, DownIsBlank
<1>3. /\ handling' \subseteq handling
      /\ \A p \in Proc : r.kind # "token" \/ ~m.alive => Carried(p)' = Carried(p)
  <2>1. /\ handling' \subseteq handling
        /\ \A p \in Proc : IF p = m.proc /\ m.alive
             THEN TokensOf(inbox'[p]) = TokensOf(inbox[p]) \cup (IF r.kind = "token" THEN {r.token} ELSE {})
             ELSE inbox'[p] = inbox[p]
    BY <1>0, <1>1, Answers
  <2> QED
    BY <2>1 DEF Carried
<1>4. CASE UNCHANGED relay /\ r.kind # "token"
  <2>1. \A c \in Cli : Settling(c)' <=> Settling(c)
    BY <1>2 DEF Settling
  <2> QED
    BY <1>2, <1>3, <1>4, <2>1, EQuiet
<1>5. ASSUME m.kind = "rotate", r.token \in Token, row[r.token] = "none", ~recent, recent' = TRUE,
             UNCHANGED <<current, claim>>, \A u \in Token \ {r.token} : pending'[u] = NoToken
      PROVE  EInv'
  <2>1. yaml.token \in Token /\ yaml.token # r.token
    BY <1>0, <1>5, YamlShapes DEF Known
  <2>2. SomeoneIsLate'
    BY <1>0, <1>2, <1>5, <2>1 DEF SomeoneIsLate, Over
  <2>3. AskerWaits'
    BY <1>5 DEF AskerWaits
  <2>4. AdoptsLast'
    <3> SUFFICES ASSUME NEW t \in Token, claim[t] # NoToken
                 PROVE  t = yaml.token /\ \A p \in Proc : Carried(p)' = {}
      BY <1>2, <1>5 DEF AdoptsLast
    <3>1. t = yaml.token /\ (\A p \in Proc : Carried(p) = {}) /\ ~Asks(m)
      BY <1>0, <1>5 DEF AdoptsLast
    <3> QED
      BY <1>3, <1>5, <3>1 DEF Asks
  <2> QED
    BY <1>2, <2>2, <2>3, <2>4 DEF EInv
<1> QED
  BY <1>1, <1>4, <1>5

LEMMA ERelay ==
  CInv /\ EInv /\ (MinuteElapses \/ \E t \in Token : FinishAdoption(t) \/ RotationExpires(t)) => EInv'
<1> SUFFICES ASSUME CInv, EInv, MinuteElapses \/ \E t \in Token : FinishAdoption(t) \/ RotationExpires(t)
             PROVE  EInv'
  OBVIOUS
<1>0. Shapes /\ Latest /\ AdoptsLast /\ SomeoneIsLate /\ AskerWaits /\ DownIsBlank
  BY DEF CInv, EInv
<1>1. UNCHANGED <<inbox, yaml, daemon, cli>> /\ DownIsBlank' /\ \A p : Carried(p)' = Carried(p)
  BY <1>0 DEF MinuteElapses, FinishAdoption, RotationExpires, DownIsBlank, Carried
<1>2. CASE MinuteElapses
  BY <1>0, <1>1, <1>2 DEF MinuteElapses, EInv, SomeoneIsLate, AskerWaits, AdoptsLast, Over
<1>3. ASSUME NEW t \in Token, FinishAdoption(t) PROVE EInv'
  <2>1. /\ claim[t] # NoToken /\ claim'[t] = NoToken /\ pending' = pending
        /\ \A u \in Token \ {t} : claim'[u] = claim[u]
    BY <1>0, <1>3, Commits DEF FinishAdoption
  <2>2. t = yaml.token /\ pending[t] = NoToken /\ \A u \in Token : claim'[u] = NoToken
    BY <1>0, <2>1 DEF AdoptsLast, Latest
  <2> QED
    BY <1>1, <2>1, <2>2 DEF EInv, SomeoneIsLate, AskerWaits, AdoptsLast, Over
<1>4. ASSUME NEW t \in Token, RotationExpires(t) PROVE EInv'
  <2>1. /\ UNCHANGED <<ws, claim, recent, handling>>
        /\ \A u \in Token : pending'[u] # NoToken => pending'[u] = pending[u]
    BY <1>0, <1>4 DEF RotationExpires, Shapes
  <2>2. yaml.token \in Token
    BY <1>0, YamlShapes
  <2>3. SomeoneIsLate'
    BY <1>0, <1>1, <2>1, <2>2 DEF SomeoneIsLate, Over
  <2>4. AskerWaits'
    BY <1>0, <1>1, <2>1, <2>2 DEF AskerWaits, Settling, Asks
  <2>5. AdoptsLast'
    BY <1>0, <1>1, <2>1 DEF AdoptsLast, Asks
  <2> QED
    BY <1>1, <2>3, <2>4, <2>5 DEF EInv
<1> QED
  BY <1>2, <1>3, <1>4

LEMMA EDaemonReceives == CInv /\ EInv /\ DaemonReceives => EInv'
<1> SUFFICES ASSUME CInv, EInv, DaemonReceives PROVE EInv'
  OBVIOUS
<1> DEFINE m == Head(inbox[Daemon])
<1>0. Shapes
  BY DEF CInv
<1>1. UNCHANGED relay /\ inbox[Daemon] # <<>> /\ inbox[Daemon] \in Seq(Reply) /\ DownIsBlank'
  BY <1>0, Processes DEF DaemonReceives, Shapes, DownIsBlank, DaemonRec
<1>2. CASE m.kind = "token" /\ AwaitsToken
  <2>1. Gone(Daemon) /\ yaml' = Rotated(m.token)
    BY <1>2 DEF DaemonReceives, Gone
  <2>2. m.token \in Carried(Daemon) /\ m.token \in Token
    BY <1>1, <1>2, TailReply, ReplyShapes DEF ReplyShape, Carried
  <2> HIDE DEF m
  <2>3. PICK t \in Token : t = m.token
    BY <2>2
  <2>4. yaml'.token = t
    BY <1>0, <2>1, <2>3, YamlShapes
  <2> QED
    BY <1>1, <2>1, <2>2, <2>3, <2>4, Processes, ETaken
<1>3. CASE ~(m.kind = "token" /\ AwaitsToken)
  <2>1. /\ UNCHANGED <<yaml, ws, handling>>
        /\ inbox' = [inbox EXCEPT ![Daemon] = Tail(inbox[Daemon])]
        /\ \/ cli' = Settled(daemon.asker, "failed") /\ daemon' = RotationEnded
           \/ /\ cli' = Settled(daemon.naming, "done") \/ cli' = Settled(daemon.naming, "failed")
              /\ daemon' = Naming(NoCli)
           \/ UNCHANGED <<cli, daemon>>
    BY <1>3 DEF DaemonReceives, RotationEnded, Naming
  <2>2. \A q \in Proc : Carried(q)' \subseteq Carried(q)
    <3>1. /\ inbox'[Daemon] = Tail(inbox[Daemon]) /\ \A q \in Proc \ {Daemon} : inbox'[q] = inbox[q]
      BY <1>0, <2>1, Processes DEF Shapes
    <3> QED
      BY <1>1, <3>1, TailReply DEF Carried
  <2>3. \A c \in Cli : /\ cli[c].pc \in Late => cli'[c].pc \in Late
                       /\ cli'[c].pc = "start" => cli[c].pc = "start"
                       /\ Settling(c) => Settling(c)'
    <3>1. {"done", "failed"} \subseteq Pc /\ daemon.asker \in Cli \cup {NoCli} /\ daemon.naming \in Cli \cup {NoCli}
      BY <1>0, DaemonShapes DEF Pc, Ended
    <3>2. ASSUME cli' = Settled(daemon.asker, "failed"), daemon' = RotationEnded, NEW c \in Cli
          PROVE  /\ cli[c].pc \in Late => cli'[c].pc \in Late
                 /\ cli'[c].pc = "start" => cli[c].pc = "start"
                 /\ Settling(c) => Settling(c)'
      <4>1. cli'[c].pc = IF c = daemon.asker /\ cli[c].pc = "control" THEN "failed" ELSE cli[c].pc
        BY <1>0, <3>1, <3>2, Settles
      <4> QED
        BY <4>1 DEF Late, Ended, Settling
    <3>3. ASSUME NEW pc \in {"done", "failed"}, cli' = Settled(daemon.naming, pc), daemon' = Naming(NoCli),
                 NEW c \in Cli
          PROVE  /\ cli[c].pc \in Late => cli'[c].pc \in Late
                 /\ cli'[c].pc = "start" => cli[c].pc = "start"
                 /\ Settling(c) => Settling(c)'
      <4>1. cli'[c].pc = cli[c].pc \/ (cli[c].pc = "control" /\ cli'[c].pc \in {"done", "failed"})
        BY <1>0, <3>1, <3>3, Settles
      <4>2. daemon'.asker = daemon.asker
        BY <1>0, <3>3, DaemonFields
      <4> QED
        BY <4>1, <4>2 DEF Late, Ended, Settling
    <3>4. CASE UNCHANGED <<cli, daemon>>
      BY <3>4 DEF Settling
    <3> QED
      BY <2>1, <3>2, <3>3, <3>4
  <2> QED
    BY <1>1, <2>1, <2>2, <2>3, EQuiet
<1> QED
  BY <1>2, <1>3

LEMMA EQuietDaemon ==
  CInv /\ EInv /\ (DaemonStarts \/ DaemonListens \/ DaemonStops \/ DaemonLosesSocket
                   \/ RotationTimesOut \/ RenameTimesOut) => EInv'
<1> SUFFICES ASSUME CInv, EInv, DaemonStarts \/ DaemonListens \/ DaemonStops \/ DaemonLosesSocket
                                \/ RotationTimesOut \/ RenameTimesOut
             PROVE EInv'
  OBVIOUS
<1>0. Shapes /\ DownIsBlank
  BY DEF CInv, EInv
<1>1. CASE DaemonStarts \/ DaemonListens
  <2>1. /\ UNCHANGED relay /\ UNCHANGED <<handling, ws, inbox, yaml, cli>>
        /\ daemon'.asker = daemon.asker /\ DownIsBlank'
    BY <1>0, <1>1 DEF DaemonStarts, DaemonListens, DownIsBlank, NotUp, Shapes, DaemonRec
  <2>2. \A p \in Proc : Carried(p)' = Carried(p)
    BY <2>1 DEF Carried
  <2>3. \A c \in Cli : Settling(c)' <=> Settling(c)
    BY <2>1 DEF Settling
  <2> QED
    BY <2>1, <2>2, <2>3, EQuiet
<1>2. CASE DaemonStops \/ DaemonLosesSocket
  <2>1. Gone(Daemon) /\ UNCHANGED <<yaml, cli>> /\ UNCHANGED relay /\ DownIsBlank'
    BY <1>0, <1>2 DEF DaemonStops, DaemonLosesSocket, Gone, DownIsBlank
  <2>2. /\ ws'[Daemon].st # "open" /\ \A p \in Proc : Carried(p)' \subseteq Carried(p)
        /\ \A m \in handling' : Asks(m) => \E h \in handling : Asks(h) /\ h.proc = m.proc /\ m.proc # Daemon
    <3>1. ws'[Daemon].st # "open" /\ \A p \in Proc : Carried(p)' \subseteq Carried(p)
      BY <1>0, <2>1, Processes, Goes, GoneFrame
    <3>2. \A m \in handling' : Asks(m) => \E h \in handling : Asks(h) /\ h.proc = m.proc /\ m.proc # Daemon
      BY <1>0, <2>1, Processes, AsksOfOthers
    <3> QED
      BY <3>1, <3>2
  <2> QED
    BY <2>1, <2>2, EQuiet
<1>3. CASE RotationTimesOut \/ RenameTimesOut
  <2>1. /\ UNCHANGED relay /\ UNCHANGED <<handling, ws, inbox, yaml>> /\ DownIsBlank'
        /\ \/ cli' = Settled(daemon.asker, "failed") /\ daemon' = RotationEnded
           \/ cli' = Settled(daemon.naming, "failed") /\ daemon' = Naming(NoCli)
    BY <1>0, <1>3 DEF RotationTimesOut, RenameTimesOut, RotationEnded, Naming, DownIsBlank, Shapes, DaemonRec
  <2>2. \A p \in Proc : Carried(p)' = Carried(p)
    BY <2>1 DEF Carried
  <2>3. \A c \in Cli : /\ cli[c].pc \in Late => cli'[c].pc \in Late
                       /\ cli'[c].pc = "start" => cli[c].pc = "start"
                       /\ Settling(c) => Settling(c)'
    <3>1. "failed" \in Pc /\ daemon.asker \in Cli \cup {NoCli} /\ daemon.naming \in Cli \cup {NoCli}
      BY <1>0, DaemonShapes DEF Pc, Ended
    <3>2. ASSUME cli' = Settled(daemon.asker, "failed"), daemon' = RotationEnded, NEW c \in Cli
          PROVE  /\ cli[c].pc \in Late => cli'[c].pc \in Late
                 /\ cli'[c].pc = "start" => cli[c].pc = "start"
                 /\ Settling(c) => Settling(c)'
      <4>1. cli'[c].pc = IF c = daemon.asker /\ cli[c].pc = "control" THEN "failed" ELSE cli[c].pc
        BY <1>0, <3>1, <3>2, Settles
      <4> QED
        BY <4>1 DEF Late, Ended, Settling
    <3>3. ASSUME cli' = Settled(daemon.naming, "failed"), daemon' = Naming(NoCli), NEW c \in Cli
          PROVE  /\ cli[c].pc \in Late => cli'[c].pc \in Late
                 /\ cli'[c].pc = "start" => cli[c].pc = "start"
                 /\ Settling(c) => Settling(c)'
      <4>1. cli'[c].pc = cli[c].pc \/ (cli[c].pc = "control" /\ cli'[c].pc = "failed")
        BY <1>0, <3>1, <3>3, Settles
      <4>2. daemon'.asker = daemon.asker
        BY <1>0, <3>3, DaemonFields
      <4> QED
        BY <4>1, <4>2 DEF Late, Ended, Settling
    <3> QED
      BY <2>1, <3>2, <3>3
  <2> QED
    BY <2>1, <2>2, <2>3, EQuiet
<1> QED
  BY <1>1, <1>2, <1>3

LEMMA ECommands ==
  \A c \in Cli : CInv /\ EInv /\ (NoDaemon(c) \/ ControlTimesOut(c) \/ CommandFails(c) \/ CommandReceives(c))
                   => EInv'
<1> SUFFICES ASSUME NEW c \in Cli, CInv, EInv,
                    NoDaemon(c) \/ ControlTimesOut(c) \/ CommandFails(c) \/ CommandReceives(c)
             PROVE  EInv'
  OBVIOUS
<1>0. Shapes /\ DownIsBlank /\ c \in Proc /\ c # Daemon
  BY Processes DEF CInv, EInv
<1>1. UNCHANGED relay /\ UNCHANGED daemon /\ DownIsBlank'
  BY <1>0 DEF NoDaemon, ControlTimesOut, CommandFails, CommandReceives, DownIsBlank
<1>2. {"direct", "failed", "done", "confirm"} \subseteq Pc
  BY DEF Pc, Ended
<1>3. CASE NoDaemon(c) \/ ControlTimesOut(c)
  <2>1. /\ UNCHANGED <<ws, inbox, handling, yaml>>
        /\ \/ cli[c].pc = "start" /\ cli' = Begins(c, "direct")
           \/ cli[c].pc = "control" /\ cli' = At(c, "direct") /\ GivesUp(c)
    BY <1>3 DEF NoDaemon, ControlTimesOut, Begins, At, GivesUp
  <2>2. \A d \in Cli : cli'[d].pc = IF d = c THEN "direct" ELSE cli[d].pc
    <3>1. CASE cli' = Begins(c, "direct")
      BY <1>0, <1>2, <3>1, StartStep
    <3>2. CASE cli' = At(c, "direct")
      BY <1>0, <1>2, <3>2, PcStep
    <3> QED
      BY <2>1, <3>1, <3>2
  <2>3. \A m \in handling : Asks(m) /\ m.proc = Daemon => ~Settling(c)
    BY <2>1 DEF GivesUp, Asks, Settling, Ended
  <2>4. \A p \in Proc : Carried(p)' = Carried(p)
    BY <2>1 DEF Carried
  <2>5. \A d \in Cli : /\ cli[d].pc \in Late => cli'[d].pc \in Late
                       /\ cli'[d].pc = "start" => cli[d].pc = "start"
                       /\ d # c => (Settling(d) => Settling(d)')
    BY <1>1, <2>1, <2>2 DEF Late, Ended, Settling
  <2> QED
    BY <1>1, <2>1, <2>3, <2>4, <2>5, EQuiet
<1>4. CASE CommandFails(c) \/ CommandReceives(c)
  <2>1. /\ Gone(c) /\ cli[c].pc \in {"direct", "confirm", "asked", "confirming"}
        /\ \/ (yaml' = yaml \/ yaml' = Confirmed) /\ (cli' = At(c, "done") \/ cli' = At(c, "failed"))
           \/ /\ CommandReceives(c) /\ Head(inbox[c]).kind = "token" /\ inbox[c] # <<>>
              /\ yaml' = Rotated(Head(inbox[c]).token) /\ cli' = At(c, "confirm")
    BY <1>4 DEF CommandFails, CommandReceives, HangUp, Gone, At
  <2>2. CASE (yaml' = yaml \/ yaml' = Confirmed) /\ (cli' = At(c, "done") \/ cli' = At(c, "failed"))
    <3>1. \A d \in Cli : IF d = c THEN cli'[d].pc \in Ended ELSE cli'[d].pc = cli[d].pc
      BY <1>0, <1>2, <2>2, PcStep DEF Ended
    <3>2. \A d \in Cli : /\ cli[d].pc \in Late => cli'[d].pc \in Late
                         /\ cli'[d].pc = "start" => cli[d].pc = "start"
                         /\ Settling(d) => Settling(d)'
      BY <1>1, <2>1, <3>1 DEF Late, Ended, Settling
    <3>3. yaml'.token = yaml.token
      BY <1>0, <2>2, YamlShapes
    <3>4. /\ ws'[Daemon].st = "open" => ws[Daemon].st = "open"
          /\ \A p \in Proc : Carried(p)' \subseteq Carried(p)
          /\ \A m \in handling' : Asks(m) => \E h \in handling : Asks(h) /\ h.proc = m.proc
      <4>1. /\ ws'[Daemon].st = "open" => ws[Daemon].st = "open"
            /\ \A p \in Proc : Carried(p)' \subseteq Carried(p)
        BY <1>0, <2>1, Processes, Goes, GoneFrame
      <4>2. \A m \in handling' : Asks(m) => \E h \in handling : Asks(h) /\ h.proc = m.proc
        BY <1>0, <2>1, AsksOfOthers
      <4> QED
        BY <4>1, <4>2
    <3> QED
      BY <1>1, <3>2, <3>3, <3>4, EQuiet
  <2>3. CASE Head(inbox[c]).kind = "token" /\ inbox[c] # <<>>
             /\ yaml' = Rotated(Head(inbox[c]).token) /\ cli' = At(c, "confirm")
    <3>1. inbox[c] \in Seq(Reply)
      BY <1>0 DEF Shapes
    <3>2. PICK t \in Token : t = Head(inbox[c]).token /\ t \in Carried(c)
      BY <2>3, <3>1, TailReply, ReplyShapes DEF ReplyShape, Carried
    <3>3. yaml'.token = t
      BY <1>0, <2>3, <3>2, YamlShapes
    <3>4. cli'[c].pc = "confirm"
      BY <1>0, <1>2, <2>3, PcStep
    <3> QED
      BY <1>0, <1>1, <2>1, <3>2, <3>3, <3>4, ETaken
  <2> QED
    BY <2>1, <2>2, <2>3
<1> QED
  BY <1>3, <1>4

LEMMA EAskDaemon == \A c \in Cli : AtMostTwo /\ CInv /\ EInv /\ AskDaemon(c) => EInv'
<1> SUFFICES ASSUME NEW c \in Cli, AtMostTwo, CInv, EInv, AskDaemon(c) PROVE EInv'
  OBVIOUS
<1>0. Shapes /\ Exchanges /\ Progress /\ SomeoneIsLate /\ AskerWaits /\ AdoptsLast /\ DownIsBlank
  BY DEF CInv, EInv
<1>1. /\ UNCHANGED relay /\ UNCHANGED <<ws, inbox, yaml>> /\ cli[c].pc = "start" /\ daemon.reachable
      /\ \/ cli' = Begins(c, "failed") /\ UNCHANGED <<daemon, handling>>
         \/ /\ cli' = Begins(c, "control")
            /\ \/ cli[c].cmd = "rotate" /\ daemon' = AskedBy(c)
               \/ cli[c].cmd # "rotate" /\ daemon' = Naming(c)
            /\ \/ handling' = handling
               \/ /\ ws[Daemon].st = "open"
                  /\ handling' = handling \cup {[proc |-> Daemon, kind |-> cli[c].cmd,
                                                 token |-> ws[Daemon].token, alive |-> TRUE]}
  BY DEF AskDaemon, Begins, AskedBy, Naming
<1>2. \A d \in Cli : /\ d # c => cli'[d].pc = cli[d].pc
                     /\ cli'[c].pc \in {"failed", "control"}
  <2>1. {"failed", "control"} \subseteq Pc
    BY DEF Pc, Ended
  <2>2. CASE cli' = Begins(c, "failed")
    BY <1>0, <2>1, <2>2, StartStep
  <2>3. CASE cli' = Begins(c, "control")
    BY <1>0, <2>1, <2>3, StartStep
  <2> QED
    BY <1>1, <2>2, <2>3
<1>3. \A d \in Cli : /\ cli[d].pc \in Late => cli'[d].pc \in Late
                     /\ cli'[d].pc = "start" => cli[d].pc = "start"
  BY <1>1, <1>2 DEF Late, Ended
<1>4. \A p \in Proc : Carried(p)' = Carried(p)
  BY <1>1 DEF Carried
<1>5. DownIsBlank'
  <2>1. daemon.up
    BY <1>0, <1>1 DEF DownIsBlank, NotUp
  <2>2. daemon'.up = daemon.up
    BY <1>0, <1>1 DEF AskedBy, Naming, Shapes, DaemonRec
  <2> QED
    BY <2>1, <2>2 DEF DownIsBlank
<1>6. SomeoneIsLate'
  BY <1>0, <1>1, <1>3, RelayKept DEF SomeoneIsLate
<1>7. AskerWaits'
  <2> SUFFICES ASSUME pending[yaml.token] # NoToken, ~recent, NEW m \in handling', Asks(m)
               PROVE  m.proc = Daemon /\ \A d \in Cli : Settling(d)'
    BY <1>1, RelayKept DEF AskerWaits, Asks
  <2>1. \A h \in handling : ~Asks(h)
    BY <1>0, <1>1 DEF AskerWaits, Settling, Ended
  <2>2. /\ cli' = Begins(c, "control") /\ daemon' = AskedBy(c) /\ ws[Daemon].st = "open" /\ m.proc = Daemon
    BY <1>1, <2>1 DEF Asks
  <2>3. PICK d \in Cli : cli[d].pc \in Late
    BY <1>0, <2>2 DEF SomeoneIsLate, Over
  <2>4. cli[d].pc \in Ended /\ d # c
    BY <1>0, <1>1, <2>3 DEF Progress, Exchanges, Arrived, Rotates, Late, Ended
  <2>5. Settling(d)'
    BY <1>2, <2>4 DEF Settling
  <2>6. Settling(c)'
    <3>1. "control" \in Pc
      BY DEF Pc
    <3>2. cli'[c].pc = "control" /\ daemon'.asker = c
      BY <1>0, <2>2, <3>1, StartStep, DaemonFields
    <3> QED
      BY <3>2 DEF Settling
  <2> QED
    BY <2>2, <2>4, <2>5, <2>6 DEF AtMostTwo
<1>8. AdoptsLast'
  <2> SUFFICES ASSUME NEW t \in Token, claim[t] # NoToken
               PROVE  /\ t = yaml.token /\ \A p \in Proc : Carried(p)' = {}
                      /\ recent \/ (/\ \A m \in handling' : ~Asks(m)
                                    /\ ws[Daemon].st = "open" => \A d \in Cli : cli'[d].pc # "start")
    BY <1>1, RelayKept DEF AdoptsLast, Asks
  <2>1. /\ t = yaml.token /\ \A p \in Proc : Carried(p) = {}
        /\ recent \/ (/\ \A m \in handling : ~Asks(m)
                      /\ ws[Daemon].st = "open" => \A d \in Cli : cli[d].pc # "start")
    BY <1>0 DEF AdoptsLast
  <2>2. ~recent => handling' = handling
    BY <1>1, <2>1
  <2> QED
    BY <1>3, <1>4, <2>1, <2>2
<1> QED
  BY <1>5, <1>6, <1>7, <1>8 DEF EInv

LEMMA EInvNext == AtMostTwo /\ CInv /\ EInv /\ [ControlNext]_controlVars => EInv'
<1> SUFFICES ASSUME AtMostTwo, CInv, EInv, [ControlNext]_controlVars PROVE EInv'
  OBVIOUS
<1>1. CASE UNCHANGED controlVars
  <2>1. UNCHANGED relay /\ UNCHANGED <<yaml, ws, inbox, handling, daemon, cli>>
    BY <1>1 DEF controlVars
  <2>2. /\ \A p \in Proc : Carried(p)' = Carried(p)
        /\ \A c \in Cli : Settling(c)' <=> Settling(c)
        /\ DownIsBlank'
    BY <2>1 DEF Carried, Settling, EInv, DownIsBlank
  <2> QED
    BY <2>1, <2>2, EQuiet
<1>2. CASE Relay
  BY <1>2, EHandles, ERelay DEF Relay
<1>3. CASE DaemonSteps
  BY <1>3, EDaemonConnects, EDaemonReceives, EQuietDaemon DEF DaemonSteps
<1>4. CASE \E c \in Cli : Command(c)
  BY <1>4, EAskDaemon, EDials, ECommands DEF Command, Waits
<1> QED
  BY <1>1, <1>2, <1>3, <1>4 DEF ControlNext

\* Two commands never leave node.yaml with only a dead credential, whatever they are asked to
\* do, however the daemon and the connections come and go, and however long the relay takes to
\* answer and to commit (node.ts:311-314).
THEOREM NeverDeadOfTwo == AtMostTwo /\ ControlSpec => []NeverOnlyDead
<1>1. CInv /\ DInv => NeverOnlyDead
  BY FileIsGood
<1>2. AtMostTwo => AtMostTwo'
  BY DEF AtMostTwo
<1>3. AtMostTwo /\ CInv /\ EInv /\ DInv /\ [ControlNext]_controlVars => CInv' /\ EInv' /\ DInv'
  BY CInvNext, EInvNext, DInvNext, OneIsAdopted
<1> QED
  BY <1>1, <1>2, <1>3, CInvInit, DInvInit, EInvInit, PTL DEF ControlSpec

================================================================================
