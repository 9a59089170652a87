-------------------------- MODULE WorkspaceProofs --------------------------
(***************************************************************************)
(* For any number of edits, requests and acts of the user: what a request    *)
(* may overwrite (NoBlindOverwrite), what a move keeps (MoveKeepsFile), and   *)
(* that typed text is kept (DraftsKept).  The first two rest on what is known *)
(* of a request between its check and its file operation, the third on where  *)
(* the page keeps the text of the open file.                                  *)
(***************************************************************************)
EXTENDS Workspace, TLAPS

-----------------------------------------------------------------------------
(* Types                                                                   *)

Content == Text \cup {Nothing}
Request == [op : {"write", "delete", "move", "unlink", "rename", "copy", "trash"},
            who : {"api", "page"}, path : Path, target : Path, text : Content, sees : Content]

FilesTyped ==
    /\ disk \in [Path -> Content]
    /\ job = NoJob \/ job \in Request
    /\ spent \in 0..MaxSpent
    /\ raced \subseteq Path

Draft == [path : Path, base : Text, text : Text]

PageTyped ==
    /\ shown \in Path \cup {Nothing}
    /\ file = NoFile \/ file \in [path : Path, base : Text]
    /\ text \in Text
    /\ drafts \in [Path -> Draft \cup {NoDraft}]
    /\ mine \in [Path -> Content]
    /\ conflict = None \/ conflict \in [state : {"shown"}, path : Path, text : Text]

WiresTyped ==
    /\ opening = None \/ opening \in [state : {"sent", "served"}, path : Path, clean : Content,
                                      reply : Content]
    /\ opening.state = "served" => opening.reply \in Text
    /\ saving = None \/ saving \in [state : {"sent", "saved", "refused"}, path : Path,
                                    text : Text, version : Content]
    /\ moving = None \/ moving \in [state : {"sent", "moved"}, path : Path, target : Path,
                                    open : BOOLEAN]
    /\ refreshing \subseteq [path : Path, version : Content, affected : SUBSET Path]
    /\ stored \subseteq Text
    /\ strayed \in BOOLEAN

WatcherTyped ==
    /\ known \in [Path -> Content]
    /\ scan = NoScan \/ scan \in [now : [Path -> Content], todo : SUBSET Path]

Typed == FilesTyped /\ PageTyped /\ WiresTyped /\ WatcherTyped

-----------------------------------------------------------------------------
(* Between the check of a request and its file operation                   *)

\* The text a request has seen is still there unless somebody edited the path.
SightHolds ==
    job.op \in {"write", "delete", "move"} /\ job.path \notin raced => disk[job.path] = job.sees

\* A move writes what it has read, with its includes rewritten, and removes the
\* old name only after the new one is in place.
MoveHolds ==
    /\ job.op \in {"move", "unlink"} =>
          /\ job.sees \in Text
          /\ job.text = Moved(job.sees, job.path, job.target)
    /\ job.op = "unlink" /\ job.target \notin raced => disk[job.target] = job.text

RequestInv == FilesTyped /\ SightHolds /\ MoveHolds

-----------------------------------------------------------------------------
(* Where the page keeps typed text                                         *)

\* A draft is filed under the path of its file.
DraftsFiled == \A p \in Path : drafts[p] # NoDraft => drafts[p].path = p

\* The draft of the open file is the text in the editor.
DraftShown ==
    /\ file # NoFile
    /\ Dirty
    /\ drafts[file.path] # NoDraft
    => drafts[file.path].text = text

\* Unsaved text in the editor is in a draft as well, or was saved as it is.
TextFiled ==
    file # NoFile /\ Dirty =>
        text \in stored \cup {drafts[p].text : p \in {q \in Path : drafts[q] # NoDraft}}

\* The draft that the confirmation of a save will drop is the text being saved.
SaveCovers == saving # None /\ drafts[saving.path] # NoDraft => drafts[saving.path].text = saving.text

PageInv == strayed \/ (DraftsFiled /\ DraftShown /\ TextFiled /\ SaveCovers)

WorkspaceInv == Typed /\ RequestInv /\ PageInv

-----------------------------------------------------------------------------
(* Requests                                                                *)

\* move rewrites includes so that they name the same files from the new place.
LEMMA MoveKeepsIncludes ==
    ASSUME NEW p \in Path, NEW q \in Path, NEW t \in Text
    PROVE  /\ IncludeOf(p, t) = IncludeOf(q, Moved(t, p, q))
           /\ Moved(t, p, q) \in Text
<1>1. p[1] \in {"top", "sub"} /\ q[1] \in {"top", "sub"}
  BY DEF Path
<1>2. Moved(t, p, q) \in Text
  BY DEF Moved, Text
<1>3. CASE p[1] = q[1]
  BY <1>3 DEF Moved, IncludeOf
<1>4. CASE p[1] # q[1]
  <2>1. OtherDir(p[1]) = q[1] /\ OtherDir(q[1]) = p[1]
    BY <1>1, <1>4 DEF OtherDir
  <2>2. CASE t = "here"
    <3>1. Moved(t, p, q) = "other"
      BY <1>4, <2>2 DEF Moved
    <3>2. IncludeOf(p, t) = {<<p[1], "a">>}
      BY <2>1, <2>2 DEF IncludeOf
    <3>3. IncludeOf(q, "other") = {<<p[1], "a">>}
      BY <2>1 DEF IncludeOf
    <3> QED
      BY <1>2, <3>1, <3>2, <3>3
  <2>3. CASE t = "other"
    <3>1. Moved(t, p, q) = "here"
      BY <1>4, <2>3 DEF Moved
    <3>2. IncludeOf(p, t) = {<<q[1], "a">>}
      BY <2>1, <2>3 DEF IncludeOf
    <3>3. IncludeOf(q, "here") = {<<q[1], "a">>}
      BY <2>1 DEF IncludeOf
    <3> QED
      BY <1>2, <3>1, <3>2, <3>3
  <2>4. CASE t \notin {"here", "other"}
    BY <1>4, <2>4 DEF Moved, IncludeOf
  <2> QED
    BY <2>2, <2>3, <2>4
<1> QED
  BY <1>2, <1>3, <1>4

\* A request that passes its check has seen what is there.
LEMMA WriteBegins ==
    ASSUME FilesTyped, NEW who \in {"api", "page"}, NEW p \in Path, NEW t \in Text,
           NEW v \in Content \cup {"*"}, WriteCheck(who, p, t, v), UNCHANGED disk,
           spent' \in 0..MaxSpent
    PROVE  RequestInv'
<1> DEFINE sees == IF v = "*" THEN Nothing ELSE v
<1>1. "*" \notin Text
  BY DEF Text
<1>2. sees = disk[p] /\ sees \in Content
  BY <1>1, FilesAssumption DEF WriteCheck, VersionMatches, Exists, FilesTyped, Content
<1>3. job' = [op |-> "write", who |-> who, path |-> p, target |-> p, text |-> t, sees |-> sees]
      /\ raced' = {}
  BY DEF WriteCheck, Begin, Job
<1> HIDE DEF sees
<1>4. job' \in Request
  BY <1>2, <1>3 DEF Request, Content
<1> QED
  BY <1>2, <1>3, <1>4 DEF RequestInv, FilesTyped, SightHolds, MoveHolds

LEMMA DeleteBegins ==
    ASSUME FilesTyped, NEW p \in Path, NEW v, DeleteCheck("api", p, v), UNCHANGED disk,
           spent' \in 0..MaxSpent
    PROVE  RequestInv'
<1>1. /\ job' = [op |-> "delete", who |-> "api", path |-> p, target |-> p, text |-> Nothing,
                 sees |-> disk[p]]
      /\ raced' = {}
  BY DEF DeleteCheck, Begin, Job
<1>2. job' \in Request
  BY <1>1 DEF Request, Content, FilesTyped
<1> QED
  BY <1>1, <1>2 DEF RequestInv, FilesTyped, SightHolds, MoveHolds

LEMMA MoveBegins ==
    ASSUME FilesTyped, NEW p \in Path, NEW q \in Path, NEW v, MoveCheck("api", p, q, v),
           UNCHANGED disk, spent' \in 0..MaxSpent
    PROVE  RequestInv'
<1>1. disk[p] \in Text
  BY DEF MoveCheck, Exists, FilesTyped, Content
<1>2. /\ job' = [op |-> "move", who |-> "api", path |-> p, target |-> q,
                 text |-> Moved(disk[p], p, q), sees |-> disk[p]]
      /\ raced' = {}
  BY DEF MoveCheck, Begin, Job
<1>3. job' \in Request
  BY <1>1, <1>2, MoveKeepsIncludes DEF Request, Content
<1> QED
  BY <1>1, <1>2, <1>3 DEF RequestInv, FilesTyped, SightHolds, MoveHolds

LEMMA EntryBegins ==
    ASSUME FilesTyped, NEW op \in {"rename", "copy", "trash"}, NEW who \in {"api", "page"},
           NEW p \in Path, NEW q \in Path, EntryCheck(op, who, p, q), UNCHANGED disk,
           spent' \in 0..MaxSpent
    PROVE  RequestInv'
<1>1. /\ job' = [op |-> op, who |-> who, path |-> p, target |-> q, text |-> Nothing,
                 sees |-> disk[p]]
      /\ raced' = {}
  BY DEF EntryCheck, Begin, Job
<1>2. job' \in Request
  BY <1>1 DEF Request, Content, FilesTyped
<1> QED
  BY <1>1, <1>2 DEF RequestInv, FilesTyped, SightHolds, MoveHolds

LEMMA CallStep == RequestInv /\ Call => RequestInv'
<1> SUFFICES ASSUME RequestInv, Call PROVE RequestInv'
  OBVIOUS
<1>1. FilesTyped /\ UNCHANGED disk /\ spent' \in 0..MaxSpent
  BY FilesAssumption DEF RequestInv, Call, Spend, FilesTyped
<1>2. PICK p \in Path :
        \/ \E t \in Edited, v \in Text \cup {Nothing, "*"} : WriteCheck("api", p, t, v)
        \/ \E v \in Text :
            \/ DeleteCheck("api", p, v)
            \/ \E q \in Path : MoveCheck("api", p, q, v)
        \/ \E q \in Path \ {p}, op \in {"rename", "copy"} : EntryCheck(op, "api", p, q)
        \/ EntryCheck("trash", "api", p, p)
  BY DEF Call
<1>3. ASSUME NEW t \in Edited, NEW v \in Text \cup {Nothing, "*"}, WriteCheck("api", p, t, v)
      PROVE  RequestInv'
  BY <1>1, <1>3, WriteBegins, FilesAssumption DEF Content
<1>4. ASSUME NEW v \in Text, DeleteCheck("api", p, v) PROVE RequestInv'
  BY <1>1, <1>4, DeleteBegins
<1>5. ASSUME NEW v \in Text, NEW q \in Path, MoveCheck("api", p, q, v) PROVE RequestInv'
  BY <1>1, <1>5, MoveBegins
<1>6. ASSUME NEW q \in Path, NEW op \in {"rename", "copy", "trash"}, EntryCheck(op, "api", p, q)
      PROVE  RequestInv'
  BY <1>1, <1>6, EntryBegins
<1> QED
  BY <1>2, <1>3, <1>4, <1>5, <1>6

\* The file operation of a request: afterwards the request is over, or the moved
\* file is in its new place.
LEMMA OperationStep == RequestInv /\ FileOperation => RequestInv'
<1> SUFFICES ASSUME RequestInv, FileOperation PROVE RequestInv'
  OBVIOUS
<1>1. job \in Request /\ UNCHANGED <<spent, raced>> /\ FilesTyped
  BY DEF RequestInv, FileOperation, Replace, Unlink, Place, Rename, CopyFile, FilesTyped, NoJob
<1>2. disk' \in [Path -> Content]
  BY <1>1 DEF FileOperation, Replace, Unlink, Place, Rename, CopyFile, FilesTyped, Request, Content
<1>3. CASE job' = NoJob
  BY <1>1, <1>2, <1>3 DEF RequestInv, FilesTyped, SightHolds, MoveHolds, NoJob
<1>4. CASE Place
  <2>1. /\ job.op = "move" /\ job' = [job EXCEPT !.op = "unlink"]
        /\ disk' = [disk EXCEPT ![job.target] = job.text]
    BY <1>4 DEF Place
  <2>2. job' \in Request
    BY <1>1, <2>1 DEF Request
  <2> QED
    BY <1>1, <1>2, <2>1, <2>2 DEF RequestInv, FilesTyped, SightHolds, MoveHolds, Request
<1> QED
  BY <1>3, <1>4 DEF FileOperation, Replace, Unlink, Rename, CopyFile

\* An edit on disk during a request is on record.
LEMMA EditStep ==
    ASSUME RequestInv, NEW p \in Path, NEW t \in Content, Edit(p, t)
    PROVE  RequestInv'
<1>1. /\ spent' \in 0..MaxSpent /\ disk' = [disk EXCEPT ![p] = t] /\ UNCHANGED job
      /\ raced' = IF job = NoJob THEN raced ELSE raced \cup {p}
  BY FilesAssumption DEF Edit, Spend, RequestInv, FilesTyped
<1>2. FilesTyped'
  BY <1>1 DEF RequestInv, FilesTyped
<1>3. CASE job = NoJob
  BY <1>1, <1>2, <1>3 DEF RequestInv, SightHolds, MoveHolds, NoJob
<1>4. CASE job \in Request /\ job # NoJob
  BY <1>1, <1>2, <1>4 DEF RequestInv, SightHolds, MoveHolds, Request, FilesTyped
<1> QED
  BY <1>3, <1>4 DEF RequestInv, FilesTyped

-----------------------------------------------------------------------------
(* The types are kept                                                      *)

\* The versions of a pass are texts.
LEMMA VersionsTyped == FilesTyped => Versions(disk) \in [Path -> Content]
BY DEF FilesTyped, Versions, Content

LEMMA WatchTyped == Typed /\ Watch => PageTyped' /\ WiresTyped' /\ WatcherTyped'
<1> SUFFICES ASSUME Typed, Watch PROVE PageTyped' /\ WiresTyped' /\ WatcherTyped'
  OBVIOUS
<1> USE DEF Typed
<1>1. CASE (WatchScan \/ WatchDone \/ WatchFails) /\ UNCHANGED editor
  <2>1. PageTyped' /\ WiresTyped'
    BY <1>1 DEF PageTyped, WiresTyped, editor, page, wires, Dirty
  <2>2. WatcherTyped'
    BY <1>1, VersionsTyped DEF WatcherTyped, WatchScan, WatchDone, WatchFails, RunEnds, NoScan
  <2> QED
    BY <2>1, <2>2
<1>2. ASSUME NEW p \in scan.todo, WatchAnnounce(p), EventArrives(Event(p))
      PROVE  PageTyped' /\ WiresTyped' /\ WatcherTyped'
  <2>1. scan \in [now : [Path -> Content], todo : SUBSET Path] /\ p \in Path
    BY DEF WatcherTyped, NoScan
  <2>2. Event(p) \in [path : Path, version : Content, affected : SUBSET Path]
    BY <2>1 DEF Event, AffectedBy
  <2>3. mine' \in [Path -> Content]
    BY <1>2, <2>2 DEF EventArrives, PageTyped, Content
  <2>4. refreshing' \subseteq [path : Path, version : Content, affected : SUBSET Path]
    BY <1>2, <2>2 DEF EventArrives, WiresTyped
  <2>5. WatcherTyped'
    BY <1>2, <2>1 DEF WatchAnnounce, WatcherTyped
  <2> QED
    BY <1>2, <2>3, <2>4, <2>5 DEF EventArrives, PageTyped, WiresTyped
<1> QED
  BY <1>1, <1>2 DEF Watch

LEMMA UserTyped == Typed /\ (UserActs \/ UserDecides) => PageTyped' /\ WiresTyped' /\ WatcherTyped'
<1> SUFFICES ASSUME Typed, UserActs \/ UserDecides PROVE PageTyped' /\ WiresTyped'
  BY DEF UserActs, UserDecides, watcher, Typed, WatcherTyped
<1> USE DEF Typed
<1>1. ASSUME NEW p \in Path, UserOpens(p) PROVE PageTyped' /\ WiresTyped'
  BY <1>1 DEF UserOpens, Opened, PageTyped, WiresTyped, page, Content
<1>2. ASSUME NEW p \in Path, NEW q \in Path, UserMoves(p, q) PROVE PageTyped' /\ WiresTyped'
  BY <1>2 DEF UserMoves, PageTyped, WiresTyped
<1>3. ASSUME NEW t \in Text, UserTypes(t) PROVE PageTyped' /\ WiresTyped'
  <2>1. shown \in Path /\ file \in [path : Path, base : Text]
    BY <1>3 DEF UserTypes, PageTyped
  <2>2. drafts' \in [Path -> Draft \cup {NoDraft}]
    BY <1>3, <2>1 DEF UserTypes, PageTyped, Draft
  <2>3. strayed' \in BOOLEAN
    BY <1>3 DEF UserTypes, WiresTyped
  <2> QED
    BY <1>3, <2>2, <2>3 DEF UserTypes, PageTyped, WiresTyped, wires
<1>4. CASE UserSaves
  <2>1. file \in [path : Path, base : Text] /\ text \in Text
    BY <1>4 DEF UserSaves, PageTyped
  <2>2. saving' \in [state : {"sent", "saved", "refused"}, path : Path, text : Text,
                     version : Content]
    BY <1>4, <2>1 DEF UserSaves, Content
  <2> QED
    BY <1>4, <2>2 DEF UserSaves, PageTyped, WiresTyped, page
<1>5. CASE UserAdoptsLatest
  <2>1. conflict.path \in Path /\ conflict.text \in Text
    BY <1>5 DEF UserAdoptsLatest, PageTyped
  <2>2. file' \in [path : Path, base : Text] /\ shown' \in Path \cup {Nothing}
    BY <1>5, <2>1 DEF UserAdoptsLatest, ShowFile, File, PageTyped
  <2> QED
    BY <1>5, <2>1, <2>2 DEF UserAdoptsLatest, PageTyped, WiresTyped, wires
<1> QED
  BY <1>1, <1>2, <1>3, <1>4, <1>5, FilesAssumption DEF UserActs, UserDecides

LEMMA ReplyTyped == Typed /\ PageReply => PageTyped' /\ WiresTyped' /\ WatcherTyped'
<1> SUFFICES ASSUME Typed, PageReply PROVE PageTyped' /\ WiresTyped'
  BY DEF PageReply, watcher, Typed, WatcherTyped
<1> USE DEF Typed
<1>1. CASE OpenReply
  <2>1. opening.path \in Path /\ opening.reply \in Text
    BY <1>1 DEF OpenReply, WiresTyped, None
  <2>2. DraftFor(opening) \in Draft \cup {NoDraft}
    BY <2>1 DEF DraftFor, PageTyped
  <2>3. WiresTyped'
    BY <1>1 DEF OpenReply, WiresTyped, None
  <2>4. CASE Overtaken(opening)
    BY <1>1, <2>3, <2>4 DEF OpenReply, PageTyped, page
  <2>5. CASE ~Overtaken(opening) /\ DraftFor(opening) # NoDraft
    <3>1. DraftFor(opening).path \in Path /\ DraftFor(opening).base \in Text
          /\ DraftFor(opening).text \in Text
      BY <2>2, <2>5 DEF Draft
    <3>2. file' = File(DraftFor(opening).path, DraftFor(opening).base)
          /\ shown' \in {DraftFor(opening).path, opening.path}
          /\ text' = DraftFor(opening).text /\ conflict' = None /\ UNCHANGED <<drafts, mine>>
      BY <1>1, <2>5 DEF OpenReply, ShowFile, File
    <3> QED
      BY <2>1, <2>3, <3>1, <3>2 DEF PageTyped, File
  <2>6. CASE ~Overtaken(opening) /\ DraftFor(opening) = NoDraft
    <3>1. file' = File(opening.path, opening.reply) /\ shown' = opening.path
          /\ text' = opening.reply /\ conflict' = None /\ UNCHANGED <<drafts, mine>>
      BY <1>1, <2>6 DEF OpenReply, ShowFile, File
    <3> QED
      BY <2>1, <2>3, <3>1 DEF PageTyped, File
  <2> QED
    BY <2>4, <2>5, <2>6
<1>2. CASE SaveReply
  <2>1. saving.path \in Path /\ saving.text \in Text
    BY <1>2 DEF SaveReply, WiresTyped, None
  <2>2. PageTyped'
    BY <1>2, <2>1 DEF SaveReply, PageTyped, Content
  <2>3. WiresTyped'
    BY <1>2, <2>1 DEF SaveReply, WiresTyped, Opened, Content
  <2> QED
    BY <2>2, <2>3
<1>3. CASE SaveRefused
  <2>1. saving.path \in Path
    BY <1>3 DEF SaveRefused, WiresTyped, None
  <2>2. PageTyped'
    BY <1>3, <2>1 DEF SaveRefused, PageTyped, FilesTyped, Exists, Content
  <2> QED
    BY <1>3, <2>2 DEF SaveRefused, WiresTyped
<1>4. CASE MoveReply
  <2>1. moving.path \in Path /\ moving.target \in Path
    BY <1>4 DEF MoveReply, WiresTyped, None
  <2>2. drafts' \in [Path -> Draft \cup {NoDraft}]
    BY <1>4, <2>1 DEF MoveReply, RemapDrafts, PageTyped, Draft
  <2>3. opening' = opening \/ (shown \in Path /\ opening' = Opened(shown, Nothing))
    <3>1. opening' = IF moving.open /\ shown # Nothing THEN Opened(shown, Nothing) ELSE opening
      BY <1>4 DEF MoveReply
    <3>2. CASE moving.open /\ shown # Nothing
      BY <3>1, <3>2 DEF PageTyped
    <3>3. CASE ~(moving.open /\ shown # Nothing)
      BY <3>1, <3>3
    <3> QED
      BY <3>2, <3>3
  <2>4. strayed' \in BOOLEAN
    BY <1>4 DEF MoveReply, WiresTyped
  <2>5. WiresTyped'
    BY <1>4, <2>3, <2>4 DEF MoveReply, WiresTyped, Opened, Content
  <2> QED
    BY <1>4, <2>2, <2>5 DEF MoveReply, PageTyped
<1>5. CASE RequestFails
  BY <1>5 DEF RequestFails, PageTyped, WiresTyped, page, None
<1>6. ASSUME NEW e \in refreshing, Refreshed(e) PROVE PageTyped' /\ WiresTyped'
  <2>1. e.affected \subseteq Path
    BY DEF WiresTyped
  <2>2. opening' = opening \/ (shown \in Path /\ opening' = Opened(shown, text))
    <3>1. CASE UNCHANGED opening
      BY <3>1
    <3>2. CASE ~UNCHANGED opening
      <4>1. opening' = IF shown \in e.affected /\ ~Dirty THEN Opened(shown, text) ELSE opening
        BY <1>6, <3>2 DEF Refreshed
      <4>2. shown \in e.affected /\ ~Dirty
        BY <3>2, <4>1
      <4> QED
        BY <2>1, <4>1, <4>2
    <3> QED
      BY <3>1, <3>2
  <2>3. PageTyped'
    BY <1>6 DEF Refreshed, PageTyped
  <2>4. WiresTyped'
    BY <1>6, <2>2 DEF Refreshed, WiresTyped, PageTyped, Opened, Content
  <2> QED
    BY <2>3, <2>4
<1> QED
  BY <1>1, <1>2, <1>3, <1>4, <1>5, <1>6 DEF PageReply

LEMMA ServedTyped == Typed /\ PageServed => PageTyped' /\ WiresTyped' /\ WatcherTyped'
<1> SUFFICES ASSUME Typed, PageServed PROVE PageTyped' /\ WiresTyped'
  BY DEF PageServed, watcher, Typed, WatcherTyped
<1> USE DEF Typed
<1>1. CASE OpenServed
  <2>1. opening.path \in Path
    BY <1>1 DEF OpenServed, WiresTyped, None
  <2>2. opening \in [state : {"sent", "served"}, path : Path, clean : Content, reply : Content]
    BY <1>1 DEF OpenServed, WiresTyped, None
  <2>3. CASE Exists(disk, opening.path)
    <3>1. opening' = [opening EXCEPT !.state = "served", !.reply = disk[opening.path]]
      BY <1>1, <2>3 DEF OpenServed
    <3>2. disk[opening.path] \in Text
      BY <2>1, <2>3 DEF Exists, FilesTyped, Content
    <3> QED
      BY <1>1, <2>2, <3>1, <3>2 DEF OpenServed, PageTyped, WiresTyped, Content, page
  <2>4. CASE ~Exists(disk, opening.path)
    BY <1>1, <2>4 DEF OpenServed, PageTyped, WiresTyped, page, None
  <2> QED
    BY <2>3, <2>4
<1>2. CASE SaveServed
  BY <1>2 DEF SaveServed, PageTyped, WiresTyped, page, None
<1>3. CASE MoveServed
  BY <1>3 DEF MoveServed, PageTyped, WiresTyped, page, None
<1> QED
  BY <1>1, <1>2, <1>3 DEF PageServed

-----------------------------------------------------------------------------
(* Typed text is kept                                                      *)

Drafted == {drafts[p].text : p \in {q \in Path : drafts[q] # NoDraft}}

LEMMA NoDraftIsNone == NoDraft \notin Draft
BY FilesAssumption DEF NoDraft, Draft

\* The invariant depends on these variables only.
LEMMA PageUntouched ==
    ASSUME PageInv, UNCHANGED <<file, text, drafts, saving, stored, strayed>>
    PROVE  PageInv'
BY DEF PageInv, DraftsFiled, DraftShown, TextFiled, SaveCovers, Dirty

LEMMA TypingKeeps ==
    ASSUME Typed, PageInv, NEW t \in Text, UserTypes(t)
    PROVE  PageInv'
<1> SUFFICES ASSUME ~strayed' PROVE (DraftsFiled /\ DraftShown /\ TextFiled /\ SaveCovers)'
  BY DEF PageInv
<1>1. /\ ~strayed /\ saving = None /\ shown = file.path
      /\ file # NoFile /\ text' = t /\ UNCHANGED <<file, saving, stored>>
  BY DEF UserTypes, wires
<1>2. file \in [path : Path, base : Text] /\ file.path \in Path
  BY <1>1 DEF Typed, PageTyped
<1> DEFINE new == IF t = file.base THEN NoDraft
                  ELSE [path |-> file.path, base |-> file.base, text |-> t]
<1>3. drafts' = [drafts EXCEPT ![file.path] = new]
  BY <1>1 DEF UserTypes
<1>4. drafts \in [Path -> Draft \cup {NoDraft}]
  BY DEF Typed, PageTyped
<1>5. drafts'[file.path] = new /\ \A p \in Path : p # file.path => drafts'[p] = drafts[p]
  BY <1>2, <1>3, <1>4
<1>6. CASE t = file.base
  BY <1>1, <1>2, <1>5, <1>6
  DEF PageInv, DraftsFiled, DraftShown, TextFiled, SaveCovers, Dirty
<1>7. CASE t # file.base
  <2>1. new = [path |-> file.path, base |-> file.base, text |-> t] /\ new \in Draft
    BY <1>2, <1>7 DEF Draft
  <2>2. new # NoDraft /\ new.path = file.path /\ new.text = t
    BY <2>1, NoDraftIsNone
  <2> HIDE DEF new
  <2>3. DraftsFiled' /\ DraftShown'
    BY <1>1, <1>2, <1>5, <2>2 DEF PageInv, DraftsFiled, DraftShown
  <2>4. TextFiled' /\ SaveCovers'
    BY <1>1, <1>2, <1>5, <2>2 DEF TextFiled, SaveCovers
  <2> QED
    BY <2>3, <2>4
<1> QED
  BY <1>6, <1>7

LEMMA UserKeeps ==
    ASSUME Typed, PageInv, UserActs \/ UserDecides
    PROVE  PageInv'
<1>1. ASSUME NEW p \in Path, NEW q \in Path, UserOpens(p) \/ UserMoves(p, q) PROVE PageInv'
  BY <1>1, PageUntouched DEF UserOpens, UserMoves, page
<1>2. CASE UserSaves
  <2>1. /\ file # NoFile /\ Dirty
        /\ saving' = [state |-> "sent", path |-> file.path, text |-> text, version |-> file.base]
        /\ UNCHANGED <<file, text, drafts, stored, strayed>>
    BY <1>2 DEF UserSaves, page
  <2>2. saving'.path = file.path /\ saving'.text = text
    BY <2>1
  <2> QED
    BY <2>1, <2>2 DEF PageInv, DraftsFiled, DraftShown, TextFiled, SaveCovers, Dirty
<1>3. CASE UserAdoptsLatest
  <2>1. /\ conflict.path \in Path
        /\ file'.base = conflict.text /\ text' = conflict.text
        /\ drafts' = [drafts EXCEPT ![conflict.path] = NoDraft]
        /\ UNCHANGED <<saving, stored, strayed>>
    BY <1>3 DEF UserAdoptsLatest, ShowFile, File, wires, Typed, PageTyped
  <2>2. \A p \in Path : drafts'[p] # NoDraft => drafts'[p] = drafts[p]
    BY <2>1 DEF Typed, PageTyped
  <2>3. ~Dirty'
    BY <2>1 DEF Dirty
  <2>4. saving # None => saving.path \in Path
    BY DEF Typed, WiresTyped
  <2> QED
    BY <2>1, <2>2, <2>3, <2>4 DEF PageInv, DraftsFiled, DraftShown, TextFiled, SaveCovers
<1> QED
  BY <1>1, <1>2, <1>3, TypingKeeps, FilesAssumption DEF UserActs, UserDecides

\* What a reply does with typed text: the invariant holds again, and nothing
\* unsaved is gone.
Kept == \A t \in Unsaved : t \in Unsaved' \cup stored'

LEMMA UnsavedIsFiled ==
    ASSUME PageInv, ~strayed
    PROVE  Unsaved \subseteq Drafted \cup stored
BY DEF PageInv, TextFiled, Unsaved, Drafted

\* It is enough that no draft is lost: the editor holds nothing that is not in one.
LEMMA DraftsSuffice ==
    ASSUME PageInv, ~strayed, Drafted \cup stored \subseteq Drafted' \cup stored'
    PROVE  Kept
<1>1. Drafted' \subseteq Unsaved'
  BY DEF Drafted, Unsaved
<1> QED
  BY <1>1, UnsavedIsFiled DEF Kept

LEMMA OpenReplyKeeps ==
    ASSUME Typed, PageInv, OpenReply
    PROVE  PageInv' /\ (strayed' \/ Kept)
<1>1. UNCHANGED <<drafts, saving, stored, strayed>>
  BY DEF OpenReply, page
<1>2. strayed' \/ Kept
  BY <1>1, DraftsSuffice DEF Drafted
<1>3. CASE Overtaken(opening)
  BY <1>1, <1>2, <1>3, PageUntouched DEF OpenReply, page
<1>4. CASE ~Overtaken(opening) /\ DraftFor(opening) # NoDraft
  <2>1. /\ opening.path \in Path /\ DraftFor(opening) = drafts[opening.path]
        /\ drafts[opening.path] # NoDraft
    BY <1>4 DEF DraftFor, OpenReply, Typed, WiresTyped, None
  <2>2. file'.path = drafts[opening.path].path /\ text' = drafts[opening.path].text
    BY <1>4, <2>1 DEF OpenReply, ShowFile, File
  <2> QED
    BY <1>1, <1>2, <2>1, <2>2 DEF PageInv, DraftsFiled, DraftShown, TextFiled, SaveCovers
<1>5. CASE ~Overtaken(opening) /\ DraftFor(opening) = NoDraft
  <2>1. file'.base = opening.reply /\ text' = opening.reply
    BY <1>5 DEF OpenReply, ShowFile, File
  <2>2. ~Dirty'
    BY <2>1 DEF Dirty
  <2> QED
    BY <1>1, <1>2, <2>2 DEF PageInv, DraftsFiled, DraftShown, TextFiled, SaveCovers
<1> QED
  BY <1>3, <1>4, <1>5

LEMMA SaveReplyKeeps ==
    ASSUME Typed, PageInv, SaveReply
    PROVE  PageInv' /\ (strayed' \/ Kept)
<1> SUFFICES ASSUME ~strayed PROVE PageInv' /\ Kept
  BY DEF SaveReply, PageInv
<1>1. /\ saving # None /\ saving.path \in Path
      /\ drafts' = [drafts EXCEPT ![saving.path] = NoDraft]
      /\ saving' = None /\ stored' = stored \cup {saving.text}
      /\ UNCHANGED <<file, text, strayed>>
  BY DEF SaveReply, Typed, WiresTyped, None
<1>2. drafts[saving.path] # NoDraft => drafts[saving.path].text = saving.text
  BY <1>1 DEF PageInv, SaveCovers
<1>3. /\ drafts'[saving.path] = NoDraft
      /\ \A p \in Path : p # saving.path => drafts'[p] = drafts[p]
  BY <1>1 DEF Typed, PageTyped
<1>4. Drafted \cup stored \subseteq Drafted' \cup stored'
  <2> SUFFICES ASSUME NEW p \in Path, drafts[p] # NoDraft
               PROVE  drafts[p].text \in Drafted' \cup stored'
    BY <1>1 DEF Drafted
  <2>1. CASE p = saving.path
    BY <1>1, <1>2, <2>1
  <2>2. CASE p # saving.path
    BY <1>3, <2>2 DEF Drafted
  <2> QED
    BY <2>1, <2>2
<1>5. Kept
  BY <1>4, DraftsSuffice
<1>6. TextFiled'
  BY <1>1, <1>4 DEF PageInv, TextFiled, Drafted, Dirty
<1> QED
  BY <1>1, <1>3, <1>5, <1>6 DEF PageInv, DraftsFiled, DraftShown, SaveCovers, Dirty

LEMMA MoveReplyKeeps ==
    ASSUME Typed, PageInv, MoveReply
    PROVE  PageInv' /\ (strayed' \/ Kept)
<1> DEFINE p == moving.path
           q == moving.target
<1> SUFFICES ASSUME ~strayed, ~MovedOver(p, q) PROVE PageInv' /\ Kept
  BY DEF MoveReply, PageInv
<1>1. /\ p \in Path /\ q \in Path
      /\ drafts' = RemapDrafts(p, q) /\ UNCHANGED <<file, text, saving, stored>>
  BY DEF MoveReply, Typed, WiresTyped, None
<1>2. drafts \in [Path -> Draft \cup {NoDraft}]
  BY DEF Typed, PageTyped
<1> HIDE DEF p, q
<1>3. CASE drafts[p] = NoDraft
  <2>1. UNCHANGED drafts
    BY <1>1, <1>3 DEF RemapDrafts
  <2>2. (DraftsFiled /\ DraftShown /\ TextFiled /\ SaveCovers)'
    BY <1>1, <2>1 DEF PageInv, DraftsFiled, DraftShown, TextFiled, SaveCovers, Dirty
  <2> QED
    BY <1>1, <2>1, <2>2, DraftsSuffice DEF PageInv, Drafted
<1>4. CASE drafts[p] # NoDraft
  <2>1. drafts[p] \in Draft /\ drafts[q] = NoDraft /\ p # q
    BY <1>1, <1>2, <1>4 DEF MovedOver
  <2>2. ~(file # NoFile /\ file.path = q /\ Dirty) /\ ~(saving # None /\ saving.path = q)
    BY <1>4 DEF MovedOver
  <2> DEFINE moved == [drafts[p] EXCEPT !.path = q]
  <2>3. moved \in Draft /\ moved.path = q /\ moved.text = drafts[p].text
    BY <1>1, <2>1 DEF Draft
  <2>4. drafts' = [drafts EXCEPT ![q] = moved, ![p] = NoDraft]
    BY <1>1, <1>4 DEF RemapDrafts
  <2> HIDE DEF moved
  <2>5. /\ drafts'[q] = moved /\ drafts'[p] = NoDraft
        /\ \A r \in Path : r # p /\ r # q => drafts'[r] = drafts[r]
    BY <1>1, <1>2, <2>1, <2>4
  <2>6. Drafted \subseteq Drafted'
    <3> SUFFICES ASSUME NEW r \in Path, drafts[r] # NoDraft PROVE drafts[r].text \in Drafted'
      BY DEF Drafted
    <3>1. CASE r = p
      BY <1>1, <2>3, <2>5, <3>1, NoDraftIsNone DEF Drafted
    <3>2. CASE r # p
      BY <1>1, <2>1, <2>5, <3>2 DEF Drafted
    <3> QED
      BY <3>1, <3>2
  <2>7. Kept
    BY <1>1, <2>6, DraftsSuffice
  <2>8. DraftsFiled'
    BY <1>1, <2>3, <2>5 DEF PageInv, DraftsFiled
  <2>9. TextFiled'
    BY <1>1, <2>6 DEF PageInv, TextFiled, Drafted, Dirty
  <2>10. DraftShown'
    <3>1. file # NoFile => file.path \in Path
      BY DEF Typed, PageTyped
    <3> QED
      BY <1>1, <2>2, <2>5, <3>1 DEF PageInv, DraftShown, Dirty
  <2>11. SaveCovers'
    <3>1. saving # None => saving.path \in Path
      BY DEF Typed, WiresTyped
    <3> QED
      BY <1>1, <2>2, <2>5, <3>1 DEF PageInv, SaveCovers
  <2> QED
    BY <2>7, <2>8, <2>9, <2>10, <2>11 DEF PageInv
<1> QED
  BY <1>3, <1>4

\* A file that is gone is closed; its text is in its draft.
LEMMA RefreshKeeps ==
    ASSUME Typed, PageInv, NEW e \in refreshing, Refreshed(e)
    PROVE  PageInv' /\ (strayed' \/ Kept)
<1>1. /\ UNCHANGED <<drafts, saving, stored, strayed, text>>
      /\ file' = NoFile \/ file' = file
  BY DEF Refreshed
<1>2. strayed' \/ Kept
  BY <1>1, DraftsSuffice DEF Drafted
<1>3. CASE file' = file
  BY <1>1, <1>2, <1>3, PageUntouched
<1>4. CASE file' = NoFile
  BY <1>1, <1>2, <1>4 DEF PageInv, DraftsFiled, DraftShown, TextFiled, SaveCovers
<1> QED
  BY <1>1, <1>3, <1>4

LEMMA ReplyKeeps ==
    ASSUME Typed, PageInv, PageReply
    PROVE  PageInv' /\ (strayed' \/ Kept)
<1>1. CASE SaveRefused \/ RequestFails
  <2>1. UNCHANGED <<file, text, drafts, stored, strayed>> /\ (saving' = None \/ saving' = saving)
    BY <1>1 DEF SaveRefused, RequestFails, page
  <2>2. PageInv'
    BY <2>1 DEF PageInv, DraftsFiled, DraftShown, TextFiled, SaveCovers, Dirty
  <2>3. strayed' \/ Kept
    BY <2>1, DraftsSuffice DEF Drafted
  <2> QED
    BY <2>2, <2>3
<1> QED
  BY <1>1, OpenReplyKeeps, SaveReplyKeeps, MoveReplyKeeps, RefreshKeeps DEF PageReply

LEMMA ServedKeeps ==
    ASSUME Typed, PageInv, PageServed
    PROVE  PageInv'
<1>1. CASE OpenServed \/ MoveServed
  BY <1>1, PageUntouched DEF OpenServed, MoveServed, page
<1>2. CASE SaveServed
  <2>1. /\ UNCHANGED <<file, text, drafts, stored, strayed>>
        /\ saving # None /\ saving'.path = saving.path /\ saving'.text = saving.text
    BY <1>2 DEF SaveServed, page, Typed, WiresTyped, None
  <2> QED
    BY <2>1 DEF PageInv, DraftsFiled, DraftShown, TextFiled, SaveCovers, Dirty
<1> QED
  BY <1>1, <1>2 DEF PageServed

-----------------------------------------------------------------------------
(* Theorems                                                                *)

LEMMA WorkspaceInitial == Init => WorkspaceInv
<1> SUFFICES ASSUME Init PROVE WorkspaceInv
  OBVIOUS
<1>1. "one" \in Text /\ "here" \in Text /\ <<"top", "b">> \in Path
  BY DEF Text, Path
<1>2. disk \in [Path -> Content]
  BY <1>1 DEF Init, FilesInit, Content
<1>3. RequestInv
  BY <1>2, FilesAssumption
  DEF Init, FilesInit, RequestInv, FilesTyped, SightHolds, MoveHolds, NoJob
<1>4. PageTyped
  <2>1. file \in [path : Path, base : Text]
    BY <1>1 DEF Init, EditorInit, File
  <2> QED
    BY <1>1, <2>1 DEF Init, EditorInit, PageTyped, Content
<1>5. WiresTyped /\ WatcherTyped
  BY <1>2, <1>3, VersionsTyped
  DEF Init, EditorInit, WatcherInit, WiresTyped, WatcherTyped, RequestInv, None
<1>6. PageInv
  BY DEF Init, EditorInit, PageInv, DraftsFiled, DraftShown, TextFiled, SaveCovers, Dirty, File
<1> QED
  BY <1>3, <1>4, <1>5, <1>6 DEF WorkspaceInv, Typed, RequestInv

LEMMA RequestUntouched == RequestInv /\ UNCHANGED files => RequestInv'
BY DEF RequestInv, FilesTyped, SightHolds, MoveHolds, files

LEMMA EditorUntouched ==
    ASSUME WorkspaceInv, UNCHANGED <<editor, watcher>>
    PROVE  PageTyped' /\ WiresTyped' /\ WatcherTyped' /\ PageInv'
<1>1. PageTyped' /\ WiresTyped' /\ WatcherTyped'
  BY DEF WorkspaceInv, Typed, PageTyped, WiresTyped, WatcherTyped, editor, page, wires, watcher
<1>2. PageInv'
  BY PageUntouched DEF WorkspaceInv, editor, page, wires
<1> QED
  BY <1>1, <1>2

LEMMA ServedRequest == WorkspaceInv /\ PageServed => RequestInv'
<1> SUFFICES ASSUME WorkspaceInv, PageServed PROVE RequestInv'
  OBVIOUS
<1>1. RequestInv /\ FilesTyped /\ WiresTyped
  BY DEF WorkspaceInv, Typed
<1>2. CASE UNCHANGED files
  BY <1>1, <1>2, RequestUntouched
<1>3. CASE ~UNCHANGED files
  <2>1. (SaveServed \/ MoveServed) /\ UNCHANGED <<disk, spent>>
    BY <1>3 DEF PageServed
  <2>2. spent' \in 0..MaxSpent
    BY <1>1, <2>1 DEF FilesTyped
  <2>3. CASE SaveServed
    <3>1. saving.path \in Path /\ saving.text \in Text /\ saving.version \in Content
      BY <1>1, <2>3 DEF SaveServed, WiresTyped, None
    <3>2. WriteCheck("page", saving.path, saving.text, saving.version)
      BY <1>3, <2>1, <2>3 DEF SaveServed, files
    <3> QED
      BY <1>1, <2>1, <2>2, <3>1, <3>2, WriteBegins
  <2>4. CASE MoveServed
    <3>1. moving.path \in Path /\ moving.target \in Path
      BY <1>1, <2>4 DEF MoveServed, WiresTyped, None
    <3>2. EntryCheck("rename", "page", moving.path, moving.target)
      BY <1>3, <2>1, <2>4 DEF MoveServed, files
    <3> QED
      BY <1>1, <2>1, <2>2, <3>1, <3>2, EntryBegins
  <2> QED
    BY <2>1, <2>3, <2>4
<1> QED
  BY <1>2, <1>3

LEMMA WorkspaceStep == WorkspaceInv /\ [Next]_vars => WorkspaceInv'
<1> SUFFICES ASSUME WorkspaceInv, [Next]_vars
             PROVE  RequestInv' /\ PageTyped' /\ WiresTyped' /\ WatcherTyped' /\ PageInv'
  BY DEF WorkspaceInv, Typed, RequestInv
<1>1. Typed /\ RequestInv /\ PageInv
  BY DEF WorkspaceInv
<1>2. CASE Watch
  <2>1. UNCHANGED <<file, text, drafts, saving, stored, strayed>>
    BY <1>2 DEF Watch, EventArrives, editor, page, wires
  <2>2. RequestInv'
    BY <1>1, <1>2, FilesAssumption
    DEF Watch, Spend, RequestInv, FilesTyped, SightHolds, MoveHolds
  <2> QED
    BY <1>1, <1>2, <2>1, <2>2, WatchTyped, PageUntouched
<1>3. CASE SomebodyEdits
  <2>1. PICK p \in Path, t \in Content : Edit(p, t)
    BY <1>3, FilesAssumption DEF SomebodyEdits, Content
  <2> QED
    BY <1>1, <1>3, <2>1, EditStep, EditorUntouched DEF SomebodyEdits
<1>4. CASE ServerWorks
  BY <1>1, <1>4, OperationStep, EditorUntouched DEF ServerWorks
<1>5. CASE ClientCalls
  BY <1>1, <1>5, CallStep, EditorUntouched DEF ClientCalls
<1>6. CASE Restart
  <2>1. RequestInv'
    BY <1>1, <1>6, FilesAssumption
    DEF Restart, Spend, RequestInv, FilesTyped, SightHolds, MoveHolds, NoJob
  <2>2. PageTyped' /\ WiresTyped' /\ WatcherTyped'
    BY <1>1, <1>6, VersionsTyped DEF Restart, Typed, PageTyped, WiresTyped, WatcherTyped, page, None
  <2>3. PageInv'
    BY <1>1, <1>6 DEF Restart, PageInv, DraftsFiled, DraftShown, TextFiled, SaveCovers, Dirty, page
  <2> QED
    BY <2>1, <2>2, <2>3
<1>7. CASE UserActs
  <2>1. RequestInv'
    BY <1>1, <1>7, FilesAssumption
    DEF UserActs, Spend, RequestInv, FilesTyped, SightHolds, MoveHolds
  <2> QED
    BY <1>1, <1>7, <2>1, UserTyped, UserKeeps
<1>8. CASE UserDecides
  BY <1>1, <1>8, UserTyped, UserKeeps, RequestUntouched DEF UserDecides
<1>9. CASE PageReply
  BY <1>1, <1>9, ReplyTyped, ReplyKeeps, RequestUntouched DEF PageReply
<1>10. CASE PageServed
  BY <1>1, <1>10, ServedTyped, ServedKeeps, ServedRequest
<1>11. CASE UNCHANGED vars
  BY <1>1, <1>11, EditorUntouched, RequestUntouched DEF vars
<1> QED
  BY <1>2, <1>3, <1>4, <1>5, <1>6, <1>7, <1>8, <1>9, <1>10, <1>11 DEF Next

\* Requests, replies and the user's text stay as described, whoever acts next.
THEOREM WorkspaceInvariant == Spec => []WorkspaceInv
BY WorkspaceInitial, WorkspaceStep, PTL DEF Spec

\* A move of a configuration keeps its text and what it includes at every moment
\* (config_repository.py: move), whatever is edited beside it.
THEOREM MovesKeepFiles == Spec => []MoveKeepsFile
<1>1. WorkspaceInv => MoveKeepsFile
  <2> SUFFICES ASSUME WorkspaceInv, job.op \in {"move", "unlink"},
                      raced \cap {job.path, job.target} = {}
               PROVE  /\ disk[job.path] = job.sees \/ disk[job.target] = job.text
                      /\ IncludeOf(job.path, job.sees) = IncludeOf(job.target, job.text)
    BY DEF MoveKeepsFile
  <2>1. job \in Request
    BY DEF WorkspaceInv, RequestInv, FilesTyped, NoJob
  <2>2. job.path \in Path /\ job.target \in Path /\ job.sees \in Text
        /\ job.text = Moved(job.sees, job.path, job.target)
    BY <2>1 DEF WorkspaceInv, RequestInv, MoveHolds, Request
  <2>3. disk[job.path] = job.sees \/ disk[job.target] = job.text
    BY DEF WorkspaceInv, RequestInv, SightHolds, MoveHolds
  <2> QED
    BY <2>2, <2>3, MoveKeepsIncludes
<1> QED
  BY <1>1, WorkspaceInvariant, PTL

\* A request replaces or removes only what its sender has seen, unless the file
\* was edited on disk between the check and the rename (If-Match of the routes).
THEOREM OverwritesSeen == Spec => NoBlindOverwrite
<1>1. ASSUME WorkspaceInv, [Next]_vars
      PROVE  [\A p \in Path :
                /\ job.op \in {"write", "delete"}
                /\ disk'[p] # disk[p]
                /\ job' # job
                /\ p \notin raced
                => p = job.path /\ disk[p] = job.sees]_files
  <2> SUFFICES ASSUME NEW p \in Path, job.op \in {"write", "delete"}, disk'[p] # disk[p],
                      job' # job, p \notin raced
               PROVE  p = job.path /\ disk[p] = job.sees
    OBVIOUS
  <2>1. job # NoJob /\ job \in Request
    BY <1>1 DEF NoJob, WorkspaceInv, RequestInv, FilesTyped
  <2>2. FileOperation
    BY <1>1, <2>1 DEF Next, vars, Watch, SomebodyEdits, Edit, ServerWorks, ClientCalls, Call,
       Restart, UserActs, UserDecides, PageReply, PageServed, Free, files
  <2>3. \A q \in Path : disk'[q] # disk[q] => q = job.path
    BY <1>1, <2>1, <2>2
    DEF FileOperation, Replace, Unlink, Place, Rename, CopyFile, WorkspaceInv, RequestInv,
        FilesTyped, Request
  <2> QED
    BY <1>1, <2>3 DEF WorkspaceInv, RequestInv, SightHolds
<1> QED
  BY <1>1, WorkspaceInvariant, PTL DEF Spec, NoBlindOverwrite

\* Typed text survives replies, events and other files being opened (App.jsx:
\* draftsRef), for any number of them.
THEOREM TypedTextKept == Spec => DraftsKept
<1>1. ASSUME WorkspaceInv, [Next]_vars
      PROVE  [PageReply => strayed' \/ \A t \in Unsaved : t \in Unsaved' \cup stored']_vars
  BY <1>1, ReplyKeeps DEF WorkspaceInv, Kept
<1> QED
  BY <1>1, WorkspaceInvariant, PTL DEF Spec, DraftsKept
=============================================================================
