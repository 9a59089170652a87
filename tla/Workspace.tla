----------------------------- MODULE Workspace -----------------------------
(***************************************************************************)
(* Configuration files, the watcher that announces their changes, and a     *)
(* browser page that edits them.  Events reach the page in the step that    *)
(* announces them; how they travel is the subject of EventStream.  All      *)
(* texts are UTF-8 here; Plugins has files that are not.                    *)
(***************************************************************************)
EXTENDS Watcher, ConfigEditor

watcher == <<known, scan, dead>>
vars == <<files, editor, watcher>>

\* The event loop is free: no request and no pass of the watcher is in progress.
Free == job = NoJob /\ scan = NoScan

Watch ==
    /\ job = NoJob
    /\ \/ (WatchScan \/ WatchDone) /\ UNCHANGED <<editor, spent>>
       \/ \E p \in scan.todo : WatchAnnounce(p) /\ EventArrives(Event(p)) /\ UNCHANGED spent
       \/ WatchFails /\ Spend /\ UNCHANGED editor
    /\ UNCHANGED <<disk, job, raced>>

SomebodyEdits ==
    /\ \E p \in Path, t \in Edited \cup {Nothing} : Edit(p, t)
    /\ UNCHANGED <<editor, watcher>>

ServerWorks == FileOperation /\ UNCHANGED <<editor, watcher>>
ClientCalls == scan = NoScan /\ Call /\ UNCHANGED <<editor, watcher>>

\* The controller dies and is started again.  Requests in progress end where
\* they are, replies are lost, and the watcher starts from what it finds.
Restart ==
    /\ Spend
    /\ job' = NoJob
    /\ scan' = NoScan
    /\ known' = Versions(disk)
    /\ dead' = FALSE
    /\ opening' = None
    /\ saving' = None
    /\ moving' = None
    /\ UNCHANGED <<disk, raced, page, refreshing, stored, strayed>>

\* Steps of the user.
UserActs ==
    /\ Spend
    /\ \/ \E p \in Path : UserOpens(p) \/ \E q \in Path : UserMoves(p, q)
       \/ \E t \in Edited : UserTypes(t)
       \/ UserSaves
    /\ UNCHANGED <<disk, job, raced, watcher>>

UserDecides == UserAdoptsLatest /\ UNCHANGED <<files, watcher>>

\* Replies and their handlers.
PageReply ==
    /\ \/ OpenReply \/ SaveReply \/ SaveRefused \/ MoveReply \/ RequestFails
       \/ \E e \in refreshing : Refreshed(e)
    /\ UNCHANGED <<files, watcher>>

\* Requests of the page reach the server.
PageServed ==
    /\ Free
    /\ \/ OpenServed /\ UNCHANGED files
       \/ (SaveServed \/ MoveServed) /\ UNCHANGED <<disk, spent>>
    /\ UNCHANGED watcher

Init == FilesInit /\ EditorInit /\ WatcherInit

Next ==
    \/ Watch
    \/ SomebodyEdits
    \/ ServerWorks
    \/ ClientCalls
    \/ Restart
    \/ UserActs
    \/ UserDecides
    \/ PageReply
    \/ PageServed

Spec == Init /\ [][Next]_vars

-----------------------------------------------------------------------------
(* Properties                                                              *)

\* The files, the page and the watcher.
TypeOK ==
    /\ FilesTypeOK
    /\ EditorTypeOK
    /\ known \in [Path -> Text \cup {Nothing}]
    /\ scan.todo \subseteq Path
    /\ dead \in BOOLEAN

\* Text the user typed is not lost to a reply, an event or another file being
\* opened: it stays in the editor or in a draft until it is saved or the user
\* takes the server's text.  Excepted is text typed while a save is in flight
\* (SaveReply drops the draft), typed after a move of the open file has begun and
\* before the file is open under its new path (it is filed under a path that is
\* not its file's), and a draft moved over unsaved text of a removed file.
DraftsKept ==
    [][PageReply => strayed' \/ \A t \in Unsaved : t \in Unsaved' \cup stored']_vars
=============================================================================
