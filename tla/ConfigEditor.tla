---------------------------- MODULE ConfigEditor ----------------------------
(***************************************************************************)
(* The configuration editor of one browser page (App.jsx, Config): the open *)
(* file, drafts of files with unsaved text, requests in flight and the      *)
(* reaction to configuration events.  Everything between two awaits is one  *)
(* step; the reply to a request arrives at any later time, or never.        *)
(***************************************************************************)
EXTENDS ConfigFiles

VARIABLES
    shown,       \* filePathRef: the path the page believes to be open
    file,        \* fileRef and baseContentRef: path and text as last loaded
    text,        \* contentRef: the text in the editor
    drafts,      \* draftsRef: unsaved texts by path
    mine,        \* localVersionsRef: versions this page has saved
    opening,     \* the newest request for a file; older ones are ignored
    saving,      \* the save in flight
    moving,      \* the move in flight
    conflict,    \* the server's file next to the user's text, after a 412
    refreshing,  \* events that have not yet been followed by a reload of the tree
    stored,      \* history: texts whose save was confirmed
    strayed      \* history: text was typed under a path or during a save that makes it
                 \* astray, or a draft was moved over unsaved text

page == <<shown, file, text, drafts, mine, conflict>>
wires == <<opening, saving, moving, refreshing>>
editor == <<page, wires, stored, strayed>>

None == [state |-> "none"]
Opened(p, clean) == [state |-> "sent", path |-> p, clean |-> clean, reply |-> Nothing]
File(p, t) == [path |-> p, base |-> t]
NoFile == File(Nothing, Nothing)
NoDraft == [path |-> Nothing, base |-> Nothing, text |-> Nothing]

Dirty == text # file.base

\* setFile: an effect makes filePathRef follow a file with another path.
ShowFile(f, p) ==
    /\ file' = f
    /\ shown' = IF f.path # file.path THEN f.path ELSE p

-----------------------------------------------------------------------------
(* Opening                                                                 *)

UserOpens(p) ==
    /\ Exists(disk, p)
    /\ p # shown
    /\ opening' = Opened(p, Nothing)
    /\ UNCHANGED <<page, saving, moving, refreshing, stored, strayed>>

\* GET /workspace/files/{path}
OpenServed ==
    /\ opening.state = "sent"
    /\ opening' = IF Exists(disk, opening.path)
                  THEN [opening EXCEPT !.state = "served", !.reply = disk[opening.path]]
                  ELSE None
    /\ UNCHANGED <<page, saving, moving, refreshing, stored, strayed>>

\* The draft an opened file continues with; a refresh of a clean file has none.
DraftFor(o) == IF o.clean = Nothing THEN drafts[o.path] ELSE NoDraft

\* A refresh of a clean file gives way to text typed meanwhile.
Overtaken(o) == o.clean # Nothing /\ text # o.clean

OpenReply ==
    /\ opening.state = "served"
    /\ opening' = None
    /\ IF Overtaken(opening) THEN UNCHANGED page
       ELSE LET d == DraftFor(opening)
                found == d # NoDraft
            IN /\ ShowFile(IF found THEN File(d.path, d.base)
                           ELSE File(opening.path, opening.reply), opening.path)
               /\ text' = IF found THEN d.text ELSE opening.reply
               /\ conflict' = None
               /\ UNCHANGED <<drafts, mine>>
    /\ UNCHANGED <<saving, moving, refreshing, stored, strayed>>

-----------------------------------------------------------------------------
(* Editing and saving                                                      *)

UserTypes(t) ==
    /\ file # NoFile
    /\ shown # Nothing
    /\ conflict = None
    /\ t # text
    /\ text' = t
    /\ drafts' = [drafts EXCEPT ![shown] =
                    IF t = file.base THEN NoDraft
                    ELSE [path |-> file.path, base |-> file.base, text |-> t]]
    /\ strayed' = (strayed \/ saving # None \/ shown # file.path)
    /\ UNCHANGED <<shown, file, mine, conflict, wires, stored>>

UserSaves ==
    /\ file # NoFile
    /\ Dirty
    /\ conflict = None
    /\ saving = None
    /\ saving' = [state |-> "sent", path |-> file.path, text |-> text, version |-> file.base]
    /\ UNCHANGED <<page, opening, moving, refreshing, stored, strayed>>

\* PUT /workspace/files/{path}: a request of this page enters the server.
SaveServed ==
    /\ saving.state = "sent"
    /\ IF VersionMatches(saving.path, saving.version)
       THEN /\ WriteCheck("page", saving.path, saving.text, saving.version)
            /\ saving' = [saving EXCEPT !.state = "saved"]
       ELSE /\ UNCHANGED <<job, raced>>
            /\ saving' = [saving EXCEPT !.state = "refused"]
    /\ UNCHANGED <<page, opening, moving, refreshing, stored, strayed>>

\* The save is confirmed: the draft is dropped and the file opened again.
SaveReply ==
    /\ saving.state = "saved"
    /\ job = NoJob
    /\ mine' = [mine EXCEPT ![saving.path] = saving.text]
    /\ drafts' = [drafts EXCEPT ![saving.path] = NoDraft]
    /\ opening' = Opened(saving.path, Nothing)
    /\ saving' = None
    /\ stored' = stored \cup {saving.text}
    /\ UNCHANGED <<shown, file, text, conflict, moving, refreshing, strayed>>

\* 412: the server's file is fetched for comparison; it may be gone.
SaveRefused ==
    /\ saving.state = "refused"
    /\ conflict' = IF Exists(disk, saving.path)
                   THEN [state |-> "shown", path |-> saving.path, text |-> disk[saving.path]]
                   ELSE conflict
    /\ saving' = None
    /\ UNCHANGED <<shown, file, text, drafts, mine, opening, moving, refreshing,
                   stored, strayed>>

\* Mutant: the draft is dropped whatever became of the save.
RequestFailsForgetting ==
    /\ \/ /\ saving # None
          /\ saving' = None
          /\ drafts' = [drafts EXCEPT ![saving.path] = NoDraft]
          /\ UNCHANGED opening
       \/ opening # None /\ opening' = None /\ UNCHANGED <<saving, drafts>>
    /\ UNCHANGED <<shown, file, text, mine, conflict, moving, refreshing, stored, strayed>>

\* The request or its reply is lost, or takes more than 15 seconds.
RequestFails ==
    /\ \/ saving # None /\ saving' = None /\ UNCHANGED opening
       \/ opening # None /\ opening' = None /\ UNCHANGED saving
    /\ UNCHANGED <<page, moving, refreshing, stored, strayed>>

UserAdoptsLatest ==
    /\ conflict # None
    /\ ShowFile(File(conflict.path, conflict.text), shown)
    /\ text' = conflict.text
    /\ drafts' = [drafts EXCEPT ![conflict.path] = NoDraft]
    /\ conflict' = None
    /\ UNCHANGED <<mine, wires, stored, strayed>>

-----------------------------------------------------------------------------
(* Moving                                                                  *)

UserMoves(p, q) ==
    /\ Exists(disk, p)
    /\ p # q
    /\ moving = None
    /\ shown' = IF shown = p THEN q ELSE shown
    /\ moving' = [state |-> "sent", path |-> p, target |-> q, open |-> shown = p]
    /\ UNCHANGED <<file, text, drafts, mine, conflict, opening, saving, refreshing,
                   stored, strayed>>

MoveServed ==
    /\ moving.state = "sent"
    /\ \/ /\ EntryCheck("rename", "page", moving.path, moving.target)
          /\ moving' = [moving EXCEPT !.state = "moved"]
       \/ /\ ~Exists(disk, moving.path) \/ Exists(disk, moving.target)
          /\ moving' = None
          /\ UNCHANGED <<job, raced>>
    /\ UNCHANGED <<page, opening, saving, refreshing, stored, strayed>>

\* remapDrafts
RemapDrafts(p, q) ==
    IF drafts[p] = NoDraft THEN drafts
    ELSE [drafts EXCEPT ![q] = [drafts[p] EXCEPT !.path = q], ![p] = NoDraft]

\* A draft comes to a path that has unsaved text of its own: that of a file which
\* was removed meanwhile, in a draft, in the editor or on its way to the server.
MovedOver(p, q) ==
    /\ drafts[p] # NoDraft
    /\ \/ drafts[q] # NoDraft
       \/ file # NoFile /\ file.path = q /\ Dirty
       \/ saving # None /\ saving.path = q

MoveReply ==
    /\ moving.state = "moved"
    /\ job = NoJob
    /\ drafts' = RemapDrafts(moving.path, moving.target)
    /\ opening' = IF moving.open /\ shown # Nothing THEN Opened(shown, Nothing) ELSE opening
    /\ moving' = None
    /\ strayed' = (strayed \/ MovedOver(moving.path, moving.target))
    /\ UNCHANGED <<shown, file, text, mine, conflict, saving, refreshing, stored>>

-----------------------------------------------------------------------------
(* Events                                                                  *)

\* An event arrives; one about a version this page has saved itself is dropped.
EventArrives(e) ==
    LET own == e.version # Nothing /\ mine[e.path] = e.version
    IN /\ mine' = IF own THEN [mine EXCEPT ![e.path] = Nothing] ELSE mine
       /\ refreshing' = IF own THEN refreshing ELSE refreshing \cup {e}
       /\ UNCHANGED <<shown, file, text, drafts, conflict, opening, saving, moving, stored, strayed>>

\* The tree is reloaded; an open file that the event names is loaded again if it
\* has no unsaved text, and closed if it is gone.
Refreshed(e) ==
    /\ e \in refreshing
    /\ refreshing' = refreshing \ {e}
    /\ IF shown # Nothing /\ ~Exists(disk, shown)
       THEN IF e.version = Nothing
            THEN shown' = Nothing /\ file' = NoFile /\ UNCHANGED <<text, opening>>
            ELSE UNCHANGED <<shown, file, text, opening>>
       ELSE /\ opening' = IF shown \in e.affected /\ ~Dirty THEN Opened(shown, text) ELSE opening
            /\ UNCHANGED <<shown, file, text>>
    /\ UNCHANGED <<drafts, mine, conflict, saving, moving, stored, strayed>>

EditorInit ==
    /\ shown = <<"top", "b">>
    /\ file = File(<<"top", "b">>, "here")
    /\ text = "here"
    /\ drafts = [p \in Path |-> NoDraft]
    /\ mine = [p \in Path |-> Nothing]
    /\ opening = None
    /\ saving = None
    /\ moving = None
    /\ conflict = None
    /\ refreshing = {}
    /\ stored = {}
    /\ strayed = FALSE

-----------------------------------------------------------------------------
(* Properties                                                              *)

EditorTypeOK ==
    /\ shown \in Path \cup {Nothing}
    /\ file.path \in Path \cup {Nothing} /\ file.base \in Text \cup {Nothing}
    /\ text \in Text
    /\ \A p \in Path : drafts[p] # NoDraft => drafts[p].path \in Path /\ drafts[p].text \in Text
    /\ mine \in [Path -> Text \cup {Nothing}]
    /\ \A r \in {opening, saving, moving} : r # None => r.path \in Path
    /\ \A e \in refreshing : e.path \in Path /\ e.affected \subseteq Path

\* The texts the user has typed and not saved.
Unsaved ==
    {drafts[p].text : p \in {q \in Path : drafts[q] # NoDraft}}
    \cup (IF file # NoFile /\ Dirty THEN {text} ELSE {})
=============================================================================
