-------------------------- MODULE BrowserChannels ---------------------------
(***************************************************************************)
(* The two sockets of a page.  They share no state, so each behaviour       *)
(* follows one of them and leaves the other idle.                           *)
(***************************************************************************)
EXTENDS EventStream, TerminalSocket

VARIABLE page  \* the socket that this behaviour follows

vars == <<page, eventVars, terminalVars>>

Init ==
    /\ page \in {"events", "terminal"}
    /\ EventInit
    /\ TerminalInit
    /\ page = "events" => size = 0

Next ==
    \/ page = "events" /\ EventNext /\ UNCHANGED <<page, terminalVars>>
    \/ page = "terminal" /\ TerminalNext /\ UNCHANGED <<page, eventVars>>

Spec == Init /\ [][Next]_vars /\ EventFairness /\ TerminalFairness

\* The states of both sockets, their handlers and the page.
TypeOK == EventTypeOK /\ TerminalTypeOK
=============================================================================
