---------------------------- MODULE CommandInput ----------------------------
(***************************************************************************)
(* command_input: the history of the terminal's command line, and the      *)
(* position in it that the up and down keys move.  The line is entered by  *)
(* the browser; a dispatched command is recorded and handed to the         *)
(* client's handler, once one has been registered.                         *)
(***************************************************************************)
EXTENDS Naturals, Sequences

CONSTANTS
    Lines,          \* what a user enters
    MaxHistory      \* bound on the recorded commands

VARIABLES
    commands,       \* command_history::m_commands
    historyIndex,   \* m_history_index
    line,           \* the command line of the browser
    handler,        \* m_cmd_handler is set
    handled         \* auxiliary: the commands given to the handler

inputVars == <<commands, historyIndex, line, handler, handled>>

NoLine == ""

InputInit ==
    /\ commands = << >>
    /\ historyIndex = 0
    /\ line = NoLine
    /\ handler = FALSE
    /\ handled = << >>

\* register_command_handler is posted to the terminal's session.
RegisterHandler ==
    /\ ~handler
    /\ handler' = TRUE
    /\ UNCHANGED <<commands, historyIndex, line, handled>>

\* dispatch: the position in the history stays where it is.
Dispatch(c) ==
    /\ Len(commands) < MaxHistory
    /\ commands' = Append(commands, c)
    /\ handled' = IF handler THEN Append(handled, c) ELSE handled
    /\ line' = NoLine
    /\ UNCHANGED <<historyIndex, handler>>

\* at_position, which counts from zero.
AtPosition(i) == commands[i + 1]

KeyUp ==
    /\ historyIndex > 0
    /\ historyIndex' = historyIndex - 1
    /\ line' = AtPosition(historyIndex - 1)
    /\ UNCHANGED <<commands, handler, handled>>

\* Faulty: shows the line before it moves.
KeyDownFromHere ==
    /\ historyIndex < Len(commands)
    /\ historyIndex' = historyIndex + 1
    /\ line' = IF historyIndex + 1 = Len(commands) THEN NoLine ELSE AtPosition(historyIndex)
    /\ UNCHANGED <<commands, handler, handled>>

\* m_current_cmd, shown below the newest command, is always empty.
KeyDown ==
    /\ historyIndex < Len(commands)
    /\ historyIndex' = historyIndex + 1
    /\ line' = IF historyIndex + 1 = Len(commands) THEN NoLine ELSE AtPosition(historyIndex + 1)
    /\ UNCHANGED <<commands, handler, handled>>

InputNext == RegisterHandler \/ (\E c \in Lines : Dispatch(c)) \/ KeyUp \/ KeyDown

InputSpec == InputInit /\ [][InputNext]_inputVars

-----------------------------------------------------------------------------
(* Properties *)

\* The position never leaves the history, which at_position indexes unchecked, although
\* dispatch and the keys change the one without the other; and what the line recalls, if
\* anything, is the command at the position.
RecallInRange ==
    /\ historyIndex <= Len(commands)
    /\ line # NoLine => historyIndex < Len(commands) /\ line = AtPosition(historyIndex)

=============================================================================
