----------------------------- MODULE Pop3Parser ----------------------------
(***************************************************************************)
(* The command parser of one POP3 connection: the table of transitions and *)
(* its actions (server/src/parser.c, pop3-parser.c), with the counters and *)
(* the line of struct parser_event at their real size (include/parser.h).  *)
(*                                                                         *)
(* One variable, p, is the parserCDT; pointers into event.line are         *)
(* offsets, and cmd, which is always its beginning, is left out.  A write  *)
(* outside the line or past the end of args is undefined: it sets wild,    *)
(* after which nothing is said.                                            *)
(***************************************************************************)
EXTENDS Integers, Sequences

CONSTANT Lines   \* command lines the client may send, in lower case, with CR LF

MAX_COMMAND_LEN == 4
MAX_ARG_LEN == 255 - MAX_COMMAND_LEN
MAX_ARG_COUNT == 2
LineSize == MAX_COMMAND_LEN + 1 + MAX_ARG_LEN + MAX_ARG_COUNT
U8(n) == n % 256

VARIABLES
    p,       \* the parser and its event
    line,    \* the line being sent
    sent     \* how much of it has been consumed

vars == <<p, line, sent>>

\* parser_init: calloc, args not yet pointing anywhere and not used before
\* they do.
NewParser ==
    [state |-> "START", line |-> [i \in 0..(LineSize - 1) |-> "NUL"], line_len |-> 0,
     cmd_len |-> 0, args |-> [i \in 0..1 |-> 0], args_len |-> [i \in 0..1 |-> 0],
     argc |-> 0, has_errors |-> FALSE, done |-> FALSE, wild |-> FALSE]

\* line[at] = c
Put(q, at, c) ==
    IF at < LineSize THEN [q EXCEPT !.line[at] = c] ELSE [q EXCEPT !.wild = TRUE]

----------------------------------------------------------------------------
(* The actions of the table *)

append_to_command(q, c) ==
    IF q.cmd_len = MAX_COMMAND_LEN THEN [q EXCEPT !.has_errors = TRUE]
    ELSE [Put(q, q.cmd_len, c) EXCEPT !.cmd_len = @ + 1, !.line_len = U8(@ + 1)]

append_to_arg(q, c) ==
    IF q.args_len[q.argc] = MAX_ARG_LEN THEN [q EXCEPT !.has_errors = TRUE]
    ELSE [Put(q, q.args[q.argc] + q.args_len[q.argc], c) EXCEPT
             !.args_len[q.argc] = @ + 1, !.line_len = U8(@ + 1)]

\* The end of the command word; the first argument begins behind it.
goto_first_arg(q) ==
    [Put(q, q.line_len, "NUL") EXCEPT !.line_len = U8(@ + 1), !.args[q.argc] = U8(q.line_len + 1)]

\* The end of an argument.  The second one's successor is stored past the
\* end of args.
increment_argc(q) ==
    IF q.argc = MAX_ARG_COUNT THEN [q EXCEPT !.has_errors = TRUE]
    ELSE IF q.argc = MAX_ARG_COUNT - 1 THEN [q EXCEPT !.wild = TRUE]
    ELSE [Put(q, q.line_len, "NUL") EXCEPT
             !.line_len = U8(@ + 1), !.argc = @ + 1, !.args[q.argc + 1] = U8(q.line_len + 1)]

\* The terminators of the command and of a first argument.
in_newline(q) ==
    LET command == Put(q, q.cmd_len, "NUL") IN
    [IF q.argc = 0 THEN command ELSE Put(command, q.args[0] + q.args_len[0], "NUL")
        EXCEPT !.done = TRUE]

\* pop3_parser_reset_event blanks what the arguments and the command took
\* and resets every field but line_len.
pop3_parser_reset_event(q) ==
    LET taken == 0..(q.cmd_len - 1)
                 \cup UNION {q.args[i]..(q.args[i] + q.args_len[i] - 1) : i \in {j \in 0..1 : q.args_len[j] > 0}}
    IN  [q EXCEPT !.line = [i \in DOMAIN @ |-> IF i \in taken THEN "NUL" ELSE @[i]],
                  !.args = [i \in 0..1 |-> 0], !.args_len = [i \in 0..1 |-> 0], !.argc = 0,
                  !.cmd_len = 0, !.done = FALSE, !.has_errors = FALSE]

\* parser_consume: the first transition of the state that matches c.
parser_consume(q, c) ==
    CASE q.state = "START" -> [append_to_command(q, c) EXCEPT !.state = "COMMAND"]
      [] q.state = "COMMAND" /\ c = " " -> [goto_first_arg(q) EXCEPT !.state = "ARGS"]
      [] q.state = "COMMAND" /\ c = "CR" -> [q EXCEPT !.state = "IN_CR"]
      [] q.state = "COMMAND" /\ c \notin {" ", "CR"} -> append_to_command(q, c)
      [] q.state = "ARGS" /\ c = " " -> increment_argc(q)
      [] q.state = "ARGS" /\ c = "CR" -> [increment_argc(q) EXCEPT !.state = "IN_CR"]
      [] q.state = "ARGS" /\ c \notin {" ", "CR"} -> append_to_arg(q, c)
      [] q.state = "IN_CR" /\ c = "LF" -> [in_newline(q) EXCEPT !.state = "IN_NEWLINE"]
      [] OTHER -> [pop3_parser_reset_event(q) EXCEPT !.state = "START"]

----------------------------------------------------------------------------
Init == p = NewParser /\ line \in Lines /\ sent = 0

\* states_common_buffer_find_command, one byte.
Consume ==
    /\ sent < Len(line) /\ ~p.wild
    /\ p' = parser_consume(p, line[sent + 1])
    /\ sent' = sent + 1
    /\ UNCHANGED line

\* The end of states_common_read and states_common_write, the command
\* handled: parser_reset and pop3_parser_reset_event.
Reset ==
    /\ sent = Len(line) /\ p.done /\ ~p.wild
    /\ p' = [pop3_parser_reset_event(p) EXCEPT !.state = "START"]
    /\ line' \in Lines /\ sent' = 0

Next == Consume \/ Reset

Spec == Init /\ [][Next]_vars

----------------------------------------------------------------------------
(* Properties *)

\* What the handler is given: the command and its first argument.
Read(at, n) == [i \in 1..n |-> p.line[at + i - 1]]
EventCommand == Read(0, p.cmd_len)
EventArgument == Read(p.args[0], p.args_len[0])

\* What the line says, by position of the blank and of the CR.
Blanks(l) == {i \in DOMAIN l : l[i] = " "}
CommandWord(l) == SubSeq(l, 1, IF Blanks(l) = {} THEN Len(l) - 2 ELSE (CHOOSE i \in Blanks(l) : TRUE) - 1)
Argument(l) == IF Blanks(l) = {} THEN <<>> ELSE SubSeq(l, (CHOOSE i \in Blanks(l) : TRUE) + 1, Len(l) - 2)

\* parser.h:20, "space for command and arguments and 0's"; test-parser.c:57
\* asserts it of the first line of a connection.  Every line of a session
\* gives its handler the command and the argument it has, whatever lines
\* came before it.
CommandReadAsSent ==
    p.done /\ sent = Len(line) =>
        /\ ~p.wild
        /\ EventCommand = CommandWord(line)
        /\ EventArgument = Argument(line)
============================================================================
