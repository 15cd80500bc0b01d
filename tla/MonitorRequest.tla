--------------------------- MODULE MonitorRequest --------------------------
(***************************************************************************)
(* A request of the monitor protocol, from the bytes received to the       *)
(* answer (server/src/monitor-parser.c, monitor-server.c and the handlers  *)
(* of monitor-commands.c as far as they decide the answer; what the        *)
(* commands do to the server is in Pop3Server).                            *)
(*                                                                         *)
(* A byte string is a sequence of words, "CR" and "LF": where words are    *)
(* cut, and how many blanks are between them, makes no difference.         *)
(***************************************************************************)
EXTENDS Naturals, Sequences, FiniteSetsExt

CONSTANTS
    Token,        \* AUTHORIZATION_TOKEN
    MaxRequest,   \* MAX_REQUEST_LENGTH
    BodyLength,   \* length of an answer with a body
    OutSize       \* BUFFSIZE of buffer_out

ASSUME RequestSizes == {MaxRequest, BodyLength, OutSize} \subseteq Nat \ {0}

MaxWords == 4

\* A CR LF ends the request at position i of s.
EndsAt(s, i) == i > 1 /\ s[i - 1] = "CR" /\ s[i] = "LF"
Ends(s) == {i \in DOMAIN s : EndsAt(s, i)}

\* Faulty variant: only what the last recv() brought is looked at.
RequestEndInChunk(request, chunk) ==
    LET ends == Ends(chunk) IN IF ends = {} THEN 0 ELSE Len(request) + Min(ends)

\* monitor_client_read: where the request ends, 0 if it does not yet.  A CR
\* received before may be ended by an LF received now.
RequestEnd(request, chunk) ==
    LET ends == Ends(request \o chunk) IN IF ends = {} THEN 0 ELSE Min(ends)

\* The commands by the number of their arguments.
Setters == {"MAXUSERS", "MAXCONNS"}
PairSetters == {"ADDUSER", "UPDATEPASS", "UPDATENAME"}
Listings == {"LISTUSERS", "METRICS", "LOGS"}

\* What a handler may answer: ERR on the wrong arguments, when the account
\* is not as it should be, and when memory, or for LOGS entries, are missing.
\* DELUSER does not look at a second argument.
HandlerAnswers(command, args) ==
    CASE command = "DELUSER" /\ args # <<>> -> {"OK", "ERR"}
      [] command \in Setters /\ Len(args) = 1 -> {"OK", "ERR"}
      [] command \in PairSetters /\ Len(args) = 2 -> {"OK", "ERR"}
      [] command \in Listings /\ args = <<>> -> {"BODY", "ERR"}
      [] OTHER -> {"ERR"}

\* parse_client_request.  With the token alone the command is whatever the
\* stack holds: a pointer to nothing, or to a command used before, called
\* without arguments.
RequestOutcomes(words) ==
    LET outcome(a, p) == [answer |-> a, performed |-> p] IN
    CASE Len(words) \notin 1..MaxWords -> {outcome("none", <<>>)}
      [] Len(words) \in 1..MaxWords /\ words[1] # Token -> {outcome("ERR", <<>>)}
      [] Len(words) = 1 /\ words[1] = Token ->
            {outcome(a, <<>>) : a \in {"ERR", "crash"}} \cup
            {outcome("BODY", <<<<c>>>>) : c \in Listings}
      [] OTHER -> {outcome(a, <<Tail(words)>>) :
                     a \in HandlerAnswers(words[2], SubSeq(words, 3, Len(words)))}

AnswerLength(answer) ==
    CASE answer = "BODY" -> BodyLength
      [] answer \in {"OK", "ERR"} -> 1
      [] OTHER -> 0

\* Faulty variant: the end of the answer is not looked for.
FilledPastEnd(answer, index) == IF AnswerLength(answer) = 0 THEN 0 ELSE OutSize

\* write_response_in_buffer and the loop of monitor_client_write: how much
\* of the answer behind index goes into an empty output buffer.
Filled(answer, index) == Min({OutSize, AnswerLength(answer) - index})

----------------------------------------------------------------------------
\* The line a peer's bytes begin with; the whole of them if no line ends.
FirstLine(s) == IF Ends(s) = {} THEN s ELSE SubSeq(s, 1, Min(Ends(s)) - 2)

\* The requests the server leaves without an answer: no words, too many
\* words, too long.
Unanswerable(s) ==
    \/ Len(FirstLine(s)) \notin 1..MaxWords
    \/ Ends(s) # {} /\ Min(Ends(s)) > MaxRequest
    \/ Ends(s) = {} /\ Len(s) > MaxRequest
============================================================================
