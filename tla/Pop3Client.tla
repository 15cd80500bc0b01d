----------------------------- MODULE Pop3Client ----------------------------
(***************************************************************************)
(* One POP3 connection as a stream of bytes: the two buffers, the interest *)
(* registered in the selector, the reply being written, the mail being     *)
(* streamed by RETR, and the pipelined commands waiting in the input       *)
(* buffer (server/src/states/states-common.c, greeting.c, update.c, and    *)
(* the handlers of authorization.c and transaction.c as far as they touch  *)
(* these).  What the commands do to accounts and mails is in Pop3Server.   *)
(*                                                                         *)
(* Input bytes are "part", inside a command line, or the name of the       *)
(* command whose line they end.  Output bytes are <<k, part, i>>: byte i   *)
(* of a part of the k-th reply.  Mail bytes are "b", or "ff" for 0xFF,     *)
(* which fgetc's result, kept in a char, cannot tell from EOF.             *)
(***************************************************************************)
EXTENDS ByteQueue, SequencesExt

CONSTANTS
    InSize, OutSize,     \* BUFFSIZE of each buffer
    Commands,            \* command names the client may send
    MaxCommands,         \* bound on the commands sent in one behaviour
    ShortReply,          \* length of a one-line reply
    LongReply,           \* length of a listing, which may exceed OutSize
    Files                \* contents of the mails RETR may be asked for

ASSUME SizesAssumption ==
    /\ InSize \in Nat \ {0} /\ OutSize \in Nat \ {0} /\ MaxCommands \in Nat
    /\ ShortReply \in 1..OutSize /\ LongReply \in Nat \ {0}
ASSUME CommandsAssumption == "part" \notin Commands
ASSUME FilesAssumption == Files \subseteq Seq({"b", "ff"})

\* No mail has a byte that fgetc's result cannot tell from EOF.
PlainFiles == Files \subseteq Seq({"b"})

VARIABLES
    phase,       \* state_machine.current
    interest,    \* what the selector watches the socket for
    in, out,     \* buffer_in, buffer_out
    response,    \* response
    index,       \* response_index
    streaming,   \* writing_from_file
    file,        \* what is left to read of message_file
    eof,         \* feof(message_file)
    \* the other end, and what was observed
    net,         \* bytes sent by the client and not yet received
    asked,       \* commands the client has sent
    peer,        \* "open", "closed" (sends no more) or "reset"
    done,        \* commands handled
    owed,        \* every byte of the replies to them, in order
    sent,        \* bytes handed to send()
    ending       \* how the connection ended

serverVars == <<phase, interest, in, out, response, index, streaming, file, eof>>
clientVars == <<net, asked, peer>>
historyVars == <<done, owed, sent, ending>>
vars == <<serverVars, clientVars, historyVars>>

Part(k, name, n) == [i \in 1..n |-> <<k, name, i>>]
Greeting == Part(0, "line", ShortReply)
DotCRLF(k) == Part(k, "dot", 1)
IsCommand(b) == b \in Commands

\* The commands whose lines end in s, in order.
CommandsIn(s) ==
    LET upTo[i \in 0..Len(s)] ==
            IF i = 0 THEN <<>>
            ELSE IF IsCommand(s[i]) THEN Append(upTo[i - 1], s[i])
            ELSE upTo[i - 1]
    IN  upTo[Len(s)]

TypeOK ==
    /\ phase \in {"GREETING", "AUTHORIZATION", "TRANSACTION", "UPDATE", "CLOSED"}
    /\ interest \in {"READ", "WRITE"}
    /\ in.room \in 0..InSize /\ Len(in.bytes) + in.room <= InSize
    /\ out.room \in 0..OutSize /\ Len(out.bytes) + out.room <= OutSize
    /\ index \in Nat /\ streaming \in BOOLEAN /\ eof \in BOOLEAN
    /\ peer \in {"open", "closed", "reset"}
    /\ ending \in {"none", "quit", "auth_quit", "pass_failed", "file_error", "peer", "sent_nothing"}

----------------------------------------------------------------------------
(* Writing into the output buffer *)

\* states_common_response_write: bytes of r after position i, while they fit.
ResponseWrite(b, r, i) ==
    LET last == IF Len(r) - i <= b.room THEN Len(r) ELSE i + b.room
        s == SubSeq(r, i + 1, last)
    IN  out' = Written(b, s) /\ response' = r /\ index' = i + Len(s)

\* Faulty variant: the room left is not looked at.
FileWriteUnbounded(b) ==
    [buffer |-> Written(b, file), rest |-> <<>>, read |-> Len(file), eof |-> TRUE]

\* states_common_file_write stops at the end of the room, at the end of the
\* file, or after swallowing a 0xFF byte.
FileWrite(b) ==
    LET stops == {i \in DOMAIN file : file[i][2] = "ff"}
        plain == IF stops = {} THEN Len(file) ELSE Min(stops) - 1
        n == IF plain < b.room THEN plain ELSE b.room
    IN [buffer |-> Written(b, SubSeq(file, 1, n)),
        rest   |-> SubSeq(file, IF n < b.room THEN n + 2 ELSE n + 1, Len(file)),
        read   |-> n,
        eof    |-> n < b.room /\ n = Len(file)]

MailBytes(k, f) == [i \in DOMAIN f |-> <<k, f[i], i>>]

End(why) ==
    /\ phase' = "CLOSED" /\ ending' = why
    /\ UNCHANGED <<interest, out, response, index, streaming, file, eof>>

----------------------------------------------------------------------------
(* The command handlers, given the output buffer b *)

\* One reply r, and the state that follows.
Answer(b, r, next) ==
    /\ ResponseWrite(b, r, 0)
    /\ owed' = owed \o r
    /\ phase' = next
    /\ streaming' = FALSE
    /\ UNCHANGED <<file, eof, ending>>

\* handle_retr with a pipe open on the mail f.
Retrieve(b, k, f) ==
    /\ ResponseWrite(b, Part(k, "line", ShortReply), 0)
    /\ owed' = owed \o Part(k, "line", ShortReply) \o MailBytes(k, f) \o DotCRLF(k)
    /\ streaming' = TRUE /\ file' = MailBytes(k, f) /\ eof' = FALSE
    /\ UNCHANGED <<phase, ending>>

\* The handler is behind the command, the connection closed before a byte of
\* the reply is sent.
LeaveUnanswered(line, why) == owed' = owed \o line /\ End(why)

\* handle_pass returns ERROR when the maildrop cannot be opened or the access
\* log not be written; handle_quit writes its reply and closes.
InAuthorization(cmd, b, line) ==
    /\ phase = "AUTHORIZATION"
    /\ \/ cmd # "QUIT" /\ Answer(b, line, phase)
       \/ cmd = "PASS" /\ Answer(b, line, "TRANSACTION")
       \/ cmd = "PASS" /\ LeaveUnanswered(line, "pass_failed")
       \/ cmd = "QUIT" /\ LeaveUnanswered(line, "auth_quit")

InTransaction(cmd, b, k, line) ==
    /\ phase = "TRANSACTION"
    /\ \/ cmd \notin {"LIST", "QUIT"} /\ Answer(b, line, phase)
       \/ cmd = "LIST" /\ Answer(b, Part(k, "line", LongReply), phase)
       \/ cmd = "RETR" /\ \E f \in Files : Retrieve(b, k, f)
       \/ cmd = "QUIT" /\ Answer(b, line, "UPDATE")

Handle(cmd, b) ==
    LET k == Len(done) + 1
        line == Part(k, "line", ShortReply)
    IN  /\ done' = Append(done, cmd)
        /\ InAuthorization(cmd, b, line) \/ InTransaction(cmd, b, k, line)

\* states_common_buffer_find_command: the bytes up to the first complete
\* command, all of them when there is none.
LastCommandAt(b) == SelectLastInSeq(b.bytes, IsCommand)   \* faulty variant
CommandAt(b) == SelectInSeq(b.bytes, IsCommand)

----------------------------------------------------------------------------
(* The read handler *)

\* Faulty variant: the handler does not ask to be called back for writing.
ReceiveKeepingInterest(n) ==
    LET filled == Written(in, SubSeq(net, 1, n))
        at == CommandAt(filled)
    IN  /\ net' = SubSeq(net, n + 1, Len(net))
        /\ in' = IF at = 0 THEN EmptyBuffer(InSize) ELSE ReadOff(filled, at, InSize)
        /\ IF at = 0
           THEN UNCHANGED <<phase, out, response, index, streaming, file, eof, done, owed, ending>>
           ELSE Handle(filled.bytes[at], out)
        /\ UNCHANGED <<interest, sent>>

\* recv() returned n bytes; at most one command is handled.
Receive(n) ==
    LET filled == Written(in, SubSeq(net, 1, n))
        at == CommandAt(filled)
    IN  /\ net' = SubSeq(net, n + 1, Len(net))
        /\ \/ /\ at = 0
              /\ in' = EmptyBuffer(InSize)
              /\ UNCHANGED <<phase, interest, out, response, index, streaming, file, eof, historyVars>>
           \/ /\ at # 0
              /\ in' = ReadOff(filled, at, InSize)
              /\ Handle(filled.bytes[at], out)
              /\ interest' = IF phase' = "CLOSED" THEN interest ELSE "WRITE"
              /\ UNCHANGED sent

ReadReady ==
    /\ interest = "READ" /\ phase \in {"AUTHORIZATION", "TRANSACTION"}
    /\ \/ /\ peer # "reset"
          /\ \E n \in 1..Len(net) : n <= in.room /\ Receive(n)
          /\ UNCHANGED <<asked, peer>>
       \/ /\ peer = "reset" \/ (peer = "closed" /\ net = <<>>)
          /\ End("peer")
          /\ UNCHANGED <<in, clientVars, done, owed, sent>>

----------------------------------------------------------------------------
(* The write handlers; b is the output buffer after send() *)

\* The reply is not out yet.  The faulty variant looks at the buffer alone.
MoreInBuffer(b) == CanRead(b)
MoreToSend(b) == CanRead(b) \/ (~streaming /\ index < Len(response))
KeepSending(b) ==
    /\ MoreToSend(b)
    /\ ResponseWrite(b, response, index)
    /\ UNCHANGED <<phase, interest, in, streaming, file, eof, done, owed, ending>>

\* greeting_write
GreetingSent(b) ==
    /\ phase = "GREETING" /\ ~MoreToSend(b)
    /\ phase' = "AUTHORIZATION" /\ interest' = "READ" /\ out' = b
    /\ UNCHANGED <<in, response, index, streaming, file, eof, done, owed, ending>>

\* Faulty variant: one send() and the connection is closed.
UpdateSentOnce(b) == phase = "UPDATE" /\ End("quit") /\ UNCHANGED <<in, done, owed>>

\* update_write
UpdateSent(b) ==
    /\ phase = "UPDATE" /\ ~MoreToSend(b)
    /\ End("quit")
    /\ UNCHANGED <<in, done, owed>>

Serving == phase \in {"AUTHORIZATION", "TRANSACTION"}

\* Faulty variant: response_index goes on from the bytes of the mail.
StreamKeepingIndex(b) ==
    LET chunk == FileWrite(b) IN
    /\ Serving /\ ~MoreToSend(b) /\ streaming
    /\ file' = chunk.rest /\ eof' = chunk.eof /\ streaming' = ~chunk.eof
    /\ out' = chunk.buffer /\ index' = index + chunk.read
    /\ response' = IF chunk.eof THEN DotCRLF(Len(done)) ELSE response
    /\ UNCHANGED <<phase, interest, in, done, owed, ending>>

\* states_common_write while a mail is streamed: the dot line is added only
\* behind bytes of the mail that are still in the buffer.
Stream(b) ==
    LET chunk == FileWrite(b) IN
    /\ Serving /\ ~MoreToSend(b) /\ streaming
    /\ file' = chunk.rest /\ eof' = chunk.eof /\ streaming' = ~chunk.eof
    /\ IF chunk.eof /\ CanRead(chunk.buffer)
       THEN ResponseWrite(chunk.buffer, DotCRLF(Len(done)), 0)
       ELSE out' = chunk.buffer /\ index' = index + chunk.read /\ UNCHANGED response
    /\ UNCHANGED <<phase, interest, in, done, owed, ending>>

\* states_common_write, ferror(message_file): ERROR, whatever part of the
\* mail had been read.
MailUnreadable(b) ==
    /\ Serving /\ ~MoreToSend(b) /\ streaming
    /\ End("file_error")
    /\ UNCHANGED <<in, done, owed>>

\* Faulty variants: back to reading whatever is still in the input buffer,
\* and waiting for room to write when there is nothing to write.
NextRead(b) ==
    /\ Serving /\ ~MoreToSend(b) /\ ~streaming
    /\ interest' = "READ" /\ out' = b
    /\ UNCHANGED <<phase, in, response, index, streaming, file, eof, done, owed, ending>>

NextCommandStillWriting(b) ==
    /\ Serving /\ ~MoreToSend(b) /\ ~streaming
    /\ IF CommandAt(in) = 0
       THEN /\ in' = EmptyBuffer(InSize) /\ out' = b
            /\ UNCHANGED <<phase, response, index, streaming, file, eof, done, owed, ending>>
       ELSE in' = ReadOff(in, CommandAt(in), InSize) /\ Handle(in.bytes[CommandAt(in)], b)
    /\ UNCHANGED interest

\* states_common_write with the reply out: the next pipelined command, or
\* back to reading.
NextCommand(b) ==
    LET at == CommandAt(in) IN
    /\ Serving /\ ~MoreToSend(b) /\ ~streaming
    /\ \/ /\ at = 0
          /\ in' = EmptyBuffer(InSize) /\ interest' = "READ" /\ out' = b
          /\ UNCHANGED <<phase, response, index, streaming, file, eof, done, owed, ending>>
       \/ /\ at # 0
          /\ in' = ReadOff(in, at, InSize)
          /\ Handle(in.bytes[at], b)
          /\ UNCHANGED interest

\* send() takes all bytes: the sockets are blocking.  It takes fewer only
\* when the connection dies under it.
Send(n) ==
    /\ peer # "reset" /\ n \in 1..Len(out.bytes)
    /\ sent' = sent \o SubSeq(out.bytes, 1, n)
    /\ peer' = IF n = Len(out.bytes) THEN peer ELSE "reset"
    /\ LET b == ReadOff(out, n, OutSize) IN
          \/ KeepSending(b) \/ GreetingSent(b) \/ UpdateSent(b)
          \/ Stream(b) \/ MailUnreadable(b) \/ NextCommand(b)
    /\ UNCHANGED <<net, asked>>

SendFails(why) ==
    /\ why = IF peer = "reset" THEN "peer" ELSE "sent_nothing"
    /\ peer = "reset" \/ ~CanRead(out)
    /\ End(why)
    /\ UNCHANGED <<in, clientVars, done, owed, sent>>

WriteReady ==
    /\ interest = "WRITE" /\ phase # "CLOSED"
    /\ \/ \E n \in 1..OutSize : Send(n)
       \/ \E why \in {"peer", "sent_nothing"} : SendFails(why)

----------------------------------------------------------------------------
(* External: the client and the network *)

ClientSends(cmd) ==
    /\ peer = "open" /\ phase # "CLOSED" /\ Len(asked) < MaxCommands
    /\ net' = net \o <<"part", cmd>>
    /\ asked' = Append(asked, cmd)
    /\ UNCHANGED <<serverVars, peer, historyVars>>

ClientCloses ==
    /\ peer = "open" /\ phase # "CLOSED"
    /\ peer' \in {"closed", "reset"}
    /\ UNCHANGED <<serverVars, net, asked, historyVars>>

\* pop3_server_accept and greeting_on_arrival.
Init ==
    /\ phase = "GREETING" /\ interest = "WRITE"
    /\ in = EmptyBuffer(InSize) /\ out = Written(EmptyBuffer(OutSize), Greeting)
    /\ response = Greeting /\ index = ShortReply
    /\ streaming = FALSE /\ file = <<>> /\ eof = FALSE
    /\ net = <<>> /\ asked = <<>> /\ peer = "open"
    /\ done = <<>> /\ owed = Greeting /\ sent = <<>> /\ ending = "none"

Next == ReadReady \/ WriteReady \/ ClientCloses \/ \E cmd \in Commands : ClientSends(cmd)

\* The selector calls the handler of every ready descriptor in each round.
Spec == Init /\ [][Next]_vars /\ WF_vars(ReadReady) /\ WF_vars(WriteReady)

----------------------------------------------------------------------------
(* Properties *)

\* The bytes sent are those of the replies owed, in the order of the
\* commands, none lost, repeated or mixed.
RepliesInOrder == IsPrefix(sent, owed)

\* The server goes back to reading only when every command it has taken in
\* is answered to the last byte, and then it has all of its room to read.
IdleMeansAnswered ==
    interest = "READ" /\ phase # "CLOSED" =>
        sent = owed /\ ~CanRead(out) /\ in = EmptyBuffer(InSize)

\* No command is lost, repeated or reordered between the socket, the input
\* buffer and the handlers, however the bytes are cut into segments.
NoCommandLost == done \o CommandsIn(in.bytes) \o CommandsIn(net) = asked

\* A watched output buffer has something to send: send() of no bytes
\* returns 0, which the handlers take for an error.
NoSelfInflictedDrop == ending # "sent_nothing"

\* Where the server ends a connection of its own accord all it leaves unsent
\* is the end of the last thing it owes: the line behind a mail that just
\* filled the buffer, the rest of a mail that cannot be read, or the reply
\* to a PASS that failed or to a QUIT before login.
UnsentAtDrop ==
    LET k == Len(done) IN
    /\ ending = "sent_nothing" => Last(done) = "RETR" /\ owed = sent \o DotCRLF(k)
    /\ ending = "file_error" => Last(done) = "RETR" /\ owed = sent \o file \o DotCRLF(k)
    /\ ending = "pass_failed" => Last(done) = "PASS" /\ owed = sent \o Part(k, "line", ShortReply)
    /\ ending = "auth_quit" => Last(done) = "QUIT" /\ owed = sent \o Part(k, "line", ShortReply)

\* A session that quits has got every byte it was owed.
QuitAnswered == ending = "quit" => sent = owed

\* A partial send() is followed by response_write: it starts inside the reply.
ReplyNotOverread == CanRead(out) /\ CanWrite(out) => index <= Len(response)

\* Every command is handled and answered, or the connection ends, as long as
\* the peer reads: send() on a blocking socket ends here in one step.
EveryCommandAnswered ==
    \A n \in 1..MaxCommands :
        Len(asked) >= n ~> (Len(done) >= n /\ sent = owed) \/ phase = "CLOSED"
=============================================================================
