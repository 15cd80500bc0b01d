----------------------------- MODULE EventLoop -----------------------------
(***************************************************************************)
(* The loop of server.c over the selector: the two listening sockets, the  *)
(* POP3 and monitor connections that come and go, and the descriptors of   *)
(* the process they share.  A POP3 connection is here what it does to its  *)
(* descriptors (Pop3Client and Pop3Server say what it serves); a monitor   *)
(* connection is whole: one request in any segmentation, one answer.       *)
(*                                                                         *)
(* A step is one call of a handler, one select() or one event outside.     *)
(***************************************************************************)
EXTENDS Selector, MonitorRequest

CONSTANTS
    LastFile,    \* the highest descriptor the process may have
    MaxConns,    \* monitor_get_max_conns()
    MaxMonitors, \* bound on the monitor clients that come at a time
    Scripts      \* what monitor clients may send

ASSUME FilesAssumption == LastFile \in Nat /\ LastFile > 1 /\ FdSetSize > 2
ASSUME MaxConnsAssumption == MaxConns \in Nat /\ MaxMonitors \in Nat
ASSUME ScriptsAssumption == \A s \in Scripts : s \in Seq({s[i] : i \in DOMAIN s})

VARIABLES
    process,          \* "up", "ended", "failed" (select), "crashed"
    sel,              \* the selector
    slaveR, slaveW,   \* what select() has reported
    cursor,           \* next place of handle_iteration, or Idle between rounds
    top,              \* max_fd at the start of the round
    files,            \* what each descriptor of the process is open on
    client,           \* the client_data of each descriptor
    backlog,          \* listening sockets with a connection to accept
    slow              \* the connection whose peer takes no more bytes, or Nobody

loopVars == <<process, slaveR, slaveW, cursor, top>>
vars == <<loopVars, sel, files, client, backlog, slow>>

\* Standard input is closed, so the listening sockets have the lowest
\* descriptors there are (those of standard output and error left out).
Pop3Socket == 0
MonitorSocket == 1
Listeners == {Pop3Socket, MonitorSocket}

\* One peer at a time is slow: the server waits in one send().
Nobody == -1

\* No client_data.
NoClient == [kind |-> "none"]

AllFiles == 0..LastFile
FreeFiles == {f \in AllFiles : files[f] = "free"}
Clients == {fd \in Fds : client[fd].kind # "none"}
ClientsOf(kind) == {fd \in Clients : client[fd].kind = kind}

\* The places of a round: descriptor i for reading, then for writing.
Place(fd, side) == IF side = "read" THEN 2 * fd ELSE 2 * fd + 1
Idle == 2 * FdSetSize + 1
Places(fd) == {Place(fd, "read"), Place(fd, "write")}

NewPop3 == [kind |-> "pop3", event |-> FALSE, doing |-> "greeting", pipe |-> -1]
NewMonitor(script) ==
    [kind |-> "monitor", event |-> FALSE, peer |-> "open", script |-> script, wire |-> script,
     request |-> <<>>, answer |-> "none", index |-> 0, out |-> 0, performed |-> <<>>]

TypeOK ==
    /\ process \in {"up", "ended", "failed", "crashed"}
    /\ sel \in SelectorType
    /\ slaveR \subseteq Fds /\ slaveW \subseteq Fds
    /\ cursor \in 0..Idle /\ top \in Fds
    /\ files \in [AllFiles -> {"free", "listener", "pop3", "monitor", "pipe", "dir"}]
    /\ DOMAIN client = Fds
    /\ \A fd \in ClientsOf("pop3") :
          client[fd].doing \in {"greeting", "reading", "replying", "mail"}
    /\ \A fd \in ClientsOf("monitor") :
          client[fd].out <= client[fd].index /\ client[fd].index <= AnswerLength(client[fd].answer)
    /\ backlog \subseteq Listeners
    /\ slow \in Fds \cup {Nobody}

Init ==
    /\ process = "up"
    /\ sel = Register(Register(NewSelector, Pop3Socket, "accept_pop3", {"READ"}),
                      MonitorSocket, "accept_monitor", {"READ"})
    /\ slaveR = {} /\ slaveW = {} /\ cursor = Idle /\ top = 0
    /\ files = [f \in AllFiles |-> IF f \in Listeners THEN "listener" ELSE "free"]
    /\ client = [fd \in Fds |-> NoClient]
    /\ backlog = {}
    /\ slow = Nobody

----------------------------------------------------------------------------
(* Opening and closing *)

\* Faulty variant: a connection that is refused stays open.
TakeInLeavingOpen(kind, interest, fresh) ==
    LET fd == Min(FreeFiles) IN
    /\ files' = [files EXCEPT ![fd] = kind]
    /\ IF CanRegister(sel, fd)
       THEN sel' = Register(sel, fd, kind, interest) /\ client' = [client EXCEPT ![fd] = fresh]
       ELSE UNCHANGED <<sel, client>>

\* The end of pop3_server_accept and of monitor_server_accept: accept() has
\* given the lowest free descriptor; one the selector has no place for is
\* closed at once.
TakeIn(kind, interest, fresh) ==
    LET fd == Min(FreeFiles) IN
    IF CanRegister(sel, fd)
    THEN /\ sel' = Register(sel, fd, kind, interest)
         /\ files' = [files EXCEPT ![fd] = kind]
         /\ client' = [client EXCEPT ![fd] = fresh]
    ELSE UNCHANGED <<sel, files, client>>

\* pop3_server_accept
AcceptPop3 ==
    /\ backlog' = backlog \ {Pop3Socket}
    /\ IF Cardinality(ClientsOf("pop3")) < MaxConns /\ FreeFiles # {}
       THEN TakeIn("pop3", {"WRITE"}, NewPop3)
       ELSE UNCHANGED <<sel, files, client>>
    /\ UNCHANGED process

\* monitor_server_accept
AcceptMonitor ==
    /\ backlog' = backlog \ {MonitorSocket}
    /\ IF FreeFiles # {}
       THEN \E script \in Scripts : TakeIn("monitor", {"READ"}, NewMonitor(script))
       ELSE UNCHANGED <<sel, files, client>>
    /\ UNCHANGED process

\* close() and free() of close_connection and monitor_client_close_connection.
\* The pipe of a mail being sent is not closed.
Release(fd) ==
    /\ files' = [files EXCEPT ![fd] = "free"]
    /\ client' = [client EXCEPT ![fd] = NoClient]
    /\ UNCHANGED <<process, backlog>>

\* close_connection called on ERROR, and monitor_client_close_connection: the
\* close handler it runs into finds the connection closed already.
Close(fd) == sel' = Unregister(sel, fd) /\ Release(fd)

\* The jump to CLOSE_CONNECTION unregisters the descriptor, whose close
\* handler is close_connection, which unregisters it again.
CloseByJump(fd) == sel' = UnregisterNested(sel, fd) /\ Release(fd)

----------------------------------------------------------------------------
(* POP3 connections *)

Doing(fd, what, interest) ==
    /\ client' = [client EXCEPT ![fd].event = FALSE, ![fd].doing = what, ![fd].pipe = -1]
    /\ sel' = SetInterest(sel, fd, interest)
    /\ UNCHANGED <<process, files, backlog>>

\* handle_retr: popen() takes a descriptor of its own.
SendMail(fd) ==
    /\ FreeFiles # {}
    /\ client' = [client EXCEPT ![fd].event = FALSE, ![fd].doing = "mail", ![fd].pipe = Min(FreeFiles)]
    /\ files' = [files EXCEPT ![Min(FreeFiles)] = "pipe"]
    /\ sel' = SetInterest(sel, fd, {"WRITE"})
    /\ UNCHANGED <<process, backlog>>

\* PASS, when a file leaves the maildrop between its listing and the stat()
\* of it, or the arrays cannot be had: message_manager_create goes without
\* closing the directory, and the connection is closed.
PassFails(fd) ==
    /\ FreeFiles # {}
    /\ sel' = Unregister(sel, fd)
    /\ files' = [files EXCEPT ![Min(FreeFiles)] = "dir", ![fd] = "free"]
    /\ client' = [client EXCEPT ![fd] = NoClient]
    /\ UNCHANGED <<process, backlog>>

\* pop3_client_read: half a command, a command, the end of the connection.
Pop3Read(fd) ==
    \/ Doing(fd, "reading", {"READ"})
    \/ Doing(fd, "replying", {"WRITE"})
    \/ SendMail(fd)
    \/ PassFails(fd)
    \/ Close(fd)
    \/ CloseByJump(fd)

\* pop3_client_write: more to send, all sent, a pipelined command, the end.
Pop3Write(fd) ==
    \/ client[fd].doing # "mail" /\ Doing(fd, client[fd].doing, {"WRITE"})
    \/ client[fd].doing # "mail" /\ Doing(fd, "reading", {"READ"})
    \/ client[fd].doing # "mail" /\ Doing(fd, "replying", {"WRITE"})
    \/ client[fd].doing = "replying" /\ (SendMail(fd) \/ PassFails(fd))
    \/ client[fd].doing = "replying" /\ CloseByJump(fd)
    \/ Close(fd)

\* states_common_write while a mail is sent; at its end the pipe is closed.
Pop3WriteMail(fd) ==
    /\ client[fd].doing = "mail"
    /\ \/ client' = [client EXCEPT ![fd].event = FALSE] /\ UNCHANGED files
       \/ /\ client' = [client EXCEPT ![fd].event = FALSE, ![fd].doing = "replying", ![fd].pipe = -1]
          /\ files' = [files EXCEPT ![client[fd].pipe] = "free"]
    /\ UNCHANGED <<process, sel, backlog>>

----------------------------------------------------------------------------
(* Monitor connections *)

\* monitor_client_read with the first n of the bytes that wait.
MonitorReceive(fd, n) ==
    LET c == client[fd]
        chunk == SubSeq(c.wire, 1, n)
        rest == SubSeq(c.wire, n + 1, Len(c.wire))
        end == RequestEnd(c.request, chunk)
        length == IF end = 0 THEN Len(c.request) + n ELSE end
    IN
    \/ length > MaxRequest /\ Close(fd)
    \/ /\ length <= MaxRequest /\ end = 0
       /\ client' = [client EXCEPT ![fd].event = FALSE, ![fd].wire = rest, ![fd].request = @ \o chunk]
       /\ UNCHANGED <<process, sel, files, backlog>>
    \/ /\ length <= MaxRequest /\ end # 0
       /\ \E o \in RequestOutcomes(SubSeq(c.request \o chunk, 1, end - 2)) :
             /\ process' = IF o.answer = "crash" THEN "crashed" ELSE process
             /\ client' = [client EXCEPT
                    ![fd].event = FALSE, ![fd].wire = rest, ![fd].request = @ \o chunk,
                    ![fd].answer = o.answer, ![fd].performed = @ \o o.performed,
                    ![fd].out = Filled(o.answer, 0), ![fd].index = Filled(o.answer, 0)]
       /\ sel' = SetInterest(sel, fd, {"WRITE"})
       /\ UNCHANGED <<files, backlog>>

MonitorRead(fd) ==
    \/ \E n \in 1..Len(client[fd].wire) : MonitorReceive(fd, n)
    \/ client[fd].peer = "gone" /\ Close(fd)

\* Faulty variant: one send() and the connection is closed.
MonitorWriteOnce(fd) == Close(fd)

\* monitor_client_write: everything in the buffer is sent, unless there is
\* nothing, and the connection closed behind the last of the answer.
MonitorWrite(fd) ==
    LET c == client[fd] IN
    \/ (c.peer = "gone" \/ c.out = 0 \/ c.index = AnswerLength(c.answer)) /\ Close(fd)
    \/ /\ c.out > 0 /\ c.index < AnswerLength(c.answer)
       /\ client' = [client EXCEPT ![fd].event = FALSE, ![fd].out = Filled(c.answer, c.index),
                                   ![fd].index = @ + Filled(c.answer, c.index)]
       /\ UNCHANGED <<process, sel, files, backlog>>

----------------------------------------------------------------------------
(* The loop *)

HasEvent(fd) == fd \in backlog \/ (fd \in Clients /\ client[fd].event)

\* Faulty variant: a round is made although a signal has interrupted
\* pselect(), which then leaves the sets as they were passed to it.
SelectInterrupted ==
    /\ process = "up" /\ cursor = Idle
    /\ slaveR' = sel.read /\ slaveW' = sel.write
    /\ cursor' = 0 /\ top' = sel.maxFd
    /\ UNCHANGED <<process, sel, files, client, backlog, slow>>

\* selector_select up to the call of handle_iteration.  A watched descriptor
\* that is not open makes it fail, and main ends.  A round with nothing to
\* report changes nothing.
Select ==
    /\ process = "up" /\ cursor = Idle
    /\ slaveR' = {fd \in sel.read : HasEvent(fd)}
    /\ slaveW' = {fd \in sel.write : HasEvent(fd)}
    /\ process' = IF sel.read \cup sel.write \subseteq AllFiles \ FreeFiles THEN "up" ELSE "failed"
    /\ slaveR' \cup slaveW' # {} \/ process' = "failed"
    /\ cursor' = 0 /\ top' = sel.maxFd
    /\ UNCHANGED <<sel, files, client, backlog, slow>>

\* The calls this round has still to make.
Called ==
    {p \in cursor..(2 * top + 1) : \E fd \in Fds :
        \/ p = Place(fd, "read") /\ fd \in slaveR /\ "READ" \in sel.item[fd].interest
        \/ p = Place(fd, "write") /\ fd \in slaveW /\ "WRITE" \in sel.item[fd].interest}

\* handle_iteration goes up through the table.
NextCall == Min(Called)

Handle(fd, side) ==
    CASE sel.item[fd].handler = "accept_pop3" -> AcceptPop3
      [] sel.item[fd].handler = "accept_monitor" -> AcceptMonitor
      [] sel.item[fd].handler = "pop3" /\ side = "read" -> Pop3Read(fd)
      [] sel.item[fd].handler = "pop3" /\ side = "write" -> Pop3Write(fd) \/ Pop3WriteMail(fd)
      [] sel.item[fd].handler = "monitor" /\ side = "read" -> MonitorRead(fd)
      [] sel.item[fd].handler = "monitor" /\ side = "write" -> MonitorWrite(fd)

\* Every write handler calls send() on a blocking socket: towards a peer
\* that takes no more, it does not return, and nothing else is done.
CallHandler ==
    /\ process = "up" /\ cursor # Idle /\ Called # {}
    /\ \E fd \in Fds, side \in {"read", "write"} :
          /\ NextCall = Place(fd, side)
          /\ ~(side = "write" /\ fd = slow)
          /\ Handle(fd, side)
    /\ cursor' = NextCall + 1
    /\ UNCHANGED <<slaveR, slaveW, top, slow>>

EndRound ==
    /\ process = "up" /\ cursor # Idle /\ Called = {}
    /\ cursor' = Idle /\ slaveR' = {} /\ slaveW' = {} /\ top' = 0
    /\ UNCHANGED <<process, sel, files, client, backlog, slow>>

\* SIGTERM or SIGINT between two rounds: selector_destroy closes every
\* connection.
Terminate ==
    /\ process = "up" /\ cursor = Idle
    /\ process' = "ended"
    /\ sel' = NewSelector
    /\ files' = [f \in AllFiles |-> IF f \in Clients THEN "free" ELSE files[f]]
    /\ client' = [fd \in Fds |-> NoClient]
    /\ UNCHANGED <<slaveR, slaveW, cursor, top, backlog, slow>>

Loop == Select \/ CallHandler \/ EndRound

----------------------------------------------------------------------------
(* External: the peers and the network.  The loop learns of what happens    *)
(* outside only by select(), so it may as well all happen between rounds,   *)
(* save that a peer a send() waits for takes bytes again.                   *)

Connect(socket) ==
    /\ process = "up" /\ cursor = Idle /\ socket \notin backlog
    /\ socket = MonitorSocket => Cardinality(ClientsOf("monitor")) < MaxMonitors
    /\ backlog' = backlog \cup {socket}
    /\ UNCHANGED <<loopVars, sel, files, client, slow>>

\* What a connection waits for happens: bytes, or room to send.
Arise(fd) ==
    /\ process = "up" /\ cursor = Idle /\ fd \in Clients /\ ~client[fd].event
    /\ client[fd].kind = "monitor" /\ sel.item[fd].interest = {"READ"} => client[fd].wire # <<>>
    /\ client' = [client EXCEPT ![fd].event = TRUE]
    /\ UNCHANGED <<loopVars, sel, files, backlog, slow>>

\* The peer of a monitor connection closes or resets it.
PeerGoes(fd) ==
    /\ process = "up" /\ cursor = Idle /\ fd \in ClientsOf("monitor") /\ client[fd].peer = "open"
    /\ client' = [client EXCEPT ![fd].peer = "gone", ![fd].event = TRUE]
    /\ UNCHANGED <<loopVars, sel, files, backlog, slow>>

\* A peer stops to read: there is still room to send, which select() will
\* report, but too little.
PeerStops(fd) ==
    /\ process = "up" /\ cursor = Idle /\ slow = Nobody
    /\ fd \in Clients \cap sel.write /\ client[fd].event
    /\ slow' = fd
    /\ UNCHANGED <<loopVars, sel, files, client, backlog>>

\* It reads on, or its connection breaks, so that send() returns.
PeerReads ==
    /\ process = "up" /\ slow # Nobody
    /\ slow' = Nobody
    /\ UNCHANGED <<loopVars, sel, files, client, backlog>>

Outside ==
    \/ \E socket \in Listeners : Connect(socket)
    \/ \E fd \in Fds : Arise(fd) \/ PeerGoes(fd) \/ PeerStops(fd)
    \/ PeerReads

Next == Loop \/ Terminate \/ Outside

\* One thread runs the loop for as long as the process is up.  That every
\* peer reads on in the end is an assumption about the peers: nothing in the
\* server sees to it, which has no timeout and no non-blocking socket.
Spec == Init /\ [][Next]_vars /\ WF_vars(Loop) /\ WF_vars(PeerReads)

----------------------------------------------------------------------------
(* Properties *)

Registered == Used(sel)

\* selector.h: what select() watches is what the handlers asked for, all of
\* it below the highest descriptor passed to it, and every watched
\* descriptor is open: with one that is not, pselect() fails and the whole
\* server ends (selector.c:559).  The descriptor whose bit a nested
\* unregistering clears is left out of the first two.
WatchedAsAsked ==
    process = "up" => SetsAgree(sel) /\ \A fd \in Registered : fd \in AllFiles /\ files[fd] # "free"

\* The sockets are blocking: a handler called for an event that is not
\* there would stop the server for everybody.  No round calls a handler for
\* an event of a connection that has gone since select(), though its number
\* may have been given to a new one.
EventsAreFresh ==
    process = "up" /\ Called # {} => \E fd \in Fds : NextCall \in Places(fd) /\ HasEvent(fd)

\* Every descriptor of the process has an owner that will close it, through
\* every way a connection is refused or ends, save two that nobody closes any
\* more: the pipe of a mail whose connection broke while it was sent
\* (pop3.c:160), and the directory of a maildrop that PASS failed to load
\* (message-manager.c:94-101, 118-122, 132-135).
OwnedFiles == Listeners \cup Clients \cup {client[fd].pipe : fd \in ClientsOf("pop3")}
OrphansArePipesOrDirs ==
    /\ \A f \in AllFiles : files[f] # "free" => f \in OwnedFiles \/ files[f] \in {"pipe", "dir"}
    /\ \A fd \in Clients : files[fd] = client[fd].kind /\ client[fd].kind = sel.item[fd].handler

\* Which peers that stay are left without their complete answer: none but
\* those whose request has no words, too many words or too many bytes.  The
\* documents have no such exception: RFC_Monitor.txt:54-58 and 68-73 have the
\* server answer every command with OK or ERR, and here the code departs from
\* them (monitor-parser.c sets no answer, monitor_client_read closes).
Answered(c) == c.answer # "none" /\ c.index = AnswerLength(c.answer)
AnsweredOrUnanswerable ==
    [][\A fd \in ClientsOf("monitor") :
          client'[fd].kind = "none" /\ client[fd].peer = "open" /\ process' = "up" =>
             Answered(client[fd]) \/ Unanswerable(client[fd].script)]_vars

\* A request is acted upon when its line is complete and not before, once,
\* with the words of that line and behind the token only, however the bytes
\* are cut and whatever follows them.  (The token alone names no command.)
ActsOnceOnWholeLine ==
    \A fd \in ClientsOf("monitor") :
        LET c == client[fd]
            line == FirstLine(c.script)
            whole == Ends(c.script) # {} /\ Len(c.script) - Len(c.wire) >= Min(Ends(c.script))
        IN  process = "up" =>
               /\ sel.item[fd].interest = IF whole THEN {"WRITE"} ELSE {"READ"}
               /\ \/ c.performed = <<>>
                  \/ whole /\ line = <<Token>>
                  \/ whole /\ line[1] = Token /\ c.performed = <<Tail(line)>>

============================================================================
