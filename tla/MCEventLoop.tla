---------------------------- MODULE MCEventLoop ----------------------------
\* Two connections at a time beside the listening sockets, the higher of
\* them on the descriptor that a nested unregistering disturbs.
EXTENDS EventLoop, TLC

CONSTANT secret

CRLF == <<"CR", "LF">>

\* An argument that is not looked at; a listing with a second line begun behind it;
\* a wrong token; the token alone; a blank line; too many words; too many bytes.
MCScripts == {
    <<secret, "DELUSER", "u1", "u2">> \o CRLF,
    <<secret, "LOGS">> \o CRLF \o <<secret>>,
    <<"guess", "LOGS">> \o CRLF,
    <<secret>> \o CRLF,
    CRLF,
    <<secret, "ADDUSER", "u1", "p1", "p2">> \o CRLF,
    <<secret, "CR", "x", "LF", "x", "x">> \o CRLF}
============================================================================
