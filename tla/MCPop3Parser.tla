---------------------------- MODULE MCPop3Parser ---------------------------
\* A session of commands without an argument and with a short one.
EXTENDS Pop3Parser

CRLF == <<"CR", "LF">>
MCLines == {
    <<"n", "o", "o", "p">> \o CRLF,
    <<"l", "i", "s", "t", " ", "1">> \o CRLF,
    <<"d", "e", "l", "e", " ", "1", "2">> \o CRLF}
============================================================================
