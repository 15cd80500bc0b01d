------------------------------ MODULE Monitor ------------------------------
(***************************************************************************)
(* The monitor singleton of the server (server/src/monitor.c): the limits  *)
(* an administrator sets, the number of open POP3 connections, and the     *)
(* access log.  The log is kept as the set of usernames it names; dates    *)
(* and repeated entries are left out, as are the two counters nothing in   *)
(* the server reads (historic_conns, bytes_transf).                        *)
(***************************************************************************)
EXTENDS Naturals

VARIABLES
    maxUsers,       \* config->max_users
    maxConns,       \* config->max_conns
    currentConns,   \* metrics->current_conns
    logged          \* usernames in the list first_log .. last_log

monitorVars == <<maxUsers, maxConns, currentConns, logged>>

\* monitor_init refuses a zero limit.
MonitorInit(users, conns) ==
    /\ maxUsers = users /\ users > 0
    /\ maxConns = conns /\ conns > 0
    /\ currentConns = 0
    /\ logged = {}

AddConnection == currentConns' = currentConns + 1

\* Faulty variant: the connection stays in the count.
RemoveNoConnection == currentConns' = currentConns

RemoveConnection == currentConns' = IF currentConns # 0 THEN currentConns - 1 ELSE 0

AddLog(n) == logged' = logged \cup {n}

\* handle_setter lets positive values through only.
SetMaxUsers(k) == maxUsers' = k /\ UNCHANGED <<maxConns, currentConns, logged>>
SetMaxConns(k) == maxConns' = k /\ UNCHANGED <<maxUsers, currentConns, logged>>
=============================================================================
