---------------------------- MODULE UpdateClient ----------------------------
(***************************************************************************)
(* The update client (default_update_client.cpp) and the configuration     *)
(* server it asks for route tables.  From time to time the client asks for *)
(* the versions of all service types, and for the tables of those whose    *)
(* version is not the one it has; the server may also tell it of a change. *)
(* Tables are modelled by their versions.  The server is external.         *)
(***************************************************************************)
EXTENDS BaseSocket

CONSTANTS
    ServType,      \* the service types in the route file
    Version,       \* versions of a table, numbers from 1 on
    MaxChange      \* bound on the changes of a table

VARIABLES
    step,       \* where realrun is: "recv", "renew", "send", "check", "stopped"
    todo,       \* the types whose tables are to be asked for
    due,        \* m_nCheckVerInterval has passed
    version,    \* m_mapConfigVersion; 0 if there is none
    file,       \* the versions of the files
    offered,    \* the server's versions
    changes     \* how often they changed

clientVars == <<step, todo, due, version, file, offered, changes>>
updateVars == <<sockVars, clientVars>>

\* initconf: the connection may be refused.  The version of a file is not
\* found: the name that is read has the type as %x, the one that is written
\* as %08x.
UpdateInit ==
    /\ SocketInit
    /\ step = "recv" /\ todo = {} /\ due = FALSE
    /\ version = [t \in ServType |-> 0]
    /\ file = [t \in ServType |-> 0]
    /\ offered \in [ServType -> Version] /\ changes = 0

\* the client has been stopped
UpdateStopped ==
    /\ step = "stopped" /\ todo = {} /\ due = FALSE
    /\ version = [t \in ServType |-> 0]
    /\ file = [t \in ServType |-> 0]
    /\ offered = [t \in ServType |-> 1] /\ changes = 0

-----------------------------------------------------------------------------
(* Messages                                                                *)

CreateGetVerRequest == [cmd |-> "ver", types |-> ServType]
CreateGetConfigRequest(types) == [cmd |-> "get", types |-> types]

\* mutant of Differs: a version that went back is not noticed
Differs_Newer(v, own) == v > own

Differs(v, own) == v # own

\* OnCheckVersionRsp, OnUpdateConfigNotify: the types to ask for
Outdated(vers) == {t \in DOMAIN vers : Differs(vers[t], version[t])}

\* OnGetConfigInfoRsp: the version is noted, then the file is written, which
\* may fail
OnGetConfigInfoRsp(vers) ==
    /\ version' = [t \in ServType |-> IF t \in DOMAIN vers THEN vers[t] ELSE version[t]]
    /\ \E W \in SUBSET DOMAIN vers :
         file' = [t \in ServType |-> IF t \in W THEN vers[t] ELSE file[t]]

OnProcess(msg) ==
    \/ /\ msg.cmd \in {"ver", "notify"}
       /\ todo' = Outdated(msg.vers)
       /\ step' = (IF Outdated(msg.vers) = {} THEN "check" ELSE "send")
       /\ UNCHANGED <<version, file>>
    \/ /\ msg.cmd = "get"
       /\ OnGetConfigInfoRsp(msg.vers)
       /\ UNCHANGED todo /\ step' = "check"

\* SendBlob: one more attempt on a new connection
SendBlob(m) ==
    \E k \in SendN(Same, m) :
      IF k.ok THEN Becomes(k)
      ELSE IF Reconnect.ok THEN \E n \in SendN(Reconnect, m) : Becomes(n)
      ELSE Becomes(Reconnect)

-----------------------------------------------------------------------------
(* A round of realrun                                                      *)

Receive ==
    /\ step = "recv"
    /\ \E r \in RecvPack :
         \/ /\ r.ret = "pack" /\ ~torn
            /\ Becomes(r.k) /\ OnProcess(r.msg[1])
            /\ UNCHANGED faults
         \/ /\ r.ret = "timeout" \/ (r.ret = "pack" /\ torn)    \* OnProcess refuses it
            /\ Becomes(r.k) /\ step' = "check"
            /\ faults' = IF r.k.torn # torn THEN faults + 1 ELSE faults
            /\ UNCHANGED <<todo, version, file>>
         \/ /\ r.ret \notin {"pack", "timeout"}
            /\ Becomes(Reconnect)
            /\ step' = IF Reconnect.ok THEN "check" ELSE "renew"
            /\ UNCHANGED <<todo, version, file, faults>>
    /\ UNCHANGED <<serving, due, offered, changes>>

\* delete TcpClient_, and a new one
Renew == /\ step = "renew"
         /\ Becomes(NewClient)
         /\ step' = "check"
         /\ UNCHANGED <<serving, faults, todo, due, version, file, offered, changes>>

SendRequest == /\ step = "send"
               /\ SendBlob(CreateGetConfigRequest(todo))
               /\ todo' = {} /\ step' = "check"
               /\ UNCHANGED <<serving, faults, due, version, file, offered, changes>>

DoCheckVersion ==
    /\ step = "check"
    /\ IF due THEN SendBlob(CreateGetVerRequest)
       ELSE UNCHANGED <<sock, peer, torn, c2s, s2c>>
    /\ due' = FALSE /\ step' = "recv"
    /\ UNCHANGED <<serving, faults, todo, version, file, offered, changes>>

\* a reload signal: initconf(TRUE) reads the versions again
Reload == /\ step = "recv" /\ faults < MaxFault
          /\ version' = [t \in ServType |-> 0]
          /\ faults' = faults + 1
          /\ UNCHANGED <<sock, peer, torn, c2s, s2c, serving, step, todo, due, file,
                         offered, changes>>

\* a quit signal ends the loop
Quit == /\ step = "recv"
        /\ step' = "stopped"
        /\ UNCHANGED <<sockVars, todo, due, version, file, offered, changes>>

\* The interval is longer than an exchange takes.
Elapse == /\ step # "stopped"
          /\ ~due /\ c2s = <<>> /\ s2c = <<>>
          /\ due' = TRUE
          /\ UNCHANGED <<sockVars, step, todo, version, file, offered, changes>>

-----------------------------------------------------------------------------
(* The server                                                              *)

ServerAnswer ==
    /\ c2s # <<>> /\ Head(c2s).cmd \in {"ver", "get"}
    /\ c2s' = Tail(c2s)
    /\ s2c' = Append(s2c, [cmd |-> Head(c2s).cmd,
                           vers |-> [t \in Head(c2s).types |-> offered[t]]])
    /\ UNCHANGED <<sock, peer, torn, serving, faults, clientVars>>

\* a table changes, also back to an earlier version; the client is told or not
ServerChange(t, v) ==
    /\ changes < MaxChange /\ v # offered[t]
    /\ offered' = [offered EXCEPT ![t] = v] /\ changes' = changes + 1
    /\ s2c' \in {s2c} \cup (IF sock = "up" THEN {Append(s2c, [cmd |-> "notify", vers |-> (t :> v)])}
                            ELSE {})
    /\ UNCHANGED <<sock, peer, torn, c2s, serving, faults, step, todo, due, version, file>>

ClientStep == Receive \/ Renew \/ SendRequest \/ DoCheckVersion

UpdateNext ==
    \/ ClientStep \/ Reload \/ Quit \/ Elapse
    \/ ServerAnswer \/ \E t \in ServType, v \in Version : ServerChange(t, v)
    \/ (Break \/ ServerDown \/ ServerUp) /\ UNCHANGED clientVars

\* the client's loop goes on, time passes, and the server works again and
\* answers in the end
UpdateFair == /\ WF_updateVars(ClientStep) /\ WF_updateVars(Elapse)
              /\ WF_updateVars(ServerAnswer)
              /\ WF_updateVars(ServerUp /\ UNCHANGED clientVars)

-----------------------------------------------------------------------------
(* Property                                                                *)

\* A version the server keeps becomes the client's, also an older one, and
\* whatever requests, answers and notices were lost with a connection, unless
\* the client stops, or the connection is one that only a restart ends
\* (Reconnect without an address) or is read from the middle of a message
\* (realrun, SendBlob, OnCheckVersionRsp, OnUpdateConfigNotify,
\* OnGetConfigInfoRsp).
VersionFollows ==
    \A t \in ServType, v \in Version :
      (offered[t] = v) ~> (version[t] = v \/ offered[t] # v \/ sock = "hollow" \/ torn
                             \/ step = "stopped")
=============================================================================
