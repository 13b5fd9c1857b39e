---------------------------- MODULE ReportServer ----------------------------
(***************************************************************************)
(* The report program (defaultreportsvr.cpp): it reads the number of       *)
(* connections that the controller has written in the load table and       *)
(* reports it to a load balancing server, and does so again whenever its   *)
(* interval has passed.  The server and the heartbeats that make the       *)
(* controller write are external.                                          *)
(***************************************************************************)
EXTENDS BaseSocket, LoadTable

VARIABLES
    rstep,     \* where realrun is: "loop", "send" and "recv" of the first
               \* SendRecv, "again" between the two, "resend" and "rerecv" of
               \* the second, "stopped"
    late,      \* the interval has passed since reporttime
    heard      \* the server has heard a report since then

reportVars == <<loadVars, rstep, late, heard>>
reporterVars == <<sockVars, reportVars>>

\* initconf connects; the controller and the program start together, or one
\* of them when the other has
ReportInit ==
    /\ SocketInit
    /\ LoadInit
    /\ rstep = "loop" /\ late = FALSE /\ heard = FALSE

ReportStopped == LoadInit /\ rstep = "stopped" /\ late = FALSE /\ heard = FALSE

MakeReportReq == [cmd |-> "load"]

-----------------------------------------------------------------------------
(* SendRecvWithRetry, called each second while a report is due             *)

Failed == IF rstep \in {"send", "recv"} THEN "again" ELSE "loop"

Round == /\ rstep = "loop" /\ late /\ read("report")
         /\ rstep' = "send"
         /\ UNCHANGED <<sockVars, loadVars, late, heard>>

SendReport ==
    /\ rstep \in {"send", "resend"}
    /\ \E k \in SendN(Same, MakeReportReq) :
         /\ Becomes(k)
         /\ rstep' = IF ~k.ok THEN Failed ELSE IF rstep = "send" THEN "recv" ELSE "rerecv"
    /\ UNCHANGED <<serving, faults, loadVars, late, heard>>

\* Whatever is received is taken for the answer; off a torn stream it is
\* refused by UnPacker.
RecvAnswer ==
    /\ rstep \in {"recv", "rerecv"}
    /\ \E r \in RecvPack :
         /\ Becomes(r.k)
         /\ faults' = IF r.k.torn # torn THEN faults + 1 ELSE faults
         /\ rstep' = IF r.ret = "pack" THEN "loop" ELSE Failed
         /\ late' = (r.ret # "pack" \/ torn)
    /\ UNCHANGED <<serving, loadVars, heard>>

\* mutant of Retry: the second attempt is on the old connection
Retry_Same == /\ rstep = "again"
              /\ rstep' = "resend"
              /\ UNCHANGED <<sockVars, loadVars, late, heard>>

Retry == /\ rstep = "again"
         /\ Becomes(Reconnect)
         /\ rstep' = IF Reconnect.ok THEN "resend" ELSE "loop"
         /\ UNCHANGED <<serving, faults, loadVars, late, heard>>

ReportQuit == /\ rstep = "loop"
              /\ rstep' = "stopped"
              /\ UNCHANGED <<sockVars, loadVars, late, heard>>

Interval == /\ rstep # "stopped" /\ ~late
            /\ late' = TRUE /\ heard' = FALSE
            /\ UNCHANGED <<sockVars, loadVars, rstep>>

ReportStep ==
    \/ Round \/ SendReport \/ RecvAnswer \/ Retry
    \/ rstep = "loop" /\ InitItem("report") /\ UNCHANGED <<sockVars, rstep, late, heard>>

-----------------------------------------------------------------------------
(* The server and the controller                                           *)

TakeReport == /\ c2s # <<>> /\ Head(c2s).cmd = "load"
              /\ c2s' = Tail(c2s) /\ s2c' = Append(s2c, [cmd |-> "ack"])
              /\ heard' = TRUE
              /\ UNCHANGED <<sock, peer, torn, serving, faults, loadVars, rstep, late>>

\* do_recv writes with every heartbeat; of interest while the program runs
CtrlStep == /\ rstep # "stopped"
            /\ InitItem("ctrl") \/ write("ctrl")
            /\ UNCHANGED <<sockVars, rstep, late, heard>>

\* the controller restarts, or there are no heartbeats for a time
CtrlFault == /\ faults < MaxFault
             /\ Attach("ctrl") \/ GrowOld
             /\ faults' = faults + 1
             /\ UNCHANGED <<sock, peer, torn, c2s, s2c, serving, rstep, late, heard>>

ReportNext == \/ ReportStep \/ ReportQuit \/ Interval
              \/ TakeReport \/ CtrlStep \/ CtrlFault
              \/ (Break \/ ServerDown \/ ServerUp) /\ UNCHANGED reportVars

\* The loop goes on, time passes, heartbeats come, the server works again in
\* the end, and one that is sent reports again and again takes one.
ReportFair == /\ WF_reporterVars(ReportStep) /\ WF_reporterVars(Interval)
              /\ WF_reporterVars(CtrlStep) /\ SF_reporterVars(TakeReport)
              /\ WF_reporterVars(ServerUp /\ UNCHANGED reportVars)

-----------------------------------------------------------------------------
(* Property                                                                *)

\* The server hears of the load again and again, whatever connections,
\* requests and answers were lost and however the controller and the program
\* raced for the table, unless the program stops, the first connection failed
\* (Reconnect without an address), or the race gave each a block of its own
\* (SendRecvWithRetry, SendRecv, Reconnect, read, write, Init_LoadItem).
ReportsResume ==
    (rstep # "stopped" /\ ~heard) ~> (heard \/ rstep = "stopped" \/ sock = "hollow"
                                        \/ (pos["ctrl"] # pos["report"]
                                              /\ 0 \notin {pos["ctrl"], pos["report"]}))
=============================================================================
