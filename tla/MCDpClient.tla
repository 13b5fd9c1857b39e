----------------------------- MODULE MCDpClient -----------------------------
(* An instance of DpClient for model checking: one or two requests of every   *)
(* class, with conditions, fields and values of every type.                   *)
EXTENDS DpClient

(* A request gets the way back of its answer, and a route.                    *)
Way(s) == CommCookiePack(CommCookie(1, s, <<>>, <<>>))
Sent(r) == SetRouteKey([r EXCEPT !.cookie = Way(r.header.seq)], 5, TRUE)

ReqQuery(s) == Sent(AddRetField(AddRetField(
              AddCond(DpQueryReq(s, <<4, 5>>), 1, 0, IntTLV(TLV_DWORD, 600)), 1), 2))
ReqUpdate(s) == Sent(AddSet(AddSet(
               AddCond(DpUpdateReq(s), 1, 0, IntTLV(TLV_BYTE, 7)),
               2, RealTLV(5)), 3, TextTLV(TLV_STRING, <<6, 7>>)))
ReqDelta(s) == Sent(AddSet(DpDeltaReq(s), 2, IntTLV(TLV_BYTE, 3)))
ReqInsert(s) == [AddSet(AddSet(DpInsertReq(s), 2, IntTLV(TLV_WORD, 63)), 3, TextTLV(TLV_BINARY, <<0, 3>>))
                EXCEPT !.asyn = TRUE,   \* with the longest cookie there is
                       !.cookie = CommCookiePack(CommCookie(1, s, <<2>>, [i \in 1 .. 54 |-> 1]))]
ReqDelete(s) == Sent(AddCond(DpDeleteReq(s), 1, 0, IntTLV(TLV_QWORD, 4096)))
ReqCount(s) == Sent([DpCountReq(s) EXCEPT !.logic = <<1>>])
ReqFind(s) == Sent(AddCond(DpCondFindReq(s, 9, 1), 1, 7, TextTLV(TLV_STRING, <<>>)))
ReqDpCombo(s) == Sent(AddReq(AddReq([DpComboReq(s) EXCEPT !.timeout = 3], 1, ReqCount(s)), 2, ReqQuery(s)))
ReqAppCombo(s) == [Sent(AddPack(AppComboReq, 1, 6, MakeReq(ReqDelete(s)).pack)) EXCEPT !.cookie = Way(s)]
ReqUnknown(s) == [ReqQuery(s) EXCEPT !.conds[1].data.type = 7]

MCRequests == {[s \in 0 .. MaxSeq - 1 |-> ReqQuery(s)], [s \in 0 .. MaxSeq - 1 |-> ReqUpdate(s)],
               [s \in 0 .. MaxSeq - 1 |-> ReqInsert(s)], [s \in 0 .. MaxSeq - 1 |-> ReqDelete(s)],
               [s \in 0 .. MaxSeq - 1 |-> ReqCount(s)], [s \in 0 .. MaxSeq - 1 |-> ReqFind(s)],
               [s \in 0 .. MaxSeq - 1 |-> ReqDpCombo(s)], [s \in 0 .. MaxSeq - 1 |-> ReqAppCombo(s)],
               [s \in 0 .. MaxSeq - 1 |-> ReqDelta(s)], [s \in 0 .. MaxSeq - 1 |-> ReqUnknown(s)]}

MCCookies == {<<>>, <<3, 0, 3>>}

Base == [cmd |-> COUNT_MAIN_CMD, ret |-> 0, num |-> 3, subs |-> <<>>, cut |-> 0]
Rows == [cmd |-> QUERY_MAIN_CMD, ret |-> 2, fields |-> <<1, 2>>, subs |-> <<>>, cut |-> 0,
         rows |-> <<IntTLV(TLV_BYTE, 3), RealTLV(3), TextTLV(TLV_STRING, <<3>>), IntTLV(TLV_QWORD, 65)>>]

MCAnswers(r) ==
    CASE r.header.main_cmd = QUERY_MAIN_CMD -> {Rows, [Rows EXCEPT !.rows = <<>>]}
      [] r.header.main_cmd = COND_FIND_MAIN_CMD ->
            {[ret |-> 0, subs |-> <<>>,
              lists |-> <<[status |-> 1, uins |-> <<8, 9>>], [status |-> 2, uins |-> <<70>>]>>]}
      [] r.header.main_cmd = COMBO_REQUEST_MAIN_CMD ->
            {[ret |-> 0, subs |-> <<Base, Rows>>],
             [ret |-> 0, subs |-> <<Base, [Rows EXCEPT !.cut = 1]>>],
             [ret |-> 0, subs |-> <<Base, [Base EXCEPT !.cut = 20]>>],
             [ret |-> 0, subs |-> <<Rows, [Base EXCEPT !.cmd = COND_FIND_MAIN_CMD], Base>>],
             [ret |-> 4, subs |-> <<>>]}
      [] OTHER -> {Base, [Base EXCEPT !.ret = 2, !.num = 0]}
=============================================================================
