---------------------------- MODULE DataPlatform ----------------------------
(* The requests and responses of the data platform and of the combo server    *)
(* (data_platform_protocol.h/.cpp, app_combo_protocol.h/.cpp), as operators    *)
(* over the packets of Pack.  A request object is a record with the members    *)
(* of all request classes, of which a class uses some; the same holds of       *)
(* response objects.  Lists are shorter than Radix^2, the range of the counts. *)
EXTENDS Pack

TLV_BYTE == 0
TLV_WORD == 1
TLV_DWORD == 2
TLV_QWORD == 3
TLV_REAL == 4
TLV_STRING == 5
TLV_BINARY == 6

INSERT_MAIN_CMD == 0
UPDATE_MAIN_CMD == 1
DELETE_MAIN_CMD == 2
QUERY_MAIN_CMD == 3
COUNT_MAIN_CMD == 4
DELTA_MAIN_CMD == 5
COMBO_REQUEST_MAIN_CMD == 9
COND_FIND_MAIN_CMD == 10
COMBO_REQUEST_SUB_CMD == 1

SYNC_FLAG_MASK == 1
PRIMARY_KEY_FLAG_MASK == 2
DP_ERR_GENERAL == 1

Each(seq, Op(_)) == [i \in DOMAIN seq |-> Op(seq[i])]

-----------------------------------------------------------------------------
(* Typed values.                                                              *)

IntTLV(type, v) == [type |-> type, length |-> 2 ^ type, int |-> v, real |-> 0, str |-> <<>>]
RealTLV(v) == [type |-> TLV_REAL, length |-> 8, int |-> 0, real |-> v, str |-> <<>>]
TextTLV(type, s) == [type |-> type, length |-> Len(s), int |-> 0, real |-> 0, str |-> s]

TLVKnown(t) == t.type \in TLV_BYTE .. TLV_BINARY

(* The calls of PackTLV; a type that is none of the seven packs no value.     *)
PackTLV(t) ==
    <<PackByte(t.type), PackDWord(t.length)>> \o
    CASE t.type = TLV_BYTE  -> <<PackByte(t.int)>>
      [] t.type = TLV_WORD  -> <<PackWord(t.int)>>
      [] t.type = TLV_DWORD -> <<PackDWord(t.int)>>
      [] t.type = TLV_QWORD -> <<PackQWord(t.int)>>
      [] t.type = TLV_REAL  -> <<PackReal(t.real)>>
      [] t.type \in {TLV_STRING, TLV_BINARY} -> <<PackBinary(t.str)>>
      [] OTHER -> <<>>

UnPackValue(u, type, length) ==
    CASE type = TLV_BYTE -> UnPackByte(u)
      [] type \in TLV_WORD .. TLV_QWORD -> UnPackNum(u, 2 ^ type)
      [] type = TLV_REAL -> UnPackReal(u)
      [] type \in {TLV_STRING, TLV_BINARY} -> UnPackBinary(u, length)
      [] OTHER -> u

TLV(type, length, val) ==
    [u |-> val,
     tlv |-> [type |-> type, length |-> length,
              int |-> IF type \in TLV_BYTE .. TLV_QWORD THEN val.v ELSE 0,
              real |-> IF type = TLV_REAL THEN val.v ELSE 0,
              str |-> IF type \in {TLV_STRING, TLV_BINARY} THEN val.s ELSE <<>>]]

UnPackTLV(u) ==
    LET ty == UnPackByte(u)
        ln == UnPackDWord(ty)
    IN  TLV(ty.v, ln.v, UnPackValue(ln, ty.v, ln.v))

-----------------------------------------------------------------------------
(* The cookie a client sends along to find its way back: where it comes from, *)
(* the flow of the request it works for, and that request itself.             *)

CommCookie(source, flow, ext, pack) ==
    [source |-> source, flow |-> flow, ext |-> ext, pack |-> pack]

(* <<>> stands for the refusal of a cookie longer than a Word can say.        *)
CommCookiePack(c) ==
    IF 8 + Len(c.ext) + Len(c.pack) > MaxWord THEN <<>>
    ELSE Net(c.source, 2) \o Net(c.flow, 4) \o Net(Len(c.ext), 2) \o c.ext \o c.pack

(* Into the object c: an empty ext leaves the one c had.                      *)
CommCookieUnPack(c, buf) ==
    LET other == At(buf, 6, 2)
        left == Len(buf) - 8
    IN  IF Len(buf) < 8 THEN [ret |-> -1, c |-> c]
        ELSE LET d == [c EXCEPT !.source = At(buf, 0, 2), !.flow = At(buf, 2, 4)]
             IN  IF other > 0 /\ left < other THEN [ret |-> -2, c |-> d]
                 ELSE [ret |-> 0,
                       c |-> [d EXCEPT !.ext = IF other > 0 THEN SubSeq(buf, 9, 8 + other) ELSE @,
                                       !.pack = SubSeq(buf, 9 + other, Len(buf))]]

-----------------------------------------------------------------------------
(* Requests.                                                                  *)

(* seq comes from a counter all request objects share.                        *)
BaseDpReq(cmd, seq) ==
    [header |-> [MsgHeader EXCEPT !.main_cmd = cmd, !.seq = seq], cookie |-> <<>>,
     conds |-> <<>>, logic |-> <<>>, rets |-> <<>>, sets |-> <<>>,
     primary |-> FALSE, asyn |-> FALSE,
     timeout |-> 0, subs |-> <<>>, limit |-> 0, status |-> 0]

(* The constructors of the classes; first stands for the text "$1".           *)
DpQueryReq(seq, first) == [BaseDpReq(QUERY_MAIN_CMD, seq) EXCEPT !.logic = first, !.primary = TRUE]
DpUpdateReq(seq) == BaseDpReq(UPDATE_MAIN_CMD, seq)
DpDeltaReq(seq) == BaseDpReq(DELTA_MAIN_CMD, seq)
DpInsertReq(seq) == BaseDpReq(INSERT_MAIN_CMD, seq)
DpDeleteReq(seq) == BaseDpReq(DELETE_MAIN_CMD, seq)
DpCountReq(seq) == BaseDpReq(COUNT_MAIN_CMD, seq)
DpCondFindReq(seq, limit, status) ==
    [BaseDpReq(COND_FIND_MAIN_CMD, seq) EXCEPT !.limit = limit, !.status = status]
DpComboReq(seq) == BaseDpReq(COMBO_REQUEST_MAIN_CMD, seq)

(* It is no BaseDpReq, and takes no number from the counter.                  *)
AppComboReq == [BaseDpReq(COMBO_REQUEST_MAIN_CMD, 0)
                   EXCEPT !.header.sub_cmd = COMBO_REQUEST_SUB_CMD]

ConditionExpression(fid, op, t) == [field |-> fid, op |-> op, data |-> t]
AddCond(r, fid, op, t) == [r EXCEPT !.conds = Append(@, ConditionExpression(fid, op, t))]
AddSet(r, fid, t) == [r EXCEPT !.sets = Append(@, ConditionExpression(fid, 0, t))]
AddRetField(r, id) == [r EXCEPT !.rets = Append(@, id)]
AddReq(r, table, sub) == [r EXCEPT !.subs = Append(@, [table |-> table, req |-> sub])]
AddPack(r, table, key, p) ==
    [r EXCEPT !.subs = Append(@, [table |-> table, key |-> key, pack |-> p])]

SetRouteKey(r, key, unique) ==
    [r EXCEPT !.header.to_uin = key, !.header.source_type = IF unique THEN 0 ELSE 1]

(* Bytes with their length in a Word before them: of more bytes than a Word   *)
(* can say, so many as their length modulo Radix^2.                           *)
WithLength(s) ==
    LET len == Len(s) % (MaxWord + 1)
    IN  <<PackWord(len), PackBinary(SubSeq(s, 1, len))>>

PackCookie(r) == WithLength(r.cookie)

PackConds(r) ==
    <<PackWord(Len(r.conds))>> \o
    FlattenSeq(Each(r.conds, LAMBDA c : <<PackDWord(c.field), PackByte(c.op)>> \o PackTLV(c.data)))

PackLogicExp(r) == WithLength(r.logic)

PackSets(r) ==
    <<PackWord(Len(r.sets))>> \o
    FlattenSeq(Each(r.sets, LAMBDA c : <<PackDWord(c.field)>> \o PackTLV(c.data)))

SyncFlag(r) == <<PackWord(IF r.asyn THEN 0 ELSE SYNC_FLAG_MASK)>>

(* The calls each class makes to its packer, in order: the same for the       *)
(* string and the buffer variant of MakeReq.                                  *)
QueryReq(r) ==
    <<PackWord(IF r.primary THEN PRIMARY_KEY_FLAG_MASK ELSE 0)>> \o PackConds(r)
      \o PackLogicExp(r) \o <<PackWord(Len(r.rets))>>
      \o Each(r.rets, LAMBDA id : PackDWord(id)) \o PackCookie(r)
UpdateReq(r) == SyncFlag(r) \o PackConds(r) \o PackLogicExp(r) \o PackSets(r) \o PackCookie(r)
InsertReq(r) == SyncFlag(r) \o PackSets(r) \o PackCookie(r)
DeleteReq(r) == SyncFlag(r) \o PackConds(r) \o PackLogicExp(r) \o PackCookie(r)
CountReq(r) == <<PackWord(0)>> \o PackConds(r) \o PackLogicExp(r) \o PackCookie(r)
CondFindReq(r) ==
    <<PackWord(r.limit), PackWord(r.status), PackWord(Len(r.conds))>>
      \o FlattenSeq(Each(r.conds, LAMBDA c : <<PackDWord(c.field), PackWord(c.op)>>
                                            \o PackTLV(c.data)))
      \o PackCookie(r)

(* The two classes of combo requests: DpComboReq makes the packets of its     *)
(* sub-requests here and now, AppComboReq was given packets.                  *)
ComboReq(r, Key(_), Pack(_)) ==
    <<PackWord(r.timeout), PackWord(Len(r.subs))>>
      \o FlattenSeq(Each(r.subs, LAMBDA s : LET p == Pack(s)
                                         IN  <<PackDWord(s.table), PackDWord(Key(s)),
                                               PackDWord(Len(p)), PackBinary(p)>>))
      \o PackCookie(r)

SimpleReq(r) ==
    LET cmd == r.header.main_cmd
    IN  CASE cmd = QUERY_MAIN_CMD -> QueryReq(r)
          [] cmd \in {UPDATE_MAIN_CMD, DELTA_MAIN_CMD} -> UpdateReq(r)
          [] cmd = INSERT_MAIN_CMD -> InsertReq(r)
          [] cmd = DELETE_MAIN_CMD -> DeleteReq(r)
          [] cmd = COUNT_MAIN_CMD -> CountReq(r)
          [] cmd = COND_FIND_MAIN_CMD -> CondFindReq(r)

IsAppCombo(r) == r.header.main_cmd = COMBO_REQUEST_MAIN_CMD
                   /\ r.header.sub_cmd = COMBO_REQUEST_SUB_CMD
IsDpCombo(r) == r.header.main_cmd = COMBO_REQUEST_MAIN_CMD /\ ~IsAppCombo(r)

(* A condition of unknown type ends MakeReq with the error as its result.     *)
BadCond(r) == \E i \in DOMAIN r.conds : ~TLVKnown(r.conds[i].data)

(* DpComboReq ignores that error: the sub-request is then empty.              *)
SubPack(r) == IF BadCond(r) THEN <<>> ELSE GetPack(r.header, GetBody(SimpleReq(r)))

PackCalls(r) ==
    CASE IsDpCombo(r) -> ComboReq(r, LAMBDA s : s.req.header.to_uin, LAMBDA s : SubPack(s.req))
      [] IsAppCombo(r) -> ComboReq(r, LAMBDA s : s.key, LAMBDA s : s.pack)
      [] OTHER -> SimpleReq(r)

MakeReq(r) ==
    IF BadCond(r) THEN [ret |-> ERR_PROTOCOL, pack |-> <<>>]
    ELSE LET p == GetPack(r.header, GetBody(PackCalls(r)))
         IN  [ret |-> Len(p), pack |-> p]

MakeReqBuf(r, buf_len) ==
    IF FixedInit(buf_len).err # 0 THEN [ret |-> -1, pack |-> <<>>]
    ELSE IF BadCond(r) THEN [ret |-> ERR_PROTOCOL, pack |-> <<>>]
    ELSE LET f == FixedCalls(FixedInit(buf_len), PackCalls(r))
         IN  IF f.err # 0 THEN [ret |-> -1, pack |-> <<>>]
             ELSE LET p == FixedGetPack(f, r.header) IN [ret |-> Len(p), pack |-> p]

-----------------------------------------------------------------------------
(* What the constructors and the functions of the classes make of numbers and *)
(* bytes.                                                                     *)
TLVs == [type : Nat, length : Nat, int : Nat, real : Nat, str : Seq(Byte)]

Conditions == [field : Nat, op : Nat, data : TLVs]

HeadersOf(main, sub) ==
    [soh : {SOH}, main_ver : {MAIN_VER}, sub_ver : {SUB_VER}, main_cmd : main, sub_cmd : {sub},
     seq : Nat, from_uin : {0}, to_uin : Nat, enc_type : {ENC_TYPE_NONE}, source_type : {0, 1},
     rev : {0}]

RequestsOf(headers, subs) ==
    [header : headers, cookie : Seq(Byte), conds : Seq(Conditions), logic : Seq(Byte),
     rets : Seq(Nat), sets : Seq(Conditions), primary : BOOLEAN, asyn : BOOLEAN,
     timeout : Nat, subs : subs, limit : Nat, status : Nat]

SimpleRequests ==
    RequestsOf(HeadersOf({INSERT_MAIN_CMD, UPDATE_MAIN_CMD, DELETE_MAIN_CMD, QUERY_MAIN_CMD,
                          COUNT_MAIN_CMD, DELTA_MAIN_CMD, COND_FIND_MAIN_CMD}, 0), {<<>>})

DpComboRequests ==
    RequestsOf(HeadersOf({COMBO_REQUEST_MAIN_CMD}, 0), Seq([table : Nat, req : SimpleRequests]))

AppComboRequests ==
    RequestsOf(HeadersOf({COMBO_REQUEST_MAIN_CMD}, COMBO_REQUEST_SUB_CMD),
               Seq([table : Nat, key : Nat, pack : Seq(Byte)]))

-----------------------------------------------------------------------------
(* Responses.  Parsing fills in an object, and does not empty it first.       *)

NewRsp == [ret_code |-> MaxWord, record_num |-> 0, cookie |-> <<>>, fields |-> <<>>,
           data |-> <<>>, subs |-> <<>>, online |-> <<>>, offline |-> <<>>]

\* mutant of UnPackCookie: the cookie is left out, as AppComboRsp does
UnPackCookie_None(u, old) == old

UnPackCookie(u, old) ==
    LET n == UnPackWord(u)
        cookie(b) == IF b.ok /\ n.v > 0 THEN b.s ELSE old
    IN  cookie(UnPackBinary(n, n.v))

GetRspCmd(p) == IF Len(p) < MSG_HEADER_LEN THEN <<>> ELSE GetPackCmd(p)

Fail(ret, o) == [ret |-> ret, o |-> o]

(* The object, if the packet is one, is what Got makes of its body.            *)
Parsed(o, data, Got(_)) ==
    LET chk == CheckPack(data)
    IN  IF chk = RET_OK THEN Got(UnPackerInit(data)) ELSE Fail(chk, o)

BaseParseRsp(o, data) ==
    LET fill(rc, rn) == [ret |-> RET_OK,
                         o |-> [o EXCEPT !.ret_code = rc.v, !.record_num = rn.v,
                                         !.cookie = UnPackCookie(rn, @)]]
        got(rc) == fill(rc, UnPackDWord(rc))
    IN  Parsed(o, data, LAMBDA u : got(UnPackWord(u)))

(* The columns of a row lie side by side in one list.                         *)
GetData(o, row, col) == o.data[row * Len(o.fields) + col + 1]

Indices(n) == [i \in 1 .. n |-> i]

(* n numbers of w bytes.                                                      *)
UnPackNums(u, w, n) ==
    LET add(list, x) == [u |-> x, list |-> Append(list, x.v)]
    IN  FoldLeft(LAMBDA s, i : add(s.list, UnPackNum(s.u, w)),
                 [u |-> u, list |-> <<>>], Indices(n))

UnPackTLVs(u, n) ==
    LET add(s, x) == IF ~s.ok THEN s
                     ELSE IF ~TLVKnown(x.tlv) THEN [s EXCEPT !.ok = FALSE]
                     ELSE [u |-> x.u, ok |-> TRUE, list |-> Append(s.list, x.tlv)]
    IN  FoldLeft(LAMBDA s, i : add(s, UnPackTLV(s.u)),
                 [u |-> u, ok |-> TRUE, list |-> <<>>], Indices(n))

QueryParseRsp(o, data) ==
    LET fill(got, n, width, tlvs) ==
          IF ~tlvs.ok THEN Fail(ERR_PROTOCOL, [got EXCEPT !.data = @ \o tlvs.list])
          ELSE [ret |-> RET_OK,
                o |-> [got EXCEPT !.data = @ \o tlvs.list,
                                  !.record_num = IF width > 0 THEN n \div width ELSE @,
                                  !.cookie = UnPackCookie(tlvs.u, @)]]
        rows(got, rn, width) ==
          LET tlv_num == (rn.v * width) % Radix ^ 4
          IN  fill(got, tlv_num, width, UnPackTLVs(rn, tlv_num))
        columns(rc, fn, ids) ==
          rows([o EXCEPT !.ret_code = rc.v, !.fields = @ \o ids.list],
               UnPackDWord(ids.u), fn.v)
        fields(rc, fn) == columns(rc, fn, UnPackNums(fn, 4, fn.v))
        got(rc) == fields(rc, UnPackWord(rc))
    IN  Parsed(o, data, LAMBDA u : got(UnPackWord(u)))

CondFindParseRsp(o, data) ==
    LET add(s, status, uins) ==
          [u |-> uins.u,
           off |-> IF status = 1 THEN s.off \o uins.list ELSE s.off,
           on |-> IF status = 1 THEN s.on ELSE s.on \o uins.list]
        status(s, st, ct) == add(s, st.v, UnPackNums(ct, 4, ct.v))
        lists(u, n) == FoldLeft(LAMBDA s, i : LET st == UnPackWord(s.u)
                                              IN  status(s, st, UnPackWord(st)),
                                [u |-> u, off |-> <<>>, on |-> <<>>], Indices(n))
        fill(rc, tn, list) ==
          [ret |-> RET_OK,
           o |-> [o EXCEPT !.ret_code = rc.v, !.record_num = tn.v,
                           !.offline = @ \o list.off, !.online = @ \o list.on,
                           !.cookie = UnPackCookie(list.u, @)]]
        total(rc, sn, tn) == fill(rc, tn, lists(tn, sn.v))
        groups(rc, sn) == total(rc, sn, UnPackWord(sn))
        got(rc) == groups(rc, UnPackWord(rc))
    IN  Parsed(o, data, LAMBDA u : got(UnPackWord(u)))

(* The parts of a combo response, up to the first that Take refuses.          *)
ComboParts(u, n, Take(_)) ==
    LET add(s, p, t) == IF ~p.ok \/ GetRspCmd(p.s) = <<>> \/ ~t.ok
                        THEN [s EXCEPT !.ok = FALSE]
                        ELSE [u |-> p, ok |-> TRUE, list |-> Append(s.list, t.part)]
        take(s, p) == add(s, p, Take(p.s))
        next(s, ln) == IF s.ok THEN take(s, UnPackBinary(ln, ln.v)) ELSE s
    IN  FoldLeft(LAMBDA s, i : next(s, UnPackDWord(s.u)),
                 [u |-> u, ok |-> TRUE, list |-> <<>>], Indices(n))

ParsePart(p) == IF GetRspCmd(p)[1] = QUERY_MAIN_CMD THEN QueryParseRsp(NewRsp, p)
                ELSE BaseParseRsp(NewRsp, p)

\* mutant of Part: a part that does not parse is kept
Part_Any(cmd, r) == [ok |-> TRUE, part |-> [cmd |-> cmd, rsp |-> r.o]]

Part(cmd, r) == [ok |-> cmd \in INSERT_MAIN_CMD .. DELTA_MAIN_CMD /\ r.ret = RET_OK,
                 part |-> [cmd |-> cmd, rsp |-> r.o]]

TakeRsp(p) == Part(GetRspCmd(p)[1], ParsePart(p))

ComboParseRsp(o, data) ==
    LET report(rc, parts, got) ==
          IF rc.v # 0 THEN Fail(-1, [o EXCEPT !.ret_code = DP_ERR_GENERAL])
          ELSE IF ~parts.ok THEN Fail(-1, got)
          ELSE [ret |-> RET_OK, o |-> [got EXCEPT !.cookie = UnPackCookie(parts.u, @)]]
        fill(rc, parts) ==
          report(rc, parts, [o EXCEPT !.ret_code = IF parts.ok THEN 0 ELSE DP_ERR_GENERAL,
                                      !.subs = @ \o parts.list,
                                      !.record_num = Len(o.subs) + Len(parts.list)])
        count(rc, rn) == fill(rc, ComboParts(rn, rn.v, TakeRsp))
        got(rc) == count(rc, UnPackWord(rc))
    IN  Parsed(o, data, LAMBDA u : got(UnPackWord(u)))

GetRsp(o, idx) == IF idx >= o.record_num THEN <<>> ELSE <<o.subs[idx + 1]>>

IsAllCmdOK(o) == \A i \in 1 .. o.record_num : o.subs[i].rsp.ret_code = 0

(* AppComboRsp keeps the packets themselves and reads no cookie; record_num   *)
(* is the number of parts of this response, not the length of the list.       *)
TakePack(p) == [ok |-> TRUE, part |-> [cmd |-> GetRspCmd(p), pack |-> p]]

AppComboParseRsp(o, data) ==
    LET fill(rc, rn, parts, list) ==
          IF rc.v # 0 THEN Fail(-1, [o EXCEPT !.ret_code = DP_ERR_GENERAL])
          ELSE IF ~parts.ok
          THEN Fail(-1, [o EXCEPT !.ret_code = DP_ERR_GENERAL, !.subs = list,
                                  !.record_num = Len(list)])
          ELSE [ret |-> RET_OK, o |-> [o EXCEPT !.ret_code = 0, !.subs = list,
                                                !.record_num = rn.v]]
        add(rc, rn, parts) == fill(rc, rn, parts, o.subs \o parts.list)
        count(rc, rn) == add(rc, rn, ComboParts(rn, rn.v, TakePack))
        got(rc) == count(rc, UnPackWord(rc))
    IN  Parsed(o, data, LAMBDA u : got(UnPackWord(u)))

GetSubRsp(o, idx, buf_len) ==
    IF idx >= o.record_num THEN [ret |-> -1, pack |-> <<>>]
    ELSE LET p == o.subs[idx + 1].pack
         IN  IF buf_len < Len(p) THEN [ret |-> -2, pack |-> <<>>]
             ELSE [ret |-> Len(p), pack |-> p]

(* Which class parses the response to a request.                              *)
ParseRsp(r, o, data) ==
    CASE IsAppCombo(r) -> AppComboParseRsp(o, data)
      [] IsDpCombo(r) -> ComboParseRsp(o, data)
      [] r.header.main_cmd = QUERY_MAIN_CMD -> QueryParseRsp(o, data)
      [] r.header.main_cmd = COND_FIND_MAIN_CMD -> CondFindParseRsp(o, data)
      [] OTHER -> BaseParseRsp(o, data)
=============================================================================
