------------------------------ MODULE DpClient ------------------------------
(* A worker that asks the data platform: it makes a request, relays put their *)
(* cookie on the packet or take it off, encrypt and decrypt it, the server     *)
(* answers, the answer comes back the same way and is parsed into a response   *)
(* object that may have been used before.                                      *)
(*                                                                            *)
(* The relays and the server are not part of the repository: they are modelled *)
(* by their use of its packet functions, in the order these allow.  A packet   *)
(* is encrypted and decrypted without a cookie on it (the cipher runs over the *)
(* cookie too).                                                                *)
EXTENDS DataPlatform

CONSTANTS
    Requests,       \* the request objects of the client, as functions of seq
    Cookies,        \* what relays put on a packet
    Reserves,       \* what relays write to the uins and the reserve byte
    Keys,           \* keys of the relays
    BufLens,        \* sizes of the buffers requests are made in
    Room,           \* size of the relays' buffer
    MaxSeq,         \* bound on the requests made
    Answers(_)      \* what the server may have to say to a request

Asked == {R[s] : R \in Requests, s \in 0 .. MaxSeq - 1}

(* Packets are shorter than what a cookie's offset, of three bytes, can say;  *)
(* a cookie is no longer than its length, of two.                             *)
ASSUME ClientAssumption ==
    /\ MaxSeq \in Nat /\ Room \in Nat /\ BufLens \subseteq Nat
    /\ Asked \subseteq SimpleRequests \cup DpComboRequests \cup AppComboRequests
    /\ \A r \in Asked : Len(MakeReq(r).pack) <= Radix ^ 3
    /\ \A c \in Cookies : c \in Seq(Byte) /\ Len(c) <= MaxWord
    /\ Reserves \subseteq Byte /\ Keys \subseteq Nat

VARIABLES
    seq,        \* BaseDpReq::m_DefaultSeq
    req,        \* <<the request that is under way>>
    made,       \* what MakeReq returned for it last, and the buffer's size
    leg,        \* "idle", "req" or "rsp"
    pkt,        \* the packet in the relays' buffer
    orig,       \* the packet as this leg began
    ck,         \* <<the cookie on it>>
    resv,       \* what the last relay wrote there
    key,        \* <<the key it is encrypted with>>
    ans,        \* the server's answer
    rsp,        \* the response object
    parsed      \* the answers parsed into it: request, answer and result

vars == <<seq, req, made, leg, pkt, orig, ck, resv, key, ans, rsp, parsed>>

NotMade == [ret |-> 0, pack |-> <<>>, room |-> 0]   \* or of no use any more
NoAnswer == [ret |-> 0, subs |-> <<>>]

Init ==
    /\ seq = 0 /\ req = <<>> /\ made = NotMade
    /\ leg = "idle" /\ pkt = <<>> /\ orig = <<>> /\ ck = <<>> /\ resv = 0 /\ key = <<>>
    /\ ans = NoAnswer /\ rsp = NewRsp /\ parsed = <<>>

-----------------------------------------------------------------------------
(* The client makes a request in a string (room 0), or in a buffer of its own. *)
Make(R, n) ==
    /\ leg = "idle" /\ seq < MaxSeq
    /\ LET r == R[seq]
           m == IF n = 0 THEN MakeReq(r) ELSE MakeReqBuf(r, n)
       IN  /\ seq' = seq + 1
           /\ req' = <<r>>
           /\ made' = [ret |-> m.ret, pack |-> m.pack, room |-> n]
           /\ leg' = IF m.pack = <<>> THEN "idle" ELSE "req"
           /\ pkt' = m.pack /\ orig' = m.pack
    /\ ck' = <<>> /\ key' = <<>> /\ resv' = 0
    /\ UNCHANGED <<ans, rsp, parsed>>

(* A relay puts its cookie on the packet, in place of one that is there.      *)
RelayCookie(c) ==
    /\ leg # "idle"
    /\ LET s == SetCookie(pkt, Room, c)
       IN  /\ pkt' = s.p
           /\ ck' = IF s.ret > 0 THEN <<c>> ELSE ck
    /\ UNCHANGED <<seq, req, made, leg, orig, resv, key, ans, rsp, parsed>>

RelayDelCookie ==
    /\ leg # "idle"
    /\ pkt' = DelCookie(pkt)
    /\ ck' = <<>>
    /\ UNCHANGED <<seq, req, made, leg, orig, resv, key, ans, rsp, parsed>>

RelayHeader(v) ==
    /\ leg # "idle"
    /\ pkt' = SetReserve(SetUins(pkt, v, v), v)
    /\ resv' = v
    /\ UNCHANGED <<seq, req, made, leg, orig, ck, key, ans, rsp, parsed>>

RelayEncrypt(k) ==
    /\ leg # "idle" /\ ck = <<>> /\ key = <<>>
    /\ pkt' = EncryptPack(SetEncType(pkt, ENC_TYPE_TEA), k)
    /\ key' = <<k>>
    /\ UNCHANGED <<seq, req, made, leg, orig, ck, resv, ans, rsp, parsed>>

RelayDecrypt ==
    /\ leg # "idle" /\ ck = <<>> /\ key # <<>>
    /\ LET d == Decrypt(UnPackerInit(pkt), key[1])
       IN  pkt' = SetEncType(d.u.data, ENC_TYPE_NONE)
    /\ key' = <<>>
    /\ UNCHANGED <<seq, req, made, leg, orig, ck, resv, ans, rsp, parsed>>

-----------------------------------------------------------------------------
(* The server's packets.  It echoes the command, the sequence number and the   *)
(* cookie in the request's body.                                               *)
SubAnswer(a) ==
    GetPack([MsgHeader EXCEPT !.main_cmd = a.cmd],
            GetBody(IF a.cmd = QUERY_MAIN_CMD
                    THEN <<PackWord(a.ret), PackWord(Len(a.fields))>>
                           \o Each(a.fields, PackDWord)
                           \o <<PackDWord(Len(a.rows) \div Len(a.fields))>>
                           \o FlattenSeq(Each(a.rows, PackTLV)) \o <<PackWord(0)>>
                    ELSE <<PackWord(a.ret), PackDWord(a.num), PackWord(0)>>))

AnswerBody(r, a) ==
    CASE r.header.main_cmd = COMBO_REQUEST_MAIN_CMD ->
            <<PackWord(a.ret), PackWord(Len(a.subs))>>
              \o FlattenSeq(Each(a.subs, LAMBDA s : LET p == SubAnswer(s)
                                                     n == Len(p) - s.cut
                                                 IN  <<PackDWord(n), SubSeq(p, 1, n)>>))
      [] r.header.main_cmd = QUERY_MAIN_CMD ->
            <<PackWord(a.ret), PackWord(Len(a.fields))>> \o Each(a.fields, PackDWord)
              \o <<PackDWord(Len(a.rows) \div Len(a.fields))>> \o FlattenSeq(Each(a.rows, PackTLV))
      [] r.header.main_cmd = COND_FIND_MAIN_CMD ->
            <<PackWord(a.ret), PackWord(Len(a.lists)),
              PackWord(Len(FlattenSeq(Each(a.lists, LAMBDA l : l.uins))))>>
              \o FlattenSeq(Each(a.lists, LAMBDA l : <<PackWord(l.status), PackWord(Len(l.uins))>>
                                                    \o Each(l.uins, PackDWord)))
      [] OTHER -> <<PackWord(a.ret), PackDWord(a.num)>>

ASSUME ServerAssumption ==
    \A r \in Asked : \A a \in Answers(r) :
        LET chunks == AnswerBody(r, a) \o PackCookie(r)
        IN  /\ AnswerBody(r, a) \in Seq(Seq(Byte))
            /\ Len(GetPack(MsgHeader, GetBody(chunks))) <= Radix ^ 3

(* The server hands the answer to its first relay plain, or with a cookie or   *)
(* encrypted from the start.                                                   *)
Answer(a, c, k) ==
    /\ leg = "req" /\ ck = <<>> /\ key = <<>>
    /\ ans' = a /\ leg' = "rsp" /\ resv' = 0
    /\ LET body == GetBody(AnswerBody(req[1], a) \o PackCookie(req[1]))
           stamp(p) == SetSequence(SetPackCmd(p, req[1].header.main_cmd, 0), req[1].header.seq)
           tea == [MsgHeader EXCEPT !.enc_type = ENC_TYPE_TEA]
       IN  /\ orig' = stamp(GetPack(MsgHeader, body))
           /\ pkt' = stamp(IF k # <<>> THEN GetPackKey(tea, body, k[1])
                           ELSE IF c # <<>> THEN GetPackCookie(MsgHeader, body, c[1])
                           ELSE GetPack(MsgHeader, body))
    /\ ck' = c /\ key' = k /\ made' = NotMade
    /\ UNCHANGED <<seq, req, rsp, parsed>>

Class(r) == IF r.header.main_cmd \in {QUERY_MAIN_CMD, COND_FIND_MAIN_CMD, COMBO_REQUEST_MAIN_CMD}
            THEN <<r.header.main_cmd, r.header.sub_cmd>> ELSE <<INSERT_MAIN_CMD, 0>>

(* The client parses into a fresh object, or into the one it used before for   *)
(* the same class of response.  What it received is a part of the packet       *)
(* (cut), or the packet and the beginning of the next one (more).              *)
Parse(fresh, cut, more) ==
    /\ leg = "rsp" /\ ck = <<>> /\ key = <<>>
    /\ fresh \/ (parsed # <<>> /\ Class(Last(parsed).req) = Class(req[1]))
    /\ LET p == ParseRsp(req[1], IF fresh THEN NewRsp ELSE rsp,
                         SubSeq(pkt, 1, Len(pkt) - cut) \o more)
       IN  /\ rsp' = p.o
           /\ parsed' = Append(IF fresh THEN <<>> ELSE parsed,
                               [req |-> req[1], ans |-> ans, ret |-> p.ret, whole |-> cut = 0])
    /\ leg' = "idle" /\ pkt' = <<>> /\ orig' = <<>>
    /\ UNCHANGED <<seq, req, made, ck, resv, key, ans>>

Next ==
    \/ \E R \in Requests, n \in BufLens \cup {0} : Make(R, n)
    \/ \E c \in Cookies : RelayCookie(c)
    \/ RelayDelCookie
    \/ \E v \in Reserves : RelayHeader(v)
    \/ \E k \in Keys : RelayEncrypt(k)
    \/ RelayDecrypt
    \/ /\ leg = "req"
       /\ \E a \in Answers(req[1]) :
             \/ Answer(a, <<>>, <<>>)
             \/ \E c \in Cookies : Answer(a, <<c>>, <<>>)
             \/ \E k \in Keys : Answer(a, <<>>, <<k>>)
    \/ \E fresh \in BOOLEAN, cut \in {0, 1}, more \in {<<>>, <<SOH, MAIN_VER>>} :
          (cut = 0 \/ more = <<>>) /\ Parse(fresh, cut, more)

Spec == Init /\ [][Next]_vars

-----------------------------------------------------------------------------
(* Properties.                                                                *)

(* MakeReq in a buffer (FixedPacker) makes the packet MakeReq in a string     *)
(* makes if the buffer holds it, and refuses otherwise, also when a chunk     *)
(* that does not fit is followed by some that do.  The packet one byte longer *)
(* than the buffer is excepted: see BufferHolds.                              *)
BufferAsString ==
    made.room # 0 =>
        LET s == MakeReq(req[1])
            n == Len(s.pack)
            fits == made.room >= MSG_HEADER_LEN + 1 /\ n <= made.room
            endMarkOutside == n = made.room + 1
        IN  IF fits THEN made.ret = s.ret /\ made.pack = s.pack
            ELSE endMarkOutside \/ (made.ret = -1 /\ made.pack = <<>>)

(* What is written stays in the caller's buffer: a longer packet is refused.  *)
(* data_platform_protocol.h:665-672 and protocol_pack.h:565-570 say that      *)
(* buf_len is the size of the buffer, and that the result is <= 0 when it is  *)
(* too short.  FixedPacker::GetPack writes the end mark without looking.      *)
BufferHolds == made.room # 0 => Len(made.pack) <= made.room

Body(p, n) == SubSeq(p, MSG_HEADER_LEN + 1, n - 1)

(* Whatever cookies and reserve values the relays put on a packet and take    *)
(* off, in any order, with keys while it has no cookie: it passes CheckPack,  *)
(* its body is the one it set out with, and GetCookie returns the cookie last *)
(* set, or none.                                                              *)
TransitIntact ==
    leg # "idle" =>
        LET n == Len(orig)
            h == GetHeader(pkt)
            body == Body(pkt, n)
        IN  /\ CheckPack(pkt) = RET_OK
            /\ h.pack_len = Len(pkt)
            /\ Len(pkt) = n + (IF ck = <<>> THEN 0 ELSE 2 + Len(ck[1]))
            /\ (IF key = <<>> THEN body ELSE Xxtea(body, key[1], -1)) = Body(orig, n)
            /\ GetCookie(pkt, MaxWord) = [ret |-> 0, ck |-> IF ck = <<>> THEN <<>> ELSE ck[1]]
            /\ GetReserve(pkt) = resv /\ h.from_uin = resv
            /\ GetPackCmd(pkt) = GetPackCmd(orig) /\ h.seq = GetHeader(orig).seq

(* What "%f" and atof leave of a value.                                       *)
Rounded(t) == [t EXCEPT !.real = IF t.type = TLV_REAL THEN 2 * (@ \div 2) ELSE 0]

(* A part of a combo answer that the response must refuse: for DpComboRsp one *)
(* that is cut short or of a command no part has, for AppComboRsp, which does *)
(* not parse it, one without a whole header.                                  *)
Broken(r, s) == IF IsDpCombo(r) THEN s.cut > 0 \/ s.cmd \notin INSERT_MAIN_CMD .. DELTA_MAIN_CMD
                ELSE Len(SubAnswer(s)) - s.cut < MSG_HEADER_LEN

(* How many parts precede the first of them.                                  *)
Whole(r, subs) == LET bad == {i \in DOMAIN subs : Broken(r, subs[i])}
                  IN  IF bad = {} THEN Len(subs) ELSE Min(bad) - 1

Says(o, r, a) ==
    CASE r.header.main_cmd = QUERY_MAIN_CMD ->
            /\ o.fields = a.fields /\ o.record_num * Len(a.fields) = Len(a.rows)
            /\ \A i \in DOMAIN a.rows :
                  GetData(o, (i - 1) \div Len(a.fields), (i - 1) % Len(a.fields)) = Rounded(a.rows[i])
      [] r.header.main_cmd = COND_FIND_MAIN_CMD ->
            LET of(st) == FlattenSeq([i \in DOMAIN a.lists |->
                                     IF a.lists[i].status = st THEN a.lists[i].uins ELSE <<>>])
            IN  o.offline = of(1) /\ o.online = of(2) /\ o.record_num = Len(of(1) \o of(2))
      [] OTHER -> o.record_num = a.num

(* A fresh object holds what the server said and nothing else, also when more *)
(* than the packet was received; of a combo response it holds the parts       *)
(* before the first broken one, and reports the failure.  A packet that is    *)
(* not complete is refused and leaves no trace.                               *)
AnswerUnderstood ==
    Len(parsed) = 1 =>
        LET l == parsed[1]
            n == Whole(l.req, l.ans.subs)
        IN  IF ~l.whole THEN l.ret # RET_OK /\ rsp = NewRsp
            ELSE IF l.req.header.main_cmd # COMBO_REQUEST_MAIN_CMD
            THEN l.ret = RET_OK /\ rsp.ret_code = l.ans.ret /\ Says(rsp, l.req, l.ans)
            ELSE IF l.ans.ret # 0 THEN l.ret = -1 /\ rsp.record_num = 0
            ELSE /\ rsp.record_num = n
                 /\ (l.ret = RET_OK) <=> (n = Len(l.ans.subs))
                 /\ (rsp.ret_code = 0) <=> (l.ret = RET_OK)
                 /\ IsDpCombo(l.req) =>
                      /\ \A i \in 1 .. n :
                           LET part == GetRsp(rsp, i - 1)[1]
                           IN  /\ part.cmd = l.ans.subs[i].cmd
                               /\ part.rsp.ret_code = l.ans.subs[i].ret
                               /\ Says(part.rsp, BaseDpReq(part.cmd, 0), l.ans.subs[i])
                      /\ IsAllCmdOK(rsp) <=> \A i \in 1 .. n : l.ans.subs[i].ret = 0
                 /\ IsAppCombo(l.req) =>
                      \A i \in 1 .. n :
                         LET p == SubAnswer(l.ans.subs[i])
                         IN  GetSubRsp(rsp, i - 1, Room).pack = SubSeq(p, 1, Len(p) - l.ans.subs[i].cut)

(* The cookie the client sent with the request whose response it parsed last  *)
(* tells it the flow to answer, also from an object used before; and no index *)
(* below the number of parts the object reports is beyond its list.           *)
FindsItsWay ==
    parsed # <<>> =>
        LET l == Last(parsed)
            c == CommCookieUnPack(CommCookie(0, 0, <<>>, <<>>), rsp.cookie)
        IN  /\ l.ret = RET_OK /\ ~IsAppCombo(l.req) => c.ret = 0 /\ c.c.flow = l.req.header.seq
            /\ Len(rsp.subs) > 0 => rsp.record_num <= Len(rsp.subs)
=============================================================================
