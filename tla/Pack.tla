-------------------------------- MODULE Pack --------------------------------
(* The packets of libprotocol (protocol_pack.h, protocol_pack.cpp): a header  *)
(* of 29 bytes, a body, an optional cookie behind the body, and an end mark.  *)
(*                                                                            *)
(* A packet is the sequence of its bytes.  A byte has Radix values instead of *)
(* 256: a Word then counts to Radix^2 - 1 and a DWord to Radix^4 - 1, so that *)
(* lengths reach the limits of their fields in small packets.  Offsets are    *)
(* the code's (from 0); the byte at offset i is p[i + 1].                     *)
EXTENDS Integers, Sequences, SequencesExt

CONSTANT Radix          \* values of a byte

ASSUME RadixAssumption == Radix \in Nat /\ Radix >= 8

\* what the powers of Radix are, up to that of the widest number
ASSUME PowerAssumption == /\ Radix ^ 0 = 1
                          /\ \A n \in 0 .. 7 : Radix ^ (n + 1) = Radix * Radix ^ n

Byte == 0 .. Radix - 1

STR_END == 0            \* the end of a packed string
MAIN_VER == 1
SUB_VER == 0
SOH == 2                \* 'J', the first byte of a packet
EOT == 3                \* 'W', the last one
ENC_TYPE_NONE == 0
ENC_TYPE_TEA == 1
MSG_HEADER_LEN == 29
MaxWord == Radix ^ 2 - 1

RET_OK == 0
ERR_PROTOCOL == 1
ERR_ENC_TYPE == 2
ERR_PROTOCOL_VER == 3

-----------------------------------------------------------------------------
(* Numbers in network order, w bytes wide; a larger value is truncated.       *)

Net(v, w) == [i \in 1 .. w |-> (v \div Radix ^ (w - i)) % Radix]

Host(s) ==
    LET value[i \in 0 .. Len(s)] == IF i = 0 THEN 0 ELSE value[i - 1] * Radix + s[i]
    IN  value[Len(s)]

At(p, pos, w) == Host(SubSeq(p, pos + 1, pos + w))

Put(p, pos, s) == SubSeq(p, 1, pos) \o s \o SubSeq(p, pos + Len(s) + 1, Len(p))

(* A double is packed as the text of "%f": doubles that agree in six decimals *)
(* have the same text (here two neighbours), which atof maps to one of them.  *)
RealText(v) == Net(v \div 2 + 1, 1)
Atof(s) == 2 * (Host(s) - 1)

(* xxtea works on whole words of 4 bytes, at least two of them; what is left  *)
(* over stays in clear.  The cipher is replaced by a shift that depends, as   *)
(* xxtea does, on the key and on the number of words.                         *)
Xxtea(s, key, sign) ==
    LET n == Len(s) \div 4
    IN  [i \in DOMAIN s |-> IF n > 1 /\ i <= 4 * n
                            THEN (s[i] + sign * (key + n)) % Radix ELSE s[i]]

-----------------------------------------------------------------------------
(* The header, and the accessors of a packet in a buffer.                     *)

MsgHeader == [soh |-> SOH, main_ver |-> MAIN_VER, sub_ver |-> SUB_VER,
              main_cmd |-> 0, sub_cmd |-> 0, seq |-> 0, from_uin |-> 0,
              to_uin |-> 0, enc_type |-> ENC_TYPE_NONE, source_type |-> 1,
              rev |-> 0]

PackHeader(h, body_size) ==
    <<h.soh, h.main_ver, h.sub_ver>> \o Net(MSG_HEADER_LEN + body_size + 1, 4)
      \o Net(h.main_cmd, 2) \o Net(h.sub_cmd, 2) \o Net(h.seq, 4)
      \o Net(h.from_uin, 4) \o Net(h.to_uin, 4)
      \o <<h.enc_type, h.source_type>> \o Net(h.rev, 4)

GetHeader(p) ==
    [soh |-> p[1], main_ver |-> p[2], sub_ver |-> p[3], pack_len |-> At(p, 3, 4),
     main_cmd |-> At(p, 7, 2), sub_cmd |-> At(p, 9, 2), seq |-> At(p, 11, 4),
     from_uin |-> At(p, 15, 4), to_uin |-> At(p, 19, 4), enc_type |-> p[24],
     source_type |-> p[25], rev |-> At(p, 25, 4)]

GetPackLen(p) == At(p, 3, 4)
SetPackLen(p, len) == Put(p, 3, Net(len, 4))
SetPackCmd(p, main, sub) == Put(p, 7, Net(main, 2) \o Net(sub, 2))
GetPackCmd(p) == <<At(p, 7, 2), At(p, 9, 2)>>
SetSequence(p, seq) == Put(p, 11, Net(seq, 4))
SetUins(p, from, to) == Put(p, 15, Net(from, 4) \o Net(to, 4))
GetEncType(p) == p[24]
SetEncType(p, type) == Put(p, 23, <<type>>)

(* The reserve is the first byte of rev, the cookie's offset the other three. *)
SetReserve(p, rev) == Put(p, 25, <<rev>>)
GetReserve(p) == p[26]
SetCookiePos(p, pos) == Put(p, 26, Net(pos, 3))
GetCookiePos(p) == At(p, 26, 3)

-----------------------------------------------------------------------------
(* The cookie: its length and its bytes, between the body and the end mark.   *)

\* mutant of SetCookie: the length of the old cookie is not taken off
SetCookie_KeepsOld(p, len, ck) ==
    LET ck_pos == GetCookiePos(p)
        pack_len == GetPackLen(p)
        at == IF ck_pos = 0 THEN pack_len - 1 ELSE ck_pos
        total == pack_len + 2 + Len(ck)
        q == SubSeq(p, 1, at) \o Net(Len(ck), 2) \o ck \o <<EOT>>
    IN  IF len < total THEN [ret |-> -1, p |-> p]
        ELSE [ret |-> total, p |-> SetPackLen(SetCookiePos(q, pack_len - 1), total)]

(* In a buffer of len bytes: a cookie the packet has already is replaced.     *)
SetCookie(p, len, ck) ==
    LET ck_pos == GetCookiePos(p)
        pack_len == GetPackLen(p) - (IF ck_pos = 0 THEN 0 ELSE 2 + At(p, ck_pos, 2))
        at == IF ck_pos = 0 THEN pack_len - 1 ELSE ck_pos
        total == pack_len + 2 + Len(ck)
        q == SubSeq(p, 1, at) \o Net(Len(ck), 2) \o ck \o <<EOT>>
    IN  IF Len(ck) > MaxWord THEN [ret |-> -2, p |-> p]
        ELSE IF len < total THEN [ret |-> -1, p |-> p]
        ELSE [ret |-> total, p |-> SetPackLen(SetCookiePos(q, pack_len - 1), total)]

(* room: the size of the caller's buffer.                                     *)
GetCookie(p, room) ==
    LET ck_pos == GetCookiePos(p)
        ck_len == At(p, ck_pos, 2)
    IN  IF ck_pos = 0 THEN [ret |-> 0, ck |-> <<>>]
        ELSE IF room < ck_len THEN [ret |-> -1, ck |-> <<>>]
        ELSE [ret |-> 0, ck |-> SubSeq(p, ck_pos + 3, ck_pos + 2 + ck_len)]

DelCookie(p) ==
    LET pack_len == GetPackLen(p)
        ck_pos == GetCookiePos(p)
        left == pack_len - (2 + At(p, ck_pos, 2))
    IN  IF ck_pos <= MSG_HEADER_LEN \/ ck_pos >= pack_len THEN p
        ELSE SetPackLen(SetCookiePos(SubSeq(p, 1, ck_pos) \o <<EOT>>, 0), left)

-----------------------------------------------------------------------------
(* Packer: an unbounded stream.  Each call appends one chunk of bytes.        *)

PackByte(v) == Net(v, 1)
PackWord(v) == Net(v, 2)
PackDWord(v) == Net(v, 4)
PackQWord(v) == Net(v, 8)
PackString(s) == s \o <<STR_END>>
PackReal(v) == PackString(RealText(v))
PackBinary(s) == s

GetBody(chunks) == FlattenSeq(chunks)

GetPack(h, body) == PackHeader(h, Len(body)) \o body \o <<EOT>>

GetPackKey(h, body, key) ==
    GetPack(h, IF h.enc_type = ENC_TYPE_TEA THEN Xxtea(body, key, 1) ELSE body)

GetPackCookie(h, body, ck) ==
    LET p == PackHeader(h, Len(body)) \o body \o Net(Len(ck), 2) \o ck \o <<EOT>>
    IN  SetPackLen(SetCookiePos(p, MSG_HEADER_LEN + Len(body)), Len(p))

EncryptPack(p, key) ==
    IF Len(p) <= MSG_HEADER_LEN + 1 \/ GetEncType(p) # ENC_TYPE_TEA THEN p
    ELSE Put(p, MSG_HEADER_LEN, Xxtea(SubSeq(p, MSG_HEADER_LEN + 1, Len(p) - 1), key, 1))

(* FixedPacker: the same calls on a buffer of len bytes.  A chunk that does   *)
(* not fit sets the error and is left out; later ones are still tried.        *)
FixedInit(len) == [body |-> <<>>, len |-> len,
                   err |-> IF len < MSG_HEADER_LEN + 1 THEN ERR_PROTOCOL ELSE 0]

LeftSpace(f) == f.len - (MSG_HEADER_LEN + Len(f.body))

\* mutant of FixedPack: no error is set
FixedPack_Silent(f, chunk) ==
    IF LeftSpace(f) < Len(chunk) THEN f ELSE [f EXCEPT !.body = @ \o chunk]

FixedPack(f, chunk) ==
    IF LeftSpace(f) < Len(chunk) THEN [f EXCEPT !.err = ERR_PROTOCOL]
    ELSE [f EXCEPT !.body = @ \o chunk]

\* the packer after all the calls
FixedCalls(f, chunks) ==
    LET done[i \in 0 .. Len(chunks)] ==
          IF i = 0 THEN f ELSE FixedPack(done[i - 1], chunks[i])
    IN  done[Len(chunks)]

(* The end mark needs a byte of its own, and nothing reserves it: a body that *)
(* fills the buffer gives a packet one byte longer than the buffer.           *)
FixedGetPack(f, h) == IF f.err # 0 THEN <<>> ELSE GetPack(h, f.body)

-----------------------------------------------------------------------------
(* UnPacker: u.data is what was received, which may be more than the packet;  *)
(* the body is taken to end one byte before the end of the data.              *)

CheckPack(data) ==
    IF Len(data) < MSG_HEADER_LEN + 1 THEN ERR_PROTOCOL
    ELSE IF data[1] # SOH THEN ERR_PROTOCOL
    ELSE IF data[2] # MAIN_VER THEN ERR_PROTOCOL_VER
    ELSE IF GetPackLen(data) > Len(data) THEN ERR_PROTOCOL
    ELSE IF data[GetPackLen(data)] # EOT THEN ERR_PROTOCOL
    ELSE RET_OK

(* v is the value the last call returned.                                     *)
UnPackerInit(data) ==
    [data |-> data, off |-> 0, len |-> Len(data) - MSG_HEADER_LEN - 1,
     err |-> RET_OK, v |-> 0, s |-> <<>>, ok |-> TRUE]

(* The bound of UnPackByte is one too large: the byte behind the body passes. *)
UnPackByte(u) ==
    IF u.off > u.len THEN [u EXCEPT !.err = ERR_PROTOCOL, !.v = 0]
    ELSE [u EXCEPT !.off = @ + 1, !.v = u.data[MSG_HEADER_LEN + u.off + 1]]

UnPackNum(u, w) ==
    IF u.off + w > u.len THEN [u EXCEPT !.err = ERR_PROTOCOL, !.v = 0]
    ELSE [u EXCEPT !.off = @ + w, !.v = At(u.data, MSG_HEADER_LEN + u.off, w)]

UnPackWord(u) == UnPackNum(u, 2)
UnPackDWord(u) == UnPackNum(u, 4)

(* s is what the last UnPackBinary or UnPackString found, ok whether it did.  *)
(* The sum is a DWord, and wraps for a len near the end of its range: that    *)
(* passes, and the bytes taken are no bytes of the data.                      *)
UnPackBinary(u, len) ==
    LET end == (u.off + len) % Radix ^ 4
    IN  IF end > u.len THEN [u EXCEPT !.err = ERR_PROTOCOL, !.s = <<>>, !.ok = FALSE]
        ELSE [u EXCEPT !.off = end, !.ok = TRUE,
                   !.s = SubSeq(u.data, MSG_HEADER_LEN + u.off + 1,
                                        MSG_HEADER_LEN + u.off + len)]

(* A string whose end is not found is empty, and no error.                    *)
UnPackString(u) ==
    LET from == MSG_HEADER_LEN + u.off
        end == SelectInSubSeq(u.data, from + 1, MSG_HEADER_LEN + u.len,
                              LAMBDA b : b = STR_END)
    IN  IF end = 0 THEN [u EXCEPT !.s = <<>>, !.ok = FALSE]
        ELSE [u EXCEPT !.off = end - MSG_HEADER_LEN, !.ok = TRUE,
                       !.s = SubSeq(u.data, from + 1, end - 1)]

UnPackReal(u) ==
    LET w == UnPackString(u)
    IN  [w EXCEPT !.v = IF w.s = <<>> THEN 0 ELSE Atof(w.s)]

DecryptPack(p, key) ==
    IF Len(p) <= MSG_HEADER_LEN + 1 \/ GetEncType(p) # ENC_TYPE_TEA THEN p
    ELSE Put(p, MSG_HEADER_LEN, Xxtea(SubSeq(p, MSG_HEADER_LEN + 1, Len(p) - 1), key, -1))

(* Decrypt works in the caller's buffer, DumpDecrypt on a copy: to what is    *)
(* unpacked afterwards they are the same.                                     *)
Decrypt(u, key) ==
    IF GetEncType(u.data) \notin {ENC_TYPE_NONE, ENC_TYPE_TEA}
    THEN [ret |-> ERR_ENC_TYPE, u |-> u]
    ELSE [ret |-> RET_OK, u |-> [u EXCEPT !.data = DecryptPack(@, key)]]
=============================================================================
