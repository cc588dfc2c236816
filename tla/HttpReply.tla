------------------------------ MODULE HttpReply ------------------------------
(***************************************************************************)
(* What the kernel module makes of one TCP segment of a user who is not    *)
(* logged in, kmod/src/cloud_wlan_http_reply.c, and of HTTP headers,       *)
(* kmod/src/cloud_wlan_hhparse.c. It keeps no connection: everything in an *)
(* answer is computed from the segment answered. No state, operators only. *)
(*                                                                         *)
(* Kept: which segments are answered, sequence numbers that wrap, the total*)
(* length that is read without ntohs, the checksum byte by byte. Not kept: *)
(* addresses, ports, options and the text of the page but for its length.  *)
(***************************************************************************)
EXTENDS Naturals, Sequences

CONSTANTS
  Base,       \* number of values of a byte
  SeqMod,     \* number of sequence numbers
  Headers,    \* bytes of the IP and the TCP header, ihl * 4 + doff * 4
  BigEndian   \* byte order of the AP's processor

ASSUME ReplyConstantsOK ==
  /\ Base \in Nat /\ Base >= 2 /\ BigEndian \in BOOLEAN
  /\ SeqMod \in Nat /\ SeqMod >= Base * Base /\ Headers \in Nat

Seqs == 0 .. SeqMod - 1
Flags == {"SYN", "ACK", "FIN", "PSH", "RST"}
\* What is in a packet's headers: the line looked for, the same longer than the room
\* for a host, other lines only, or lines that end beyond the packet, or in a CR
\* without a LF.
Heads == {"sought", "long", "plain", "cut"}

Plus(a, n) == IF a + n < SeqMod THEN a + n ELSE a + n - SeqMod
Minus(a, n) == IF a >= n THEN a - n ELSE SeqMod + a - n

\* A word whose bytes come in the order of the network, in a register.
Ntohs(w) == IF BigEndian THEN w ELSE (w % Base) * Base + w \div Base

\* data_len of reply_packet_tcphdr_data: tot_len is used as it is in the packet.
DataLenStale(s) == s.len + 1  \* mutant: one more than there is
DataLen(s) == Minus(Ntohs(Headers + s.len), Headers)

\* is_http_get_pkt.
IsGet(s) == DataLen(s) > 5 /\ s.get

\* reply_packet_tcphdr_data: the flags of the answer and what it acknowledges. RST,
\* data that do not begin a request and acknowledgements are not answered.
Drop == [kind |-> "DROP", flags |-> {}, ack |-> 0]

Answer(s) ==
  CASE s.flags = {"SYN"} ->
         [kind |-> "RESPONSE", flags |-> {"SYN", "ACK"}, ack |-> Plus(s.seq, 1)]
    [] s.flags \in {{"ACK"}, {"PSH", "ACK"}} /\ IsGet(s) ->
         [kind |-> "DATA", flags |-> {"ACK", "PSH", "FIN"}, ack |-> Plus(s.seq, DataLen(s))]
    [] s.flags \in {{"FIN"}, {"FIN", "ACK"}} ->
         [kind |-> "RESPONSE", flags |-> {"ACK"}, ack |-> Plus(s.seq, 1)]
    [] OTHER -> Drop

-----------------------------------------------------------------------------
(* Checksums.                                                              *)

WordMod == Base * Base
Joined(hi, lo) == hi * Base + lo
\* A u16 read from memory.
Loaded(first, second) == IF BigEndian THEN Joined(first, second) ELSE Joined(second, first)

\* while (sum >> 16): carries are added in again.
Folded(n) ==
  LET f[m \in Nat] == IF m < WordMod THEN m ELSE f[(m % WordMod) + (m \div WordMod)] IN f[n]

\* csum: u16 by u16; a last odd byte is added as it is.
csum(b) ==
  LET s[i \in 0 .. Len(b)] ==
        IF i = 0 THEN 0
        ELSE IF i % 2 = 0 THEN s[i - 2] + Loaded(b[i - 1], b[i])
        ELSE s[i - 1] + b[i]
  IN WordMod - 1 - Folded(s[Len(b)])

\* The receiver's sum (RFC 1071), in the order of the network, with a zero byte after
\* a last odd one.
Received(b) ==
  LET s[i \in 0 .. Len(b)] ==
        IF i = 0 THEN 0
        ELSE IF i % 2 = 0 THEN s[i - 2] + Joined(b[i - 1], b[i])
        ELSE s[i - 1] + Joined(b[i], 0)
  IN s[Len(b)]

\* The receiver accepts b with the checksum csum stored in it: all ones.
Verifies(b) == Folded(Received(b) + Ntohs(csum(b))) = WordMod - 1

\* ip_tcp_csum and tcpcsum: a segment with n bytes of data, none of them zero.
Sound(n) == Verifies([i \in 1 .. Headers + n |-> 1])

-----------------------------------------------------------------------------
(* Headers: how a search for a line of them can end.                       *)

\* The loop over lines, of cloud_wlan_get_http_header_info for "Host:". Headers that
\* are cut send it on into whatever follows, or round for ever.
Searched(p) ==
  CASE p.head \in {"sought", "long"} -> {"found"} [] p.head = "plain" -> {"none"}
    [] OTHER -> {"found", "none", "fault"}

\* cloud_wlan_http_skb_parse_reply, for "xnat:".
ParseReply(p) == Searched(p)

\* cloud_wlan_http_skb_parse_request: in a GET only; its length is too big by the IP
\* header, so four letters are enough. The host is copied as long as its line is into
\* 256 bytes on the stack.
ParseRequest(p) ==
  IF p.proto = "tcp" /\ p.port \in {80, 8080} /\ p.get
  THEN Searched(p) \cup (IF p.head = "long" THEN {"fault"} ELSE {})
  ELSE {"none"}
=============================================================================
