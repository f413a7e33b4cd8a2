--------------------------- MODULE ProxyProtocol ----------------------------
(***************************************************************************)
(* The PROXY header in front of the enrollment listener: a trusted load    *)
(* balancer names the real client in a few bytes before the TLS stream.    *)
(* TCP cuts the bytes into segments where it likes, and the header, the    *)
(* first bytes of the ClientHello or part of either may come in one piece. *)
(*                                                                         *)
(* A byte is a symbol: the prefix of v1 is P R, a v1 line is one field and *)
(* CR LF, the signature of v2 is CR LF Q; a v2 header goes on with a       *)
(* command and family, a length and that many bytes, the first of which is *)
(* the address.                                                            *)
(***************************************************************************)
EXTENDS Integers, Sequences, SequencesExt

CONSTANTS
    Conn,       \* connections
    Caller,     \* addresses of clients
    Balancer,   \* the address of the load balancer, the TCP peer
    Sends,      \* what a connection of each client may carry: sets of byte sequences
    V1Max,      \* V1_MAX_LEN
    V2MaxBody   \* V2_MAX_BODY

VARIABLES
    phase,   \* new, header, tls or closed
    caller,  \* the client that opened the connection through the balancer
    wire,    \* all the bytes the peer sends
    got,     \* how many of them have been delivered
    buf,     \* ProxyProtocolTLS._buf
    client,  \* the address HTTP sees, NoClient before TLS
    fed      \* bytes handed to TLS

connvars == <<phase, caller, wire, got, buf, client, fed>>

NoClient == "?"

V1Prefix    == <<"P", "R">>
V2Signature == <<"CR", "LF", "Q">>

BodyLength == [zero |-> 0, one |-> 1, two |-> 2, huge |-> V2MaxBody + 1]

(***************************************************************************)
(* parse_header                                                            *)
(***************************************************************************)

More          == [verdict |-> "more", client |-> NoClient, consumed |-> 0]
Bad           == [verdict |-> "bad", client |-> NoClient, consumed |-> 0]
Header(a, n)  == [verdict |-> "header", client |-> a, consumed |-> n]

StartsLike(s, b) == IsPrefix(s, b) \/ IsPrefix(b, s)

\* Mutant: the limit is applied to the buffer, not to the line.
LongBufferIsBad(b) == Len(b) >= V1Max

\* No CR LF within the first V1Max bytes, and no room for one.
TooLong(b) ==
    /\ Len(b) >= V1Max
    /\ \A i \in 1 .. V1Max - 1 : ~(b[i] = "CR" /\ b[i + 1] = "LF")

ParseV1(b) ==
    LET ends == {i \in 1 .. Len(b) - 1 : i < V1Max /\ b[i] = "CR" /\ b[i + 1] = "LF"}
        end  == CHOOSE i \in ends : \A k \in ends : i <= k
        line == SubSeq(b, Len(V1Prefix) + 1, end - 1)
    IN  CASE ~StartsLike(V1Prefix, b)                  -> Bad
          [] StartsLike(V1Prefix, b) /\ TooLong(b)     -> Bad
          [] OTHER ->
               IF ends = {} THEN More
               ELSE CASE line # <<>> /\ line[1] = "UNKNOWN"      -> Header(Balancer, end + 1)
                      [] Len(line) = 1 /\ line[1] \in Caller     -> Header(line[1], end + 1)
                      [] OTHER                                   -> Bad

ParseV2(b) ==
    LET fixed  == Len(V2Signature) + 2
        family == b[fixed - 1]
        length == IF b[fixed] \in DOMAIN BodyLength THEN BodyLength[b[fixed]] ELSE 0
        named  == family = "TCP"
    IN  IF ~StartsLike(V2Signature, b) THEN Bad
        ELSE IF Len(b) < fixed THEN More
        ELSE IF \/ family \notin {"TCP", "LOCAL", "UNSPEC"}
                \/ length > V2MaxBody
                \/ named /\ length = 0                       THEN Bad
        ELSE IF Len(b) < fixed + length THEN More
        ELSE Header(IF named THEN b[fixed + 1] ELSE Balancer, fixed + length)

ParseHeader(b) ==
    CASE b = <<>>                 -> More
      [] b # <<>> /\ b[1] = "P"   -> ParseV1(b)
      [] b # <<>> /\ b[1] = "CR"  -> ParseV2(b)
      [] OTHER                    -> Bad

\* The balancer names the client whose connection it passes on, or nobody.
ASSUME ProxyAssumption ==
    /\ V1Max \in Nat /\ V2MaxBody \in Nat
    /\ Balancer \notin Caller /\ NoClient \notin Caller \cup {Balancer}
    /\ \A a \in Caller : \A s \in Sends[a] :
          /\ s \in Seq(ToSet(s))
          /\ ParseHeader(s).verdict = "header" => ParseHeader(s).client \in {a, Balancer}

(***************************************************************************)
(* A connection                                                            *)
(***************************************************************************)

ConnTypeOK ==
    /\ phase \in [Conn -> {"new", "header", "tls", "closed"}]
    /\ caller \in [Conn -> Caller]
    /\ client \in [Conn -> Caller \cup {Balancer, NoClient}]
    /\ \A c \in Conn : phase[c] = "tls" => client[c] # NoClient

ConnInit ==
    /\ phase = [c \in Conn |-> "new"]
    /\ caller \in [Conn -> Caller]
    /\ wire = [c \in Conn |-> <<>>] /\ buf = wire /\ fed = wire
    /\ got = [c \in Conn |-> 0]
    /\ client = [c \in Conn |-> NoClient]

\* connection_made: a peer outside ENROLL_PROXY_TRUSTED_CIDRS is cut off.
Connect(c, trusted) ==
    /\ phase[c] = "new"
    /\ phase' = [phase EXCEPT ![c] = IF trusted THEN "header" ELSE "closed"]
    /\ \E s \in Sends[caller[c]] : wire' = [wire EXCEPT ![c] = s]
    /\ UNCHANGED <<caller, got, buf, client, fed>>

\* Mutant: the bytes that came with the header are dropped.
StartTLSEmpty(c, h, b) ==
    /\ phase' = [phase EXCEPT ![c] = "tls"]
    /\ client' = [client EXCEPT ![c] = h.client]
    /\ UNCHANGED fed
    /\ buf' = [buf EXCEPT ![c] = <<>>]

\* Mutant: HTTP keeps the address of the socket's peer.
StartTLSAsPeer(c, h, b) ==
    /\ phase' = [phase EXCEPT ![c] = "tls"]
    /\ client' = [client EXCEPT ![c] = Balancer]
    /\ fed' = [fed EXCEPT ![c] = SubSeq(b, h.consumed + 1, Len(b))]
    /\ buf' = [buf EXCEPT ![c] = <<>>]

\* Mutant: TLS starts before the header has named the client.
StartTLSUnnamed(c, h, b) ==
    /\ phase' = [phase EXCEPT ![c] = "tls"]
    /\ fed' = [fed EXCEPT ![c] = SubSeq(b, h.consumed + 1, Len(b))]
    /\ buf' = [buf EXCEPT ![c] = <<>>]
    /\ UNCHANGED client

\* What came after the header is the start of the TLS stream.
StartTLS(c, h, b) ==
    /\ phase' = [phase EXCEPT ![c] = "tls"]
    /\ client' = [client EXCEPT ![c] = h.client]
    /\ fed' = [fed EXCEPT ![c] = SubSeq(b, h.consumed + 1, Len(b))]
    /\ buf' = [buf EXCEPT ![c] = <<>>]

\* A segment of n bytes arrives; past the header TLS has the transport.
DataReceived(c, n) ==
    /\ got' = [got EXCEPT ![c] = @ + n]
    /\ LET data == SubSeq(wire[c], got[c] + 1, got[c] + n)
           b    == buf[c] \o data
           h    == ParseHeader(b)
       IN  \/ /\ phase[c] = "tls"
              /\ fed' = [fed EXCEPT ![c] = @ \o data]
              /\ UNCHANGED <<phase, client, buf>>
           \/ /\ phase[c] = "header" /\ h.verdict = "more"
              /\ buf' = [buf EXCEPT ![c] = b]
              /\ UNCHANGED <<phase, client, fed>>
           \/ /\ phase[c] = "header" /\ h.verdict = "bad"
              /\ phase' = [phase EXCEPT ![c] = "closed"]
              /\ buf' = [buf EXCEPT ![c] = b]
              /\ UNCHANGED <<client, fed>>
           \/ /\ phase[c] = "header" /\ h.verdict = "header"
              /\ StartTLS(c, h, b)
    /\ UNCHANGED <<caller, wire>>

\* _on_timeout while the header is incomplete, or the peer hangs up.
Drop(c) ==
    /\ phase[c] \in {"header", "tls"}
    /\ phase' = [phase EXCEPT ![c] = "closed"]
    /\ wire' = [wire EXCEPT ![c] = <<>>]
    /\ got' = [got EXCEPT ![c] = 0]
    /\ buf' = [buf EXCEPT ![c] = <<>>]
    /\ client' = [client EXCEPT ![c] = NoClient]
    /\ fed' = [fed EXCEPT ![c] = <<>>]
    /\ UNCHANGED caller

ConnNext ==
    \E c \in Conn :
        \/ Connect(c, TRUE) \/ Connect(c, FALSE)
        \/ \E n \in 1 .. Len(wire[c]) - got[c] : DataReceived(c, n)
        \/ Drop(c)

ConnSpec == ConnInit /\ [][ConnNext]_connvars

\* Where TCP cuts the bytes makes no difference: HTTP sees the client, and TLS
\* the bytes, that the header in the uncut stream says, none lost and none
\* twice; and a connection refused for its header has one that is bad uncut.
HeaderReadOnce ==
    \A c \in Conn :
        LET h == ParseHeader(wire[c])
        IN  /\ phase[c] = "tls" =>
                 /\ h.verdict = "header" /\ client[c] = h.client
                 /\ fed[c] = SubSeq(wire[c], h.consumed + 1, got[c])
            /\ phase[c] = "closed" /\ buf[c] # <<>> => h.verdict = "bad"
=============================================================================
