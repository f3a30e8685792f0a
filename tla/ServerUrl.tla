------------------------------ MODULE ServerUrl ------------------------------
(***************************************************************************)
(* From the server's URL to the head of a request.  The settings validate  *)
(* the URL when it is saved (settings_store.c); the protocol client takes  *)
(* it apart when a sync begins (kosync.c); the HTTP client validates what  *)
(* is left and builds the request (netsimple.c).  Each has rules and       *)
(* limits of its own.                                                      *)
(*                                                                         *)
(* A URL is its scheme and a sequence of pieces; a piece is a run of n     *)
(* characters of a kind, a run of digits has a value as well.              *)
(***************************************************************************)
EXTENDS Naturals, Sequences

CONSTANTS
    Schemes,    \* "http", "https", "other"
    Pieces,     \* [kind, n, value]
    MaxPieces,
    Names,      \* lengths of the user name, and of the key
    Bodies      \* digits of the length of a body

Plain == {"text", "digits", "colon", "slash", "path"}   \* "path" is "/text"
Odd == {"at", "query", "backslash", "space", "high"}

PiecesAssumption ==
    /\ Schemes \subseteq {"http", "https", "other"}
    /\ Pieces \subseteq [kind : Plain \cup Odd, n : Nat \ {0}, value : Nat]
    /\ MaxPieces \in Nat
LengthsAssumption == Names \subseteq Nat /\ Bodies \subseteq 0 .. 20   \* of a size_t

VARIABLES scheme, rest
vars == <<scheme, rest>>

KindsOf(s) == {s[i].kind : i \in DOMAIN s}

Length(s) ==
    LET upto[i \in 0 .. Len(s)] == IF i = 0 THEN 0 ELSE upto[i - 1] + s[i].n
    IN upto[Len(s)]

(* Digits after digits; a value above 65535 stays there. *)
Number(s) ==
    LET then(v, d) == IF v = 0 THEN d.value
                      ELSE IF v > 65535 \/ d.n > 4 THEN 65536
                      ELSE v * <<10, 100, 1000, 10000>>[d.n] + d.value
        upto[i \in 0 .. Len(s)] == IF i = 0 THEN 0 ELSE then(upto[i - 1], s[i])
    IN upto[Len(s)]

FirstOf(s, kinds) ==
    CHOOSE i \in 1 .. Len(s) + 1 :
        /\ i > Len(s) \/ s[i].kind \in kinds
        /\ \A j \in 1 .. i - 1 : s[j].kind \notin kinds

Authority(s) == SubSeq(s, 1, FirstOf(s, {"slash", "path"}) - 1)
PathOf(s) == SubSeq(s, FirstOf(s, {"slash", "path"}), Len(s))
HostOf(s) == SubSeq(Authority(s), 1, FirstOf(Authority(s), {"colon"}) - 1)
HasPort(s) == "colon" \in KindsOf(Authority(s))
PortOf(s) == SubSeq(Authority(s), Len(HostOf(s)) + 2, Len(Authority(s)))

-----------------------------------------------------------------------------
(* The settings. *)

Ports == 1 .. 65535

decimal_port_valid(s) ==
    Length(s) \in 1 .. 5 /\ KindsOf(s) = {"digits"} /\ Number(s) \in Ports

base_url_valid(sch, s) ==
    /\ sch = "https"
    /\ KindsOf(s) \cap Odd = {}
    /\ Length(HostOf(s)) \in 1 .. 255
    /\ "colon" \notin KindsOf(PortOf(s))
    /\ HasPort(s) => decimal_port_valid(PortOf(s))
    /\ Length(PathOf(s)) <= 1024

(* cn_settings_validate, of an enabled account. *)
Saved(sch, s) == Length(s) + 8 <= 1296 /\ base_url_valid(sch, s)

-----------------------------------------------------------------------------
(* The HTTP client. *)
cn_netsimple_parse_port(s) ==
    KindsOf(s) = {"digits"} /\ Length(s) \in 1 .. 8 /\ Number(s) \in Ports

host_text_ok(s) ==
    /\ Length(s) \in 1 .. 255
    /\ KindsOf(s) \cap {"space", "slash", "path", "backslash"} = {}

cn_netsimple_validate(host, port, path) ==
    /\ host_text_ok(host)
    /\ cn_netsimple_parse_port(port)
    /\ Head(path).kind \in {"slash", "path"}
    /\ KindsOf(path) \cap {"space", "backslash"} = {}
    /\ Length(path) <= 2048

-----------------------------------------------------------------------------
(* The protocol client. *)
Slash == [kind |-> "slash", n |-> 1, value |-> 0]
DefaultPort(tls) ==
    <<[kind |-> "digits", n |-> IF tls THEN 3 ELSE 2,
       value |-> IF tls THEN 443 ELSE 80]>>

copy_url_part(s, cap) == Length(s) \in 1 .. cap - 1

(* The slashes at the end of the path are taken off. *)
Trimmed(s) ==
    SubSeq(s, 1, CHOOSE k \in 0 .. Len(s) :
                     /\ k = 0 \/ s[k].kind # "slash"
                     /\ \A j \in k + 1 .. Len(s) : s[j].kind = "slash")

(* Mutant: the limit of the HTTP client is taken for its own. *)
PathFits_in_request(path) == Length(path) <= 2048

PathFits(path) == Length(path) <= 1024

ClientOf(sch, s) ==
    [tls |-> sch = "https",
     host |-> HostOf(s),
     port |-> IF HasPort(s) THEN PortOf(s) ELSE DefaultPort(sch = "https"),
     base_path |-> Trimmed(PathOf(s))]

cn_kosync_client_init(sch, s, user, key) ==
    LET c == ClientOf(sch, s) IN
    /\ user \in 1 .. 255 /\ key \in 1 .. 255
    /\ sch \in {"http", "https"}
    /\ Authority(s) # << >>
    /\ KindsOf(Authority(s)) \cap {"at", "query"} = {}
    /\ copy_url_part(c.host, 256)
    /\ HasPort(s) => copy_url_part(c.port, 9)
    /\ cn_netsimple_parse_port(c.port)
    /\ "query" \notin KindsOf(PathOf(s))
    /\ PathFits(PathOf(s))
    /\ cn_netsimple_validate(
           c.host, c.port,
           IF c.base_path = << >> THEN <<Slash>> ELSE c.base_path)

-----------------------------------------------------------------------------
(* The operations: the suffix of the endpoint, its method and whether there *)
(* is a body.                                                               *)
Operations ==
    {[suffix |-> 11, put |-> FALSE],    \* GET /users/auth
     [suffix |-> 48, put |-> FALSE],    \* GET /syncs/progress/<32 digits>
     [suffix |-> 15, put |-> TRUE]}     \* PUT /syncs/progress

endpoint_path(c, o) ==
    c.base_path \o <<[kind |-> "path", n |-> o.suffix, value |-> 0]>>

EndpointFits(c, o) == Length(endpoint_path(c, o)) < 2048 + 1

(* The length of what append_text puts together, line by line. *)
HeadLength(c, o, user, key, body) ==
    LET names_port == c.port # DefaultPort(c.tls)
        request_line == 4 + Length(endpoint_path(c, o)) + 11
        host_line == 6 + Length(c.host)
                     + (IF names_port THEN 1 + Length(c.port) ELSE 0) + 2
        accept == 8 + 32 + 2
        auth == (13 + user + 2) + (12 + key + 2)
        content == IF o.put THEN (14 + 16 + 2) + (16 + body + 2) ELSE 0
    IN request_line + host_line + accept + auth + content + 2

cn_netsimple_build_exchange_request(c, o, user, key, body) ==
    /\ cn_netsimple_validate(c.host, c.port, endpoint_path(c, o))
    /\ user <= 2048 /\ key <= 2048
    /\ HeadLength(c, o, user, key, body) < 4096

-----------------------------------------------------------------------------
Init == scheme \in Schemes /\ rest = << >>

(* One more piece; a character that some rule forbids is the last one. *)
Next ==
    /\ Len(rest) < MaxPieces
    /\ KindsOf(rest) \cap Odd = {}
    /\ \E p \in Pieces :
          rest' = Append(rest, p)
    /\ UNCHANGED scheme

Spec == Init /\ [][Next]_vars
-----------------------------------------------------------------------------
(* What the settings accept, the protocol client takes, over TLS, and both  *)
(* mean the same host and port: an account that was saved never fails later *)
(* as an unusable client.                                                   *)
SavedUrlIsUsable ==
    Saved(scheme, rest) =>
        /\ \A name \in Names \cap 1 .. 255 :
              cn_kosync_client_init(scheme, rest, name, name)
        /\ ClientOf(scheme, rest).tls

(* Once a client is initialised, every operation's path and request fit the *)
(* buffers they are built in, with the longest name and key: no operation   *)
(* ends as INVALID halfway through a sync.                                  *)
RequestsFit ==
    \A name \in Names :
        cn_kosync_client_init(scheme, rest, name, name) =>
            \A o \in Operations, body \in Bodies :
                LET c == ClientOf(scheme, rest) IN
                /\ EndpointFits(c, o)
                /\ cn_netsimple_build_exchange_request(c, o, name, name, body)

(* What is copied into the client's arrays fits them with its terminator    *)
(* (256 bytes for the host, 9 for the port, 1025 for the path).             *)
PartsFit ==
    \A name \in Names :
        cn_kosync_client_init(scheme, rest, name, name) =>
            LET c == ClientOf(scheme, rest) IN
            /\ Length(c.host) < 256
            /\ Length(c.port) < 9
            /\ Length(c.base_path) < 1025

(* The endpoint follows the base path with one slash: the server sees       *)
(* /base/users/auth however the URL was written.                            *)
OneSlashBeforeEndpoint ==
    \A name \in Names :
        cn_kosync_client_init(scheme, rest, name, name) =>
            LET path == ClientOf(scheme, rest).base_path
            IN path # << >> => path[Len(path)].kind # "slash"
=============================================================================
