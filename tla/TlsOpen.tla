------------------------------- MODULE TlsOpen -------------------------------
(***************************************************************************)
(* cn_tls_open of net/tlssimple.c, up to the handshake (TlsConnection has  *)
(* the rest): the trust anchors are read from a PEM file, handed to        *)
(* BearSSL, and entropy is gathered before the deadline.                   *)
(*                                                                         *)
(* A CA file is its size, in blocks, the PEM objects in it and how it ends.*)
(***************************************************************************)
EXTENDS Naturals, Sequences, SequencesExt

CONSTANTS
    FileCap,        \* CN_TLS_CA_MAX_BYTES, in blocks
    MaxAnchors,     \* CN_TLS_MAX_ANCHORS
    EntropyMin,     \* CN_TLS_ENTROPY_MIN_BYTES, in blocks
    MaxObjects      \* objects of a file

BoundsAssumption ==
    {FileCap, MaxAnchors, EntropyMin} \subseteq Nat \ {0} /\ MaxObjects \in Nat

Contents == {"rsa", "ec", "empty", "long", "long name", "long key", "no key", "garbage"}
Names == {"CERTIFICATE", "CERTIFICATE REQUEST"}
Objects == [name : {"CERTIFICATE"}, content : Contents]
           \cup {[name |-> "CERTIFICATE REQUEST", content |-> "garbage"]}

Files ==
    [size : 1 .. FileCap, end : {"clean", "in object", "error"},
     objects : SeqOf(Objects, MaxObjects)]
    \cup [size : {0}, end : {"clean"}, objects : {<< >>}]
    \cup [size : {FileCap + 1}, end : {"clean"}, objects : SeqOf(Objects, 1)]

VARIABLES
    ca,             \* the file
    own_source,     \* the configuration names an entropy source
    pc,
    total,          \* blocks read
    next,           \* the object that is decoded next
    count,          \* anchors loaded
    anchors,        \* conn->anchors: the objects they come from
    have,           \* entropy gathered
    files,          \* temporary descriptors that are open
    connection,     \* the caller's descriptor is open
    expired,        \* the deadline has passed
    result

loading == <<total, next, count, anchors>>
vars == <<ca, own_source, pc, loading, have, files, connection, expired, result>>

Init ==
    /\ ca \in Files
    /\ own_source \in BOOLEAN
    /\ pc = "begin"
    /\ total = 0
    /\ next = 1
    /\ count = 0
    /\ anchors = << >>
    /\ have = 0
    /\ files = {}
    /\ connection = TRUE
    /\ expired = FALSE
    /\ result = "none"

Expire ==
    /\ pc # "done"
    /\ ~ expired
    /\ expired' = TRUE
    /\ UNCHANGED <<ca, own_source, pc, loading, have, files, connection, result>>

Config == UNCHANGED <<ca, own_source, expired>>

(* The caller's descriptor is closed with every failure. *)
Fail(r) ==
    /\ pc' = "done"
    /\ result' = r
    /\ connection' = FALSE
    /\ files' = {}

Going == UNCHANGED <<connection, result>>

Begin ==
    /\ pc = "begin"
    /\ Config
    /\ \/ Fail("INVALID")
       \/ Fail("INTERNAL")
       \/ Fail("INVALID_CA")
       \/ pc' = "read" /\ files' = {"ca"} /\ Going
    /\ UNCHANGED <<loading, have>>

-----------------------------------------------------------------------------
(* read_bounded_file: until the end, or until the array is full; then one   *)
(* more byte is asked for.                                                  *)

(* Mutant: what fills the array is taken for the whole file. *)
FileEnds_unprobed == total = ca.size \/ total = FileCap

FileEnds == total = ca.size

Read ==
    /\ pc = "read"
    /\ Config
    /\ \/ Fail("INVALID_CA") /\ UNCHANGED loading
       \/ /\ \E n \in 1 .. FileCap - total :
                total + n <= ca.size /\ total' = total + n
          /\ UNCHANGED <<pc, files, next, count, anchors>>
          /\ Going
       \/ /\ FileEnds
          /\ pc' = "pem"
          /\ files' = {}
          /\ UNCHANGED loading
          /\ Going
       \/ total = FileCap /\ ~ FileEnds /\ Fail("INVALID_CA") /\ UNCHANGED loading
    /\ UNCHANGED have

(* load_anchors: the objects of the file, one after the other. *)
is_pem_certificate(o) == o.name = "CERTIFICATE"

decode_anchor(o) == o.content \in {"rsa", "ec"}

Room == count < MaxAnchors

Object ==
    /\ pc = "pem"
    /\ next <= Len(ca.objects)
    /\ Config
    /\ LET o == ca.objects[next] IN
       \/ /\ is_pem_certificate(o)
          /\ Room /\ decode_anchor(o)
          /\ count' = count + 1
          /\ anchors' = Append(anchors, next)
          /\ next' = next + 1
          /\ UNCHANGED <<pc, files, total>>
          /\ Going
       \/ /\ is_pem_certificate(o)
          /\ ~ (Room /\ decode_anchor(o))
          /\ Fail("INVALID_CA")
          /\ UNCHANGED loading
       \/ /\ ~ is_pem_certificate(o)
          /\ next' = next + 1
          /\ UNCHANGED <<pc, files, total, count, anchors>>
          /\ Going
    /\ UNCHANGED have

PemEnds ==
    /\ pc = "pem"
    /\ next > Len(ca.objects)
    /\ Config
    /\ IF ca.end # "clean" \/ count = 0
       THEN Fail("INVALID_CA")
       ELSE pc' = "clock" /\ UNCHANGED files /\ Going
    /\ UNCHANGED <<loading, have>>

(* The clock is read after BearSSL has been given the anchors.  *)
Clock ==
    /\ pc = "clock"
    /\ Config
    /\ \/ Fail("INTERNAL")
       \/ pc' = (IF own_source THEN "open" ELSE "ready") /\ UNCHANGED files /\ Going
    /\ UNCHANGED <<loading, have>>

-----------------------------------------------------------------------------
(* wait_for_entropy_ready and read_entropy. *)
Ready ==
    /\ pc = "ready"
    /\ Config
    /\ \/ Fail("ENTROPY_FAILED")
       \/ pc' = "open" /\ ~ expired /\ UNCHANGED files /\ Going
    /\ UNCHANGED <<loading, have>>

OpenSource ==
    /\ pc = "open"
    /\ Config
    /\ \/ Fail("ENTROPY_FAILED")
       \/ pc' = "entropy" /\ files' = {"entropy"} /\ Going
    /\ UNCHANGED <<loading, have>>

Gathered == have >= EntropyMin

(* A read gives something, nothing yet (the poll then waits for more, up to *)
(* the deadline), the end of the source, or an error.                       *)
Gather ==
    /\ pc = "entropy"
    /\ ~ Gathered
    /\ Config
    /\ \/ /\ \E n \in 1 .. EntropyMin - have : have' = have + n
          /\ UNCHANGED <<pc, files>>
          /\ Going
       \/ Fail("ENTROPY_FAILED") /\ UNCHANGED have
    /\ UNCHANGED loading

WaitEnds == expired

Wait ==
    /\ pc = "entropy"
    /\ ~ Gathered
    /\ WaitEnds
    /\ Config
    /\ Fail("ENTROPY_FAILED")
    /\ UNCHANGED <<loading, have>>

EntropyEnds ==
    /\ pc = "entropy"
    /\ Gathered
    /\ Config
    /\ pc' = "handshake"
    /\ files' = {}
    /\ Going
    /\ UNCHANGED <<loading, have>>

Handshake ==
    /\ pc = "handshake"
    /\ Config
    /\ \/ Fail("HANDSHAKE_FAILED")
       \/ pc' = "done" /\ result' = "OK" /\ UNCHANGED <<files, connection>>
    /\ UNCHANGED <<loading, have>>

Step ==
    \/ Begin \/ Read \/ Object \/ PemEnds \/ Clock
    \/ Ready \/ OpenSource \/ EntropyEnds \/ Handshake

Next == Step \/ Gather \/ Wait \/ Expire

Spec == Init /\ [][Next]_vars

-----------------------------------------------------------------------------
TypeOK ==
    /\ pc \in {"begin", "read", "pem", "clock", "ready", "open", "entropy",
               "handshake", "done"}
    /\ total \in 0 .. FileCap
    /\ next \in 1 .. MaxObjects + 1
    /\ count \in 0 .. MaxAnchors
    /\ Len(anchors) = count
    /\ have \in 0 .. EntropyMin
    /\ files \in SUBSET {"ca", "entropy"}
    /\ connection \in BOOLEAN /\ expired \in BOOLEAN

Certificates == {i \in DOMAIN ca.objects : is_pem_certificate(ca.objects[i])}

(* A handshake is only begun with all the certificates of the whole file as *)
(* anchors, every one of them decoded, and with all the entropy.            *)
HandshakeIsPrepared ==
    pc = "handshake" \/ result = "OK" =>
        /\ ca.size <= FileCap
        /\ ca.end = "clean"
        /\ Range(anchors) = Certificates
        /\ \A i \in Certificates : ca.objects[i].content \in {"rsa", "ec"}
        /\ have = EntropyMin

(* Descriptors: no temporary one outlives the call, and the caller's is     *)
(* open after it exactly when the connection is.                            *)
DescriptorsClosed ==
    pc = "done" => files = {} /\ (connection <=> result = "OK")

=============================================================================
