-------------------------------- MODULE Calls --------------------------------
(***************************************************************************)
(* The calls that wait for the world outside: for a name server, a time     *)
(* server, a TLS peer, an HTTP server, the entropy source, and for files    *)
(* and mounts that others change at the same time.  The program makes them  *)
(* one at a time: a behaviour is one of them, chosen at its beginning; the  *)
(* variables of the others have no value in it.                             *)
(***************************************************************************)
EXTENDS Integers

CONSTANTS
    Servers, Addresses, MaxAddresses,                       \* DnsClient
    Wrong, Fine, Era, Delta, WindowMin, WindowMax, Timeout,
    Starts,                                                 \* SntpClient
    HttpHead, Cap, HttpAddresses, Responses,                    \* HttpExchange
    Turns, MaxData,                                         \* TlsConnection
    FileCap, MaxAnchors, EntropyMin, MaxObjects,            \* TlsOpen
    Versions, RecordSize, Inodes, MaxEdits,                 \* RecordLoad
    CAPACITY, MaxLength, MaxTableChanges,                   \* MountInfo
    Candidates, Expected, Devices, Kind(_, _), Booted, MaxMounts,
    MaxMountChanges,                                        \* StorageVerify
    Procs,                                                  \* StorageLayout
    SAMPLE_BYTES, SAMPLES, BookSize, MaxWrites, MaxCalls    \* BookIdentity

VARIABLES
    part,       \* the part that this behaviour exercises
    dnsPc, dnsAttempt, sends, tick, dnsQueries, dnsReplies, answer, dnsResult,
    dnsEnded,
    time, offset, sntpPc, sntpAttempt, sentAt, deadline, sntpQueries,
    sntpReplies, sample, sntpResult, missed,
    tls, put, response, served, httpEnded, httpPc, address, httpExpired,
    httpFd, httpTotal, truncated, httpResult, httpOut,
    turn, tlsOut, app, closed, error, incoming, eof, room, sent, finished,
    tlsFd, phase, call, tlsExpired, tlsResult, taken,
    ca, own_source, openPc, openTotal, next, count, anchors, have, files,
    connection, openExpired, openResult,
    path, content, edits, load, loadPc, before, loadFd, opened, data, output,
    loadResult, seen, absent, loadDisturbed,
    length, version, mountsStill, mountsPc, mountsOut, got, descriptor,
    mountsResult,
    mounts, changes, quiet, candidate, verifyPc, verifyResult, table, row,
    chosen, duplicates, looked,
    fs, preparePc, at, prepareResult, errno, prepareDisturbed,
    size, writes, identityStill, calls, identityPc, identityI, context, open,
    hex, identityResult

-----------------------------------------------------------------------------
Dns == INSTANCE DnsClient WITH
    pc <- dnsPc, attempt <- dnsAttempt, queries <- dnsQueries,
    replies <- dnsReplies, result <- dnsResult, ended <- dnsEnded

Sntp == INSTANCE SntpClient WITH
    pc <- sntpPc, attempt <- sntpAttempt, queries <- sntpQueries,
    replies <- sntpReplies, result <- sntpResult

Http == INSTANCE HttpExchange WITH
    Head <- HttpHead, Addresses <- HttpAddresses, ended <- httpEnded,
    pc <- httpPc,
    expired <- httpExpired, fd <- httpFd, total <- httpTotal,
    result <- httpResult, out <- httpOut

Tls == INSTANCE TlsConnection WITH
    out <- tlsOut, fd <- tlsFd, expired <- tlsExpired, result <- tlsResult

Open == INSTANCE TlsOpen WITH
    pc <- openPc, total <- openTotal, expired <- openExpired,
    result <- openResult

Load == INSTANCE RecordLoad WITH
    MaxSize <- RecordSize, pc <- loadPc, fd <- loadFd, result <- loadResult,
    disturbed <- loadDisturbed

Mounts == INSTANCE MountInfo WITH
    MaxChanges <- MaxTableChanges, still <- mountsStill, pc <- mountsPc,
    out <- mountsOut, result <- mountsResult

Verify == INSTANCE StorageVerify WITH
    MaxChanges <- MaxMountChanges, pc <- verifyPc, result <- verifyResult

Prepare == INSTANCE StorageLayout WITH
    pc <- preparePc, result <- prepareResult, disturbed <- prepareDisturbed

Identity == INSTANCE BookIdentity WITH
    MaxSize <- BookSize, still <- identityStill, pc <- identityPc,
    i <- identityI, result <- identityResult

(* What each call assumes of its constants. *)
ASSUME DnsAssumption == Dns!ServersAssumption /\ Dns!MaxAssumption
ASSUME SntpAssumption ==
    Sntp!ServersAssumption /\ Sntp!FineAssumption /\ Sntp!WindowAssumption
    /\ Sntp!StartsAssumption
ASSUME HttpAssumption == Http!ResponsesAssumption
ASSUME TlsAssumption == Tls!TurnsAssumption /\ Open!BoundsAssumption
ASSUME LoadAssumption ==
    Load!SizeAssumption /\ Load!EditsAssumption /\ Load!InodesAssumption
ASSUME MountsAssumption == Mounts!CapacityAssumption
ASSUME VerifyAssumption ==
    Verify!DevicesAssumption /\ Verify!CandidatesAssumption /\ Verify!BootedAssumption
ASSUME IdentityAssumption == Identity!SampleAssumption

-----------------------------------------------------------------------------
(* The variables of a part that is not exercised have no value. *)
None == "-"
dnsVars == <<dnsPc, dnsAttempt, sends, tick, dnsQueries, dnsReplies, answer,
        dnsResult, dnsEnded>>
DnsUnused ==
    /\ dnsPc = None /\ dnsAttempt = None /\ sends = None /\ tick = None
    /\ dnsQueries = None /\ dnsReplies = None /\ answer = None
    /\ dnsResult = None /\ dnsEnded = None
sntpVars == <<time, offset, sntpPc, sntpAttempt, sentAt, deadline, sntpQueries,
        sntpReplies, sample, sntpResult, missed>>
SntpUnused ==
    /\ time = None /\ offset = None /\ sntpPc = None /\ sntpAttempt = None
    /\ sentAt = None /\ deadline = None /\ sntpQueries = None
    /\ sntpReplies = None /\ sample = None /\ sntpResult = None
    /\ missed = None
httpVars == <<tls, put, response, served, httpEnded, httpPc, address,
        httpExpired, httpFd, httpTotal, truncated, httpResult, httpOut>>
HttpUnused ==
    /\ tls = None /\ put = None /\ response = None /\ served = None
    /\ httpEnded = None /\ httpPc = None /\ address = None
    /\ httpExpired = None /\ httpFd = None /\ httpTotal = None
    /\ truncated = None /\ httpResult = None /\ httpOut = None
tlsVars == <<turn, tlsOut, app, closed, error, incoming, eof, room, sent,
        finished, tlsFd, phase, call, tlsExpired, tlsResult, taken>>
TlsUnused ==
    /\ turn = None /\ tlsOut = None /\ app = None /\ closed = None
    /\ error = None /\ incoming = None /\ eof = None /\ room = None
    /\ sent = None /\ finished = None /\ tlsFd = None /\ phase = None
    /\ call = None /\ tlsExpired = None /\ tlsResult = None /\ taken = None
openVars == <<ca, own_source, openPc, openTotal, next, count, anchors, have,
        files, connection, openExpired, openResult>>
OpenUnused ==
    /\ ca = None /\ own_source = None /\ openPc = None /\ openTotal = None
    /\ next = None /\ count = None /\ anchors = None /\ have = None
    /\ files = None /\ connection = None /\ openExpired = None
    /\ openResult = None
loadVars == <<path, content, edits, load, loadPc, before, loadFd, opened, data,
        output, loadResult, seen, absent, loadDisturbed>>
LoadUnused ==
    /\ path = None /\ content = None /\ edits = None /\ load = None
    /\ loadPc = None /\ before = None /\ loadFd = None /\ opened = None
    /\ data = None /\ output = None /\ loadResult = None /\ seen = None
    /\ absent = None /\ loadDisturbed = None
mountsVars == <<length, version, mountsStill, mountsPc, mountsOut, got,
        descriptor, mountsResult>>
MountsUnused ==
    /\ length = None /\ version = None /\ mountsStill = None /\ mountsPc = None
    /\ mountsOut = None /\ got = None /\ descriptor = None
    /\ mountsResult = None
verifyVars == <<mounts, changes, quiet, candidate, verifyPc, verifyResult,
        table, row, chosen, duplicates, looked>>
VerifyUnused ==
    /\ mounts = None /\ changes = None /\ quiet = None /\ candidate = None
    /\ verifyPc = None /\ verifyResult = None /\ table = None /\ row = None
    /\ chosen = None /\ duplicates = None /\ looked = None
prepareVars == <<fs, preparePc, at, prepareResult, errno, prepareDisturbed>>
PrepareUnused ==
    /\ fs = None /\ preparePc = None /\ at = None /\ prepareResult = None
    /\ errno = None /\ prepareDisturbed = None
identityVars == <<size, writes, identityStill, calls, identityPc, identityI,
        context, open, hex, identityResult>>
IdentityUnused ==
    /\ size = None /\ writes = None /\ identityStill = None /\ calls = None
    /\ identityPc = None /\ identityI = None /\ context = None /\ open = None
    /\ hex = None /\ identityResult = None

Parts ==
    {"dns", "sntp", "http", "tls", "open", "load", "mounts", "verify",
     "prepare", "identity"}

Init ==
    /\ part \in Parts
    /\ IF part = "dns" THEN Dns!Init ELSE DnsUnused
    /\ IF part = "sntp" THEN Sntp!Init ELSE SntpUnused
    /\ IF part = "http" THEN Http!Init ELSE HttpUnused
    /\ IF part = "tls" THEN Tls!Init ELSE TlsUnused
    /\ IF part = "open" THEN Open!Init ELSE OpenUnused
    /\ IF part = "load" THEN Load!Init ELSE LoadUnused
    /\ IF part = "mounts" THEN Mounts!Init ELSE MountsUnused
    /\ IF part = "verify" THEN Verify!Init ELSE VerifyUnused
    /\ IF part = "prepare" THEN Prepare!Init ELSE PrepareUnused
    /\ IF part = "identity" THEN Identity!Init ELSE IdentityUnused

(* The other parts keep still. *)
Only(name) ==
    /\ UNCHANGED part
    /\ IF name = "dns" THEN TRUE ELSE UNCHANGED dnsVars
    /\ IF name = "sntp" THEN TRUE ELSE UNCHANGED sntpVars
    /\ IF name = "http" THEN TRUE ELSE UNCHANGED httpVars
    /\ IF name = "tls" THEN TRUE ELSE UNCHANGED tlsVars
    /\ IF name = "open" THEN TRUE ELSE UNCHANGED openVars
    /\ IF name = "load" THEN TRUE ELSE UNCHANGED loadVars
    /\ IF name = "mounts" THEN TRUE ELSE UNCHANGED mountsVars
    /\ IF name = "verify" THEN TRUE ELSE UNCHANGED verifyVars
    /\ IF name = "prepare" THEN TRUE ELSE UNCHANGED prepareVars
    /\ IF name = "identity" THEN TRUE ELSE UNCHANGED identityVars

Next ==
    \/ part = "dns" /\ Dns!Next /\ Only("dns")
    \/ part = "sntp" /\ Sntp!Next /\ Only("sntp")
    \/ part = "http" /\ Http!Next /\ Only("http")
    \/ part = "tls" /\ Tls!Next /\ Only("tls")
    \/ part = "open" /\ Open!Next /\ Only("open")
    \/ part = "load" /\ Load!Next /\ Only("load")
    \/ part = "mounts" /\ Mounts!Next /\ Only("mounts")
    \/ part = "verify" /\ Verify!Next /\ Only("verify")
    \/ part = "prepare" /\ Prepare!Next /\ Only("prepare")
    \/ part = "identity" /\ Identity!Next /\ Only("identity")

vars ==
    <<part, dnsVars, sntpVars, httpVars, tlsVars, openVars, loadVars,
      mountsVars, verifyVars, prepareVars, identityVars>>

Spec == Init /\ [][Next]_vars

(* Any of the processes that prepare the directories; they are alike. *)
Self == CHOOSE p \in Procs : TRUE

(* The process runs, its deadlines pass, and what is read arrives or ends;   *)
(* servers, other processes and failures are never fair.                     *)
Work ==
    \/ part = "dns" /\ Dns!Progress /\ Only("dns")
    \/ part = "sntp" /\ Sntp!Progress /\ Only("sntp")
    \/ part = "http" /\ Http!Progress /\ Only("http")
    \/ part = "tls" /\ Tls!Progress /\ Only("tls")
    \/ part = "open" /\ Open!Step /\ Only("open")
    \/ part = "load" /\ Load!Progress /\ Only("load")
    \/ part = "mounts" /\ Mounts!Progress /\ Only("mounts")
    \/ /\ part = "verify" /\ Only("verify")
       /\ Verify!Begin \/ Verify!ReadRow \/ Verify!Judge \/ Verify!Look
    \/ part = "prepare" /\ (Prepare!Look(Self) \/ Prepare!Make(Self)) /\ Only("prepare")
    \/ part = "identity" /\ (Identity!Sample \/ Identity!Close) /\ Only("identity")
Clock ==
    \/ part = "dns" /\ Dns!Tick /\ Only("dns")
    \/ part = "sntp" /\ Sntp!Tick /\ Only("sntp")
    \/ part = "open" /\ Open!Expire /\ Only("open")
Poll == part = "open" /\ Open!Wait /\ Only("open")
FairSpec == Spec /\ WF_vars(Work) /\ WF_vars(Clock) /\ WF_vars(Poll)

-----------------------------------------------------------------------------
(* What a network call reports is true of what was received (net/dnssimple.c,*)
(* time/timesimple.c, net/netsimple.c, net/tlssimple.c): addresses of one    *)
(* reply to the question asked, a time that misses the true one by half the  *)
(* round trip at most, a whole response, an end that the peer declared, a    *)
(* handshake with all the anchors and all the entropy; and each failure is   *)
(* named after what failed.                                                  *)
NetworkAnswersAreTrue ==
    /\ part = "dns" =>
        Dns!TypeOK /\ Dns!AnswerIsOneReply /\ Dns!DefinitiveIsFinal /\ Dns!Paced
    /\ part = "sntp" =>
        Sntp!TypeOK /\ Sntp!Accurate /\ Sntp!SetInWindow /\ Sntp!RangeIsTheDate
    /\ part = "http" => Http!TypeOK /\ Http!TlsOkIsWhole /\ Http!PlainOkIsAll
    /\ part = "tls" => Tls!TypeOK /\ Tls!EndIsThePeers /\ Tls!ReasonFitsPhase
    /\ part = "open" => Open!TypeOK /\ Open!HandshakeIsPrepared

(* What a call reports of files and mounts is true of them, although others  *)
(* change them at the same time (settings/settings_store.c and its siblings, *)
(* platform/storage_verify.c, storage/storage_layout.c,                      *)
(* book/koreader_identity.c): a record that was stored, a table that was     *)
(* whole, a root on the expected card, directories that are directories,     *)
(* KOReader's identity; and a race is never taken for damage.                *)
StorageAnswersAreTrue ==
    /\ part = "load" =>
        Load!TypeOK /\ Load!OkIsAVersion /\ Load!RaceIsNoDamage /\ Load!MissingIsTrue
    /\ part = "mounts" => Mounts!TypeOK /\ Mounts!OkIsWhole
    /\ part = "verify" => Verify!TypeOK /\ Verify!OkIsTheCard /\ Verify!CardIsTaken
    /\ part = "prepare" =>
        /\ Prepare!TypeOK /\ Prepare!OkIsPrepared
        /\ Prepare!RaceIsNoFailure /\ Prepare!PassedAreDirectories
    /\ part = "identity" => Identity!TypeOK /\ Identity!OkIsKoreaders

(* A failure leaves nothing behind: no address, no part of a record, no      *)
(* digest, and no descriptor; and nothing is sent or read through one that   *)
(* was closed or not yet secured.                                            *)
FailureLeavesNothing ==
    /\ part = "dns" => Dns!FailureIsEmpty
    /\ part = "http" => Http!DescriptorReleased
    /\ part = "tls" => Tls!OnlyOverTls
    /\ part = "open" => Open!DescriptorsClosed
    /\ part = "load" => Load!FailureLeavesNothing
    /\ part = "identity" => Identity!FailureHasNoText

(* The root that was accepted was on the card when it was looked at last,    *)
(* whatever was mounted meanwhile (cn_platform_storage_verify).              *)
AcceptedWasThere == [][part = "verify" => Verify!AcceptedWasThere]_vars

(* Every call returns, whatever comes, comes late or never comes, and        *)
(* whatever others mount or create meanwhile; a process that prepares the    *)
(* directories returns, or is stopped, however the others run.              *)
Calling ==
    \/ part = "dns" /\ dnsPc # "done"
    \/ part = "sntp" /\ sntpPc # "done"
    \/ part = "http" /\ httpPc # "done"
    \/ part = "tls" /\ call # "none"
    \/ part = "open" /\ openPc # "done"
    \/ part = "load" /\ loadPc # "idle"
    \/ part = "mounts" /\ mountsPc # "done"
    \/ part = "verify" /\ verifyPc # "done"
    \/ part = "prepare" /\ preparePc[Self] \notin {"idle", "done"}
    \/ part = "identity" /\ identityPc # "idle"
CallsReturn == Calling ~> ~Calling

-----------------------------------------------------------------------------
(* A small instance, for TLC.                                               *)

(* The second server may answer anything; an era of 6 seconds begins during  *)
(* the call, and the window of accepted dates ends.                          *)
TwoServers == <<"first", "second">>

(* Responses around the length they declare and around the buffer.           *)
ServerResponses ==
    [style : {"crlf"}, declared : -2 .. 2, body : 0 .. 3,
     end : {"close", "reset", "silent"}]
    \cup [style : {"lf"}, declared : {-1, 2}, body : {2}, end : {"close"}]
    \cup [style : {"garbage"}, declared : {-1}, body : {2}, end : {"close"}]

(* The card is expected at /mnt, its root there or in /mnt/books; another    *)
(* device may be mounted on either, and has links or nothing there.          *)
mnt == <<"mnt">>
mnt_books == <<"mnt", "books">>
CardCandidates == {[root |-> mnt_books, point |-> mnt], [root |-> mnt, point |-> mnt],
                   [root |-> mnt_books, point |-> mnt_books], [root |-> mnt, point |-> mnt_books]}
KindOn(dev, place) ==
    CASE place = <<>> -> "dir"
      [] dev = "system" /\ place \in {mnt, mnt_books} -> "dir"
      [] dev = "card" /\ place = <<"books">> -> "dir"
      [] dev = "other" /\ place = <<"books">> -> "link"
      [] dev = "system" /\ place = <<"books">> -> "file"
      [] OTHER -> "absent"
SystemMount == [point |-> <<>>, dev |-> "system", rw |-> TRUE, plain |-> TRUE]
CardMount == [point |-> mnt, dev |-> "card", rw |-> TRUE, plain |-> TRUE]
BootMounts == {<<SystemMount>>, <<SystemMount, CardMount>>}

=============================================================================
