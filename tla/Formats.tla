------------------------------- MODULE Formats -------------------------------
(***************************************************************************)
(* What is written and read: the texts of servers and files, the addresses  *)
(* and names in them, and the records that are saved.  Each part is an       *)
(* algorithm over every input of a small kind; a behaviour is one of them,   *)
(* chosen at its beginning, and the variables of the others have no value   *)
(* in it.                                                                   *)
(***************************************************************************)
EXTENDS Integers, Sequences

CONSTANTS
    Documents, Asked, Blocks, MaxMembers, MaxCalls,         \* KosyncJson
    MaxUnits, TextCap,                                      \* JsonText
    TextBytes, MaxBytes, DeviceMax,                         \* Utf8
    Schemes, Pieces, MaxPieces, NameLengths, BodyDigits,    \* ServerUrl
    PacketLen, PacketBytes, HopsMax, WireMax, HostMax,      \* DnsName
    UINT_MAX, MaxNumber, MountTexts, OptionLists,
    OptionalLists,                                          \* MountLine
    Chars, Capacity, Suffix, MaxRoot,                       \* StoragePath
    Stores, MaxEdits,                                       \* TextRecord
    CELL, TOKEN, LOCATION, MaxProgress, MaxCellEdits,       \* ProgressRecord
    DIGITS, BASIS, PRIME, PATH_MAX, PathBytes               \* BookToken

VARIABLES
    part,       \* the part that this behaviour exercises
    op, answerPc, fields, document, device, parsed, answerPosition, caller,
    heap, freed_twice, members, answerResult, calls,
    source, closed, progress,
    text,
    scheme, rest,
    packet, offset, namePosition, expanded, hops, seen, jumped, next, syntax,
    output, nameResult, trail,
    mount, line,
    input, reader, root, pathPc, pathI, component, verdict,
    store, recordSaved, recordFile, recordEdits, written,
    identity, progressSaved, progressFile, progressEdits, record,
    progressResult,
    path, token

-----------------------------------------------------------------------------
Answer == INSTANCE KosyncJson WITH
    pc <- answerPc, position <- answerPosition, result <- answerResult

Json == INSTANCE JsonText WITH MaxText <- MaxUnits, Cap <- TextCap

Text == INSTANCE Utf8 WITH Bytes <- TextBytes, MaxText <- MaxBytes

Url == INSTANCE ServerUrl WITH Names <- NameLengths, Bodies <- BodyDigits

Name == INSTANCE DnsName WITH
    Bytes <- PacketBytes, position <- namePosition, result <- nameResult

Line == INSTANCE MountLine WITH Names <- MountTexts

Path == INSTANCE StoragePath WITH MaxText <- MaxRoot, pc <- pathPc, i <- pathI

Record == INSTANCE TextRecord WITH
    saved <- recordSaved, file <- recordFile, edits <- recordEdits

Progress == INSTANCE ProgressRecord WITH
    MaxEdits <- MaxCellEdits, saved <- progressSaved, file <- progressFile,
    edits <- progressEdits, result <- progressResult

Token == INSTANCE BookToken WITH Bytes <- PathBytes

ASSUME AnswerAssumption ==
    Answer!AskedAssumption /\ Answer!BoundsAssumption /\ Answer!NamesAssumption
ASSUME JsonAssumption == Json!BoundsAssumption
ASSUME TextAssumption == Text!BytesAssumption /\ Text!BoundsAssumption
ASSUME UrlAssumption == Url!PiecesAssumption /\ Url!LengthsAssumption
ASSUME NameAssumption == Name!PacketAssumption /\ Name!LimitsAssumption
ASSUME LineAssumption == Line!NumberAssumption /\ Line!TextsAssumption
ASSUME PathAssumption == Path!CapacityAssumption
ASSUME RecordAssumption == Record!StoresAssumption
ASSUME ProgressAssumption == Progress!CellAssumption
ASSUME TokenAssumption == Token!HashAssumption /\ Token!FnvAssumption

-----------------------------------------------------------------------------
(* The variables of a part that is not exercised have no value. *)
None == "-"
answerVars == <<op, answerPc, fields, document, device, parsed, answerPosition,
        caller, heap, freed_twice, members, answerResult, calls>>
AnswerUnused ==
    /\ op = None /\ answerPc = None /\ fields = None /\ document = None
    /\ device = None /\ parsed = None /\ answerPosition = None /\ caller = None
    /\ heap = None /\ freed_twice = None /\ members = None
    /\ answerResult = None /\ calls = None
jsonVars == <<source, closed, progress>>
JsonUnused ==
    /\ source = None /\ closed = None /\ progress = None
textVars == <<text>>
TextUnused ==
    /\ text = None
urlVars == <<scheme, rest>>
UrlUnused ==
    /\ scheme = None /\ rest = None
nameVars == <<packet, offset, namePosition, expanded, hops, seen, jumped, next,
        syntax, output, nameResult, trail>>
NameUnused ==
    /\ packet = None /\ offset = None /\ namePosition = None /\ expanded = None
    /\ hops = None /\ seen = None /\ jumped = None /\ next = None
    /\ syntax = None /\ output = None /\ nameResult = None /\ trail = None
lineVars == <<mount, line>>
LineUnused ==
    /\ mount = None /\ line = None
pathVars == <<input, reader, root, pathPc, pathI, component, verdict>>
PathUnused ==
    /\ input = None /\ reader = None /\ root = None /\ pathPc = None
    /\ pathI = None /\ component = None /\ verdict = None
recordVars == <<store, recordSaved, recordFile, recordEdits, written>>
RecordUnused ==
    /\ store = None /\ recordSaved = None /\ recordFile = None
    /\ recordEdits = None /\ written = None
progressVars == <<identity, progressSaved, progressFile, progressEdits, record,
        progressResult>>
ProgressUnused ==
    /\ identity = None /\ progressSaved = None /\ progressFile = None
    /\ progressEdits = None /\ record = None /\ progressResult = None
tokenVars == <<path, token>>
TokenUnused ==
    /\ path = None /\ token = None

Parts ==
    {"answer", "json", "text", "url", "name", "line", "path", "record",
     "progress", "token"}

Init ==
    /\ part \in Parts
    /\ IF part = "answer" THEN Answer!Init ELSE AnswerUnused
    /\ IF part = "json" THEN Json!Init ELSE JsonUnused
    /\ IF part = "text" THEN Text!Init ELSE TextUnused
    /\ IF part = "url" THEN Url!Init ELSE UrlUnused
    /\ IF part = "name" THEN Name!Init ELSE NameUnused
    /\ IF part = "line" THEN Line!Init ELSE LineUnused
    /\ IF part = "path" THEN Path!Init ELSE PathUnused
    /\ IF part = "record" THEN Record!Init ELSE RecordUnused
    /\ IF part = "progress" THEN Progress!Init ELSE ProgressUnused
    /\ IF part = "token" THEN Token!Init ELSE TokenUnused

(* The other parts keep still. *)
Only(name) ==
    /\ UNCHANGED part
    /\ IF name = "answer" THEN TRUE ELSE UNCHANGED answerVars
    /\ IF name = "json" THEN TRUE ELSE UNCHANGED jsonVars
    /\ IF name = "text" THEN TRUE ELSE UNCHANGED textVars
    /\ IF name = "url" THEN TRUE ELSE UNCHANGED urlVars
    /\ IF name = "name" THEN TRUE ELSE UNCHANGED nameVars
    /\ IF name = "line" THEN TRUE ELSE UNCHANGED lineVars
    /\ IF name = "path" THEN TRUE ELSE UNCHANGED pathVars
    /\ IF name = "record" THEN TRUE ELSE UNCHANGED recordVars
    /\ IF name = "progress" THEN TRUE ELSE UNCHANGED progressVars
    /\ IF name = "token" THEN TRUE ELSE UNCHANGED tokenVars

Next ==
    \/ part = "answer" /\ Answer!Next /\ Only("answer")
    \/ part = "json" /\ Json!Next /\ Only("json")
    \/ part = "text" /\ Text!Next /\ Only("text")
    \/ part = "url" /\ Url!Next /\ Only("url")
    \/ part = "name" /\ Name!Next /\ Only("name")
    \/ part = "line" /\ Line!Next /\ Only("line")
    \/ part = "path" /\ Path!Next /\ Only("path")
    \/ part = "record" /\ Record!Next /\ Only("record")
    \/ part = "progress" /\ Progress!Next /\ Only("progress")
    \/ part = "token" /\ Token!Next /\ Only("token")

vars ==
    <<part, answerVars, jsonVars, textVars, urlVars, nameVars, lineVars,
      pathVars, recordVars, progressVars, tokenVars>>

Spec == Init /\ [][Next]_vars

-----------------------------------------------------------------------------
(* What is written is read back as it was, whatever spelling the other side  *)
(* chose, and what was damaged, cut off, of another version or about another *)
(* book or document is told from it (sync/kosync.c, settings/*.c,            *)
(* progress/progress_store.c, progress/book_identity.c).                    *)
WrittenIsReadBack ==
    /\ part = "answer" =>
        Answer!TypeOK /\ Answer!OneOwner /\ Answer!OkIsTheAnswer /\ Answer!NotFoundSaysNothing
    /\ part = "json" =>
        /\ Json!StringRoundTrips /\ Json!WrittenFits
        /\ Json!SpellingDoesNotMatter /\ Json!PercentageRoundTrips
    /\ part = "record" =>
        /\ Record!SavedIsLoaded /\ Record!OkIsCanonical
        /\ Record!DamageIsSeen /\ Record!SettingsOfFutureVersion
    /\ part = "progress" =>
        Progress!SavedIsLoaded /\ Progress!DamageIsSeen /\ Progress!OtherVersionIsSaid
    /\ part = "token" => Token!OneByteApart

(* Rules that several places apply to the same text agree, and read it right *)
(* up to the last byte: positions and device names, server addresses and the *)
(* requests built from them, names in DNS packets, lines of the mount table, *)
(* the configured root.                                                      *)
RulesAgree ==
    /\ part = "text" =>
        /\ Text!PositionRulesAgree /\ Text!DeviceNameIsSendable
        /\ Text!DeviceIdRulesAgree /\ Text!DecoderLosesNothing
    /\ part = "url" =>
        /\ Url!SavedUrlIsUsable /\ Url!RequestsFit
        /\ Url!PartsFit /\ Url!OneSlashBeforeEndpoint
    /\ part = "name" => Name!TypeOK /\ Name!ReadsInside /\ Name!NextFollowsName
    /\ part = "line" => Line!LineIsTheMount /\ Line!WritableIsRw /\ Line!CutOffIsSeen
    /\ part = "path" =>
        /\ Path!TypeOK /\ Path!AcceptsNormalPaths
        /\ Path!ReadersAgree /\ Path!LocationsFit

(* A call that fails leaves the caller the record it had, and one that       *)
(* succeeds gives out only what could be saved or synced again: never the    *)
(* position or the identity of another book (cn_kosync_get_progress,         *)
(* cn_progress_store_load, cn_book_identity_from_path).                     *)
CallersRecordKept ==
    [][/\ part = "answer" => Answer!FailureKeepsRecord
       /\ part = "progress" => Progress!FailureKeepsRecord /\ Progress!OkCanBeSaved
       /\ part = "token" => Token!TokenIsThePaths]_vars
-----------------------------------------------------------------------------
(* A small instance, for TLC: the inputs are chosen at both sides of every   *)
(* limit.                                                                   *)

(* Bytes at both ends of every range of the UTF-8 rules.                     *)
EdgeBytes == {31, 65, 127, 128, 143, 144, 159, 160, 191, 193, 194, 223, 224,
              225, 237, 239, 240, 241, 244, 245, 255}

Piece(k, n, v) == [kind |-> k, n |-> n, value |-> v]

(* Runs of characters at both sides of every limit.                          *)
UrlPieces ==
    {Piece("text", 1, 0), Piece("text", 255, 0),
     Piece("digits", 1, 0), Piece("digits", 3, 443), Piece("digits", 5, 65535),
     Piece("digits", 5, 65536), Piece("digits", 6, 443),
     Piece("colon", 1, 0), Piece("slash", 1, 0),
     Piece("path", 2, 0), Piece("path", 1024, 0)}
    \cup {Piece(k, 1, 0) : k \in {"at", "query", "backslash", "space", "high"}}

(* A directory named like the end of the optional fields, options that hold  *)
(* others in their names.                                                    *)
MountRoots ==
    {<<"/">>, <<"/", "a">>, <<"/", "-">>, <<"/", " ", "-", " ">>, <<"/", "\\", "0">>,
     <<"/", "\n", "b">>, <<"/", "\\", "\\">>, <<"/", "\t">>}
rw == <<"r", "w">>
ro == <<"r", "o">>
row == <<"r", "o", "w">>
remount_ro == <<"e", "=", "r", "o">>
MountOptions ==
    {<<rw>>, <<ro>>, <<remount_ro, rw>>, <<rw, row>>, <<rw, ro>>, <<row>>, <<ro, remount_ro>>}
MountTags == {<<>>, << <<"s", ":", "2">> >>, << <<"s">>, <<"m", ":", "1">> >>}

(* Two of them mean something in a path.                                     *)
PathChars == {"/", ".", "a"}

=============================================================================
