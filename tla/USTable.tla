------------------------------- MODULE USTable -------------------------------
(****************************************************************************)
(* The Unsorted String-keyed Table file of pkg/graphite/convert/ustable.go, *)
(* opened for append, torn by crashes and reopened.                         *)
(*                                                                          *)
(* The disk is a sequence of 8-byte cells, the size of the int64 length     *)
(* fields: a record is a key length, the cells of the key, a value length   *)
(* and the cells of the value; the sentinel is a zero length and the text   *)
(* "SENTINEL".  A file is never truncated when it is reopened, so the cells *)
(* beyond the append position are those of whatever was torn there.         *)
(****************************************************************************)
EXTENDS Integers, Sequences, FiniteSets, SequencesExt

CONSTANTS
    Keys,          \* the keys a record may have
    NoKey,         \* not a key: no Append is under way
    KeyCells,      \* [Keys -> Nat \ {0}]: length of each key, in cells
    ValCells,      \* [Openers -> [Keys -> Nat]]: of its marshaled value
    Openers,       \* which files there are, by the function that opens them:
                   \* "scan" (date files) and "index" (the progress file)
    MayOverwrite,  \* whether a date file may be opened with overwrite = true
    TornValueReads, \* whether a value whose last cell is another still unmarshals
    MaxRecords,    \* bound: records in the file
    MaxOpens       \* bound: times the file is opened

ASSUME USTableAssumption ==
    /\ NoKey \notin Keys
    /\ KeyCells \in [Keys -> Nat \ {0}]
    /\ Openers \subseteq {"scan", "index"}
    /\ ValCells \in [Openers -> [Keys -> Nat]]
    /\ "index" \in Openers => \A k \in Keys : ValCells["index"][k] = 0
           \* the progress file has empty values: pass1.go:153
    /\ MayOverwrite \in BOOLEAN /\ TornValueReads \in BOOLEAN
    /\ MaxRecords \in Nat /\ MaxOpens \in Nat

VARIABLES
    opener,   \* which of the two files this is
    file,     \* the cells on disk
    pos,      \* offset of the write head, in cells
    mode,     \* "closed", "append", or "panicked": the open call crashed
    pending,  \* the cells of the Append under way that are still to be written
    key,      \* the key of the Append under way, or NoKey
    sealed,   \* TRUE when the last process to leave the file left by Close
    known,    \* history: the records acknowledged by Append or found by an open
    opens     \* bound on the number of opens

vars == <<opener, file, pos, mode, pending, key, sealed, known, opens>>

------------------------------------------------------------------------------
(* The cells.  Bytes the program did not write (a hole) are zeros, which is *)
(* also how a zero length reads.                                            *)
LenCell(n)    == [kind |-> "len", n |-> n]
KeyCell(k, i) == [kind |-> "key", of |-> k, at |-> i]
ValCell(k, i) == [kind |-> "val", of |-> k, at |-> i]
TextCell      == [kind |-> "text"]

KeyOf(k)   == [i \in 1..KeyCells[k] |-> KeyCell(k, i)]
ValueOf(k) == [i \in 1..ValCells[opener][k] |-> ValCell(k, i)]

Cells == [kind : {"len"}, n : Nat] \cup [kind : {"key", "val"}, of : Keys, at : Nat]
         \cup {TextCell}

(* The four writes of Append, and the two of writeSentinel as one. *)
Writes(k) == << <<LenCell(KeyCells[k])>>, KeyOf(k),
                <<LenCell(ValCells[opener][k])>>, ValueOf(k) >>
Sentinel  == <<LenCell(0), TextCell>>

(* f with cells written at offset p: the file grows, or is overwritten. *)
Overwrite(f, p, cells) ==
    LET end == p + Len(cells)
    IN  [i \in 1..(IF end > Len(f) THEN end ELSE Len(f)) |->
            IF i \in (p + 1)..end THEN cells[i - p]
            ELSE IF i <= Len(f) THEN f[i] ELSE LenCell(0)]

------------------------------------------------------------------------------
(* Reading. An int64 read from a cell of text or of marshaled data is       *)
(* negative or far beyond what make() can allocate.                         *)
IsLength(c) == c.kind = "len"

(* What fd.Read(buf) puts in a buffer of n cells at offset p: a short read  *)
(* at the end of the file is no error and leaves zeros, an empty one is EOF.*)
ReadCells(f, p, n) ==
    [i \in 1..n |-> IF p + i <= Len(f) THEN f[p + i] ELSE LenCell(0)]

Stop(why) == [res |-> why, next |-> 0, key |-> <<>>]

(* What unmarshals is one key's whole value. A value ends with the varint of *)
(* a timestamp, and any last byte ends a varint: where the last cell of a    *)
(* value is that byte, a value unmarshals whatever stands in its place.      *)
Unmarshals(val) ==
    \E k \in Keys :
        /\ ValCells[opener][k] = Len(val)
        /\ \/ val = ValueOf(k)
           \/ TornValueReads /\ Len(val) > 1 /\ Front(val) = Front(ValueOf(k))

(* readValue: make() panics on a length no buffer can have. A short read     *)
(* leaves the head at the end of the file.                                   *)
DeepValue(f, p, name) ==
    IF p + 1 > Len(f) THEN Stop("eof")
    ELSE IF ~IsLength(f[p + 1]) THEN Stop("panic")
    ELSE LET n   == f[p + 1].n
             end == IF p + 1 + n <= Len(f) THEN p + 1 + n ELSE Len(f)
         IN  IF n = 0 \/ Unmarshals(ReadCells(f, p + 1, n))
             THEN [res |-> "ok", next |-> end, key |-> name]
             ELSE Stop("baddata")

(* readAt(-1, false): the value is skipped by a Seek, which fails on a      *)
(* length outside the file size limits but may go beyond the end.           *)
SkipValue(f, p, name) ==
    IF p + 1 > Len(f) THEN Stop("eof")
    ELSE IF ~IsLength(f[p + 1]) THEN Stop("badseek")
    ELSE [res |-> "ok", next |-> p + 1 + f[p + 1].n, key |-> name]

(* One record at offset p, the value read (SeekLastValid, ReadAt) or skipped *)
(* (Index). *)
ReadRecord(f, p, readValue) ==
    IF p + 1 > Len(f) THEN Stop("eof")
    ELSE IF ~IsLength(f[p + 1]) THEN Stop("panic")
    ELSE LET n    == f[p + 1].n
             name == ReadCells(f, p + 1, n)
         IN  IF n = 0 THEN Stop("sentinel")
             ELSE IF p + 2 > Len(f) THEN Stop("eof")
             ELSE IF readValue THEN DeepValue(f, p + 1 + n, name)
             ELSE SkipValue(f, p + 1 + n, name)

(* The loop of SeekLastValid and of Index: the keys of the records found,   *)
(* the offset after the last good one, and what stopped the reader there.   *)
Walking(f, readValue) ==
    LET from[p \in Nat] ==
            LET r == ReadRecord(f, p, readValue)
            IN  IF r.res = "ok"
                THEN [from[r.next] EXCEPT !.keys = <<r.key>> \o @]
                ELSE [keys |-> <<>>, end |-> p, why |-> r.res]
    IN  from

Walk(f, readValue) == Walking(f, readValue)[0]

LastValid(f, readValue) == Walk(f, readValue).end
KeysFound(f, readValue) == Walk(f, readValue).keys
ReadEnds(f, readValue)  == Walk(f, readValue).why

(* seekSentinel: the position is right, and then `return err != nil`. *)
HasSentinel(f) == Len(f) >= 2 /\ SubSeq(f, Len(f) - 1, Len(f)) = Sentinel
SeekSentinel(f) ==
    LET seekErr == FALSE IN HasSentinel(f) /\ seekErr

(* Mutant: opening leaves the head at the start. *)
SeekNowhere(f) == 0

SeekLastValid(f) == IF SeekSentinel(f) THEN Len(f) - 2 ELSE LastValid(f, TRUE)

------------------------------------------------------------------------------
Init ==
    /\ opener \in Openers
    /\ file = <<>> /\ pos = 0 /\ mode = "closed"
    /\ pending = <<>> /\ key = NoKey
    /\ sealed = FALSE /\ known = <<>> /\ opens = 0

Opening ==
    /\ mode = "closed" /\ opens < MaxOpens
    /\ opens' = opens + 1
    /\ UNCHANGED <<opener, pending, key>>

(* os.Create: an existing file is truncated. *)
OpenOverwrite ==
    /\ Opening
    /\ MayOverwrite /\ opener = "scan"
    /\ file' = <<>> /\ pos' = 0 /\ mode' = "append"
    /\ sealed' = FALSE /\ known' = <<>>

(* NewUSTableForAppend without overwrite: SeekLastValid. *)
OpenScan ==
    /\ Opening
    /\ opener = "scan"
    /\ ReadEnds(file, TRUE) # "panic"
    /\ pos' = SeekLastValid(file)
    /\ mode' = "append"
    /\ known' = KeysFound(file, TRUE)
    /\ UNCHANGED <<file, sealed>>

(* Mutant: the head is left at the start after the pre-read. *)
OpenIndexAtStart ==
    /\ Opening
    /\ opener = "index"
    /\ ReadEnds(file, FALSE) # "panic"
    /\ pos' = 0 /\ mode' = "append"
    /\ known' = KeysFound(file, FALSE)
    /\ UNCHANGED <<file, sealed>>

(* NewUSTableForAppendWithIndex without overwrite: Index leaves the head at *)
(* the first record it could not read.                                      *)
OpenIndex ==
    /\ Opening
    /\ opener = "index"
    /\ ReadEnds(file, FALSE) # "panic"
    /\ pos' = LastValid(file, FALSE)
    /\ mode' = "append"
    /\ known' = KeysFound(file, FALSE)
    /\ UNCHANGED <<file, sealed>>

(* make([]byte, nameLen) panics: the process dies before it can do anything. *)
OpenPanics ==
    /\ Opening
    /\ ReadEnds(file, opener = "scan") = "panic"
    /\ mode' = "panicked"
    /\ UNCHANGED <<file, pos, sealed, known>>

(* Append takes the mutex: no other Append or Close before the last write. *)
StartAppend(k) ==
    /\ mode = "append" /\ key = NoKey
    /\ Len(known) < MaxRecords
    /\ key' = k
    /\ pending' = Writes(k)
    /\ UNCHANGED <<opener, file, pos, mode, sealed, known, opens>>

(* Mutant: Append reports success before its last write. *)
AckEarly ==
    /\ mode = "append" /\ key # NoKey
    /\ file' = Overwrite(file, pos, Head(pending))
    /\ pos' = pos + Len(Head(pending))
    /\ pending' = Tail(pending)
    /\ IF Len(pending) = 2
       THEN key' = NoKey /\ known' = Append(known, KeyOf(key))
       ELSE UNCHANGED <<key, known>>
    /\ UNCHANGED <<opener, mode, sealed, opens>>

(* One write call; after the fourth Append returns nil: acknowledged. *)
Write ==
    /\ mode = "append" /\ key # NoKey
    /\ LET cells == Head(pending)
       IN  /\ file' = Overwrite(file, pos, cells)
           /\ pos' = pos + Len(cells)
    /\ pending' = Tail(pending)
    /\ IF Len(pending) = 1
       THEN key' = NoKey /\ known' = Append(known, KeyOf(key))
       ELSE UNCHANGED <<key, known>>
    /\ UNCHANGED <<opener, mode, sealed, opens>>

(* Mutant: Close forgets the sentinel. *)
CloseUnmarked ==
    /\ mode = "append" /\ key = NoKey
    /\ pos' = 0 /\ mode' = "closed" /\ sealed' = TRUE
    /\ UNCHANGED <<opener, file, pending, key, known, opens>>

(* Close in APPEND mode: the sentinel, then fd.Close. *)
Close ==
    /\ mode = "append" /\ key = NoKey
    /\ file' = Overwrite(file, pos, Sentinel)
    /\ pos' = 0 /\ mode' = "closed" /\ sealed' = TRUE
    /\ UNCHANGED <<opener, pending, key, known, opens>>

(* The process dies (a crash, or os.Exit on a write error): of the write    *)
(* under way, some first cells may have reached the disk.                   *)
Crash ==
    /\ mode = "append"
    /\ \E cells \in IF key # NoKey THEN {SubSeq(Head(pending), 1, n) :
                                    n \in 0..(Len(Head(pending)) - 1)} \cup {<<>>}
                    ELSE {<<>>, <<Sentinel[1]>>} :
         file' = Overwrite(file, pos, cells)
    /\ pos' = 0 /\ mode' = "closed" /\ pending' = <<>> /\ key' = NoKey
    /\ sealed' = FALSE
    /\ UNCHANGED <<opener, known, opens>>

Next ==
    \/ OpenOverwrite \/ OpenScan \/ OpenIndex \/ OpenPanics
    \/ \E k \in Keys : StartAppend(k)
    \/ Write \/ Close \/ Crash

Spec == Init /\ [][Next]_vars
------------------------------------------------------------------------------
TypeOK ==
    /\ opener \in Openers
    /\ file \in Seq(Cells) /\ pos \in Nat
    /\ mode \in {"closed", "append", "panicked"}
    /\ key \in Keys \cup {NoKey}
    /\ pending \in Seq(Seq(Cells)) /\ (key = NoKey <=> pending = <<>>)
    /\ sealed \in BOOLEAN
    /\ known \in Seq({KeyOf(k) : k \in Keys})
    /\ opens \in 0..MaxOpens

(* The records a reader of the file finds are the known ones, in order, and *)
(* at most the one Append that was cut off after its last byte: no crash or *)
(* reopen loses an acknowledged record, or makes one out of torn bytes.     *)
KnownSurvive ==
    LET found == KeysFound(file, opener = "scan")
    IN  IsPrefix(known, found) /\ Len(found) <= Len(known) + 1

(* A file left by Close reads back: Index finds exactly the known records,  *)
(* ReadAt can read each of them, and neither runs into what an earlier crash *)
(* left beyond the sentinel.                                                *)
SealedReadsBack ==
    mode = "closed" /\ sealed =>
        \A readValue \in BOOLEAN :
            /\ KeysFound(file, readValue) = known
            /\ ReadEnds(file, readValue) = "sentinel"

(* SeekLastValid "will preserve existing valid contents" (NewUSTableForAppend): *)
(* what Append has acknowledged, or an open has found, a reader still finds.  *)
AcknowledgedKept == IsPrefix(known, KeysFound(file, opener = "scan"))

(* README: a conversion may be interrupted and restarted even if it crashed: *)
(* no open of an existing file ends in a panic.                             *)
ReopenNeverPanics == mode # "panicked"

(* The file keeps the promise of AppendLog.tla: complete records are kept by *)
(* crashes, torn ones never count, and only OpenOverwrite removes any.      *)
Copies(k) == LET found == KeysFound(file, TRUE)
             IN  Cardinality({i \in DOMAIN found : found[i] = KeyOf(k)})
Log == INSTANCE AppendLog WITH records <- [k \in Keys |-> Copies(k)],
                               isOpen <- mode = "append"
IsAppendLog == Log!Spec
==============================================================================
