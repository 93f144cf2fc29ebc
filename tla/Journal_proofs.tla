--------------------------- MODULE Journal_proofs ---------------------------
(***************************************************************************)
(* A journal survives what can happen to it, for any bounds and inputs.    *)
(*                                                                         *)
(* Its file keeps a whole version through every failure, kill and loss of  *)
(* power, whatever the documents are, and is the atomic journal of module  *)
(* AtomicJournal to all above it.  Its document says, whatever bytes the   *)
(* paths and texts are of, exactly the journal it was rendered of, and is  *)
(* refused once it is damaged.  The two together give the journal's store: *)
(* what a process holds can be read again, and so can what a scan finds.   *)
(***************************************************************************)
EXTENDS JournalStore, SequenceTheorems, WellFoundedInduction, TLAPS

-----------------------------------------------------------------------------
(* The journal file.                                                       *)

Writing == {"prepare", "create", "write", "sync", "restrict", "replace"}

\* What makes CrashKeepsAVersion inductive: a document is renamed only whole
\* and on the disk, and everything renamed or retired was asked for.
FileInv ==
    /\ FileTypeOK
    /\ CrashKeepsAVersion
    /\ final \in survives
    /\ pc \in Writing => new \in tried
    /\ pc \in {"sync", "restrict", "replace"} => temporary = new
    /\ pc \in {"restrict", "replace"} => synced
    /\ pc = "unlink" => Missing \in tried

LEMMA InitEstablishes == FileInit => FileInv
  BY DEF FileInit, FileInv, FileTypeOK, CrashKeepsAVersion, Files, StoreSteps, Writing

LEMMA PersistPreserves ==
  ASSUME FileInv, NEW d \in Documents, Persist(d)
  PROVE FileInv'
  BY DEF FileInv, FileTypeOK, CrashKeepsAVersion, Files, StoreSteps, Writing, Persist

LEMMA RemovePreserves == FileInv /\ RemoveJournal => FileInv'
  BY DEF FileInv, FileTypeOK, CrashKeepsAVersion, Files, StoreSteps, Writing, RemoveJournal

LEMMA StoreStepPreserves == FileInv /\ StoreStep => FileInv'
<1> SUFFICES ASSUME FileInv, StoreStep PROVE FileInv'
  OBVIOUS
<1> USE NotADocument DEF FileInv, FileTypeOK, CrashKeepsAVersion, Files, StoreSteps, Writing, Reports
<1>1. CASE Prepare
  BY <1>1 DEF Prepare
<1>2. CASE Create
  BY <1>2 DEF Create, Discard
<1>3. CASE Write
  BY <1>3 DEF Write, Discard
<1>4. CASE Sync
  BY <1>4 DEF Sync, Discard
<1>5. CASE RestrictToOwner
  BY <1>5 DEF RestrictToOwner
<1>6. CASE Replace
  \* What is renamed is the whole document, and it is on the disk.
  <2>1. OnDisk = {new} /\ temporary = new /\ new \in tried
    BY <1>6 DEF Replace, OnDisk
  <2>. QED
    BY <1>6, <2>1 DEF Replace, Renamed, Discard
<1>7. CASE Unlink
  BY <1>7 DEF Unlink, Renamed
<1>8. ASSUME NEW step \in {"flush", "flush_removal"}, FlushDirectory(step) PROVE FileInv'
  <2>1. final \in Documents \cup {Missing}
    OBVIOUS
  <2>. QED
    BY <1>8, <2>1 DEF FlushDirectory, Flushed
<1>. QED
  BY <1>1, <1>2, <1>3, <1>4, <1>5, <1>6, <1>7, <1>8 DEF StoreStep

LEMMA KilledPreserves == FileInv /\ Killed => FileInv'
  BY DEF FileInv, FileTypeOK, CrashKeepsAVersion, Files, StoreSteps, Writing, Killed, Reports

LEMMA PowerLossPreserves == FileInv /\ PowerLoss => FileInv'
  BY DEF FileInv, FileTypeOK, CrashKeepsAVersion, Files, StoreSteps, Writing, PowerLoss, Reports

LEMMA FileNextPreserves == FileInv /\ [FileNext]_file => FileInv'
<1>1. CASE UNCHANGED file
  BY <1>1 DEF FileInv, FileTypeOK, CrashKeepsAVersion, file
<1>2. CASE FileNext
  BY <1>2, PersistPreserves, RemovePreserves, StoreStepPreserves, KilledPreserves,
     PowerLossPreserves DEF FileNext
<1>. QED
  BY <1>1, <1>2

\* In every state a file that is not yet renamed holds the document being
\* stored or part of it, and only what was asked for can have the journal's
\* name: the invariant behind both theorems below (journal/store.rs, persist).
THEOREM FileInvariant == FileSpec => []FileInv
  BY InitEstablishes, FileNextPreserves, PTL DEF FileSpec

\* Whatever fails and whenever the power is lost, the journal's name is left
\* with the version the store last answered for or one asked for since, and
\* that version is whole: persist and remove of journal/store.rs.
THEOREM CrashSafety == FileSpec => []CrashKeepsAVersion
<1>1. FileInv => CrashKeepsAVersion
  BY DEF FileInv
<1>. QED
  BY <1>1, FileInvariant, PTL

----------------------------------------------------------------------------

LEMMA InitImplements == FileInit => Atomic!Init
  BY DEF FileInit, Atomic!Init, Atomic!Contents

LEMMA StepImplements ==
  FileInv /\ [FileNext]_file => [Atomic!Next]_<<final, stable, tried>>
<1> SUFFICES ASSUME FileInv, [FileNext]_file
             PROVE Atomic!Next \/ UNCHANGED <<final, stable, tried>>
  OBVIOUS
<1> USE DEF Atomic!Next, Atomic!Ask, Atomic!Settle, Atomic!Acknowledge, Atomic!Contents
<1>1. ASSUME NEW d \in Documents, Persist(d) PROVE Atomic!Ask
  BY <1>1 DEF Persist
<1>2. CASE RemoveJournal
  BY <1>2 DEF RemoveJournal
<1>3. CASE StoreStep
  <2>1. CASE Prepare \/ Create \/ Write \/ Sync \/ RestrictToOwner
    BY <2>1 DEF Prepare, Create, Write, Sync, RestrictToOwner
  <2>2. CASE Replace
    \* The rename takes effect, of a document that was asked for.
    <3>1. temporary \in tried
      BY <2>2 DEF FileInv, Writing, Replace
    <3>. QED
      BY <2>2, <3>1 DEF Replace
  <2>3. CASE Unlink
    BY <2>3 DEF Unlink, FileInv
  <2>4. ASSUME NEW step \in {"flush", "flush_removal"}, FlushDirectory(step)
        PROVE Atomic!Acknowledge \/ UNCHANGED <<final, stable, tried>>
    BY <2>4 DEF FlushDirectory, Flushed
  <2>. QED
    BY <1>3, <2>1, <2>2, <2>3, <2>4 DEF StoreStep
<1>4. CASE Killed
  BY <1>4 DEF Killed
<1>5. CASE PowerLoss
  BY <1>5 DEF PowerLoss, FileInv, CrashKeepsAVersion
<1>6. CASE UNCHANGED file
  BY <1>6 DEF file
<1>. QED
  BY <1>1, <1>2, <1>3, <1>4, <1>5, <1>6 DEF FileNext

\* To the transaction above it, the store's calls are the atomic outcomes that
\* module Transaction takes them to have: the old version, the new one, or
\* the new one acknowledged.
THEOREM FileImplementsAtomic == FileSpec => ImplementsAtomicJournal
<1>. QED
  BY InitImplements, StepImplements, FileInvariant, PTL
     DEF FileSpec, ImplementsAtomicJournal, Atomic!Spec

-----------------------------------------------------------------------------
(* Bytes and tokens.                                                       *)

\* A sequence given by its length and its elements.
LEMMA BytesOf ==
  ASSUME NEW n \in Nat, NEW s, s = [i \in 1..n |-> s[i]], \A i \in 1..n : s[i] \in Byte
  PROVE  s \in Seq(Byte) /\ Len(s) = n
<1>1. s \in [1..n -> Byte]
  OBVIOUS
<1>. QED  BY <1>1

\* Two digits say a byte.
LEMMA NibblesSayAByte ==
  ASSUME NEW b \in Byte
  PROVE  /\ b \div 16 \in 0..15 /\ b % 16 \in 0..15
         /\ 16 * (b \div 16) + (b % 16) = b
  BY DEF Byte

LEMMA NibbleIsRead ==
  ASSUME NEW v \in 0..15
  PROVE  Nibble(v) \in Digit \cup LowerHex /\ NibbleValue(Nibble(v)) = v
  BY DEF Nibble, NibbleValue, Digit, LowerHex

\* No byte that stands for itself is the escape, a space or a line's end.
LEMMA VerbatimBytes ==
  ASSUME NEW b \in Byte, IsVerbatim(b)
  PROVE  b # Percent /\ b \notin {10, 32}
<1>1. b \in 43..58 \/ b \in 64..122
  BY DEF IsVerbatim, Byte
<1>. QED  BY <1>1 DEF Percent, Byte

LEMMA Halves ==
  ASSUME NEW n \in Nat, NEW k \in 1..(2 * n)
  PROVE  \E i \in 1..n : k = 2 * i - 1 \/ k = 2 * i
<1>. DEFINE i == (k + 1) \div 2
<1>1. i \in Int /\ 2 * i <= k + 1 /\ k + 1 < 2 * i + 2
  OBVIOUS
<1>. HIDE DEF i
<1>2. i \in 1..n /\ (k = 2 * i - 1 \/ k = 2 * i)
  BY <1>1
<1>. QED  BY <1>2

\* The digits of bytes are read as those bytes.
LEMMA HexIsRead ==
  ASSUME NEW bytes \in Seq(Byte), NEW hex,
         hex = [i \in 1 .. 2 * Len(bytes) |->
                   Nibble(IF i % 2 = 1 THEN bytes[(i + 1) \div 2] \div 16 ELSE bytes[i \div 2] % 16)]
  PROVE  HexPairs(hex) = {bytes} /\ \A i \in DOMAIN hex : hex[i] \in Digit \cup LowerHex
<1>. DEFINE n == Len(bytes)
<1>1. n \in Nat /\ bytes = [i \in 1..n |-> bytes[i]] /\ \A i \in 1..n : bytes[i] \in Byte
  OBVIOUS
<1>. HIDE DEF n
<1>2. hex = [i \in 1 .. 2 * n |->
                   Nibble(IF i % 2 = 1 THEN bytes[(i + 1) \div 2] \div 16 ELSE bytes[i \div 2] % 16)]
  BY DEF n
<1>3. ASSUME NEW i \in 1..n
      PROVE  /\ hex[2 * i - 1] = Nibble(bytes[i] \div 16)
             /\ hex[2 * i] = Nibble(bytes[i] % 16)
  <2>1. 2 * i - 1 \in 1..(2 * n) /\ 2 * i \in 1..(2 * n)
    BY <1>1
  <2>2. (2 * i - 1) % 2 = 1 /\ ((2 * i - 1) + 1) \div 2 = i
    BY <1>1
  <2>3. (2 * i) % 2 # 1 /\ (2 * i) \div 2 = i
    BY <1>1
  <2>4. hex[2 * i - 1] = Nibble(IF (2 * i - 1) % 2 = 1 THEN bytes[((2 * i - 1) + 1) \div 2] \div 16
                                ELSE bytes[(2 * i - 1) \div 2] % 16)
    BY <1>2, <2>1
  <2>5. hex[2 * i] = Nibble(IF (2 * i) % 2 = 1 THEN bytes[((2 * i) + 1) \div 2] \div 16
                            ELSE bytes[(2 * i) \div 2] % 16)
    BY <1>2, <2>1
  <2>. QED  BY <2>2, <2>3, <2>4, <2>5, Zenon
<1>4. ASSUME NEW k \in 1..(2 * n) PROVE hex[k] \in Digit \cup LowerHex
  <2>1. PICK i \in 1..n : k = 2 * i - 1 \/ k = 2 * i
    BY <1>1, Halves
  <2>2. bytes[i] \div 16 \in 0..15 /\ bytes[i] % 16 \in 0..15
    BY <1>1, NibblesSayAByte
  <2>3. hex[k] = Nibble(bytes[i] \div 16) \/ hex[k] = Nibble(bytes[i] % 16)
    BY <1>3, <2>1
  <2>. QED  BY <2>2, <2>3, NibbleIsRead
<1>5. Len(hex) = 2 * n /\ DOMAIN hex = 1..(2 * n)
  BY <1>1, <1>2
<1>6. Len(hex) % 2 = 0 /\ Len(hex) \div 2 = n
  BY <1>1, <1>5
<1>7. ASSUME NEW i \in 1..n
      PROVE  16 * NibbleValue(hex[2 * i - 1]) + NibbleValue(hex[2 * i]) = bytes[i]
  <2>1. bytes[i] \div 16 \in 0..15 /\ bytes[i] % 16 \in 0..15 /\ bytes[i] \in Byte
    BY <1>1, NibblesSayAByte
  <2>2. NibbleValue(hex[2 * i - 1]) = bytes[i] \div 16 /\ NibbleValue(hex[2 * i]) = bytes[i] % 16
    BY <1>3, <2>1, NibbleIsRead
  <2>. QED  BY <2>1, <2>2, NibblesSayAByte
<1>8. [i \in 1..n |-> 16 * NibbleValue(hex[2 * i - 1]) + NibbleValue(hex[2 * i])] = bytes
  BY <1>1, <1>7, Zenon
<1>9. \A i \in DOMAIN hex : hex[i] \in Digit \cup LowerHex
  BY <1>4, <1>5
<1>. QED  BY <1>6, <1>8, <1>9 DEF HexPairs

\* Whatever bytes, their token is one field and is read as them.
LEMMA BytesAreReadBack ==
  ASSUME NEW bytes \in Seq(Byte)
  PROVE  DecodeBytes(EncodeBytes(bytes)) = {bytes} /\ OneField(EncodeBytes(bytes))
<1>1. CASE bytes # <<>> /\ AllVerbatim(bytes)
  <2>1. EncodeBytes(bytes) = bytes
    BY <1>1 DEF EncodeBytes
  <2>2. 1 \in DOMAIN bytes
    BY <1>1
  <2>3. \A i \in DOMAIN bytes : IsVerbatim(bytes[i])
    BY <1>1 DEF AllVerbatim
  <2>4. bytes[1] # Percent
    BY <2>2, <2>3, VerbatimBytes
  <2>5. OneField(bytes)
    BY <2>3, VerbatimBytes DEF OneField
  <2>. QED  BY <1>1, <2>1, <2>4, <2>5 DEF DecodeBytes
<1>2. CASE ~(bytes # <<>> /\ AllVerbatim(bytes))
  <2>. DEFINE hex == [i \in 1 .. 2 * Len(bytes) |->
             Nibble(IF i % 2 = 1 THEN bytes[(i + 1) \div 2] \div 16 ELSE bytes[i \div 2] % 16)]
              token == EncodeBytes(bytes)
  <2>1. HexPairs(hex) = {bytes} /\ \A i \in DOMAIN hex : hex[i] \in Digit \cup LowerHex
    BY HexIsRead
  <2>2. token = <<Percent>> \o hex
    BY <1>2 DEF EncodeBytes
  <2>3. hex \in Seq(Digit \cup LowerHex) /\ Len(hex) \in Nat
    <3>1. DOMAIN hex = 1..(2 * Len(bytes)) /\ 2 * Len(bytes) \in Nat
      OBVIOUS
    <3>. HIDE DEF hex
    <3>2. hex \in [1..(2 * Len(bytes)) -> Digit \cup LowerHex]
      <4>1. hex = [i \in DOMAIN hex |-> hex[i]]
        BY DEF hex
      <4>. QED  BY <4>1, <2>1, <3>1
    <3>. QED  BY <3>1, <3>2
  <2>. HIDE DEF hex, token
  <2>4. /\ token # <<>> /\ token[1] = Percent /\ Tail(token) = hex
        /\ \A i \in DOMAIN token : token[i] \in {Percent} \cup Digit \cup LowerHex
    <3>1. /\ Len(token) = 1 + Len(hex) /\ token \in Seq({Percent} \cup Digit \cup LowerHex)
          /\ \A i \in 1..Len(token) : token[i] = IF i = 1 THEN Percent ELSE hex[i - 1]
      BY <2>2, <2>3
    <3>2. token # <<>> /\ token[1] = Percent
      BY <2>3, <3>1
    <3>3. Tail(token) = hex
      BY <2>3, <3>1
    <3>4. \A i \in DOMAIN token : token[i] \in {Percent} \cup Digit \cup LowerHex
      BY <3>1
    <3>. QED  BY <3>2, <3>3, <3>4
  <2>5. OneField(token)
    <3>1. \A b \in {Percent} \cup Digit \cup LowerHex : b \notin {10, 32}
      BY DEF Percent, Digit, LowerHex
    <3>. QED  BY <2>4, <3>1 DEF OneField
  <2>. QED  BY <2>1, <2>4, <2>5 DEF DecodeBytes, token
<1>. QED  BY <1>1, <1>2

\* What a token of bytes is read as is bytes.
LEMMA BytesAreRead ==
  ASSUME NEW token \in Seq(Byte), NEW v \in DecodeBytes(token)
  PROVE  v \in Seq(Byte)
<1>1. CASE v = token
  BY <1>1
<1>2. CASE token # <<>> /\ v \in HexPairs(Tail(token))
  <2>. DEFINE hex == Tail(token)
  <2>1. hex \in Seq(Byte) /\ Len(hex) \in Nat
    BY <1>2
  <2>. HIDE DEF hex
  <2>2. /\ Len(hex) % 2 = 0 /\ \A i \in DOMAIN hex : hex[i] \in Digit \cup LowerHex
        /\ v = [i \in 1 .. Len(hex) \div 2 |-> 16 * NibbleValue(hex[2 * i - 1]) + NibbleValue(hex[2 * i])]
    BY <1>2 DEF HexPairs, hex
  <2>3. Len(hex) \div 2 \in Nat
    BY <2>1
  <2>4. ASSUME NEW i \in 1 .. Len(hex) \div 2 PROVE v[i] \in Byte
    <3>1. 2 * i - 1 \in DOMAIN hex /\ 2 * i \in DOMAIN hex
      <4>1. 2 * i <= Len(hex)
        BY <2>1
      <4>. QED  BY <2>1, <4>1
    <3>2. NibbleValue(hex[2 * i - 1]) \in 0..15 /\ NibbleValue(hex[2 * i]) \in 0..15
      BY <2>2, <3>1 DEF NibbleValue, Digit, LowerHex
    <3>3. v[i] = 16 * NibbleValue(hex[2 * i - 1]) + NibbleValue(hex[2 * i])
      BY <2>2
    <3>. DEFINE a == NibbleValue(hex[2 * i - 1])
                b == NibbleValue(hex[2 * i])
    <3>. HIDE DEF a, b
    <3>4. a \in 0..15 /\ b \in 0..15 /\ v[i] = 16 * a + b
      BY <3>2, <3>3 DEF a, b
    <3>. QED  BY <3>4 DEF Byte
  <2>. QED  BY <2>2, <2>3, <2>4, BytesOf
<1>. QED  BY <1>1, <1>2 DEF DecodeBytes

-----------------------------------------------------------------------------
(* Values, fields and lines.                                               *)

LEMMA LabelsAreRecords ==
  /\ DOMAIN Labels = {"transaction", "lock", "action"}
  /\ \A record \in Records : Required[record] \cap Optional[record] = {}
  /\ Read("lock", LegacySchemaVersion) = Required["lock"] \ {"access"}
  /\ Optional["lock"] = {"physical"} /\ "access" \in Required["lock"]
  /\ \A record \in Records : Read(record, SchemaVersion) = Required[record]
  /\ \A record \in Records \ {"lock"} : Read(record, LegacySchemaVersion) = Required[record]
  BY DEF Labels, Records, Singles, Repeated, Required, Optional, Read, SchemaVersion,
         LegacySchemaVersion

\* A value's token is one field, and is read as that value and no other.
LEMMA ValueIsReadBack ==
  ASSUME NEW record, NEW key, NEW value, IsValue(record, key, value)
  PROVE  /\ Values(record, key, Token(record, key, value)) = {value}
         /\ HasLabel(record, key) \/ IsNumber(record, key) \/ OneField(Token(record, key, value))
<1>1. CASE HasLabel(record, key)
  BY <1>1 DEF IsValue, Values, Token
<1>2. CASE ~HasLabel(record, key) /\ IsNumber(record, key)
  BY <1>2 DEF IsValue, Values, Token
<1>3. CASE ~HasLabel(record, key) /\ ~IsNumber(record, key)
  <2>1. value \in Seq(Byte) /\ (IsText(record, key) => Utf8(value))
    BY <1>3 DEF IsValue
  <2>2. Token(record, key, value) = EncodeBytes(value)
    BY <1>3 DEF Token
  <2>3. DecodeBytes(EncodeBytes(value)) = {value} /\ OneField(EncodeBytes(value))
    BY <2>1, BytesAreReadBack
  <2>4. Values(record, key, EncodeBytes(value)) =
          {v \in DecodeBytes(EncodeBytes(value)) : IsText(record, key) => Utf8(v)}
    BY <1>3 DEF Values
  <2>. QED  BY <2>1, <2>2, <2>3, <2>4, Zenon
<1>. QED  BY <1>1, <1>2, <1>3

\* The fields a reader takes of a line, where `keys` are those it looks for.
LEMMA FieldsAreReadBack ==
  ASSUME NEW record, NEW f, IsRecord(record, f), NEW keys, keys \subseteq DOMAIN f
  PROVE  LET fields == Line(record, f).fields IN
         /\ [key \in keys |-> CHOOSE v \in Values(record, key, fields[key]) : TRUE] = [key \in keys |-> f[key]]
         /\ \A key \in keys : Values(record, key, fields[key]) # {}
         /\ DOMAIN fields = DOMAIN f
<1>. DEFINE fields == Line(record, f).fields
<1>1. fields = [key \in DOMAIN f |-> Token(record, key, f[key])]
  BY DEF Line
<1>2. \A key \in keys : Values(record, key, fields[key]) = {f[key]}
  <2>1. \A key \in DOMAIN f : IsValue(record, key, f[key])
    BY DEF IsRecord
  <2>. QED  BY <1>1, <2>1, ValueIsReadBack
<1>. HIDE DEF fields
<1>3. \A key \in keys : (CHOOSE v \in Values(record, key, fields[key]) : TRUE) = f[key]
  BY <1>2
<1>. QED  BY <1>1, <1>2, <1>3 DEF fields

LEMMA LineIsReadBack ==
  ASSUME NEW record \in Records, NEW f, IsRecord(record, f)
  PROVE  /\ ReadsWhole(Line(record, f), SchemaVersion)
         /\ FieldsOf(Line(record, f), SchemaVersion) = f
         /\ Line(record, f).record = record
<1>1. Line(record, f).record = record
  BY DEF Line
<1>2. Read(record, SchemaVersion) = Required[record]
  BY LabelsAreRecords
<1>3. DOMAIN f \cap (Required[record] \cup Optional[record]) = DOMAIN f /\ Required[record] \subseteq DOMAIN f
      /\ f = [key \in DOMAIN f |-> f[key]]
  BY DEF IsRecord
<1>4. /\ [key \in DOMAIN f |-> CHOOSE v \in Values(record, key, Line(record, f).fields[key]) : TRUE]
           = [key \in DOMAIN f |-> f[key]]
      /\ \A key \in DOMAIN f : Values(record, key, Line(record, f).fields[key]) # {}
      /\ DOMAIN Line(record, f).fields = DOMAIN f
  BY FieldsAreReadBack
<1>5. ReadsWhole(Line(record, f), SchemaVersion)
  BY <1>1, <1>2, <1>3, <1>4 DEF ReadsWhole
<1>6. SchemaVersion # LegacySchemaVersion
  BY DEF SchemaVersion, LegacySchemaVersion
<1>. HIDE DEF Line
<1>7. FieldsOf(Line(record, f), SchemaVersion) = f
  BY <1>1, <1>2, <1>3, <1>4, <1>6 DEF FieldsOf
<1>. QED  BY <1>1, <1>5, <1>7

\* Under the older schema the access of a lock is not read.
LEMMA LegacyLineIsRead ==
  ASSUME NEW record \in Records, NEW f, IsRecord(record, f)
  PROVE  FieldsOf(Line(record, f), LegacySchemaVersion) =
           IF record = "lock" THEN [f EXCEPT !.access = "mutate"] ELSE f
<1>. DEFINE valueOf(key) == CHOOSE v \in Values(record, key, Line(record, f).fields[key]) : TRUE
<1>1. Line(record, f).record = record
  BY DEF Line
<1>2. /\ DOMAIN f \cap (Required[record] \cup Optional[record]) = DOMAIN f
      /\ Required[record] \subseteq DOMAIN f
      /\ f = [key \in DOMAIN f |-> f[key]]
  BY DEF IsRecord
<1>0. /\ [key \in DOMAIN f |-> valueOf(key)] = [key \in DOMAIN f |-> f[key]]
      /\ DOMAIN Line(record, f).fields = DOMAIN f
  BY FieldsAreReadBack
<1>9. \A key \in DOMAIN f : valueOf(key) = f[key]
  <2>. HIDE DEF valueOf
  <2>1. \A key \in DOMAIN f : [k \in DOMAIN f |-> valueOf(k)][key] = [k \in DOMAIN f |-> f[k]][key]
    BY <1>0
  <2>. QED  BY <2>1
<1>3. CASE record # "lock"
  <2>1. Read(record, LegacySchemaVersion) = Required[record]
    BY <1>3, LabelsAreRecords
  <2>2. FieldsOf(Line(record, f), LegacySchemaVersion) =
          [key \in DOMAIN f \cup {} |-> IF key \in {} THEN "mutate" ELSE valueOf(key)]
    BY <1>0, <1>1, <1>2, <1>3, <2>1 DEF FieldsOf
  <2>. HIDE DEF valueOf
  <2>3. [key \in DOMAIN f \cup {} |-> IF key \in {} THEN "mutate" ELSE valueOf(key)] = [key \in DOMAIN f |-> f[key]]
    BY <1>9
  <2>. QED  BY <1>2, <1>3, <2>2, <2>3
<1>4. CASE record = "lock"
  <2>. DEFINE keys == DOMAIN f \ {"access"}
  <2>2. DOMAIN f \cap (Read(record, LegacySchemaVersion) \cup Optional[record]) = keys
    BY <1>2, <1>4, LabelsAreRecords
  <2>3. "access" \in DOMAIN f
    BY <1>2, <1>4, LabelsAreRecords
  <2>4. FieldsOf(Line(record, f), LegacySchemaVersion) =
          [key \in keys \cup {"access"} |-> IF key \in {"access"} THEN "mutate" ELSE valueOf(key)]
    BY <1>0, <1>1, <1>4, <2>2 DEF FieldsOf
  <2>. HIDE DEF valueOf
  <2>5. [key \in keys \cup {"access"} |-> IF key \in {"access"} THEN "mutate" ELSE valueOf(key)] =
          [key \in DOMAIN f |-> IF key = "access" THEN "mutate" ELSE f[key]]
    BY <1>9, <2>3
  <2>6. [f EXCEPT !.access = "mutate"] =
            [key \in DOMAIN f |-> IF key = "access" THEN "mutate" ELSE f[key]]
    BY <1>2
  <2>. QED  BY <1>4, <2>4, <2>5, <2>6
<1>. QED  BY <1>3, <1>4

-----------------------------------------------------------------------------
(* The lines of one record among others.                                   *)

\* A set of numbers has a least one.
LEMMA LeastNatural ==
  ASSUME NEW T, T \subseteq Nat, T # {}
  PROVE  \E m \in T : \A n \in T : m <= n
<1>. DEFINE less == OpToRel(<, Nat)
<1>1. IsWellFoundedOn(less, Nat)
  BY NatLessThanWellFounded
<1>2. \A i, j \in Nat : i < j => <<i, j>> \in less
  BY DEF OpToRel
<1>. HIDE DEF less
<1>3. PICK i \in T : \A j \in T : ~(<<j, i>> \in less)
  BY <1>1, WFMin
<1>4. ASSUME NEW j \in T PROVE i <= j
  <2>1. i \in Nat /\ j \in Nat /\ ~(j < i)
    BY <1>2, <1>3
  <2>. QED  BY <2>1
<1>. QED  BY <1>4

\* The lines of a record among the first of a document, as they are gathered.
Takes(sofar, line, record) == IF line.record = record THEN Append(sofar, line) ELSE sofar
Gathers(f, lines, record, m) ==
    f = [n \in 0..m |-> IF n = 0 THEN <<>> ELSE Takes(f[n - 1], lines[n], record)]
GatheredUpTo(lines, record) ==
    CHOOSE f : Gathers(f, lines, record, Len(lines))

LEMMA GatheringExists ==
  ASSUME NEW lines, NEW record, Len(lines) \in Nat
  PROVE  \E f : Gathers(f, lines, record, Len(lines))
<1>. DEFINE Has(m) == \E f : Gathers(f, lines, record, m)
            bad == {m \in Nat : ~Has(m)}
<1>. HIDE DEF Has
<1>. SUFFICES ASSUME bad # {} PROVE FALSE
  BY DEF Has
<1>1. PICK m \in bad : \A n \in bad : m <= n
  BY LeastNatural
<1>2. m # 0
  <2>1. Gathers([n \in 0..0 |-> <<>>], lines, record, 0)
    BY DEF Gathers
  <2>. QED  BY <2>1 DEF Has
<1>3. m - 1 \in Nat /\ m - 1 \notin bad
  BY <1>1, <1>2
<1>4. PICK f : Gathers(f, lines, record, m - 1)
  BY <1>3 DEF Has
<1>. DEFINE g == [n \in 0..m |-> IF n = m THEN Takes(f[m - 1], lines[m], record) ELSE f[n]]
<1>5. Gathers(g, lines, record, m)
  <2>1. f = [n \in 0..(m - 1) |-> IF n = 0 THEN <<>> ELSE Takes(f[n - 1], lines[n], record)]
    BY <1>4 DEF Gathers
  <2>2. \A n \in 0..m : g[n] = IF n = 0 THEN <<>> ELSE Takes(g[n - 1], lines[n], record)
    <3>1. ASSUME NEW n \in 0..m, n # m, n # 0 PROVE g[n] = Takes(g[n - 1], lines[n], record)
      <4>1. n \in 0..(m - 1) /\ n - 1 \in 0..m /\ n - 1 # m
        BY <3>1, <1>3
      <4>. QED  BY <2>1, <4>1, <3>1
    <3>2. m - 1 \in 0..m /\ m - 1 # m /\ 0 \in 0..(m - 1) /\ 0 \in 0..m
      BY <1>3
    <3>3. g[m] = Takes(g[m - 1], lines[m], record)
      BY <3>2, <1>3
    <3>4. g[0] = <<>>
      BY <2>1, <3>2, <1>2
    <3>. QED  BY <3>1, <3>3, <3>4, <1>2
  <2>. QED  BY <2>2 DEF Gathers
<1>. QED  BY <1>5 DEF Has

LEMMA GatheredStepwise ==
  ASSUME NEW lines, NEW record, Len(lines) \in Nat
  PROVE  \E f : /\ f[0] = <<>>
                /\ \A n \in 1..Len(lines) : f[n] = Takes(f[n - 1], lines[n], record)
                /\ Gathered(lines, record) = f[Len(lines)]
<1>. DEFINE f == GatheredUpTo(lines, record)
<1>1. Gathers(f, lines, record, Len(lines))
  BY GatheringExists DEF GatheredUpTo
<1>2. Gathered(lines, record) = f[Len(lines)]
  BY DEF Gathered, GatheredUpTo, Gathers, Takes
<1>. HIDE DEF f
<1>3. /\ f[0] = <<>>
      /\ \A n \in 1..Len(lines) : f[n] = Takes(f[n - 1], lines[n], record)
  BY <1>1 DEF Gathers
<1>. QED  BY <1>2, <1>3

\* All that is gathered is lines of that record.
LEMMA GatheredAreOf ==
  ASSUME NEW lines, NEW L, lines \in Seq(L), NEW record
  PROVE  Gathered(lines, record) \in Seq({lines[i] : i \in {k \in DOMAIN lines : lines[k].record = record}})
<1>. DEFINE own == {lines[i] : i \in {k \in DOMAIN lines : lines[k].record = record}}
<1>1. Len(lines) \in Nat /\ DOMAIN lines = 1..Len(lines)
  OBVIOUS
<1>2. PICK f : /\ f[0] = <<>>
               /\ \A n \in 1..Len(lines) : f[n] = Takes(f[n - 1], lines[n], record)
               /\ Gathered(lines, record) = f[Len(lines)]
  BY <1>1, GatheredStepwise
<1>. DEFINE bad == {n \in 0..Len(lines) : f[n] \notin Seq(own)}
<1>3. bad = {}
  <2>. SUFFICES ASSUME bad # {} PROVE FALSE
    OBVIOUS
  <2>1. PICK m \in bad : \A n \in bad : m <= n
    <3>1. bad \subseteq Nat
      BY <1>1
    <3>. HIDE DEF bad
    <3>. QED  BY <3>1, LeastNatural
  <2>2. m \in 1..Len(lines)
    <3>. HIDE DEF own
    <3>1. <<>> \in Seq(own)
      OBVIOUS
    <3>2. m # 0
      BY <1>2, <2>1, <3>1
    <3>. QED  BY <1>1, <2>1, <3>2
  <2>3. m - 1 \in 0..Len(lines) /\ m - 1 \notin bad
    BY <1>1, <2>1, <2>2
  <2>4. f[m - 1] \in Seq(own) /\ f[m] = Takes(f[m - 1], lines[m], record)
    BY <1>2, <2>2, <2>3
  <2>5. lines[m].record = record => lines[m] \in own
    BY <1>1, <2>2
  <2>. HIDE DEF own
  <2>6. f[m] \in Seq(own)
    BY <2>4, <2>5 DEF Takes
  <2>. QED  BY <2>1, <2>6
<1>. QED  BY <1>1, <1>2, <1>3

\* The lines of a record that stand together are gathered as they stand.
AreTogether(lines, record, lo, len) ==
    /\ lo \in Nat /\ len \in Nat /\ lo + len <= Len(lines)
    /\ \A i \in 1..Len(lines) : lines[i].record = record <=> lo < i /\ i <= lo + len

LEMMA BlockIsGathered ==
  ASSUME NEW L, NEW lines \in Seq(L), NEW record, NEW lo, NEW len, AreTogether(lines, record, lo, len)
  PROVE  Gathered(lines, record) = [i \in 1..len |-> lines[lo + i]]
<1>0. /\ lo \in Nat /\ len \in Nat /\ lo + len <= Len(lines)
      /\ \A i \in 1..Len(lines) : lines[i].record = record <=> lo < i /\ i <= lo + len
  BY DEF AreTogether
<1>. USE <1>0
<1>1. Len(lines) \in Nat /\ DOMAIN lines = 1..Len(lines)
  OBVIOUS
<1>2. PICK f : /\ f[0] = <<>>
               /\ \A n \in 1..Len(lines) : f[n] = Takes(f[n - 1], lines[n], record)
               /\ Gathered(lines, record) = f[Len(lines)]
  BY <1>1, GatheredStepwise
<1>. DEFINE got(n) == IF n <= lo THEN 0 ELSE IF n <= lo + len THEN n - lo ELSE len
            bad == {n \in 0..Len(lines) : f[n] # [i \in 1..got(n) |-> lines[lo + i]]}
<1>3. bad = {}
  <2>. SUFFICES ASSUME bad # {} PROVE FALSE
    OBVIOUS
  <2>1. PICK m \in bad : \A n \in bad : m <= n
    <3>1. bad \subseteq Nat
      BY <1>1
    <3>. HIDE DEF bad
    <3>. QED  BY <3>1, LeastNatural
  <2>2. m # 0
    <3>1. got(0) = 0
      OBVIOUS
    <3>2. [i \in 1..0 |-> lines[lo + i]] = <<>>
      OBVIOUS
    <3>. HIDE DEF got
    <3>. QED  BY <1>2, <3>1, <3>2
  <2>3. m \in 1..Len(lines)
    BY <1>1, <2>2
  <2>4. m - 1 \in 0..Len(lines) /\ m - 1 \notin bad
    BY <1>1, <2>1, <2>3
  <2>5. f[m - 1] = [i \in 1..got(m - 1) |-> lines[lo + i]] /\ f[m] = Takes(f[m - 1], lines[m], record)
    BY <1>2, <2>3, <2>4
  <2>6. CASE lo < m /\ m <= lo + len
    <3>1. got(m) = m - lo /\ got(m - 1) = (m - lo) - 1 /\ m - lo \in 1..len
      BY <2>3, <2>6
    <3>2. lines[m].record = record
      BY <2>3, <2>6
    <3>3. f[m] = Append([i \in 1..((m - lo) - 1) |-> lines[lo + i]], lines[m])
      BY <2>5, <3>1, <3>2 DEF Takes
    <3>4. Append([i \in 1..((m - lo) - 1) |-> lines[lo + i]], lines[m]) = [i \in 1..(m - lo) |-> lines[lo + i]]
      <4>. DEFINE k == m - lo
      <4>1. k \in 1..len /\ m = lo + k
        BY <2>3, <3>1
      <4>. HIDE DEF k
      <4>2. Append([i \in 1..(k - 1) |-> lines[lo + i]], lines[lo + k]) = [i \in 1..k |-> lines[lo + i]]
        BY <4>1
      <4>. QED  BY <4>1, <4>2 DEF k
    <3>. QED  BY <3>1, <3>3, <3>4
  <2>7. CASE ~(lo < m /\ m <= lo + len)
    <3>1. got(m) = got(m - 1)
      BY <2>3, <2>7
    <3>2. lines[m].record # record
      BY <2>3, <2>7
    <3>3. f[m] = [i \in 1..got(m - 1) |-> lines[lo + i]]
      BY <2>5, <3>2 DEF Takes
    <3>. QED  BY <3>1, <3>3
  <2>. QED  BY <2>6, <2>7
<1>4. got(Len(lines)) = len
  <2>. DEFINE n == Len(lines)
  <2>1. n \in Nat /\ lo + len <= n
    BY <1>1
  <2>. HIDE DEF n
  <2>2. got(n) = len
    BY <2>1
  <2>. QED  BY <2>2 DEF n
<1>5. f[Len(lines)] = [i \in 1..got(Len(lines)) |-> lines[lo + i]]
  <2>. HIDE DEF got
  <2>1. Len(lines) \in 0..Len(lines)
    BY <1>1
  <2>. QED  BY <1>3, <2>1
<1>. HIDE DEF got
<1>. QED  BY <1>2, <1>4, <1>5

-----------------------------------------------------------------------------
(* The lines of a journal, by their places.                                *)

LEMMA Joined ==
  ASSUME NEW Z, NEW s \in Seq(Z), NEW t \in Seq(Z)
  PROVE  /\ s \o t \in Seq(Z)
         /\ Len(s \o t) = Len(s) + Len(t)
         /\ \A i \in 1..Len(s) : (s \o t)[i] = s[i]
         /\ \A i \in 1..Len(t) : (s \o t)[Len(s) + i] = t[i]
OBVIOUS

Five(h, s, l, a, e) == (((h \o s) \o l) \o a) \o e

AreJoined(x, h, s, l, a, e) ==
    /\ Len(x) = Len(h) + Len(s) + Len(l) + Len(a) + Len(e)
    /\ \A i \in 1..Len(h) : x[i] = h[i]
    /\ \A i \in 1..Len(s) : x[Len(h) + i] = s[i]
    /\ \A i \in 1..Len(l) : x[Len(h) + Len(s) + i] = l[i]
    /\ \A i \in 1..Len(a) : x[Len(h) + Len(s) + Len(l) + i] = a[i]
    /\ \A i \in 1..Len(e) : x[Len(h) + Len(s) + Len(l) + Len(a) + i] = e[i]

\* Five sequences, one behind the other.
LEMMA JoinedFive ==
  ASSUME NEW Z, NEW h \in Seq(Z), NEW s \in Seq(Z), NEW l \in Seq(Z), NEW a \in Seq(Z), NEW e \in Seq(Z)
  PROVE  Five(h, s, l, a, e) \in Seq(Z) /\ AreJoined(Five(h, s, l, a, e), h, s, l, a, e)
<1>. DEFINE x == Five(h, s, l, a, e)
<1>. DEFINE u == h \o s
            v == u \o l
            w == v \o a
<1>0. u \in Seq(Z)
  BY Joined
<1>1. Len(u) = Len(h) + Len(s)
      /\ (\A i \in 1..Len(h) : u[i] = h[i])
      /\ \A i \in 1..Len(s) : u[Len(h) + i] = s[i]
  BY Joined
<1>. HIDE DEF u
<1>20. v \in Seq(Z)
  BY <1>0, Joined
<1>2. Len(v) = Len(u) + Len(l)
      /\ (\A i \in 1..Len(u) : v[i] = u[i])
      /\ \A i \in 1..Len(l) : v[Len(u) + i] = l[i]
  BY <1>0, Joined
<1>. HIDE DEF v
<1>30. w \in Seq(Z)
  BY <1>20, Joined
<1>3. Len(w) = Len(v) + Len(a)
      /\ (\A i \in 1..Len(v) : w[i] = v[i])
      /\ \A i \in 1..Len(a) : w[Len(v) + i] = a[i]
  BY <1>20, Joined
<1>. HIDE DEF w
<1>40. x = w \o e
  BY DEF u, v, w, Five
<1>. HIDE DEF x
<1>41. x \in Seq(Z)
  BY <1>30, <1>40, Joined
<1>4. Len(x) = Len(w) + Len(e)
      /\ (\A i \in 1..Len(w) : x[i] = w[i])
      /\ \A i \in 1..Len(e) : x[Len(w) + i] = e[i]
  BY <1>30, <1>40, Joined
<1>5. Len(h) \in Nat /\ Len(s) \in Nat /\ Len(l) \in Nat /\ Len(a) \in Nat /\ Len(e) \in Nat
  OBVIOUS
<1>6. \A i \in 1..Len(h) : x[i] = h[i]
  BY <1>1, <1>2, <1>3, <1>4, <1>5
<1>7. ASSUME NEW i \in 1..Len(s) PROVE x[Len(h) + i] = s[i]
  <2>1. Len(h) + i \in 1..Len(u) /\ Len(h) + i \in 1..Len(v) /\ Len(h) + i \in 1..Len(w)
    BY <1>1, <1>2, <1>3, <1>5
  <2>. QED  BY <1>1, <1>2, <1>3, <1>4, <2>1
<1>8. ASSUME NEW i \in 1..Len(l) PROVE x[Len(h) + Len(s) + i] = l[i]
  <2>1. Len(u) + i \in 1..Len(v) /\ Len(u) + i \in 1..Len(w)
    BY <1>1, <1>2, <1>3, <1>5
  <2>2. x[Len(u) + i] = l[i]
    BY <1>2, <1>3, <1>4, <2>1
  <2>. QED  BY <1>1, <2>2
<1>9. ASSUME NEW i \in 1..Len(a) PROVE x[Len(h) + Len(s) + Len(l) + i] = a[i]
  <2>1. Len(v) + i \in 1..Len(w)
    BY <1>1, <1>2, <1>3, <1>5
  <2>2. x[Len(v) + i] = a[i]
    BY <1>3, <1>4, <2>1
  <2>. QED  BY <1>1, <1>2, <2>2
<1>10. ASSUME NEW i \in 1..Len(e) PROVE x[Len(h) + Len(s) + Len(l) + Len(a) + i] = e[i]
  BY <1>1, <1>2, <1>3, <1>4
<1>11. Len(x) = Len(h) + Len(s) + Len(l) + Len(a) + Len(e)
  BY <1>1, <1>2, <1>3, <1>4
<1>. QED  BY <1>41, <1>6, <1>7, <1>8, <1>9, <1>10, <1>11 DEF x, AreJoined

Count(record, journal) == Len(journal[record])

\* The lines of a repeated record, one for each of its entries.
LEMMA LinesOfRecord ==
  ASSUME NEW journal, IsJournal(journal), NEW record \in Repeated
  PROVE  /\ LinesOf(record, journal) \in Seq(ToSet(LinesOf(record, journal)))
         /\ Len(LinesOf(record, journal)) = Count(record, journal)
         /\ Count(record, journal) = Len(journal[record])
         /\ Count(record, journal) \in Nat /\ DOMAIN journal[record] = 1..Count(record, journal)
         /\ \A i \in 1..Count(record, journal) :
                LinesOf(record, journal)[i] = Line(record, journal[record][i])
<1>. DEFINE n == Count(record, journal)
            lines == LinesOf(record, journal)
<1>1. journal[record] \in Seq(ToSet(journal[record]))
  BY DEF IsJournal
<1>2. n \in Nat /\ DOMAIN journal[record] = 1..n
  BY <1>1 DEF Count
<1>3. lines = [i \in 1..n |-> Line(record, journal[record][i])]
  BY <1>2 DEF LinesOf
<1>. HIDE DEF n, lines
<1>4. DOMAIN lines = 1..n /\ \A i \in 1..n : lines[i] = Line(record, journal[record][i])
  BY <1>3
<1>5. lines \in [1..n -> ToSet(lines)]
  <2>1. \A i \in 1..n : lines[i] \in ToSet(lines)
    BY <1>4 DEF ToSet
  <2>2. lines = [i \in 1..n |-> lines[i]]
    BY <1>3
  <2>. QED  BY <2>1, <2>2
<1>. QED  BY <1>2, <1>4, <1>5 DEF n, lines, Count

\* Where the lines of each record stand in a document.
Offset(record, journal) ==
    CASE record = "transaction" -> 0
      [] record = "paths" -> 1
      [] record = "source" -> 2
      [] record = "lock" -> 2 + Count("source", journal)
      [] record = "action" -> 2 + Count("source", journal) + Count("lock", journal)
      [] record = "error" -> 2 + Count("source", journal) + Count("lock", journal) + Count("action", journal)
Extent(record, journal) == IF record \in Singles THEN 1 ELSE Count(record, journal)
FieldsAt(record, journal, i) == IF record \in Singles THEN journal[record] ELSE journal[record][i]
Total(journal) ==
    2 + Count("source", journal) + Count("lock", journal) + Count("action", journal) + Count("error", journal)

LEMMA LinesAreLaidOut ==
  ASSUME NEW journal, IsJournal(journal)
  PROVE  /\ \E L : ToLines(journal) \in Seq(L)
         /\ Len(ToLines(journal)) = Total(journal) /\ Total(journal) \in Nat
         /\ \A record \in Records :
               /\ Offset(record, journal) \in Nat /\ Extent(record, journal) \in Nat
               /\ Offset(record, journal) + Extent(record, journal) <= Total(journal)
               /\ \A i \in 1..Extent(record, journal) :
                      ToLines(journal)[Offset(record, journal) + i] =
                          Line(record, FieldsAt(record, journal, i))
<1>. DEFINE h == <<Line("transaction", journal.transaction), Line("paths", journal.paths)>>
            s == LinesOf("source", journal)
            l == LinesOf("lock", journal)
            a == LinesOf("action", journal)
            e == LinesOf("error", journal)
            ns == Count("source", journal)
            nl == Count("lock", journal)
            na == Count("action", journal)
            ne == Count("error", journal)
            lines == ToLines(journal)
<1>1. /\ s \in Seq(ToSet(s)) /\ Len(s) = ns /\ ns \in Nat
      /\ \A i \in 1..ns : s[i] = Line("source", journal.source[i])
  BY LinesOfRecord DEF Repeated
<1>2. /\ l \in Seq(ToSet(l)) /\ Len(l) = nl /\ nl \in Nat
      /\ \A i \in 1..nl : l[i] = Line("lock", journal.lock[i])
  BY LinesOfRecord DEF Repeated
<1>3. /\ a \in Seq(ToSet(a)) /\ Len(a) = na /\ na \in Nat
      /\ \A i \in 1..na : a[i] = Line("action", journal.action[i])
  BY LinesOfRecord DEF Repeated
<1>4. /\ e \in Seq(ToSet(e)) /\ Len(e) = ne /\ ne \in Nat
      /\ \A i \in 1..ne : e[i] = Line("error", journal.error[i])
  BY LinesOfRecord DEF Repeated
<1>5. /\ h \in Seq({h[1], h[2]}) /\ Len(h) = 2
      /\ h[1] = Line("transaction", journal.transaction) /\ h[2] = Line("paths", journal.paths)
  <2>1. \A x, y : <<x, y>> \in Seq({x, y}) /\ Len(<<x, y>>) = 2
                  /\ <<x, y>>[1] = x /\ <<x, y>>[2] = y
    OBVIOUS
  <2>. QED  BY <2>1
<1>6. lines = Five(h, s, l, a, e)
  BY DEF ToLines, Five
<1>. HIDE DEF h, s, l, a, e, lines, ns, nl, na, ne
<1>. DEFINE Z == {h[1], h[2]} \cup ToSet(s) \cup ToSet(l) \cup ToSet(a) \cup ToSet(e)
<1>7. /\ h \in Seq(Z) /\ s \in Seq(Z) /\ l \in Seq(Z) /\ a \in Seq(Z) /\ e \in Seq(Z)
  <2>1. h \in Seq({h[1], h[2]}) /\ s \in Seq(ToSet(s)) /\ l \in Seq(ToSet(l))
        /\ a \in Seq(ToSet(a)) /\ e \in Seq(ToSet(e))
    BY <1>1, <1>2, <1>3, <1>4, <1>5
  <2>2. {h[1], h[2]} \subseteq Z /\ ToSet(s) \subseteq Z /\ ToSet(l) \subseteq Z
        /\ ToSet(a) \subseteq Z /\ ToSet(e) \subseteq Z
    OBVIOUS
  <2>. HIDE DEF Z
  <2>. QED  BY <2>1, <2>2, SeqMonotonic
<1>. HIDE DEF Z
<1>8. /\ lines \in Seq(Z)
      /\ Len(lines) = Len(h) + Len(s) + Len(l) + Len(a) + Len(e)
      /\ \A i \in 1..Len(h) : lines[i] = h[i]
      /\ \A i \in 1..Len(s) : lines[Len(h) + i] = s[i]
      /\ \A i \in 1..Len(l) : lines[Len(h) + Len(s) + i] = l[i]
      /\ \A i \in 1..Len(a) : lines[Len(h) + Len(s) + Len(l) + i] = a[i]
      /\ \A i \in 1..Len(e) : lines[Len(h) + Len(s) + Len(l) + Len(a) + i] = e[i]
  <2>1. Five(h, s, l, a, e) \in Seq(Z) /\ AreJoined(Five(h, s, l, a, e), h, s, l, a, e)
    BY <1>7, JoinedFive
  <2>. QED  BY <1>6, <2>1, Zenon DEF AreJoined
<1>9. Len(h) = 2 /\ Len(s) = ns /\ Len(l) = nl /\ Len(a) = na /\ Len(e) = ne
  BY <1>1, <1>2, <1>3, <1>4, <1>5
<1>10. /\ Len(lines) = 2 + ns + nl + na + ne
       /\ \A i \in 1..2 : lines[i] = h[i]
       /\ \A i \in 1..ns : lines[2 + i] = s[i]
       /\ \A i \in 1..nl : lines[2 + ns + i] = l[i]
       /\ \A i \in 1..na : lines[2 + ns + nl + i] = a[i]
       /\ \A i \in 1..ne : lines[2 + ns + nl + na + i] = e[i]
  BY <1>8, <1>9, Zenon
<1>11. /\ lines[0 + 1] = Line("transaction", journal.transaction)
       /\ lines[1 + 1] = Line("paths", journal.paths)
       /\ \A i \in 1..ns : lines[2 + i] = Line("source", journal.source[i])
       /\ \A i \in 1..nl : lines[2 + ns + i] = Line("lock", journal.lock[i])
       /\ \A i \in 1..na : lines[2 + ns + nl + i] = Line("action", journal.action[i])
       /\ \A i \in 1..ne : lines[2 + ns + nl + na + i] = Line("error", journal.error[i])
  <2>1. 0 + 1 = 1 /\ 1 + 1 = 2 /\ 1 \in 1..2 /\ 2 \in 1..2
    OBVIOUS
  <2>2. lines[1] = h[1] /\ lines[2] = h[2]
    BY <1>10, <2>1, Zenon
  <2>3. lines[0 + 1] = Line("transaction", journal.transaction) /\ lines[1 + 1] = Line("paths", journal.paths)
    BY <1>5, <2>1, <2>2, Zenon
  <2>. QED  BY <1>1, <1>2, <1>3, <1>4, <1>10, <2>3, Zenon
<1>12. /\ 0 \in Nat /\ 1 \in Nat /\ 2 \in Nat /\ 2 + ns \in Nat /\ 2 + ns + nl \in Nat
       /\ 2 + ns + nl + na \in Nat /\ 2 + ns + nl + na + ne \in Nat
       /\ 0 + 1 <= 2 + ns + nl + na + ne /\ 1 + 1 <= 2 + ns + nl + na + ne
       /\ 2 + ns <= 2 + ns + nl + na + ne /\ (2 + ns) + nl <= 2 + ns + nl + na + ne
       /\ (2 + ns + nl) + na <= 2 + ns + nl + na + ne
       /\ (2 + ns + nl + na) + ne <= 2 + ns + nl + na + ne
       /\ ns \in Nat /\ nl \in Nat /\ na \in Nat /\ ne \in Nat
  <2>1. ns \in Nat /\ nl \in Nat /\ na \in Nat /\ ne \in Nat
    BY <1>1, <1>2, <1>3, <1>4
  <2>. QED  BY <2>1
<1>13. Total(journal) = 2 + ns + nl + na + ne
  BY DEF Total, ns, nl, na, ne
<1>14. ASSUME NEW record \in Records
       PROVE  /\ Offset(record, journal) \in Nat /\ Extent(record, journal) \in Nat
              /\ Offset(record, journal) + Extent(record, journal) <= Total(journal)
              /\ \A i \in 1..Extent(record, journal) :
                      lines[Offset(record, journal) + i] = Line(record, FieldsAt(record, journal, i))
  <2>1. CASE record = "transaction"
    <3>1. Offset(record, journal) = 0 /\ Extent(record, journal) = 1
          /\ \A i : FieldsAt(record, journal, i) = journal.transaction
      BY <2>1 DEF Offset, Extent, FieldsAt, Singles
    <3>2. \A i \in 1..1 : i = 1
      OBVIOUS
    <3>3. \A i \in 1..1 : lines[0 + i] = Line(record, FieldsAt(record, journal, i))
      BY <1>11, <2>1, <3>1, <3>2, Zenon
    <3>. QED  BY <3>1, <3>3, <1>12, <1>13, Zenon
  <2>2. CASE record = "paths"
    <3>1. Offset(record, journal) = 1 /\ Extent(record, journal) = 1
          /\ \A i : FieldsAt(record, journal, i) = journal.paths
      BY <2>2 DEF Offset, Extent, FieldsAt, Singles
    <3>2. \A i \in 1..1 : i = 1
      OBVIOUS
    <3>3. \A i \in 1..1 : lines[1 + i] = Line(record, FieldsAt(record, journal, i))
      BY <1>11, <2>2, <3>1, <3>2, Zenon
    <3>. QED  BY <3>1, <3>3, <1>12, <1>13, Zenon
  <2>3. CASE record = "source"
    <3>1. Offset(record, journal) = 2 /\ Extent(record, journal) = ns
          /\ \A i : FieldsAt(record, journal, i) = journal.source[i]
      BY <2>3 DEF Offset, Extent, FieldsAt, Singles, ns
    <3>2. \A i \in 1..ns : lines[2 + i] = Line(record, FieldsAt(record, journal, i))
      BY <1>11, <2>3, <3>1, Zenon
    <3>. QED  BY <3>1, <3>2, <1>12, <1>13, Zenon
  <2>4. CASE record = "lock"
    <3>1. Offset(record, journal) = 2 + ns /\ Extent(record, journal) = nl
          /\ \A i : FieldsAt(record, journal, i) = journal.lock[i]
      BY <2>4 DEF Offset, Extent, FieldsAt, Singles, ns, nl
    <3>. QED  BY <2>4, <3>1, <1>11, <1>12, <1>13, Zenon
  <2>5. CASE record = "action"
    <3>1. Offset(record, journal) = 2 + ns + nl /\ Extent(record, journal) = na
          /\ \A i : FieldsAt(record, journal, i) = journal.action[i]
      BY <2>5 DEF Offset, Extent, FieldsAt, Singles, ns, nl, na
    <3>. QED  BY <2>5, <3>1, <1>11, <1>12, <1>13, Zenon
  <2>6. CASE record = "error"
    <3>1. Offset(record, journal) = 2 + ns + nl + na /\ Extent(record, journal) = ne
          /\ \A i : FieldsAt(record, journal, i) = journal.error[i]
      BY <2>6 DEF Offset, Extent, FieldsAt, Singles, ns, nl, na, ne
    <3>. QED  BY <2>6, <3>1, <1>11, <1>12, <1>13, Zenon
  <2>. QED  BY <2>1, <2>2, <2>3, <2>4, <2>5, <2>6 DEF Records, Singles, Repeated
<1>15. Len(lines) = Total(journal) /\ Total(journal) \in Nat
  BY <1>10, <1>12, <1>13, Zenon
<1>16. \E L : lines \in Seq(L)
  BY <1>8
<1>. QED  BY <1>14, <1>15, <1>16, Zenon DEF lines

\* The lines of a journal are those of its records and no others.
LEMMA RecordsCover ==
  ASSUME NEW journal, IsJournal(journal), NEW i \in 1..Total(journal)
  PROVE  \E record \in Records :
            /\ Offset(record, journal) < i
            /\ i <= Offset(record, journal) + Extent(record, journal)
<1>. DEFINE ns == Count("source", journal)
            nl == Count("lock", journal)
            na == Count("action", journal)
            ne == Count("error", journal)
<1>1. ns \in Nat /\ nl \in Nat /\ na \in Nat /\ ne \in Nat
  BY LinesOfRecord DEF Repeated
<1>2. Total(journal) = 2 + ns + nl + na + ne
  BY DEF Total
<1>3. /\ Offset("transaction", journal) = 0 /\ Extent("transaction", journal) = 1
      /\ Offset("paths", journal) = 1 /\ Extent("paths", journal) = 1
      /\ Offset("source", journal) = 2 /\ Extent("source", journal) = ns
      /\ Offset("lock", journal) = 2 + ns /\ Extent("lock", journal) = nl
      /\ Offset("action", journal) = 2 + ns + nl /\ Extent("action", journal) = na
      /\ Offset("error", journal) = 2 + ns + nl + na /\ Extent("error", journal) = ne
  BY DEF Offset, Extent, Singles
<1>4. {"transaction", "paths", "source", "lock", "action", "error"} \subseteq Records
  BY DEF Records, Singles, Repeated
<1>. HIDE DEF ns, nl, na, ne
<1>5. \/ 0 < i /\ i <= 0 + 1
      \/ 1 < i /\ i <= 1 + 1
      \/ 2 < i /\ i <= 2 + ns
      \/ 2 + ns < i /\ i <= 2 + ns + nl
      \/ 2 + ns + nl < i /\ i <= 2 + ns + nl + na
      \/ 2 + ns + nl + na < i /\ i <= 2 + ns + nl + na + ne
  <2>1. i \in 1..(2 + ns + nl + na + ne)
    BY <1>2
  <2>. QED  BY <1>1, <2>1
<1>. QED  BY <1>3, <1>4, <1>5

\* What is gathered of a written journal is the lines of the record, one for one.
LEMMA GatheredOfJournal ==
  ASSUME NEW journal, IsJournal(journal), NEW record \in Records
  PROVE  Gathered(ToLines(journal), record) =
           [i \in 1..Extent(record, journal) |-> Line(record, FieldsAt(record, journal, i))]
<1>. DEFINE lines == ToLines(journal)
            lo == Offset(record, journal)
            len == Extent(record, journal)
<1>1. PICK L : lines \in Seq(L)
  BY LinesAreLaidOut
<1>2. Len(lines) = Total(journal)
  BY LinesAreLaidOut
<1>3. lo \in Nat /\ len \in Nat /\ lo + len <= Len(lines)
  BY <1>2, LinesAreLaidOut
<1>4. \A i \in 1..len : lines[lo + i] = Line(record, FieldsAt(record, journal, i))
  BY LinesAreLaidOut
<1>5. ASSUME NEW r \in Records, NEW i \in 1..Len(lines),
             Offset(r, journal) < i, i <= Offset(r, journal) + Extent(r, journal)
      PROVE  lines[i].record = r
  <2>1. /\ Offset(r, journal) \in Nat /\ Extent(r, journal) \in Nat
        /\ \A k \in 1..Extent(r, journal) :
              lines[Offset(r, journal) + k] = Line(r, FieldsAt(r, journal, k))
    BY LinesAreLaidOut
  <2>. DEFINE k == i - Offset(r, journal)
  <2>2. k \in 1..Extent(r, journal) /\ Offset(r, journal) + k = i
    BY <1>1, <1>5, <2>1
  <2>. HIDE DEF k
  <2>3. lines[i] = Line(r, FieldsAt(r, journal, k))
    BY <2>1, <2>2
  <2>. QED  BY <2>3 DEF Line
<1>6. ASSUME NEW i \in 1..Len(lines)
      PROVE  lines[i].record = record <=> lo < i /\ i <= lo + len
  <2>1. PICK r \in Records : Offset(r, journal) < i /\ i <= Offset(r, journal) + Extent(r, journal)
    BY <1>2, RecordsCover
  <2>2. lines[i].record = r
    BY <1>5, <2>1
  <2>. QED  BY <1>5, <2>1, <2>2
<1>. HIDE DEF lines, lo, len
<1>7. Gathered(lines, record) = [i \in 1..len |-> lines[lo + i]]
  <2>1. lines \in Seq(L) /\ lo \in Nat /\ len \in Nat /\ lo + len <= Len(lines)
    BY <1>1, <1>3
  <2>2. \A i \in 1..Len(lines) : lines[i].record = record <=> lo < i /\ i <= lo + len
    BY <1>6
  <2>3. AreTogether(lines, record, lo, len)
    BY <2>1, <2>2 DEF AreTogether
  <2>. QED  BY <1>1, <2>3, BlockIsGathered
<1>8. [i \in 1..len |-> lines[lo + i]] = [i \in 1..len |-> Line(record, FieldsAt(record, journal, i))]
  BY <1>4
<1>. QED  BY <1>7, <1>8 DEF lines, len

\* The fields of a journal under a record, where `f` are those read of each line.
LEMMA JournalOfLines ==
  ASSUME NEW journal, IsJournal(journal), NEW version, NEW record \in Records
  PROVE  JournalOf(ToLines(journal), version)[record] =
           IF record \in Singles THEN FieldsOf(Line(record, journal[record]), version)
           ELSE [i \in 1..Count(record, journal) |-> FieldsOf(Line(record, journal[record][i]), version)]
<1>. DEFINE all == Gathered(ToLines(journal), record)
<1>1. all = [i \in 1..Extent(record, journal) |-> Line(record, FieldsAt(record, journal, i))]
  BY GatheredOfJournal
<1>. HIDE DEF all
<1>2. JournalOf(ToLines(journal), version)[record] =
        IF record \in Singles THEN FieldsOf(all[1], version) ELSE ReadAll(all, version)
  BY DEF JournalOf, all
<1>3. CASE record \in Singles
  <2>1. Extent(record, journal) = 1 /\ FieldsAt(record, journal, 1) = journal[record]
    BY <1>3 DEF Extent, FieldsAt
  <2>2. all[1] = Line(record, journal[record])
    BY <1>1, <2>1
  <2>. QED  BY <1>2, <1>3, <2>2
<1>4. CASE record \notin Singles
  <2>1. Extent(record, journal) = Count(record, journal)
        /\ \A i : FieldsAt(record, journal, i) = journal[record][i]
    BY <1>4 DEF Extent, FieldsAt
  <2>2. all = [i \in 1..Count(record, journal) |-> Line(record, journal[record][i])]
    BY <1>1, <2>1
  <2>3. DOMAIN all = 1..Count(record, journal)
        /\ \A i \in 1..Count(record, journal) : all[i] = Line(record, journal[record][i])
    BY <2>2
  <2>4. ReadAll(all, version) =
          [i \in 1..Count(record, journal) |-> FieldsOf(Line(record, journal[record][i]), version)]
    BY <2>3 DEF ReadAll
  <2>. QED  BY <1>2, <1>4, <2>4
<1>. QED  BY <1>3, <1>4

\* The entries of a repeated record are a sequence of records.
LEMMA EntriesAreRecords ==
  ASSUME NEW journal, IsJournal(journal), NEW record \in Repeated
  PROVE  /\ record \in Records /\ record \notin Singles
         /\ DOMAIN journal[record] = 1..Count(record, journal)
         /\ journal[record] = [i \in 1..Count(record, journal) |-> journal[record][i]]
         /\ \A i \in 1..Count(record, journal) : IsRecord(record, journal[record][i])
<1>1. record \in Records /\ record \notin Singles
  BY DEF Records, Repeated, Singles
<1>2. DOMAIN journal[record] = 1..Count(record, journal)
  BY LinesOfRecord
<1>3. /\ journal[record] \in Seq(ToSet(journal[record]))
      /\ \A i \in DOMAIN journal[record] : IsRecord(record, journal[record][i])
  BY DEF IsJournal
<1>. DEFINE s == journal[record]
<1>4. \A S : \A x \in Seq(S) : x = [i \in DOMAIN x |-> x[i]]
  OBVIOUS
<1>. QED  BY <1>1, <1>2, <1>3, <1>4

\* What is written of a journal is read as that journal, whatever bytes its
\* paths and texts are of and however many actions, locks, sources and errors
\* it has: encode and decode of journal/codec.rs and TransactionJournal's
\* to_lines and from_lines.
THEOREM JournalIsReadBack ==
  ASSUME NEW journal, IsJournal(journal)
  PROVE  JournalOf(ToLines(journal), SchemaVersion) = journal
<1>. DEFINE read == JournalOf(ToLines(journal), SchemaVersion)
<1>0. \A record \in Records :
         read[record] =
           IF record \in Singles THEN FieldsOf(Line(record, journal[record]), SchemaVersion)
           ELSE [i \in 1..Count(record, journal) |-> FieldsOf(Line(record, journal[record][i]), SchemaVersion)]
  <2>. TAKE record \in Records
  <2>. QED  BY JournalOfLines
<1>01. read = [record \in Records |-> read[record]]
  BY DEF JournalOf
<1>. HIDE DEF read
<1>1. ASSUME NEW record \in Singles PROVE read[record] = journal[record]
  <2>1. record \in Records /\ IsRecord(record, journal[record])
    BY DEF IsJournal, Records
  <2>2. read[record] = FieldsOf(Line(record, journal[record]), SchemaVersion)
    BY <1>0, <2>1, Zenon
  <2>3. FieldsOf(Line(record, journal[record]), SchemaVersion) = journal[record]
    BY <2>1, LineIsReadBack
  <2>. QED  BY <2>2, <2>3, Zenon
<1>2. ASSUME NEW record \in Repeated PROVE read[record] = journal[record]
  <2>1. read[record] = [i \in 1..Count(record, journal) |-> FieldsOf(Line(record, journal[record][i]), SchemaVersion)]
    BY <1>0, EntriesAreRecords, Zenon
  <2>2. \A i \in 1..Count(record, journal) :
            FieldsOf(Line(record, journal[record][i]), SchemaVersion) = journal[record][i]
    BY EntriesAreRecords, LineIsReadBack
  <2>3. journal[record] = [i \in 1..Count(record, journal) |-> journal[record][i]]
    BY EntriesAreRecords
  <2>. QED  BY <2>1, <2>2, <2>3
<1>3. read = [record \in Records |-> read[record]]
  BY <1>01
<1>4. journal = [record \in Records |-> journal[record]]
  BY DEF IsJournal
<1>5. \A record \in Records : read[record] = journal[record]
  BY <1>1, <1>2 DEF Records
<1>6. read = journal
  BY <1>3, <1>4, <1>5
<1>. QED  BY <1>6 DEF read

\* Under the older schema only the access of locks is read otherwise.
LEMMA LegacyJournalIsRead ==
  ASSUME NEW journal, IsJournal(journal)
  PROVE  OnlyLocksStrengthened(JournalOf(ToLines(journal), LegacySchemaVersion), journal)
<1>. DEFINE read == JournalOf(ToLines(journal), LegacySchemaVersion)
<1>0. \A record \in Records :
         read[record] =
           IF record \in Singles THEN FieldsOf(Line(record, journal[record]), LegacySchemaVersion)
           ELSE [i \in 1..Count(record, journal) |-> FieldsOf(Line(record, journal[record][i]), LegacySchemaVersion)]
  <2>. TAKE record \in Records
  <2>. QED  BY JournalOfLines
<1>01. read = [record \in Records |-> read[record]]
  BY DEF JournalOf
<1>. HIDE DEF read
<1>1. ASSUME NEW record \in Singles PROVE read[record] = journal[record]
  <2>1. record \in Records /\ IsRecord(record, journal[record]) /\ record # "lock"
    BY DEF IsJournal, Records, Singles
  <2>2. read[record] = FieldsOf(Line(record, journal[record]), LegacySchemaVersion)
    BY <1>0, <2>1, Zenon
  <2>3. FieldsOf(Line(record, journal[record]), LegacySchemaVersion) = journal[record]
    BY <2>1, LegacyLineIsRead
  <2>. QED  BY <2>2, <2>3, Zenon
<1>2. ASSUME NEW record \in Repeated \ {"lock"} PROVE read[record] = journal[record]
  <2>1. read[record] = [i \in 1..Count(record, journal) |-> FieldsOf(Line(record, journal[record][i]), LegacySchemaVersion)]
    BY <1>0, EntriesAreRecords, Zenon
  <2>2. \A i \in 1..Count(record, journal) :
            FieldsOf(Line(record, journal[record][i]), LegacySchemaVersion) = journal[record][i]
    BY EntriesAreRecords, LegacyLineIsRead
  <2>3. journal[record] = [i \in 1..Count(record, journal) |-> journal[record][i]]
    BY EntriesAreRecords
  <2>. QED  BY <2>1, <2>2, <2>3
<1>3. read.lock = [i \in 1..Count("lock", journal) |-> [journal.lock[i] EXCEPT !.access = "mutate"]]
  <2>0. "lock" \in Repeated
    BY DEF Repeated
  <2>1. read["lock"] = [i \in 1..Count("lock", journal) |-> FieldsOf(Line("lock", journal["lock"][i]), LegacySchemaVersion)]
    BY <1>0, <2>0, EntriesAreRecords, Zenon
  <2>2. \A i \in 1..Count("lock", journal) :
            FieldsOf(Line("lock", journal["lock"][i]), LegacySchemaVersion) = [journal["lock"][i] EXCEPT !.access = "mutate"]
    BY <2>0, EntriesAreRecords, LegacyLineIsRead
  <2>. QED  BY <2>1, <2>2
<1>4. read = [record \in Records |-> read[record]]
  BY <1>01
<1>5. journal = [record \in Records |-> journal[record]]
  BY DEF IsJournal
<1>6. \A record \in Records \ {"lock"} : read[record] = journal[record]
  BY <1>1, <1>2 DEF Records
<1>7. [read EXCEPT !.lock = <<>>] = [journal EXCEPT !.lock = <<>>]
  BY <1>4, <1>5, <1>6
<1>8. DOMAIN journal.lock = 1..Count("lock", journal)
  BY EntriesAreRecords DEF Repeated
<1>. QED  BY <1>3, <1>7, <1>8 DEF OnlyLocksStrengthened, read

-----------------------------------------------------------------------------
(* Documents: what is rendered loads, and what is damaged does not.        *)

IsSound(journal) ==
    IsJournal(journal) /\ LegalId(journal.transaction.id) /\ Validates(journal, SchemaVersion)

\* The lines of a journal read whole, and each of its single records is there once.
LEMMA LinesAreReadWhole ==
  ASSUME NEW journal, IsJournal(journal)
  PROVE  /\ \A record \in Singles : Len(Gathered(ToLines(journal), record)) = 1
         /\ \A i \in DOMAIN ToLines(journal) :
               \E record \in Records : \E f : /\ IsRecord(record, f)
                                              /\ ToLines(journal)[i] = Line(record, f)
<1>1. ASSUME NEW record \in Singles PROVE Len(Gathered(ToLines(journal), record)) = 1
  <2>1. record \in Records /\ Extent(record, journal) = 1
    BY DEF Records, Extent
  <2>2. Gathered(ToLines(journal), record) = [i \in 1..1 |-> Line(record, FieldsAt(record, journal, i))]
    BY <2>1, GatheredOfJournal
  <2>. QED  BY <2>2
<1>2. ASSUME NEW i \in DOMAIN ToLines(journal)
      PROVE  \E record \in Records : \E f : /\ IsRecord(record, f)
                                            /\ ToLines(journal)[i] = Line(record, f)
  <2>. DEFINE lines == ToLines(journal)
  <2>1. i \in 1..Total(journal) /\ i \in Nat
    <3>1. (\E L : lines \in Seq(L)) /\ Len(lines) = Total(journal)
      BY LinesAreLaidOut
    <3>. HIDE DEF lines
    <3>2. DOMAIN lines = 1..Len(lines) /\ Len(lines) \in Nat
      BY <3>1
    <3>. QED  BY <3>1, <3>2 DEF lines
  <2>2. PICK record \in Records :
          /\ Offset(record, journal) < i
          /\ i <= Offset(record, journal) + Extent(record, journal)
    BY <2>1, RecordsCover
  <2>3. /\ Offset(record, journal) \in Nat /\ Extent(record, journal) \in Nat
        /\ \A k \in 1..Extent(record, journal) :
              ToLines(journal)[Offset(record, journal) + k] = Line(record, FieldsAt(record, journal, k))
    BY LinesAreLaidOut
  <2>. DEFINE k == i - Offset(record, journal)
  <2>4. k \in 1..Extent(record, journal) /\ Offset(record, journal) + k = i
    BY <2>1, <2>2, <2>3
  <2>. HIDE DEF k
  <2>5. ToLines(journal)[i] = Line(record, FieldsAt(record, journal, k))
    BY <2>3, <2>4
  <2>6. IsRecord(record, FieldsAt(record, journal, k))
    <3>1. CASE record \in Singles
      BY <3>1 DEF FieldsAt, IsJournal
    <3>2. CASE record \notin Singles
      <4>1. record \in Repeated /\ Extent(record, journal) = Count(record, journal)
        BY <3>2 DEF Records, Extent
      <4>. QED  BY <2>4, <3>2, <4>1, EntriesAreRecords DEF FieldsAt
    <3>. QED  BY <3>1, <3>2
  <2>. QED  BY <2>5, <2>6
<1>. QED  BY <1>1, <1>2

\* Nothing of a written journal is lost on its way through a file's header.
LEMMA BodyIsParsed ==
  ASSUME NEW journal, IsJournal(journal), Fits(ToLines(journal))
  PROVE  ParsedLines(Rendered(journal, platform), platform) = {ToLines(journal)}
<1>. DEFINE document == Rendered(journal, platform)
<1>1. /\ document.magic = Magic /\ document.version = SchemaVersion /\ document.platform = platform
      /\ document.checksum = ToLines(journal) /\ document.body = ToLines(journal)
  BY DEF Rendered, DocumentOf
<1>2. ASSUME NEW i \in DOMAIN ToLines(journal), NEW key \in DOMAIN ToLines(journal)[i].fields
      PROVE  \/ HasLabel(ToLines(journal)[i].record, key) \/ IsNumber(ToLines(journal)[i].record, key)
             \/ OneField(ToLines(journal)[i].fields[key])
  <2>0. PICK record \in Records : \E f : IsRecord(record, f) /\ ToLines(journal)[i] = Line(record, f)
    BY LinesAreReadWhole
  <2>1. PICK f : IsRecord(record, f) /\ ToLines(journal)[i] = Line(record, f)
    BY <2>0
  <2>2. /\ ToLines(journal)[i].record = record
        /\ ToLines(journal)[i].fields = [k \in DOMAIN f |-> Token(record, k, f[k])]
    BY <2>1 DEF Line
  <2>3. key \in DOMAIN f /\ ToLines(journal)[i].fields[key] = Token(record, key, f[key])
    BY <2>2
  <2>4. IsValue(record, key, f[key])
    BY <2>1, <2>3 DEF IsRecord
  <2>5. HasLabel(record, key) \/ IsNumber(record, key) \/ OneField(Token(record, key, f[key]))
    BY <2>4, ValueIsReadBack
  <2>. QED  BY <2>2, <2>3, <2>5, Zenon
<1>. HIDE DEF document
<1>3. document.magic = Magic /\ document.version \in {SchemaVersion, LegacySchemaVersion}
      /\ document.platform = platform /\ ChecksumMatches(document)
  BY <1>1 DEF ChecksumMatches
<1>4. Len(document.body) <= MaxLines
  BY <1>1, Zenon DEF Fits
<1>5. \A i \in DOMAIN document.body : \A key \in DOMAIN document.body[i].fields :
              HasLabel(document.body[i].record, key) \/ IsNumber(document.body[i].record, key)
                  \/ OneField(document.body[i].fields[key])
  BY <1>1, <1>2, Zenon
<1>6. ParsedLines(document, platform) = {document.body}
  BY <1>3, <1>4, <1>5 DEF ParsedLines
<1>. QED  BY <1>1, <1>6 DEF document

\* A journal that can be acted on is loaded as it is, if its reader's bound
\* on the lines allows it.
LEMMA SoundIsLoaded ==
  ASSUME NEW journal, IsSound(journal), Fits(ToLines(journal))
  PROVE  Loaded(Rendered(journal, platform), platform) = {journal}
<1>1. IsJournal(journal) /\ LegalId(journal.transaction.id) /\ Validates(journal, SchemaVersion)
  BY DEF IsSound
<1>2. JournalOf(ToLines(journal), SchemaVersion) = journal
  BY <1>1, JournalIsReadBack
<1>3. \A i \in DOMAIN ToLines(journal) : ReadsWhole(ToLines(journal)[i], SchemaVersion)
  <2>. TAKE i \in DOMAIN ToLines(journal)
  <2>0. PICK record \in Records : \E f : IsRecord(record, f) /\ ToLines(journal)[i] = Line(record, f)
    BY <1>1, LinesAreReadWhole
  <2>1. PICK f : IsRecord(record, f) /\ ToLines(journal)[i] = Line(record, f)
    BY <2>0
  <2>2. ReadsWhole(Line(record, f), SchemaVersion)
    BY <2>1, LineIsReadBack
  <2>. QED  BY <2>1, <2>2, Zenon
<1>4. \A record \in Singles : Len(Gathered(ToLines(journal), record)) = 1
  BY <1>1, LinesAreReadWhole
<1>5. FromLines(ToLines(journal), SchemaVersion) = {journal}
  <2>. DEFINE lines == ToLines(journal)
              read == JournalOf(lines, SchemaVersion)
  <2>1. FromLines(lines, SchemaVersion) =
          IF /\ \A record \in Singles : Len(Gathered(lines, record)) = 1
             /\ \A i \in DOMAIN lines : ReadsWhole(lines[i], SchemaVersion)
             /\ LegalId(read.transaction.id)
             /\ Validates(read, SchemaVersion)
          THEN {read} ELSE {}
    BY Zenon DEF FromLines
  <2>2. read = journal
    BY <1>2
  <2>. HIDE DEF lines, read
  <2>3. LegalId(read.transaction.id) /\ Validates(read, SchemaVersion)
    BY <1>1, <2>2, Zenon
  <2>4. /\ \A record \in Singles : Len(Gathered(lines, record)) = 1
        /\ \A i \in DOMAIN lines : ReadsWhole(lines[i], SchemaVersion)
    BY <1>3, <1>4, Zenon DEF lines
  <2>5. FromLines(lines, SchemaVersion) = {read}
    BY <2>1, <2>3, <2>4, Zenon
  <2>. QED  BY <2>2, <2>5, Zenon DEF lines
<1>6. ParsedLines(Rendered(journal, platform), platform) = {ToLines(journal)}
  BY <1>1, BodyIsParsed
<1>7. Rendered(journal, platform).version = SchemaVersion
  BY DEF Rendered, DocumentOf
<1>. QED  BY <1>5, <1>6, <1>7 DEF Loaded

\* What a loaded journal is read of.
LEMMA LoadedIsRead ==
  ASSUME NEW document, NEW read \in Loaded(document, platform)
  PROVE  /\ document.version \in {SchemaVersion, LegacySchemaVersion}
         /\ document.checksum = document.body
         /\ read = JournalOf(document.body, document.version)
         /\ \A record \in Singles : Len(Gathered(document.body, record)) = 1
         /\ \A i \in DOMAIN document.body : ReadsWhole(document.body[i], document.version)
         /\ LegalId(read.transaction.id) /\ Validates(read, document.version)
<1>1. PICK lines \in ParsedLines(document, platform) : read \in FromLines(lines, document.version)
  BY Zenon DEF Loaded
<1>2. /\ document.version \in {SchemaVersion, LegacySchemaVersion}
      /\ ChecksumMatches(document) /\ lines = document.body
  BY <1>1, Zenon DEF ParsedLines
<1>. DEFINE of == JournalOf(lines, document.version)
<1>3. FromLines(lines, document.version) =
        IF /\ \A record \in Singles : Len(Gathered(lines, record)) = 1
           /\ \A i \in DOMAIN lines : ReadsWhole(lines[i], document.version)
           /\ LegalId(of.transaction.id)
           /\ Validates(of, document.version)
        THEN {of} ELSE {}
  BY Zenon DEF FromLines
<1>. HIDE DEF of
<1>4. /\ read = of
      /\ \A record \in Singles : Len(Gathered(lines, record)) = 1
      /\ \A i \in DOMAIN lines : ReadsWhole(lines[i], document.version)
      /\ LegalId(of.transaction.id) /\ Validates(of, document.version)
  <2>1. FromLines(lines, document.version) # {}
    BY <1>1
  <2>2. /\ \A record \in Singles : Len(Gathered(lines, record)) = 1
        /\ \A i \in DOMAIN lines : ReadsWhole(lines[i], document.version)
        /\ LegalId(of.transaction.id) /\ Validates(of, document.version)
    BY <1>3, <2>1, Zenon
  <2>3. FromLines(lines, document.version) = {of}
    BY <1>3, <2>2, Zenon
  <2>. QED  BY <1>1, <2>2, <2>3, Zenon
<1>5. read = JournalOf(document.body, document.version)
  BY <1>2, <1>4, Zenon DEF of
<1>6. document.checksum = document.body
  BY <1>2, Zenon DEF ChecksumMatches
<1>. QED  BY <1>2, <1>4, <1>5, <1>6, Zenon

\* The checksum is of what was written, so only the version can be another.
LEMMA DamagedIsRefused ==
  ASSUME NEW journal, IsJournal(journal), NEW damaged \in Damaged(Rendered(journal, platform)),
         NEW read \in Loaded(damaged, platform)
  PROVE  OnlyLocksStrengthened(read, journal)
<1>1. damaged.checksum = ToLines(journal)
  <2>. DEFINE document == Rendered(journal, platform)
  <2>1. document = [magic |-> Magic, version |-> SchemaVersion, platform |-> platform,
                    checksum |-> ToLines(journal), body |-> ToLines(journal)]
    BY DEF Rendered, DocumentOf
  <2>. HIDE DEF document
  <2>2. \A v, p, m, b :
          /\ [document EXCEPT !.version = v].checksum = ToLines(journal)
          /\ [document EXCEPT !.platform = p].checksum = ToLines(journal)
          /\ [document EXCEPT !.magic = m].checksum = ToLines(journal)
          /\ [document EXCEPT !.body = b].checksum = ToLines(journal)
    BY <2>1
  <2>3. damaged \in Damaged(document)
    BY DEF document
  <2>4. \/ \E v : damaged = [document EXCEPT !.version = v]
        \/ \E p : damaged = [document EXCEPT !.platform = p]
        \/ \E m : damaged = [document EXCEPT !.magic = m]
        \/ \E b : damaged = [document EXCEPT !.body = b]
    <3>1. CASE damaged \in {[document EXCEPT !.version = v] : v \in 1 .. 3}
      BY <3>1, Zenon
    <3>2. CASE damaged \in {[document EXCEPT !.magic = "other"],
                            [document EXCEPT !.platform = IF @ = "unix" THEN "windows" ELSE "unix"]}
      BY <3>2
    <3>3. CASE damaged \in {[document EXCEPT !.body = SubSeq(@, 1, n)] : n \in 0 .. Len(document.body)}
      BY <3>3
    <3>4. CASE damaged \in {[document EXCEPT !.body = RemoveAt(@, i)] : i \in DOMAIN document.body}
      BY <3>4
    <3>5. CASE damaged \in {[document EXCEPT !.body = InsertAt(@, i, @[i])] : i \in DOMAIN document.body}
      BY <3>5
    <3>. QED  BY <2>3, <3>1, <3>2, <3>3, <3>4, <3>5, Zenon DEF Damaged
  <2>. QED  BY <2>2, <2>4, Zenon
<1>2. /\ damaged.version \in {SchemaVersion, LegacySchemaVersion}
      /\ damaged.checksum = damaged.body
      /\ read = JournalOf(damaged.body, damaged.version)
  BY LoadedIsRead
<1>3. read = JournalOf(ToLines(journal), damaged.version)
  BY <1>1, <1>2, Zenon
<1>4. CASE damaged.version = SchemaVersion
  <2>1. read = journal
    BY <1>3, <1>4, JournalIsReadBack
  <2>. QED  BY <2>1 DEF OnlyLocksStrengthened
<1>5. CASE damaged.version = LegacySchemaVersion
  <2>1. read = JournalOf(ToLines(journal), LegacySchemaVersion)
    BY <1>3, <1>5, Zenon
  <2>. QED  BY <2>1, LegacyJournalIsRead, Zenon
<1>. QED  BY <1>2, <1>4, <1>5

\* Lines of fields, each a label, a number or bytes.
AreLines(lines) ==
    /\ lines \in Seq(ToSet(lines))
    /\ \A i \in DOMAIN lines : \A key \in DOMAIN lines[i].fields :
          \/ HasLabel(lines[i].record, key) \/ IsNumber(lines[i].record, key)
          \/ lines[i].fields[key] \in Seq(Byte)

\* What a token is read as is a value its field may hold.
LEMMA ValueIsRead ==
  ASSUME NEW record, NEW key, NEW token,
         HasLabel(record, key) \/ IsNumber(record, key) \/ token \in Seq(Byte),
         NEW v \in Values(record, key, token)
  PROVE  IsValue(record, key, v)
<1>1. CASE HasLabel(record, key)
  BY <1>1 DEF Values, IsValue
<1>2. CASE ~HasLabel(record, key) /\ IsNumber(record, key)
  BY <1>2 DEF Values, IsValue
<1>3. CASE ~HasLabel(record, key) /\ ~IsNumber(record, key)
  <2>1. v \in DecodeBytes(token) /\ (IsText(record, key) => Utf8(v))
    BY <1>3 DEF Values
  <2>2. v \in Seq(Byte)
    BY <1>3, <2>1, BytesAreRead
  <2>. QED  BY <1>3, <2>1, <2>2 DEF IsValue
<1>. QED  BY <1>1, <1>2, <1>3

\* A line that reads whole reads as what its record may hold.
LEMMA LineIsRecord ==
  ASSUME NEW line, ReadsWhole(line, SchemaVersion),
         \A key \in DOMAIN line.fields : \/ HasLabel(line.record, key) \/ IsNumber(line.record, key)
                                         \/ line.fields[key] \in Seq(Byte)
  PROVE  IsRecord(line.record, FieldsOf(line, SchemaVersion))
<1>. DEFINE r == line.record
            keys == DOMAIN line.fields \cap (Required[r] \cup Optional[r])
            valueOf(key) == CHOOSE v \in Values(r, key, line.fields[key]) : TRUE
<1>1. r \in Records /\ Read(r, SchemaVersion) = Required[r] /\ SchemaVersion # LegacySchemaVersion
  <2>1. r \in Records
    BY DEF ReadsWhole
  <2>. QED  BY <2>1, LabelsAreRecords DEF SchemaVersion, LegacySchemaVersion
<1>2. /\ Required[r] \subseteq DOMAIN line.fields
      /\ \A key \in keys : Values(r, key, line.fields[key]) # {}
  BY <1>1 DEF ReadsWhole
<1>3. ASSUME NEW key \in keys PROVE IsValue(r, key, valueOf(key))
  <2>1. valueOf(key) \in Values(r, key, line.fields[key])
    BY <1>2, <1>3
  <2>2. HasLabel(r, key) \/ IsNumber(r, key) \/ line.fields[key] \in Seq(Byte)
    BY <1>3
  <2>. HIDE DEF valueOf, r
  <2>. QED  BY <2>1, <2>2, ValueIsRead
<1>. DEFINE fields == FieldsOf(line, SchemaVersion)
<1>4. fields = [key \in keys |-> valueOf(key)]
  <2>1. fields = [key \in keys \cup {} |-> IF key \in {} THEN "mutate" ELSE valueOf(key)]
    BY <1>1 DEF FieldsOf
  <2>. HIDE DEF valueOf, keys, fields
  <2>. QED  BY <2>1
<1>. HIDE DEF valueOf, fields
<1>5. DOMAIN fields = keys /\ \A key \in keys : fields[key] = valueOf(key)
  BY <1>4
<1>6. fields = [key \in DOMAIN fields |-> fields[key]]
  BY <1>4
<1>7. Required[r] \subseteq keys /\ keys \subseteq Required[r] \cup Optional[r]
  BY <1>2
<1>8. \A key \in DOMAIN fields : IsValue(r, key, fields[key])
  BY <1>3, <1>5
<1>9. IsRecord(r, fields)
  BY <1>5, <1>6, <1>7, <1>8 DEF IsRecord
<1>. QED  BY <1>9 DEF fields

\* Lines that read whole read as a journal, so that what is loaded is sound.
LEMMA LinesAreAJournal ==
  ASSUME NEW lines, AreLines(lines),
         \A record \in Singles : Len(Gathered(lines, record)) = 1,
         \A i \in DOMAIN lines : ReadsWhole(lines[i], SchemaVersion)
  PROVE  IsJournal(JournalOf(lines, SchemaVersion))
<1>. DEFINE read == JournalOf(lines, SchemaVersion)
<1>1. read = [record \in Records |-> read[record]]
  BY DEF JournalOf
<1>2. ASSUME NEW record \in Records
      PROVE  read[record] = IF record \in Singles THEN FieldsOf(Gathered(lines, record)[1], SchemaVersion)
                            ELSE ReadAll(Gathered(lines, record), SchemaVersion)
  BY DEF JournalOf
<1>3. ASSUME NEW record \in Records, NEW i \in DOMAIN Gathered(lines, record)
      PROVE  IsRecord(record, FieldsOf(Gathered(lines, record)[i], SchemaVersion))
  <2>. DEFINE own == {lines[k] : k \in {k \in DOMAIN lines : lines[k].record = record}}
  <2>1. Gathered(lines, record) \in Seq(own)
    BY GatheredAreOf DEF AreLines
  <2>. HIDE DEF own
  <2>2. Gathered(lines, record)[i] \in own
    BY <2>1
  <2>3. PICK k \in DOMAIN lines : lines[k].record = record /\ Gathered(lines, record)[i] = lines[k]
    BY <2>2 DEF own
  <2>4. IsRecord(lines[k].record, FieldsOf(lines[k], SchemaVersion))
    <3>1. ReadsWhole(lines[k], SchemaVersion)
      BY <2>3
    <3>2. \A key \in DOMAIN lines[k].fields :
             \/ HasLabel(lines[k].record, key) \/ IsNumber(lines[k].record, key)
             \/ lines[k].fields[key] \in Seq(Byte)
      BY <2>3 DEF AreLines
    <3>. QED  BY <3>1, <3>2, LineIsRecord
  <2>. QED  BY <2>3, <2>4, Zenon
<1>4. ASSUME NEW record \in Records
      PROVE  \E L : Gathered(lines, record) \in Seq(L)
  BY GatheredAreOf DEF AreLines
<1>. HIDE DEF read
<1>5. ASSUME NEW record \in Singles PROVE IsRecord(record, read[record])
  <2>1. record \in Records
    BY DEF Records
  <2>2. 1 \in DOMAIN Gathered(lines, record)
    <3>1. PICK L : Gathered(lines, record) \in Seq(L)
      BY <1>4, <2>1
    <3>2. Len(Gathered(lines, record)) = 1
      OBVIOUS
    <3>. QED  BY <3>1, <3>2
  <2>3. read[record] = FieldsOf(Gathered(lines, record)[1], SchemaVersion)
    BY <1>2, <2>1
  <2>. QED  BY <1>3, <2>1, <2>2, <2>3, Zenon
<1>6. ASSUME NEW record \in Repeated
      PROVE  /\ read[record] \in Seq(ToSet(read[record]))
             /\ \A i \in DOMAIN read[record] : IsRecord(record, read[record][i])
  <2>1. record \in Records /\ record \notin Singles
    BY DEF Records, Repeated, Singles
  <2>. DEFINE all == Gathered(lines, record)
              x == read[record]
  <2>2. x = ReadAll(all, SchemaVersion)
    BY <1>2, <2>1
  <2>3. PICK n \in Nat : DOMAIN all = 1..n
    <3>1. PICK L : all \in Seq(L)
      BY <1>4, <2>1
    <3>. HIDE DEF all
    <3>. QED  BY <3>1
  <2>4. x = [i \in 1..n |-> FieldsOf(all[i], SchemaVersion)]
    BY <2>2, <2>3 DEF ReadAll
  <2>5. \A i \in 1..n : IsRecord(record, FieldsOf(all[i], SchemaVersion))
    BY <1>3, <2>1, <2>3
  <2>. HIDE DEF x, all
  <2>6. DOMAIN x = 1..n /\ \A i \in 1..n : x[i] = FieldsOf(all[i], SchemaVersion)
    BY <2>4
  <2>7. x \in Seq(ToSet(x))
    <3>1. \A i \in 1..n : x[i] \in ToSet(x)
      BY <2>6 DEF ToSet
    <3>2. x = [i \in 1..n |-> x[i]]
      BY <2>4
    <3>3. x \in [1..n -> ToSet(x)]
      BY <3>1, <3>2
    <3>. QED  BY <3>3
  <2>8. \A i \in DOMAIN x : IsRecord(record, x[i])
    BY <2>5, <2>6
  <2>. QED  BY <2>7, <2>8 DEF x
<1>7. IsJournal(read)
  BY <1>1, <1>5, <1>6 DEF IsJournal
<1>. QED  BY <1>7 DEF read

\* What is loaded of a current document can be acted on, whoever wrote it.
LEMMA LoadedIsSound ==
  ASSUME NEW document, document.version # LegacySchemaVersion, AreLines(document.body),
         NEW read \in Loaded(document, platform)
  PROVE  IsSound(read)
<1>1. /\ document.version = SchemaVersion
      /\ read = JournalOf(document.body, document.version)
      /\ \A record \in Singles : Len(Gathered(document.body, record)) = 1
      /\ \A i \in DOMAIN document.body : ReadsWhole(document.body[i], document.version)
      /\ LegalId(read.transaction.id) /\ Validates(read, document.version)
  BY LoadedIsRead
<1>2. IsJournal(read)
  BY <1>1, LinesAreAJournal
<1>. QED  BY <1>1, <1>2, Zenon DEF IsSound

-----------------------------------------------------------------------------
(* What a transaction makes of its journal.                                *)

\* Replacing a field, a record or an entry leaves a journal one.
LEMMA FieldIsReplaced ==
  ASSUME NEW record, NEW f, IsRecord(record, f), NEW key \in DOMAIN f, NEW v, IsValue(record, key, v)
  PROVE  IsRecord(record, [f EXCEPT ![key] = v])
<1>. DEFINE g == [f EXCEPT ![key] = v]
<1>1. f = [k \in DOMAIN f |-> f[k]] /\ \A k \in DOMAIN f : IsValue(record, k, f[k])
  BY DEF IsRecord
<1>2. g = [k \in DOMAIN f |-> IF k = key THEN v ELSE f[k]]
  BY <1>1
<1>. HIDE DEF g
<1>3. DOMAIN g = DOMAIN f /\ \A k \in DOMAIN f : g[k] = IF k = key THEN v ELSE f[k]
  BY <1>2
<1>4. g = [k \in DOMAIN g |-> g[k]]
  BY <1>2
<1>5. \A k \in DOMAIN g : IsValue(record, k, g[k])
  BY <1>1, <1>3
<1>6. Required[record] \subseteq DOMAIN g /\ DOMAIN g \subseteq Required[record] \cup Optional[record]
  BY <1>3 DEF IsRecord
<1>7. IsRecord(record, g)
  BY <1>4, <1>5, <1>6 DEF IsRecord
<1>. QED  BY <1>7 DEF g

LEMMA SingleIsReplaced ==
  ASSUME NEW journal, IsJournal(journal), NEW record \in Singles, NEW f, IsRecord(record, f)
  PROVE  IsJournal([journal EXCEPT ![record] = f])
<1>. DEFINE later == [journal EXCEPT ![record] = f]
<1>1. journal = [r \in Records |-> journal[r]]
  BY DEF IsJournal
<1>2. record \in Records /\ Singles \subseteq Records /\ Repeated \subseteq Records /\ Singles \cap Repeated = {}
  BY DEF Records, Singles, Repeated
<1>3. later = [r \in Records |-> IF r = record THEN f ELSE journal[r]]
  BY <1>1, <1>2
<1>. HIDE DEF later
<1>4. \A r \in Records : later[r] = IF r = record THEN f ELSE journal[r]
  BY <1>3
<1>5. later = [r \in Records |-> later[r]]
  BY <1>3
<1>6. \A r \in Singles : IsRecord(r, later[r])
  BY <1>2, <1>4 DEF IsJournal
<1>7. ASSUME NEW r \in Repeated
      PROVE  /\ later[r] \in Seq(ToSet(later[r]))
             /\ \A i \in DOMAIN later[r] : IsRecord(r, later[r][i])
  <2>1. later[r] = journal[r]
    BY <1>2, <1>4
  <2>. QED  BY <2>1 DEF IsJournal
<1>8. IsJournal(later)
  BY <1>5, <1>6, <1>7, Zenon DEF IsJournal
<1>. QED  BY <1>8 DEF later

LEMMA EntriesAreReplaced ==
  ASSUME NEW journal, IsJournal(journal), NEW record \in Repeated, NEW x, x \in Seq(ToSet(x)),
         \A i \in DOMAIN x : IsRecord(record, x[i])
  PROVE  IsJournal([journal EXCEPT ![record] = x])
<1>. DEFINE later == [journal EXCEPT ![record] = x]
<1>1. journal = [r \in Records |-> journal[r]]
  BY DEF IsJournal
<1>2. record \in Records /\ Singles \subseteq Records /\ Repeated \subseteq Records /\ Singles \cap Repeated = {}
  BY DEF Records, Singles, Repeated
<1>3. later = [r \in Records |-> IF r = record THEN x ELSE journal[r]]
  BY <1>1, <1>2
<1>. HIDE DEF later
<1>4. \A r \in Records : later[r] = IF r = record THEN x ELSE journal[r]
  BY <1>3
<1>5. later = [r \in Records |-> later[r]]
  BY <1>3
<1>6. ASSUME NEW r \in Singles PROVE IsRecord(r, later[r])
  <2>1. later[r] = journal[r]
    BY <1>2, <1>4
  <2>. QED  BY <2>1 DEF IsJournal
<1>7. ASSUME NEW r \in Repeated
      PROVE  /\ later[r] \in Seq(ToSet(later[r]))
             /\ \A i \in DOMAIN later[r] : IsRecord(r, later[r][i])
  <2>1. CASE r = record
    <3>1. later[r] = x
      BY <1>2, <1>4, <2>1
    <3>. QED  BY <2>1, <3>1
  <2>2. CASE r # record
    <3>1. later[r] = journal[r]
      BY <1>2, <1>4, <2>2
    <3>. QED  BY <3>1 DEF IsJournal
  <2>. QED  BY <2>1, <2>2
<1>8. IsJournal(later)
  BY <1>5, <1>6, <1>7, Zenon DEF IsJournal
<1>. QED  BY <1>8 DEF later

\* What TransactionJournal::validate asks of an action.
AsksTheSame(a, b) ==
    /\ a.id = b.id /\ a.op = b.op /\ a.kind = b.kind /\ a.final = b.final
    /\ \A key \in {"contents", "temp", "source", "target"} :
          (key \in DOMAIN a <=> key \in DOMAIN b) /\ (key \in DOMAIN a => a[key] = b[key])
    /\ a.status = "reused" <=> b.status = "reused"

\* Progress and errors take nothing from what a journal can be acted on for.
LEMMA SamePlanIsSound ==
  ASSUME NEW journal, IsSound(journal), NEW later, IsJournal(later),
         later.transaction.id = journal.transaction.id,
         later.paths = journal.paths, later.lock = journal.lock,
         DOMAIN later.action = DOMAIN journal.action,
         \A i \in DOMAIN journal.action : AsksTheSame(later.action[i], journal.action[i])
  PROVE  IsSound(later)
<1>0. Validates(journal, SchemaVersion) /\ LegalId(journal.transaction.id) /\ IsJournal(journal)
  BY DEF IsSound
<1>1. Locks(later) = Locks(journal)
  BY Zenon DEF Locks
<1>2. \A path, kinds : HasAuthority(later, path, kinds) <=> HasAuthority(journal, path, kinds)
  BY <1>1, Zenon DEF HasAuthority
<1>3. \A path : HasExactAuthority(later, path) <=> HasExactAuthority(journal, path)
  BY <1>1, Zenon DEF HasExactAuthority
<1>4. \A i \in DOMAIN journal.action : ActionFits(later, later.action[i])
  <2>. TAKE i \in DOMAIN journal.action
  <2>. DEFINE a == later.action[i]
              b == journal.action[i]
  <2>1. AsksTheSame(a, b) /\ ActionFits(journal, b)
    BY <1>0 DEF Validates
  <2>2. later.transaction.id = journal.transaction.id
    OBVIOUS
  <2>. HIDE DEF a, b
  <2>3. KindFits(a)
    <3>1. KindFits(b) /\ a.op = b.op /\ a.kind = b.kind
      BY <2>1 DEF AsksTheSame, ActionFits
    <3>. QED  BY <3>1, Zenon DEF KindFits
  <2>4. ConfigEvidenceFits(a)
    <3>1. /\ ConfigEvidenceFits(b) /\ a.op = b.op
          /\ ("contents" \in DOMAIN a <=> "contents" \in DOMAIN b)
          /\ ("contents" \in DOMAIN a => a["contents"] = b["contents"])
          /\ ("source" \in DOMAIN a <=> "source" \in DOMAIN b)
          /\ ("target" \in DOMAIN a <=> "target" \in DOMAIN b)
      BY <2>1 DEF AsksTheSame, ActionFits
    <3>2. DOMAIN a \cap {"source", "target"} = {} <=> DOMAIN b \cap {"source", "target"} = {}
      BY <3>1
    <3>. QED  BY <3>1, <3>2 DEF ConfigEvidenceFits
  <2>5. /\ a.op = "reuse" <=> a.status = "reused"
        /\ a.op = "link" => "source" \in DOMAIN a
    BY <2>1 DEF AsksTheSame, ActionFits
  <2>6. IF a.op \in Created
        THEN "temp" \in DOMAIN a /\ a.temp = StagedSibling(later.transaction.id, a.id, a.final)
        ELSE "temp" \notin DOMAIN a
    <3>1. /\ a.op = b.op /\ a.id = b.id /\ a.final = b.final
          /\ ("temp" \in DOMAIN a <=> "temp" \in DOMAIN b)
          /\ ("temp" \in DOMAIN a => a["temp"] = b["temp"])
      BY <2>1 DEF AsksTheSame
    <3>2. IF b.op \in Created
          THEN "temp" \in DOMAIN b /\ b.temp = StagedSibling(journal.transaction.id, b.id, b.final)
          ELSE "temp" \notin DOMAIN b
      BY <2>1, Zenon DEF ActionFits
    <3>. QED  BY <2>2, <3>1, <3>2, Zenon
  <2>. QED  BY <2>3, <2>4, <2>5, <2>6, Zenon DEF ActionFits, a
<1>5. EntriesAreCovered(later, SchemaVersion)
  <2>1. ASSUME NEW i \in DOMAIN journal.action, later.action[i].op \in Created
        PROVE  /\ HasExactAuthority(later, later.action[i].temp)
               /\ HasAuthority(later, later.action[i].final, LockKinds)
    <3>. DEFINE a == later.action[i]
                b == journal.action[i]
    <3>1. AsksTheSame(a, b) /\ ActionFits(journal, b) /\ ActionFits(later, a)
      BY <1>0, <1>4 DEF Validates
    <3>2. b \in ToSet(journal.action)
      BY DEF ToSet
    <3>3. a.op \in Created
      BY <2>1
    <3>. HIDE DEF a, b
    <3>4. b.op \in Created /\ a.final = b.final /\ a.temp = b.temp
      <4>1. "temp" \in DOMAIN a
        BY <3>1, <3>3 DEF ActionFits
      <4>. QED  BY <3>1, <3>3, <4>1 DEF AsksTheSame
    <3>5. HasExactAuthority(journal, b.temp) /\ HasAuthority(journal, b.final, LockKinds)
      <4>1. EntriesAreCovered(journal, SchemaVersion)
        BY <1>0, Zenon DEF Validates
      <4>. QED  BY <3>2, <3>4, <4>1 DEF EntriesAreCovered
    <3>6. HasExactAuthority(later, a.temp) /\ HasAuthority(later, a.final, LockKinds)
      BY <1>2, <1>3, <3>4, <3>5, Zenon
    <3>. QED  BY <3>6 DEF a
  <2>2. \A a \in ToSet(later.action) : \E i \in DOMAIN journal.action : a = later.action[i]
    BY DEF ToSet
  <2>3. \A a \in {x \in ToSet(later.action) : x.op \in Created} :
           HasExactAuthority(later, a.temp) /\ HasAuthority(later, a.final, LockKinds)
    <3>. TAKE a \in {x \in ToSet(later.action) : x.op \in Created}
    <3>1. PICK i \in DOMAIN journal.action : a = later.action[i]
      BY <2>2
    <3>2. later.action[i].op \in Created
      BY <3>1
    <3>. QED  BY <2>1, <3>1, <3>2, Zenon
  <2>. QED  BY <2>3 DEF EntriesAreCovered
<1>6. \A i \in DOMAIN journal.action : later.action[i].id = journal.action[i].id
  BY DEF AsksTheSame
<1>7. \A i \in DOMAIN later.action :
         /\ later.action[i].id > IF i = 1 THEN 0 ELSE later.action[i - 1].id
         /\ SchemaVersion = LegacySchemaVersion => later.action[i].op # "config"
         /\ ActionFits(later, later.action[i])
  <2>. TAKE i \in DOMAIN later.action
  <2>1. i \in DOMAIN journal.action
    OBVIOUS
  <2>2. journal.action[i].id > IF i = 1 THEN 0 ELSE journal.action[i - 1].id
    BY <1>0, <2>1 DEF Validates
  <2>3. i # 1 => i - 1 \in DOMAIN journal.action
    <3>1. PICK n \in Nat : DOMAIN journal.action = 1..n
      BY <1>0, EntriesAreRecords, LinesOfRecord DEF Repeated
    <3>. QED  BY <2>1, <3>1
  <2>4. later.action[i].id > IF i = 1 THEN 0 ELSE later.action[i - 1].id
    <3>1. CASE i = 1
      <4>1. later.action[i].id = journal.action[i].id
        BY <1>6, <2>1
      <4>. QED  BY <2>2, <3>1, <4>1, Zenon
    <3>2. CASE i # 1
      <4>1. later.action[i].id = journal.action[i].id /\ later.action[i - 1].id = journal.action[i - 1].id
        BY <1>6, <2>1, <2>3, <3>2
      <4>. QED  BY <2>2, <3>2, <4>1, Zenon
    <3>. QED  BY <3>1, <3>2
  <2>. QED  BY <1>4, <2>1, <2>4 DEF SchemaVersion, LegacySchemaVersion
<1>8. /\ \E lock \in Locks(later) : lock.access = "mutate"
      /\ HasAuthority(later, later.paths.discovery_entry, {"discovery-entry"})
      /\ HasAuthority(later, later.paths.backing_store, {"backing-store"})
  <2>1. /\ \E lock \in Locks(journal) : lock.access = "mutate"
        /\ HasAuthority(journal, journal.paths.discovery_entry, {"discovery-entry"})
        /\ HasAuthority(journal, journal.paths.backing_store, {"backing-store"})
    BY <1>0, Zenon DEF Validates
  <2>. QED  BY <1>1, <1>2, <2>1, Zenon
<1>9. Validates(later, SchemaVersion)
  BY <1>5, <1>7, <1>8, Zenon DEF Validates
<1>10. LegalId(later.transaction.id)
  BY <1>0, Zenon
<1>. QED  BY <1>9, <1>10, Zenon DEF IsSound

\* The fields a transaction's progress changes, and that they may change so.
LEMMA FieldsOfRecords ==
  /\ "transaction" \in Singles /\ "action" \in Repeated /\ "error" \in Repeated
  /\ {"status", "keep_mounts", "id"} \subseteq Required["transaction"]
  /\ {"status", "id", "op", "kind", "final"} \subseteq Required["action"]
  /\ \A status \in TransactionLabels : IsValue("transaction", "status", status)
  /\ IsValue("transaction", "keep_mounts", "false")
  /\ \A status \in ActionLabels : IsValue("action", "status", status)
  /\ IsValue("action", "identity", <<49>>)
  /\ "identity" \in Optional["action"]
  /\ \A cause : cause \in Seq(Byte) /\ Utf8(cause) => IsRecord("error", [text |-> cause])
  /\ {"cleaning", "failed"} \subseteq TransactionLabels /\ "staged" \in ActionLabels
<1>1. /\ "transaction" \in Singles /\ "action" \in Repeated /\ "error" \in Repeated
      /\ {"status", "keep_mounts", "id"} \subseteq Required["transaction"]
      /\ {"status", "id", "op", "kind", "final"} \subseteq Required["action"]
      /\ {"cleaning", "failed"} \subseteq TransactionLabels /\ "staged" \in ActionLabels
  BY DEF Singles, Repeated, Required, TransactionLabels, ActionLabels
<1>2. /\ HasLabel("transaction", "status") /\ Labels["transaction"]["status"] = TransactionLabels
      /\ HasLabel("transaction", "keep_mounts") /\ Labels["transaction"]["keep_mounts"] = {"true", "false"}
  BY DEF HasLabel, Labels
<1>3. HasLabel("action", "status") /\ Labels["action"]["status"] = ActionLabels
  BY DEF HasLabel, Labels
<1>4. ~HasLabel("action", "identity") /\ ~IsNumber("action", "identity")
  BY DEF HasLabel, Labels, IsNumber
<1>5. ~HasLabel("error", "text") /\ ~IsNumber("error", "text") /\ IsText("error", "text")
  BY DEF HasLabel, Labels, IsNumber, IsText
<1>6. "identity" \in Optional["action"] /\ Required["error"] = {"text"}
  BY DEF Optional, Records, Repeated, Required
<1>7. /\ \A status \in TransactionLabels : IsValue("transaction", "status", status)
      /\ IsValue("transaction", "keep_mounts", "false")
  BY <1>2 DEF IsValue
<1>8. \A status \in ActionLabels : IsValue("action", "status", status)
  BY <1>3 DEF IsValue
<1>9. IsValue("action", "identity", <<49>>)
  <2>1. 49 \in Byte
    BY DEF Byte
  <2>2. <<49>> \in Seq(Byte)
    BY <2>1
  <2>3. Utf8(<<49>>)
    BY DEF Utf8
  <2>. QED  BY <1>4, <2>2, <2>3 DEF IsValue
<1>10. ASSUME NEW cause, cause \in Seq(Byte), Utf8(cause)
       PROVE  IsRecord("error", [text |-> cause])
  <2>. DEFINE f == [text |-> cause]
  <2>1. f = [key \in {"text"} |-> cause] /\ DOMAIN f = {"text"} /\ f["text"] = cause
    OBVIOUS
  <2>2. IsValue("error", "text", cause)
    BY <1>5, <1>10 DEF IsValue
  <2>. HIDE DEF f
  <2>3. f = [key \in DOMAIN f |-> f[key]]
    BY <2>1
  <2>4. IsRecord("error", f)
    BY <1>6, <2>1, <2>2, <2>3 DEF IsRecord
  <2>. QED  BY <2>4 DEF f
<1>. QED  BY <1>1, <1>6, <1>7, <1>8, <1>9, <1>10

\* A transaction's record with another status, and its sound journal.
LEMMA StatusIsReplaced ==
  ASSUME NEW journal, IsSound(journal), NEW key \in {"status", "keep_mounts"},
         NEW v, IsValue("transaction", key, v)
  PROVE  IsSound([journal EXCEPT !["transaction"][key] = v])
<1>. DEFINE f == [journal["transaction"] EXCEPT ![key] = v]
            later == [journal EXCEPT !["transaction"] = f]
<1>0. IsJournal(journal)
  BY DEF IsSound
<1>1. IsRecord("transaction", journal["transaction"])
  BY <1>0, FieldsOfRecords DEF IsJournal
<1>2. key \in DOMAIN journal["transaction"] /\ "id" \in DOMAIN journal["transaction"]
  BY <1>1, FieldsOfRecords DEF IsRecord
<1>3. IsRecord("transaction", f)
  BY <1>1, <1>2, FieldIsReplaced
<1>. HIDE DEF f
<1>4. IsJournal(later)
  BY <1>0, <1>3, FieldsOfRecords, SingleIsReplaced
<1>5. journal = [r \in Records |-> journal[r]] /\ {"transaction", "paths", "lock", "action"} \subseteq Records
  BY <1>0 DEF IsJournal, Records, Singles, Repeated
<1>6. /\ later["transaction"] = f /\ later["paths"] = journal["paths"] /\ later["lock"] = journal["lock"]
      /\ later["action"] = journal["action"]
  BY <1>5
<1>7. f["id"] = journal["transaction"]["id"]
  BY <1>2 DEF f
<1>. HIDE DEF later
<1>8. \A i \in DOMAIN journal.action : AsksTheSame(later.action[i], journal.action[i])
  BY <1>6 DEF AsksTheSame
<1>9. IsSound(later)
  <2>1. /\ later.transaction.id = journal.transaction.id /\ later.paths = journal.paths
        /\ later.lock = journal.lock /\ DOMAIN later.action = DOMAIN journal.action
    BY <1>6, <1>7
  <2>. QED  BY <1>4, <1>8, <2>1, SamePlanIsSound
<1>. QED  BY <1>9 DEF later, f

\* An action of a journal with more progress.
LEMMA ActionIsReplaced ==
  ASSUME NEW journal, IsSound(journal), NEW i \in DOMAIN journal.action, NEW f,
         IsRecord("action", f), AsksTheSame(f, journal.action[i])
  PROVE  IsSound([journal EXCEPT !["action"][i] = f])
<1>. DEFINE s == journal["action"]
            x == [s EXCEPT ![i] = f]
            later == [journal EXCEPT !["action"] = x]
<1>0. IsJournal(journal)
  BY DEF IsSound
<1>1. PICK n \in Nat : DOMAIN s = 1..n /\ s = [k \in 1..n |-> s[k]] /\ \A k \in 1..n : IsRecord("action", s[k])
  <2>1. Count("action", journal) \in Nat
    BY <1>0, LinesOfRecord, FieldsOfRecords
  <2>. QED  BY <1>0, <2>1, EntriesAreRecords, FieldsOfRecords
<1>. HIDE DEF s
<1>2. x = [k \in 1..n |-> IF k = i THEN f ELSE s[k]] /\ i \in 1..n
  BY <1>1 DEF s
<1>. HIDE DEF x
<1>3. DOMAIN x = 1..n /\ \A k \in 1..n : x[k] = IF k = i THEN f ELSE s[k]
  BY <1>2
<1>4. x \in Seq(ToSet(x))
  <2>1. \A k \in 1..n : x[k] \in ToSet(x)
    BY <1>3 DEF ToSet
  <2>2. x = [k \in 1..n |-> x[k]]
    BY <1>2
  <2>3. x \in [1..n -> ToSet(x)]
    BY <2>1, <2>2
  <2>. QED  BY <2>3
<1>5. \A k \in DOMAIN x : IsRecord("action", x[k])
  BY <1>1, <1>3
<1>6. IsJournal(later)
  BY <1>0, <1>4, <1>5, FieldsOfRecords, EntriesAreReplaced
<1>7. journal = [r \in Records |-> journal[r]] /\ {"transaction", "paths", "lock", "action"} \subseteq Records
  BY <1>0 DEF IsJournal, Records, Singles, Repeated
<1>8. /\ later["transaction"] = journal["transaction"] /\ later["paths"] = journal["paths"]
      /\ later["lock"] = journal["lock"] /\ later["action"] = x
  BY <1>7
<1>. HIDE DEF later
<1>9. \A k \in DOMAIN journal.action : AsksTheSame(later.action[k], journal.action[k])
  <2>. TAKE k \in DOMAIN journal.action
  <2>1. k \in 1..n
    BY <1>1 DEF s
  <2>2. CASE k = i
    <3>1. later.action[k] = f
      BY <1>3, <1>8, <2>1, <2>2
    <3>. QED  BY <2>2, <3>1, Zenon
  <2>3. CASE k # i
    <3>1. later.action[k] = journal.action[k]
      BY <1>3, <1>8, <2>1, <2>3 DEF s
    <3>2. \A a, b : a = b => AsksTheSame(a, b)
      BY DEF AsksTheSame
    <3>. QED  BY <3>1, <3>2, Zenon
  <2>. QED  BY <2>2, <2>3
<1>10. IsSound(later)
  <2>1. /\ later.transaction.id = journal.transaction.id /\ later.paths = journal.paths
        /\ later.lock = journal.lock
    BY <1>8
  <2>2. DOMAIN later.action = DOMAIN journal.action
    BY <1>1, <1>3, <1>8 DEF s
  <2>. QED  BY <1>6, <1>9, <2>1, <2>2, SamePlanIsSound
<1>. QED  BY <1>10 DEF later, x, s

\* An error is added at the end.
LEMMA ErrorIsAdded ==
  ASSUME NEW journal, IsSound(journal), NEW f, IsRecord("error", f)
  PROVE  IsSound([journal EXCEPT !["error"] = Append(journal["error"], f)])
<1>. DEFINE s == journal["error"]
            x == Append(s, f)
            later == [journal EXCEPT !["error"] = x]
<1>0. IsJournal(journal)
  BY DEF IsSound
<1>1. PICK n \in Nat : DOMAIN s = 1..n /\ s = [k \in 1..n |-> s[k]] /\ \A k \in 1..n : IsRecord("error", s[k])
  <2>1. Count("error", journal) \in Nat
    BY <1>0, LinesOfRecord, FieldsOfRecords
  <2>. QED  BY <1>0, <2>1, EntriesAreRecords, FieldsOfRecords
<1>2. s \in Seq(ToSet(s))
  BY <1>0, FieldsOfRecords DEF IsJournal
<1>. HIDE DEF s
<1>3. Len(s) = n
  BY <1>1, <1>2
<1>4. x \in Seq(ToSet(s) \cup {f}) /\ Len(x) = n + 1 /\ DOMAIN x = 1..(n + 1)
      /\ \A k \in 1..(n + 1) : x[k] = IF k = n + 1 THEN f ELSE s[k]
  <2>1. s \in Seq(ToSet(s) \cup {f})
    <3>1. ToSet(s) \subseteq ToSet(s) \cup {f}
      OBVIOUS
    <3>. QED  BY <1>2, <3>1, SeqMonotonic
  <2>. QED  BY <1>3, <2>1
<1>. HIDE DEF x
<1>5. x \in Seq(ToSet(x))
  <2>1. \A k \in 1..(n + 1) : x[k] \in ToSet(x)
    BY <1>4 DEF ToSet
  <2>2. x = [k \in 1..(n + 1) |-> x[k]]
    BY <1>4
  <2>3. x \in [1..(n + 1) -> ToSet(x)]
    BY <2>1, <2>2
  <2>. QED  BY <2>3
<1>6. \A k \in DOMAIN x : IsRecord("error", x[k])
  <2>. TAKE k \in DOMAIN x
  <2>1. k = n + 1 \/ k \in 1..n
    BY <1>4
  <2>2. x[k] = f \/ (k \in 1..n /\ x[k] = s[k])
    BY <1>4, <2>1
  <2>. QED  BY <1>1, <2>2
<1>7. IsJournal(later)
  BY <1>0, <1>5, <1>6, FieldsOfRecords, EntriesAreReplaced
<1>8. journal = [r \in Records |-> journal[r]]
      /\ {"transaction", "paths", "lock", "action", "error"} \subseteq Records
  BY <1>0 DEF IsJournal, Records, Singles, Repeated
<1>9. /\ later["transaction"] = journal["transaction"] /\ later["paths"] = journal["paths"]
      /\ later["lock"] = journal["lock"] /\ later["action"] = journal["action"]
  BY <1>8
<1>. HIDE DEF later
<1>10. \A k \in DOMAIN journal.action : AsksTheSame(later.action[k], journal.action[k])
  BY <1>9 DEF AsksTheSame
<1>11. IsSound(later)
  <2>1. /\ later.transaction.id = journal.transaction.id /\ later.paths = journal.paths
        /\ later.lock = journal.lock /\ DOMAIN later.action = DOMAIN journal.action
    BY <1>9
  <2>. QED  BY <1>7, <1>10, <2>1, SamePlanIsSound
<1>. QED  BY <1>11 DEF later, x, s

\* An action that is taken up has no status of one that is reused.
LEMMA CreatedIsNotReused ==
  ASSUME NEW journal, IsSound(journal), NEW i \in DOMAIN journal.action, journal.action[i].op \in Created
  PROVE  /\ journal.action[i].status # "reused"
         /\ IsRecord("action", journal.action[i])
<1>1. ActionFits(journal, journal.action[i])
  BY DEF IsSound, Validates
<1>2. journal.action[i].op # "reuse"
  BY DEF Created
<1>3. journal.action[i].status # "reused"
  BY <1>1, <1>2 DEF ActionFits
<1>4. IsRecord("action", journal.action[i])
  BY FieldsOfRecords DEF IsSound, IsJournal
<1>. QED  BY <1>3, <1>4

LEMMA MarkedIsSound ==
  ASSUME NEW journal, IsSound(journal), NEW i \in DOMAIN journal.action, journal.action[i].op \in Created,
         NEW mark \in ActionLabels \ {"reused"}
  PROVE  IsSound(Marked(journal, i, mark))
<1>. DEFINE a == journal.action[i]
            f == [a EXCEPT !["status"] = mark]
<1>1. IsRecord("action", a) /\ a.status # "reused"
  BY CreatedIsNotReused
<1>. HIDE DEF a
<1>2. "status" \in DOMAIN a /\ {"id", "op", "kind", "final"} \subseteq DOMAIN a
  BY <1>1, FieldsOfRecords DEF IsRecord
<1>3. IsRecord("action", f)
  <2>1. IsValue("action", "status", mark)
    BY FieldsOfRecords
  <2>. QED  BY <1>1, <1>2, <2>1, FieldIsReplaced
<1>4. DOMAIN f = DOMAIN a /\ f["status"] = mark /\ \A key \in DOMAIN a \ {"status"} : f[key] = a[key]
  BY <1>2
<1>. HIDE DEF f
<1>5. AsksTheSame(f, a)
  <2>1. /\ f.id = a.id /\ f.op = a.op /\ f.kind = a.kind /\ f.final = a.final
    BY <1>2, <1>4
  <2>2. \A key \in {"contents", "temp", "source", "target"} :
          (key \in DOMAIN f <=> key \in DOMAIN a) /\ (key \in DOMAIN f => f[key] = a[key])
    BY <1>4
  <2>3. f.status = "reused" <=> a.status = "reused"
    BY <1>1, <1>4
  <2>. QED  BY <2>1, <2>2, <2>3, Zenon DEF AsksTheSame
<1>6. IsSound([journal EXCEPT !["action"][i] = f])
  BY <1>3, <1>5, ActionIsReplaced DEF a
<1>7. Marked(journal, i, mark) = [journal EXCEPT !["action"][i] = f]
  BY DEF Marked, f, a
<1>. QED  BY <1>6, <1>7, Zenon

LEMMA IdentifiedIsSound ==
  ASSUME NEW journal, IsSound(journal), NEW i \in DOMAIN journal.action, journal.action[i].op \in Created
  PROVE  IsSound(Identified(journal, i))
<1>. DEFINE a == journal.action[i]
            f == [key \in DOMAIN a \cup {"identity"} |->
                    CASE key = "identity" -> <<49>> [] key = "status" -> "staged" [] OTHER -> a[key]]
<1>1. IsRecord("action", a) /\ a.status # "reused"
  BY CreatedIsNotReused
<1>. HIDE DEF a
<1>2. "status" \in DOMAIN a /\ {"id", "op", "kind", "final"} \subseteq DOMAIN a
  BY <1>1, FieldsOfRecords DEF IsRecord
<1>3. /\ DOMAIN f = DOMAIN a \cup {"identity"} /\ f["identity"] = <<49>> /\ f["status"] = "staged"
      /\ \A key \in DOMAIN a \ {"status", "identity"} : f[key] = a[key]
  BY <1>2
<1>4. f = [key \in DOMAIN f |-> f[key]]
  OBVIOUS
<1>. HIDE DEF f
<1>5. IsRecord("action", f)
  <2>1. /\ Required["action"] \subseteq DOMAIN f
        /\ DOMAIN f \subseteq Required["action"] \cup Optional["action"]
    BY <1>1, <1>3, FieldsOfRecords DEF IsRecord
  <2>2. ASSUME NEW key \in DOMAIN f PROVE IsValue("action", key, f[key])
    <3>1. CASE key = "identity"
      BY <1>3, <3>1, FieldsOfRecords
    <3>2. CASE key = "status"
      BY <1>3, <3>2, FieldsOfRecords
    <3>3. CASE key \notin {"identity", "status"}
      BY <1>1, <1>3, <3>3 DEF IsRecord
    <3>. QED  BY <3>1, <3>2, <3>3
  <2>. QED  BY <1>4, <2>1, <2>2 DEF IsRecord
<1>6. AsksTheSame(f, a)
  <2>1. /\ f.id = a.id /\ f.op = a.op /\ f.kind = a.kind /\ f.final = a.final
    BY <1>2, <1>3
  <2>2. \A key \in {"contents", "temp", "source", "target"} :
          (key \in DOMAIN f <=> key \in DOMAIN a) /\ (key \in DOMAIN f => f[key] = a[key])
    BY <1>3
  <2>3. f.status = "reused" <=> a.status = "reused"
    BY <1>1, <1>3
  <2>. QED  BY <2>1, <2>2, <2>3, Zenon DEF AsksTheSame
<1>7. IsSound([journal EXCEPT !["action"][i] = f])
  BY <1>5, <1>6, ActionIsReplaced DEF a
<1>8. Identified(journal, i) = [journal EXCEPT !["action"][i] = f]
  BY DEF Identified, f, a
<1>. QED  BY <1>7, <1>8, Zenon

\* What a sound journal becomes is sound.
LEMMA LaterIsSound ==
  ASSUME NEW journal, IsSound(journal), NEW later \in Later(journal)
  PROVE  IsSound(later)
<1>1. ASSUME NEW j, IsSound(j), NEW status \in TransactionLabels PROVE IsSound(Advanced(j, status))
  <2>1. IsSound([j EXCEPT !["transaction"]["status"] = status])
    BY <1>1, FieldsOfRecords, StatusIsReplaced
  <2>2. Advanced(j, status) = [j EXCEPT !["transaction"]["status"] = status]
    BY DEF Advanced
  <2>. QED  BY <2>1, <2>2, Zenon
<1>2. IsSound(Unkept(journal))
  <2>1. IsSound([journal EXCEPT !["transaction"]["keep_mounts"] = "false"])
    BY FieldsOfRecords, StatusIsReplaced
  <2>2. Unkept(journal) = [journal EXCEPT !["transaction"]["keep_mounts"] = "false"]
    BY DEF Unkept
  <2>. QED  BY <2>1, <2>2, Zenon
<1>3. ASSUME NEW cause \in Causes PROVE IsSound(Failing(journal, cause))
  <2>. DEFINE j == Advanced(journal, "failed")
              f == [text |-> cause]
  <2>1. IsSound(j)
    BY <1>1, FieldsOfRecords
  <2>2. IsRecord("error", f)
    BY FieldsOfRecords, ProgressIsRecordable
  <2>. HIDE DEF j, f
  <2>3. IsSound([j EXCEPT !["error"] = Append(j["error"], f)])
    BY <2>1, <2>2, ErrorIsAdded
  <2>4. Failing(journal, cause) = [j EXCEPT !["error"] = Append(j["error"], f)]
    <3>1. journal = [r \in Records |-> journal[r]] /\ {"transaction", "error"} \subseteq Records
      BY DEF IsSound, IsJournal, Records, Singles, Repeated
    <3>2. j["error"] = journal["error"]
      BY <3>1 DEF j, Advanced
    <3>. QED  BY <3>1, <3>2 DEF Failing, j, f, Advanced
  <2>. QED  BY <2>3, <2>4, Zenon
<1>4. CASE \E status \in Statuses : later = Advanced(journal, status)
  BY <1>1, <1>4, ProgressIsRecordable
<1>5. CASE later = Advanced(Unkept(journal), "cleaning")
  <2>1. "cleaning" \in TransactionLabels
    BY FieldsOfRecords
  <2>. QED  BY <1>1, <1>2, <1>5, <2>1, Zenon
<1>6. CASE \E cause \in Causes : later = Failing(journal, cause)
  BY <1>3, <1>6, Zenon
<1>7. ASSUME NEW i \in DOMAIN journal.action, journal.action[i].op \in Created,
             later = Identified(journal, i) \/ \E mark \in Marks : later = Marked(journal, i, mark)
      PROVE  IsSound(later)
  <2>1. \A mark \in Marks : mark \in ActionLabels \ {"reused"}
    BY ProgressIsRecordable
  <2>2. IsSound(Identified(journal, i))
    BY <1>7, IdentifiedIsSound
  <2>3. \A mark \in Marks : IsSound(Marked(journal, i, mark))
    BY <1>7, <2>1, MarkedIsSound
  <2>. QED  BY <1>7, <2>2, <2>3, Zenon
<1>8. \/ \E status \in Statuses : later = Advanced(journal, status)
      \/ later = Advanced(Unkept(journal), "cleaning")
      \/ \E cause \in Causes : later = Failing(journal, cause)
      \/ \E i \in DOMAIN journal.action :
            /\ journal.action[i].op \in Created
            /\ later = Identified(journal, i) \/ \E mark \in Marks : later = Marked(journal, i, mark)
  BY Zenon DEF Later
<1>. QED  BY <1>4, <1>5, <1>6, <1>7, <1>8

-----------------------------------------------------------------------------
(* The store.                                                              *)

\* What the store's names and requests can be of.
Known == 1..Len(written) \cup {Missing, Torn}

OnlyKnown == {new, temporary, final, stable} \cup survives \cup tried \subseteq Known

\* Every document but the first is a sound journal as it was rendered, and
\* a process only holds sound journals.
StoreInv ==
    /\ FileInv
    /\ OnlyKnown
    /\ written \in Seq(ToSet(written)) /\ Len(written) >= 1 /\ written[1] \in Stored
    /\ \A i \in 2..Len(written) : \E journal : IsSound(journal) /\ written[i] = Rendered(journal, platform)
    /\ \A journal \in memory : IsSound(journal)

\* No document there was before is of the older schema; those are what
\* LegacyStaysReadable is about.
CurrentOnly == \A document \in Stored : document.version # LegacySchemaVersion

\* A list of a known length is a sequence of its elements.
LEMMA ListsAreSequences ==
  ASSUME NEW S, NEW n \in Nat, NEW s \in [1..n -> S]
  PROVE  s \in Seq(S) /\ Len(s) = n /\ s \in Seq(ToSet(s))
<1>1. s \in Seq(S) /\ Len(s) = n /\ DOMAIN s = 1..n
  OBVIOUS
<1>2. \A i \in 1..n : s[i] \in ToSet(s)
  BY <1>1 DEF ToSet
<1>3. s \in [1..n -> ToSet(s)]
  BY <1>2
<1>. QED  BY <1>1, <1>3

LEMMA InitStored == Init => StoreInv
<1>. SUFFICES ASSUME Init PROVE StoreInv
  OBVIOUS
<1>1. FileInv
  BY InitEstablishes DEF Init
<1>2. written \in [1..1 -> Stored]
  <2>1. {1} = 1..1
    OBVIOUS
  <2>. QED  BY <2>1 DEF Init
<1>3. Len(written) = 1 /\ written \in Seq(ToSet(written))
  <2>1. 1 \in Nat
    OBVIOUS
  <2>. QED  BY <1>2, <2>1, ListsAreSequences
<1>4. written[1] \in Stored
  BY <1>2
<1>5. OnlyKnown
  BY <1>3 DEF Init, FileInit, OnlyKnown, Known
<1>6. memory = {}
  BY DEF Init
<1>7. \A i \in 2..Len(written) : FALSE
  BY <1>3
<1>. QED  BY <1>1, <1>3, <1>4, <1>5, <1>6, <1>7 DEF StoreInv

LEMMA StepsKeepKnown ==
  ASSUME OnlyKnown, UNCHANGED written, StoreStep \/ RemoveJournal \/ Killed \/ PowerLoss
  PROVE  OnlyKnown'
<1>1. Known' = Known /\ Missing \in Known /\ Torn \in Known
  BY DEF Known
<1>. USE DEF OnlyKnown
<1>2. CASE Prepare \/ RestrictToOwner
  BY <1>1, <1>2 DEF Prepare, RestrictToOwner
<1>3. CASE Create \/ Write \/ Sync
  BY <1>1, <1>3 DEF Create, Write, Sync, Discard
<1>4. CASE Replace
  BY <1>1, <1>4 DEF Replace, Renamed, OnDisk, Discard
<1>5. CASE Unlink
  BY <1>1, <1>5 DEF Unlink, Renamed
<1>6. ASSUME NEW step, FlushDirectory(step) PROVE OnlyKnown'
  BY <1>1, <1>6 DEF FlushDirectory, Flushed
<1>7. CASE RemoveJournal
  BY <1>1, <1>7 DEF RemoveJournal
<1>8. CASE Killed
  BY <1>1, <1>8 DEF Killed
<1>9. CASE PowerLoss
  BY <1>1, <1>9 DEF PowerLoss
<1>. QED  BY <1>2, <1>3, <1>4, <1>5, <1>6, <1>7, <1>8, <1>9 DEF StoreStep

LEMMA PlatformStays == ASSUME [FileNext]_file PROVE platform' = platform
<1>1. CASE UNCHANGED file
  BY <1>1 DEF file
<1>2. CASE StoreStep
  BY <1>2 DEF StoreStep, Prepare, Create, Write, Sync, RestrictToOwner, Replace, Unlink, FlushDirectory
<1>3. CASE ~StoreStep /\ ~UNCHANGED file
  BY <1>3 DEF FileNext, Persist, RemoveJournal, Killed, PowerLoss
<1>. QED  BY <1>1, <1>2, <1>3

\* What the journal's name shows is a document that was stored.
LEMMA FinalIsWritten ==
  ASSUME StoreInv, final # Missing
  PROVE  final \in Documents /\ final \in 1..Len(written)
<1>1. final \in Documents
  BY DEF StoreInv, FileInv, FileTypeOK, CrashKeepsAVersion
<1>2. final # Torn
  BY <1>1, NotADocument
<1>3. final \in Known
  BY DEF StoreInv, OnlyKnown
<1>. QED  BY <1>1, <1>2, <1>3 DEF Known

\* A process that adopts a journal takes up one that can be acted on.
LEMMA AdoptedAreSound ==
  ASSUME StoreInv, CurrentOnly, final \in Documents, NEW journal \in LoadOf(final)
  PROVE  IsSound(journal)
<1>1. final # Missing
  BY NotADocument
<1>2. final \in 1..Len(written) /\ Len(written) \in Nat
  BY <1>1, FinalIsWritten DEF StoreInv
<1>3. journal \in Loaded(written[final], platform)
  BY Zenon DEF LoadOf
<1>4. CASE final = 1
  <2>1. written[final] \in Stored
    BY <1>4 DEF StoreInv
  <2>2. written[final].version # LegacySchemaVersion
    BY <2>1 DEF CurrentOnly
  <2>3. AreLines(written[final].body)
    BY <2>1, StoredAreDocuments DEF AreLines
  <2>. QED  BY <1>3, <2>2, <2>3, LoadedIsSound
<1>5. CASE final # 1
  <2>1. final \in 2..Len(written)
    BY <1>2, <1>5
  <2>2. PICK j : IsSound(j) /\ written[final] = Rendered(j, platform)
    BY <2>1 DEF StoreInv
  <2>3. /\ written[final].checksum = ToLines(j) /\ written[final].version = SchemaVersion
    BY <2>2 DEF Rendered, DocumentOf
  <2>4. /\ written[final].checksum = written[final].body
        /\ journal = JournalOf(written[final].body, written[final].version)
    BY <1>3, LoadedIsRead
  <2>5. journal = JournalOf(ToLines(j), SchemaVersion)
    BY <2>3, <2>4, Zenon
  <2>6. journal = j
    BY <2>2, <2>5, JournalIsReadBack DEF IsSound
  <2>. QED  BY <2>2, <2>6, Zenon
<1>. QED  BY <1>4, <1>5

\* Storing a sound journal adds a document of it and asks for its number.
LEMMA SavesPreserves ==
  ASSUME StoreInv, NEW journal, IsSound(journal), Saves(journal)
  PROVE  StoreInv'
<1>. DEFINE n == Len(written)
            document == Rendered(journal, platform)
<1>1. /\ n \in 1..MaxSaves /\ written' = Append(written, document) /\ memory' = {journal}
      /\ Persist(n + 1)
  BY DEF Saves
<1>2. n \in Nat /\ n + 1 \in Documents
  BY <1>1, DocumentsAreNumbered
<1>3. FileInv' /\ platform' = platform
  <2>1. Persist(n + 1) /\ n + 1 \in Documents
    BY <1>1, <1>2
  <2>. HIDE DEF n
  <2>2. FileInv'
    BY <2>1, PersistPreserves DEF StoreInv
  <2>. QED  BY <2>1, <2>2 DEF Persist
<1>4. written \in Seq(ToSet(written))
  BY DEF StoreInv
<1>. HIDE DEF document
<1>5. /\ Len(written') = n + 1 /\ DOMAIN written' = 1..(n + 1)
      /\ \A i \in 1..n : written'[i] = written[i]
      /\ written'[n + 1] = document /\ written' \in Seq(ToSet(written) \cup {document})
  <2>1. written \in Seq(ToSet(written) \cup {document})
    <3>1. ToSet(written) \subseteq ToSet(written) \cup {document}
      OBVIOUS
    <3>. QED  BY <1>4, <3>1, SeqMonotonic
  <2>. QED  BY <1>1, <2>1
<1>6. written' \in Seq(ToSet(written'))
  <2>1. \A k \in 1..(n + 1) : written'[k] \in ToSet(written')
    BY <1>5 DEF ToSet
  <2>2. written' = [k \in 1..(n + 1) |-> written'[k]]
    BY <1>5
  <2>3. written' \in [1..(n + 1) -> ToSet(written')]
    BY <2>1, <2>2
  <2>. QED  BY <1>2, <2>3
<1>7. OnlyKnown'
  <2>1. Known \subseteq Known' /\ n + 1 \in Known'
    <3>1. Known = 1..n \cup {Missing, Torn} /\ Known' = 1..(n + 1) \cup {Missing, Torn}
      BY <1>5 DEF Known
    <3>. HIDE DEF n
    <3>. QED  BY <1>2, <3>1
  <2>. QED  BY <1>1, <2>1 DEF StoreInv, OnlyKnown, Persist
<1>8. Len(written') >= 1 /\ written'[1] \in Stored
  BY <1>1, <1>2, <1>5 DEF StoreInv
<1>9. ASSUME NEW i \in 2..(n + 1)
      PROVE  \E j : IsSound(j) /\ written'[i] = Rendered(j, platform)
  <2>1. CASE i = n + 1
    BY <1>5, <2>1 DEF document
  <2>2. CASE i # n + 1
    <3>1. i \in 2..n /\ i \in 1..n
      BY <1>2, <2>2
    <3>2. written'[i] = written[i]
      BY <1>5, <3>1
    <3>. QED  BY <3>1, <3>2 DEF StoreInv
  <2>. QED  BY <2>1, <2>2
<1>10. \A i \in 2..Len(written') : \E j : IsSound(j) /\ written'[i] = Rendered(j, platform')
  <2>1. \A i \in 2..Len(written') : \E j : IsSound(j) /\ written'[i] = Rendered(j, platform)
    BY <1>5, <1>9
  <2>. QED  BY <1>3, <2>1, Zenon
<1>11. \A j \in memory' : IsSound(j)
  BY <1>1
<1>. QED  BY <1>3, <1>6, <1>7, <1>8, <1>10, <1>11 DEF StoreInv

\* A step that writes nothing new leaves the documents as they are.
LEMMA OthersPreserve ==
  ASSUME StoreInv, UNCHANGED written, OnlyKnown', [FileNext]_file, \A journal \in memory' : IsSound(journal)
  PROVE  StoreInv'
<1>1. FileInv' /\ platform' = platform
  BY FileNextPreserves, PlatformStays DEF StoreInv
<1>2. /\ written' \in Seq(ToSet(written')) /\ Len(written') >= 1 /\ written'[1] \in Stored
  BY DEF StoreInv
<1>3. \A i \in 2..Len(written') : \E journal : IsSound(journal) /\ written'[i] = Rendered(journal, platform')
  BY <1>1, Zenon DEF StoreInv
<1>. QED  BY <1>1, <1>2, <1>3 DEF StoreInv

LEMMA StorePreserves ==
  ASSUME StoreInv, CurrentOnly, [Next]_vars
  PROVE  StoreInv'
<1>0. \A journal \in memory : IsSound(journal)
  BY DEF StoreInv
<1>1. ASSUME NEW journal \in Opened, Open(journal) PROVE StoreInv'
  <2>1. IsSound(journal) /\ Saves(journal)
    BY <1>1, OpenedAreSound DEF Open, IsSound
  <2>. QED  BY <2>1, SavesPreserves
<1>2. CASE Save
  <2>1. PICK journal \in memory : \E later \in Later(journal) : Saves(later)
    BY <1>2 DEF Save
  <2>2. PICK later \in Later(journal) : Saves(later)
    BY <2>1
  <2>3. IsSound(later)
    BY <1>0, <2>1, <2>2, LaterIsSound
  <2>. QED  BY <2>2, <2>3, SavesPreserves
<1>3. CASE Retire
  <2>1. RemoveJournal /\ memory' = {} /\ UNCHANGED written
    BY <1>3 DEF Retire
  <2>2. OnlyKnown'
    BY <2>1, StepsKeepKnown DEF StoreInv
  <2>. QED  BY <2>1, <2>2, OthersPreserve DEF FileNext
<1>4. CASE Adopt
  <2>1. LoadOf(final) # {} /\ memory' = LoadOf(final) /\ UNCHANGED <<file, scan, written>>
    BY <1>4 DEF Adopt
  <2>2. final \in Documents
    BY <2>1 DEF LoadOf
  <2>3. \A journal \in memory' : IsSound(journal)
    BY <2>1, <2>2, AdoptedAreSound
  <2>4. OnlyKnown'
    BY <2>1 DEF StoreInv, OnlyKnown, Known, file
  <2>. QED  BY <2>1, <2>3, <2>4, OthersPreserve
<1>5. CASE StoreStep /\ UNCHANGED <<memory, scan, written>>
  <2>1. OnlyKnown'
    BY <1>5, StepsKeepKnown DEF StoreInv
  <2>. QED  BY <1>0, <1>5, <2>1, OthersPreserve DEF FileNext
<1>6. CASE UNCHANGED <<file, memory, written>>
  <2>1. OnlyKnown'
    BY <1>6 DEF StoreInv, OnlyKnown, Known, file
  <2>. QED  BY <1>0, <1>6, <2>1, OthersPreserve
<1>7. CASE Crash
  <2>1. (Killed \/ PowerLoss) /\ memory' = {} /\ UNCHANGED written
    BY <1>7 DEF Crash
  <2>2. OnlyKnown'
    BY <2>1, StepsKeepKnown DEF StoreInv
  <2>. QED  BY <2>1, <2>2, OthersPreserve DEF FileNext
<1>8. CASE Lists \/ Loads \/ UNCHANGED vars
  <2>1. UNCHANGED <<file, memory, written>>
    BY <1>8 DEF Lists, Loads, vars
  <2>. QED  BY <1>6, <2>1
<1>. QED  BY <1>1, <1>2, <1>3, <1>4, <1>5, <1>7, <1>8 DEF Next, Owner

\* Every document of this build is a sound journal as rendered, every journal
\* held is sound, and the names of the store show only documents: the
\* invariant behind the three theorems below.
LEMMA StoreInvariant == ASSUME CurrentOnly PROVE Spec => []StoreInv
<1>1. StoreInv /\ [Next]_vars => StoreInv'
  BY StorePreserves
<1>. QED  BY <1>1, InitStored, PTL DEF Spec

\* What a transaction comes to hold, opened, advanced or adopted, is what a
\* later process would load of its document, exactly: persist and load of
\* journal/store.rs over the whole codec.
THEOREM SavedJournalsLoad == ASSUME CurrentOnly PROVE Spec => WhatIsSavedLoads
<1>1. ASSUME StoreInv'
      PROVE  \A journal \in memory' \ memory :
                Fits(ToLines(journal)) => Loaded(Rendered(journal, platform), platform) = {journal}
  BY <1>1, SoundIsLoaded DEF StoreInv
<1>. QED  BY <1>1, StoreInvariant, PTL DEF WhatIsSavedLoads

\* A document that lost, gained or repeated lines, or changed its header, is
\* refused, or is read under the older schema with stronger locks and nothing
\* else changed: the checksum of journal/codec.rs and the rules of from_lines.
THEOREM DamageIsRefused == ASSUME CurrentOnly PROVE Spec => DamageIsNeverActedOn
<1>1. ASSUME StoreInv, StoreInv', [Next]_vars, written' # written,
             NEW damaged \in Damaged(Last(written')), NEW read \in Loaded(damaged, platform),
             NEW journal \in memory'
      PROVE  OnlyLocksStrengthened(read, journal)
  <2>1. PICK j : Saves(j)
    BY <1>1 DEF Next, Owner, Open, Save, Retire, Adopt, Lists, Loads, Crash, vars
  <2>2. written' = Append(written, Rendered(j, platform)) /\ journal = j
    BY <1>1, <2>1 DEF Saves
  <2>3. Last(written') = Rendered(j, platform)
    <3>1. written \in Seq(ToSet(written))
      BY <1>1 DEF StoreInv
    <3>2. \A S, s, d : s \in Seq(S) => Append(s, d)[Len(Append(s, d))] = d
      OBVIOUS
    <3>. QED  BY <2>2, <3>1, <3>2, Zenon DEF Last
  <2>4. IsJournal(j)
    BY <1>1, <2>2 DEF StoreInv, IsSound
  <2>5. damaged \in Damaged(Rendered(j, platform))
    BY <1>1, <2>3, Zenon
  <2>6. OnlyLocksStrengthened(read, j)
    BY <2>4, <2>5, DamagedIsRefused
  <2>. QED  BY <2>2, <2>6, Zenon
<1>2. StoreInv /\ StoreInv' /\ [Next]_vars =>
        (written' # written =>
            \A damaged \in Damaged(Last(written')) : \A read \in Loaded(damaged, platform) :
                \A journal \in memory' : OnlyLocksStrengthened(read, journal))
  BY <1>1
<1>. QED  BY <1>2, StoreInvariant, PTL DEF DamageIsNeverActedOn, Spec

\* A scan without a lock reads a whole version at any moment of a replacement,
\* a kill or a loss of power, and never refuses one of this build that fits:
\* scan of journal/store.rs.
THEOREM ScansAreWhole == ASSUME CurrentOnly PROVE Spec => ScansReadVersions
<1>1. StoreInv =>
        (Loads /\ final \notin {Missing, 1} =>
            final \in Documents /\ (Fits(written[final].body) => LoadOf(final) # {}))
  <2>. SUFFICES ASSUME StoreInv, final \notin {Missing, 1}
                PROVE  final \in Documents /\ (Fits(written[final].body) => LoadOf(final) # {})
    OBVIOUS
  <2>1. final \in Documents /\ final \in 1..Len(written)
    BY FinalIsWritten
  <2>2. final \in 2..Len(written)
    <3>1. Len(written) \in Nat
      BY DEF StoreInv
    <3>. QED  BY <2>1, <3>1
  <2>3. PICK j : IsSound(j) /\ written[final] = Rendered(j, platform)
    BY <2>2 DEF StoreInv
  <2>4. written[final].body = ToLines(j)
    BY <2>3 DEF Rendered, DocumentOf
  <2>5. ASSUME Fits(written[final].body) PROVE LoadOf(final) # {}
    <3>1. Fits(ToLines(j))
      BY <2>4, <2>5, Zenon
    <3>2. Loaded(Rendered(j, platform), platform) = {j}
      BY <2>3, <3>1, SoundIsLoaded
    <3>3. LoadOf(final) = {j}
      BY <2>1, <2>3, <3>2, Zenon DEF LoadOf
    <3>. QED  BY <3>3
  <2>. QED  BY <2>1, <2>5
<1>. QED  BY <1>1, StoreInvariant, PTL DEF ScansReadVersions

-----------------------------------------------------------------------------
(* The owner of a journal, and the crashes that end it, take the file      *)
(* through the steps of JournalFile only.                                  *)

\* Whatever a transaction, its adopters and the scans do, they do to the file by
\* persist and remove of journal/store.rs, with a document that has a number of
\* its own.  Nothing about documents is assumed.
THEOREM StoreImplementsFile == Spec => FileSpec
<1>1. Init => FileInit
  BY DEF Init
<1>2. [Next]_vars => [FileNext]_file
  <2>. SUFFICES ASSUME [Next]_vars PROVE FileNext \/ UNCHANGED file
    OBVIOUS
  <2>1. ASSUME NEW journal, Saves(journal) PROVE FileNext
    <3>1. Persist(Len(written) + 1) /\ Len(written) \in 1..MaxSaves
      BY <2>1 DEF Saves
    <3>2. Len(written) + 1 \in Documents
      BY <3>1, DocumentsAreNumbered
    <3>. QED  BY <3>1, <3>2 DEF FileNext
  <2>2. CASE Retire
    BY <2>2 DEF Retire, FileNext
  <2>3. CASE StoreStep \/ Crash
    BY <2>3 DEF Crash, FileNext
  <2>4. CASE Adopt \/ Lists \/ Loads \/ UNCHANGED vars
    BY <2>4 DEF Adopt, Lists, Loads, vars
  <2>. QED  BY <2>1, <2>2, <2>3, <2>4 DEF Next, Owner, Open, Save
<1>. QED  BY <1>1, <1>2, PTL DEF Spec, FileSpec

\* A transaction's journal is, at every moment of its life and after any loss of
\* power, a whole version: the one acknowledged last or one asked for since
\* (persist and remove of journal/store.rs, called by every transaction).
THEOREM JournalsSurvive == Spec => []CrashKeepsAVersion
  BY StoreImplementsFile, CrashSafety, PTL

\* Every process that owns a journal in turn, with the crashes between them, meets
\* the atomic journal: the outcomes of a call are the old version, the new one, or
\* the new one acknowledged (persist and remove of journal/store.rs).
THEOREM StoreImplementsAtomic == Spec => ImplementsAtomicJournal
  BY StoreImplementsFile, FileImplementsAtomic, PTL
=============================================================================
