---------------------------- MODULE LegacyImport ----------------------------
(***************************************************************************)
(* legacy_import.py: terminal usage of an older budget, with money as      *)
(* decimal US dollars, is imported into the ledger.  An import reads the   *)
(* source on a connection of its own and then settles all of its rows, or  *)
(* none, in one transaction; what could not be imported is recorded as a   *)
(* quarantined batch in another one.  A row is its settlement identity and *)
(* its money; other columns that are not well formed, and a source that    *)
(* cannot be read, put a batch in quarantine like money does.              *)
(***************************************************************************)
EXTENDS Integers, Sequences, FiniteSets

CONSTANTS
  Importers,
  Batches,
  LegacyRows,   \* raw rows: settlement identity, and sign, digits and exponent
  MaxRows,      \* bound on the rows of a source
  MaxMicrousd,  \* _MAX_MONEY_MICROUSD
  MaxAdjusted,  \* exponent of its first digit
  NoImport,     \* no batch row, and no import under way
  Unsettled

Keys == {row.key : row \in LegacyRows}

Sources == {rows \in SUBSET LegacyRows : Cardinality(rows) <= MaxRows}
Batch == [rows : Sources, status : {"promoted", "quarantined"}]
Import == [batch : Batches, rows : Sources, stage : {"promote", "quarantine"}]

TenTo(n) ==
  LET power[k \in 0 .. n] == IF k = 0 THEN 1 ELSE 10 * power[k - 1]
  IN  power[n]

ASSUME LegacyAssumption ==
  /\ \A row \in LegacyRows :
       row.minus \in BOOLEAN /\ row.digits \in Seq(0 .. 9) /\ row.exponent \in Int
  /\ MaxRows \in Nat /\ MaxMicrousd \in Nat /\ MaxAdjusted \in Nat
  /\ TenTo(MaxAdjusted) <= MaxMicrousd /\ MaxMicrousd < TenTo(MaxAdjusted + 1)
  /\ Unsettled \notin Nat /\ NoImport \notin Batch /\ NoImport \notin Import

VARIABLES
  settlements,  \* microusd of each settlement
  batches,      \* legacy_money_import_batches
  promotions,   \* legacy_money_import_promotions: batch and row
  imports       \* the call of each importer

legacyVars == <<settlements, batches, promotions, imports>>

LegacyTypeOK ==
  /\ settlements \in [Keys -> 0 .. MaxMicrousd \cup {Unsettled}]
  /\ batches \in [Batches -> Batch \cup {NoImport}]
  /\ promotions \subseteq Batches \X LegacyRows
  /\ imports \in [Importers -> Import \cup {NoImport}]

LegacyInit ==
  /\ settlements = [k \in Keys |-> Unsettled]
  /\ batches = [b \in Batches |-> NoImport]
  /\ promotions = {}
  /\ imports = [i \in Importers |-> NoImport]

-----------------------------------------------------------------------------
(* Money *)

\* The number that each prefix of the digits spells.
Spelled(digits) ==
  LET number[n \in 0 .. Len(digits)] ==
        IF n = 0 THEN 0 ELSE 10 * number[n - 1] + digits[n]
  IN  number

Coefficient(digits) == Spelled(digits)[Len(digits)]

TrailingZeros(digits, n) ==
  \A k \in Len(digits) - n + 1 .. Len(digits) : k > 0 /\ digits[k] = 0

\* _decimal_to_integral_microusd; -1 stands for both of its errors, the first of
\* which is for any sign, that of a zero included.
Microusd(row) ==
  LET zeros == -(row.exponent + 6)
      value == IF zeros <= 0 THEN Coefficient(row.digits) * TenTo(-zeros)
               ELSE Spelled(row.digits)[Len(row.digits) - zeros]
  IN  IF row.minus THEN -1
      ELSE IF Coefficient(row.digits) = 0 THEN 0
      ELSE IF Len(row.digits) - 1 + row.exponent + 6 > MaxAdjusted THEN -1
      ELSE IF zeros > 0 /\ ~TrailingZeros(row.digits, zeros) THEN -1
      ELSE IF value > MaxMicrousd THEN -1 ELSE value

-----------------------------------------------------------------------------
(* Imports *)

\* _read_source_rows and _incoming_identity_conflict_quarantines
ReadsWell(rows) ==
  /\ \A row \in rows : Microusd(row) # -1
  /\ \A row, other \in rows : row.key = other.key => row = other

\* The source may hold other rows at every call.
ReadSource(i, b, rows) ==
  /\ imports[i] = NoImport
  /\ imports' = [imports EXCEPT ![i] =
       [batch |-> b, rows |-> rows,
        stage |-> IF ReadsWell(rows) THEN "promote" ELSE "quarantine"]]
  /\ UNCHANGED <<settlements, batches, promotions>>

Importing(i, stage) == imports[i] # NoImport /\ imports[i].stage = stage

\* Mutant: an identity may come back with other raw data.
AnyPayload(rows) == TRUE

\* _reject_changed_legacy_payload_replay
SamePayload(rows) ==
  \A row \in rows : \A p \in promotions : p[2].key = row.key => p[2] = row

\* _settle_budget_on_connection of every row, which replays an equal settlement
MaySettleRows(rows) ==
  \A row \in rows : settlements[row.key] \in {Unsettled, Microusd(row)}

EndImport(i) == imports' = [imports EXCEPT ![i] = NoImport]

PromoteRows(i) ==
  LET b == imports[i].batch
      rows == imports[i].rows
  IN  /\ Importing(i, "promote") /\ batches[b] = NoImport
      /\ SamePayload(rows) /\ MaySettleRows(rows)
      /\ settlements' = [k \in Keys |->
           IF \E row \in rows : row.key = k
           THEN Microusd(CHOOSE row \in rows : row.key = k) ELSE settlements[k]]
      /\ promotions' = promotions \cup ({b} \X rows)
      /\ batches' = [batches EXCEPT ![b] = [rows |-> rows, status |-> "promoted"]]
      /\ EndImport(i)

\* A check, the ledger or the database refuses: nothing is kept.
PromotionFails(i) ==
  /\ Importing(i, "promote")
  /\ imports' = [imports EXCEPT ![i].stage = "quarantine"]
  /\ UNCHANGED <<settlements, batches, promotions>>

\* _record_quarantine_batch
RecordQuarantine(i) ==
  /\ Importing(i, "quarantine") /\ batches[imports[i].batch] = NoImport
  /\ batches' = [batches EXCEPT ![imports[i].batch] =
                   [rows |-> imports[i].rows, status |-> "quarantined"]]
  /\ EndImport(i)
  /\ UNCHANGED <<settlements, promotions>>

\* The process dies, or the batch is there: its result is the answer when the
\* rows are the same, and the call raises when they are not.
LeaveImport(i) ==
  /\ imports[i] # NoImport
  /\ EndImport(i)
  /\ UNCHANGED <<settlements, batches, promotions>>

\* The runtime settles the budget of a spawn itself.
SettleAtRuntime(k, amount) ==
  /\ settlements[k] = Unsettled
  /\ settlements' = [settlements EXCEPT ![k] = amount]
  /\ UNCHANGED <<batches, promotions, imports>>

LegacyNext ==
  \/ \E i \in Importers :
       \/ \E b \in Batches, rows \in Sources : ReadSource(i, b, rows)
       \/ PromoteRows(i) \/ PromotionFails(i) \/ RecordQuarantine(i) \/ LeaveImport(i)
  \/ \E k \in Keys, amount \in {0, MaxMicrousd} : SettleAtRuntime(k, amount)

LegacySpec == LegacyInit /\ [][LegacyNext]_legacyVars

-----------------------------------------------------------------------------
(* Properties *)

\* The dollars of a row, as a fraction without a sign, are that many millionths.
IsExactly(row, amount) ==
  /\ ~row.minus
  /\ Coefficient(row.digits) * TenTo(IF row.exponent > -6 THEN row.exponent + 6 ELSE 0)
       = amount * TenTo(IF row.exponent < -6 THEN -(row.exponent + 6) ELSE 0)

\* A batch is imported as a whole or not at all, each of its rows with its
\* exact money, and no settlement is ever explained by two different raw rows,
\* however imports overlap, fail, die and are repeated with another source.
ImportIsExact ==
  /\ \A b \in Batches : {p[2] : p \in {q \in promotions : q[1] = b}} =
       IF batches[b] # NoImport /\ batches[b].status = "promoted"
       THEN batches[b].rows ELSE {}
  /\ \A p \in promotions : IsExactly(p[2], settlements[p[2].key])
  /\ \A p, q \in promotions : p[2].key = q[2].key => p[2] = q[2]
=============================================================================
