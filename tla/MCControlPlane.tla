--------------------------- MODULE MCControlPlane ---------------------------
(***************************************************************************)
(* Small instances of the parts.  Parts share model values: all of them    *)
(* are symmetric in x1 and x2, in y1 and y2, and in z1 and z2, so a single *)
(* symmetry set serves the whole run.                                      *)
(***************************************************************************)
EXTENDS ControlPlane, TLC

CONSTANTS x1, x2, y1, y2, z1, z2, f, g, r1, p1, p2, p3

\* Run r1 belongs to a workflow of its own, the others to a controlled one.
RunWorkflows == [r \in {r1, x1, x2} |-> IF r = r1 THEN f ELSE g]

\* An older program beside two newer ones.
KnownVersions == [p \in {p1, p2, p3} |-> IF p = p1 THEN 2 ELSE 3]

Row(key, minus, digits, exponent) ==
  [key |-> key, minus |-> minus, digits |-> digits, exponent |-> exponent]

\* One amount written in two ways, and one below the maximum.
Rows == {Row(1, FALSE, <<1>>, -6), Row(1, FALSE, <<1, 0>>, -7),
         Row(2, FALSE, <<1, 5, 0>>, -6)}

\* Microusd converts every decimal of up to three digits exactly or refuses it.
Decimals == {<<d>> : d \in 0 .. 9} \cup (1 .. 9) \X (0 .. 9)
              \cup (1 .. 9) \X (0 .. 9) \X (0 .. 9)

ASSUME ConversionIsExact ==
  \A minus \in BOOLEAN, d \in Decimals, e \in -9 .. -4 :
    LET row == Row(1, minus, d, e)
    IN  IF Microusd(row) = -1
        THEN \A amount \in 0 .. MaxMicrousd : ~IsExactly(row, amount)
        ELSE IsExactly(row, Microusd(row))

Symmetry == Permutations({x1, x2}) \cup Permutations({y1, y2})
              \cup Permutations({z1, z2})

\* The parts that do not take steps are in their initial states.
ActivePart ==
  CASE part = "canary" -> <<part, canaryPart>>
    [] part = "rollback" -> <<part, rollbackVars>>
    [] part = "attestation" -> <<part, attestationVars>>
    [] part = "adapter" -> <<part, adapterVars>>
    [] part = "trust" -> <<part, trustVars>>
    [] part = "migrations" -> <<part, migrationVars>>
    [] part = "legacy" -> <<part, legacyVars>>
    [] part = "soak" -> <<part, soakVars>>
    [] part = "live" -> <<part, liveVars>>
    [] part = "catalog" -> <<part, catalogVars>>
    [] part = "metadata" -> <<part, metadataVars>>
=============================================================================
