---------------------------- MODULE SoakMonitor -----------------------------
(***************************************************************************)
(* scripts/heartbeat-shadow-soak-monitor.py with the soak receipt rules of *)
(* heartbeat_shadow.py: a process takes samples of the shadow for one or   *)
(* more days and then reports the soak complete.  What it knows is in four *)
(* files it writes one after the other - snapshot ledger, journal of       *)
(* signed samples, core receipt, signature of the receipt - and the        *)
(* verdict in a fifth, the envelope, which other commands write as well.   *)
(* The process may die between any two writes and be run again.  A         *)
(* signature only vouches for what the monitor wrote; no file is edited.   *)
(***************************************************************************)
EXTENDS Integers, Sequences

CONSTANTS
  Interval,     \* sample_interval_seconds
  Duration,     \* duration_hours
  LastReading,  \* bound on both clocks
  NoReceipt

Readings == 0 .. LastReading
Reading == [wall : Readings, mono : Readings]
Sample == [wall : Readings, mono : Readings, pass : BOOLEAN]
SoakReceipt == [samples : Seq(Sample), status : {"in_progress", "complete", "failed"}]

ASSUME SoakAssumption ==
  /\ Interval \in Nat \ {0} /\ Duration \in Nat \ {0}
  /\ LastReading \in Nat
  /\ NoReceipt \notin Reading /\ NoReceipt \notin Sample /\ NoReceipt \notin SoakReceipt

VARIABLES
  uptime,       \* last reading of time.monotonic, counted from the start
  core,         \* core-soak-core.json
  journal,      \* sample-authentication.json
  snapshots,    \* how many entries runtime-snapshot-receipts.json has
  signed,       \* core-soak-receipt-authentication.json
  envelope,     \* status of monitor-envelope.json
  stopRequest,  \* stop-request.json
  started,      \* monitor-config.json: both clocks when the soak began
  pc,           \* where the monitor process is, or the status it writes next
  sample,       \* the sample it works on; `mono` is read after `wall`
  seen          \* the status a `status` command has read

soakFiles == <<core, journal, snapshots, signed, envelope, stopRequest, started>>
soakVars == <<uptime, soakFiles, pc, sample, seen>>

Verdicts == {"running", "first_sample_pass", "complete", "failed_closed", "stopped"}

SoakTypeOK ==
  /\ uptime \in Readings
  /\ core \in SoakReceipt \cup {NoReceipt}
  /\ journal \in Seq(Sample)
  /\ snapshots \in Nat
  /\ signed \in BOOLEAN /\ stopRequest \in BOOLEAN
  /\ envelope \in Verdicts \cup {"rolled_back", "none"}
  /\ started \in Reading \cup {NoReceipt}
  /\ sample \in Sample \cup {NoReceipt}
  /\ seen \in Verdicts \cup {"rolled_back", "none"}
  /\ pc \in {"off", "first_sample", "first_receipt", "first_journal", "resume",
             "check", "sample", "journal", "receipt", "sign", "exit"} \cup Verdicts

SoakInit ==
  /\ uptime = 0
  /\ core = NoReceipt /\ journal = <<>> /\ snapshots = 0 /\ signed = FALSE
  /\ envelope = "none" /\ stopRequest = FALSE /\ started = NoReceipt
  /\ pc = "off" /\ sample = NoReceipt /\ seen = "none"

Samples == IF core = NoReceipt THEN <<>> ELSE core.samples
Latest == Samples[Len(Samples)]

-----------------------------------------------------------------------------
(* Receipt rules *)

\* Mutant: only the wall clock tells how far samples are apart.
WallFollows(s, r, least, most) == s.wall - r.wall \in least .. most

Follows(s, r, least, most) ==
  /\ s.wall - r.wall \in least .. most
  /\ s.mono - r.mono \in least .. most

WellSpaced(s) ==
  IF Samples = <<>> THEN Follows(s, started, 0, Interval)
  ELSE Follows(s, Latest, Interval, 2 * Interval)

Past(s, r, d) == s.wall >= r.wall + d /\ s.mono >= r.mono + d

\* Both clocks are read; the wall clock is set to any time, the monotonic one
\* only passes.
Read(c) == c.mono >= uptime /\ uptime' = c.mono

StatusWith(s) ==
  IF ~s.pass THEN "failed"
  ELSE IF Past(s, started, Duration) THEN "complete" ELSE "in_progress"

\* append_heartbeat_soak_sample with its checks before and after.  A receipt
\* in progress must not be past either deadline.
MayAppend(s) ==
  /\ WellSpaced(s)
  /\ s.wall <= started.wall + Duration + Interval
  /\ s.mono <= started.mono + Duration + Interval
  /\ Len(Samples) < Duration \div Interval + 2
  /\ StatusWith(s) = "in_progress" =>
       s.wall < started.wall + Duration /\ s.mono < started.mono + Duration

\* _validate_sample_authentication_entries
JournalAgrees == journal = Samples

SnapshotsAgree(trailing) ==
  snapshots = 0 \/ core = NoReceipt \/ snapshots - Len(Samples) \in 0 .. trailing

\* _envelope raises unless the files support the status.
Supported(status) ==
  \/ status = "failed_closed"
  \/ /\ status # "failed_closed"
     /\ SnapshotsAgree(IF status = "complete" THEN 0 ELSE 1)
     /\ status \in {"running", "first_sample_pass", "complete"} /\ core # NoReceipt
          => JournalAgrees
     /\ status = "complete" =>
          core # NoReceipt /\ core.status = "complete" /\ snapshots > 0 /\ signed

-----------------------------------------------------------------------------
(* start: the first sample *)

\* The outputs of an earlier start forbid another one.
Start(c) ==
  /\ pc = "off" /\ started = NoReceipt
  /\ Read(c) /\ c.mono = 0
  /\ started' = c
  /\ pc' = "first_sample"
  /\ UNCHANGED <<core, journal, snapshots, signed, envelope,
                 stopRequest, sample, seen>>

\* _sample: the snapshot of the database may fail, and then the sample does;
\* an entry without sample is archived before the next one is appended.
TakeSample(c, passed, snapped) ==
  /\ passed => snapped
  /\ Read(c)
  /\ sample' = [wall |-> c.wall, mono |-> c.mono, pass |-> passed]
  /\ snapshots' = IF snapped THEN Len(Samples) + 1 ELSE snapshots

FirstSample(c, passed, snapped) ==
  /\ pc = "first_sample"
  /\ TakeSample(c, passed, snapped)
  /\ pc' = IF MayAppend(sample') THEN "first_receipt" ELSE "off"
  /\ UNCHANGED <<core, journal, signed, envelope, stopRequest,
                 started, seen>>

WriteCore ==
  core' = [samples |-> Append(Samples, sample), status |-> StatusWith(sample)]

FirstReceipt ==
  /\ pc = "first_receipt"
  /\ WriteCore
  /\ pc' = "first_journal"
  /\ UNCHANGED <<uptime, journal, snapshots, signed, envelope, stopRequest,
                 started, sample, seen>>

\* With --no-daemon the process ends here; else it becomes the daemon.
FirstJournal ==
  /\ pc = "first_journal"
  /\ journal' = <<sample>>
  /\ pc' \in IF sample.pass THEN {"first_sample_pass", "resume"} ELSE {"failed_closed"}
  /\ sample' = NoReceipt
  /\ UNCHANGED <<uptime, core, snapshots, signed, envelope, stopRequest,
                 started, seen>>

-----------------------------------------------------------------------------
(* run *)

Enter(next) ==
  /\ pc' = next
  /\ UNCHANGED <<uptime, soakFiles, sample, seen>>

\* The config is there, other checks of start and run may refuse it.
Run == pc = "off" /\ started # NoReceipt /\ Enter("resume")

Resume == pc = "resume" /\ \E v \in {"running", "failed_closed"} : Enter(v)

\* _persist_envelope raises for a status that is not supported.  `run` makes it
\* failed_closed where it starts, the only place where "running" may be that;
\* elsewhere the error ends the process, and the envelope stays as it is.
WriteVerdict ==
  /\ pc \in Verdicts
  /\ \/ Supported(pc) /\ envelope' = pc
     \/ ~Supported(pc) /\ envelope' = IF pc = "running" THEN "failed_closed" ELSE envelope
  /\ pc' = IF pc = "running" /\ Supported(pc) THEN "check" ELSE "exit"
  /\ sample' = NoReceipt
  /\ UNCHANGED <<uptime, core, journal, snapshots, signed, stopRequest,
                 started, seen>>

Overdue(c, s) == c.wall > s.wall + 2 * Interval \/ c.mono > s.mono + 2 * Interval

\* The verdict of the loop in run, if it has one.
Verdict(c) ==
  IF core = NoReceipt \/ ~JournalAgrees THEN "failed_closed"
  ELSE IF core.status = "complete" THEN IF signed THEN "complete" ELSE "failed_closed"
  ELSE IF core.status = "failed" THEN "failed_closed"
  ELSE IF stopRequest THEN "stopped"
  ELSE IF Overdue(c, Latest) THEN "failed_closed"
  ELSE "none"

Check(c) ==
  /\ pc = "check"
  /\ Read(c)
  /\ \/ Verdict(c) # "none" /\ pc' = Verdict(c) /\ UNCHANGED sample
     \/ /\ Verdict(c) = "none" /\ Past(c, Latest, Interval)
        /\ pc' = "sample"
        /\ sample' = [wall |-> c.wall, mono |-> c.mono, pass |-> FALSE]
  /\ UNCHANGED <<soakFiles, seen>>

\* The wall clock was read before the loop ended, the monotonic one is now.
NextSample(c, passed, snapped) ==
  /\ pc = "sample" /\ c.wall = sample.wall
  /\ TakeSample(c, passed, snapped)
  /\ pc' = IF MayAppend(sample') THEN "journal" ELSE "failed_closed"
  /\ UNCHANGED <<core, journal, signed, envelope, stopRequest,
                 started, seen>>

\* _append_sample_authentication
WriteJournal ==
  /\ pc = "journal"
  /\ journal' = Append(journal, sample)
  /\ pc' = "receipt"
  /\ UNCHANGED <<uptime, core, snapshots, signed, envelope, stopRequest,
                 started, sample, seen>>

NextReceipt ==
  /\ pc = "receipt"
  /\ WriteCore
  /\ pc' = CASE StatusWith(sample) = "failed" -> "failed_closed"
             [] StatusWith(sample) = "complete" -> "sign"
             [] OTHER -> "running"
  /\ sample' = NoReceipt
  /\ UNCHANGED <<uptime, journal, snapshots, signed, envelope, stopRequest,
                 started, seen>>

Sign ==
  /\ pc = "sign"
  /\ signed' = TRUE
  /\ pc' = "complete"
  /\ UNCHANGED <<uptime, core, journal, snapshots, envelope, stopRequest,
                 started, sample, seen>>

\* _handle_signal, at any point of run
Signal ==
  /\ pc \notin {"off", "first_sample", "first_receipt", "first_journal"}
  /\ LET status == IF stopRequest THEN "stopped" ELSE "failed_closed"
     IN  envelope' = IF Supported(status) THEN status ELSE envelope
  /\ pc' = "off" /\ sample' = NoReceipt
  /\ UNCHANGED <<uptime, core, journal, snapshots, signed, stopRequest,
                 started, seen>>

\* The process dies or ends.
Die ==
  /\ pc # "off"
  /\ pc' = "off" /\ sample' = NoReceipt
  /\ UNCHANGED <<uptime, soakFiles, seen>>

Reboot ==
  /\ uptime' = 0
  /\ pc' = "off" /\ sample' = NoReceipt /\ seen' = "none"
  /\ UNCHANGED soakFiles

-----------------------------------------------------------------------------
(* stop, status and rollback, run beside the monitor *)

RequestStop ==
  /\ started # NoReceipt
  /\ stopRequest' = TRUE
  /\ UNCHANGED <<uptime, core, journal, snapshots, signed, envelope,
                 started, pc, sample, seen>>

ReadStatus ==
  /\ seen = "none" /\ envelope # "none"
  /\ seen' = envelope
  /\ UNCHANGED <<uptime, soakFiles, pc, sample>>

\* The status that was read is checked again and written back.  The sample
\* whose window counts is the one of the envelope that was read; what else
\* rolled_back stands on is checked as well.
RunningFails(c) ==
  \/ pc \in {"off", "first_sample", "first_receipt", "first_journal"}
  \/ \E i \in DOMAIN Samples : Overdue(c, Samples[i]) \/ c.mono < Samples[i].mono

RunningHolds(c) ==
  /\ pc \notin {"off", "first_sample", "first_receipt", "first_journal"}
  /\ Samples # <<>> => ~Overdue(c, Latest) /\ c.mono >= Latest.mono

StatusWrites(status, c) ==
  \/ /\ status = seen /\ Supported(seen)
     /\ seen = "running" => RunningHolds(c)
  \/ /\ status = "failed_closed"
     /\ \/ ~Supported(seen) /\ seen # "stopped"
        \/ seen = "running" /\ RunningFails(c)
        \/ seen = "rolled_back"
  \/ status = envelope /\ ~Supported(seen) /\ seen = "stopped"

WriteStatus(mono) ==
  /\ seen # "none"
  /\ mono >= uptime /\ uptime' = mono
  /\ envelope' \in {status \in Verdicts \cup {"rolled_back", "none"} :
                     \E wall \in Readings :
                       StatusWrites(status, [wall |-> wall, mono |-> mono])}
  /\ seen' = "none"
  /\ UNCHANGED <<core, journal, snapshots, signed, stopRequest,
                 started, pc, sample>>

\* rollback, with --allow-running while the monitor works
RollBackSoak ==
  /\ core # NoReceipt /\ Supported("rolled_back")
  /\ envelope' = "rolled_back"
  /\ UNCHANGED <<uptime, core, journal, snapshots, signed, stopRequest,
                 started, pc, sample, seen>>

SoakNext ==
  \/ \E c \in Reading :
       \/ Start(c) \/ Check(c)
       \/ \E passed, snapped \in BOOLEAN :
            FirstSample(c, passed, snapped) \/ NextSample(c, passed, snapped)
  \/ \E mono \in Readings : WriteStatus(mono)
  \/ Run \/ Resume \/ WriteVerdict
  \/ FirstReceipt \/ FirstJournal \/ WriteJournal \/ NextReceipt \/ Sign
  \/ Signal \/ Die \/ Reboot
  \/ RequestStop \/ ReadStatus \/ RollBackSoak

SoakSpec == SoakInit /\ [][SoakNext]_soakVars

-----------------------------------------------------------------------------
(* Properties *)

\* An envelope that says complete is earned: every sample the monitor signed
\* is in the core, passed and has its snapshot; together they cover the
\* soak's duration on both clocks, no two of them further apart than two
\* intervals, whatever was killed, restarted, stopped or set back meanwhile.
CompleteIsEarned ==
  envelope = "complete" =>
    /\ journal = core.samples /\ snapshots = Len(journal)
    /\ \A i \in DOMAIN journal : journal[i].pass
    /\ \A i \in 2 .. Len(journal) :
         /\ journal[i].wall - journal[i - 1].wall \in 0 .. 2 * Interval
         /\ journal[i].mono - journal[i - 1].mono \in 0 .. 2 * Interval
    /\ journal[Len(journal)].mono - journal[1].mono >= Duration - Interval
=============================================================================
