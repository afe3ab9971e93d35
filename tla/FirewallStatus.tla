--------------------------- MODULE FirewallStatus ---------------------------
(***************************************************************************)
(* The in-guest firewall seen from the metrics side: the firewall          *)
(* subscriber rebuilds the kernel table on every update (pkg/firewall),    *)
(* the emitter reads the table's drop counter and publishes it             *)
(* (pkg/firewallstatus), and the recorder folds the readings into a        *)
(* Prometheus counter (internal/metrics).  The three run concurrently.     *)
(*                                                                         *)
(* One counter is modelled; the recorder treats packets and bytes alike    *)
(* and independently.                                                      *)
(***************************************************************************)
EXTENDS Naturals

CONSTANTS MaxDrops,     \* bound: packets the kernel drops
          MaxRebuilds,  \* bound: firewall updates applied
          MaxFailures   \* bound: readings of the kernel table that fail

ASSUME FirewallAssumption ==
  MaxDrops \in Nat /\ MaxRebuilds \in Nat /\ MaxFailures \in Nat

VARIABLES table,     \* the weft-fw table: "absent", "installed"
          kernel,    \* its drop counter
          rebuilds,  \* history: updates applied so far
          failures,  \* history: readings that failed
          epc,       \* where the emitter is
          status,    \* the FirewallStatus being published
          lastPkt,   \* firewallDropsLastPkt
          metric,    \* the published Prometheus counter
          emitterCtx, \* the emitter's context
          peak,      \* history: last healthy reading of the current table
          seen       \* history: sum over all tables of their last healthy reading

statusVars == <<table, kernel, rebuilds, failures, epc, status, lastPkt, metric, emitterCtx, peak, seen>>

Statuses == [overall : {"Healthy", "Degraded"}, drops : 0..MaxDrops]
Idle     == [overall |-> "Healthy", drops |-> 0]

StatusTypeOK ==
  /\ table \in {"absent", "installed"} /\ kernel \in 0..MaxDrops /\ rebuilds \in 0..MaxRebuilds
  /\ failures \in 0..MaxFailures
  /\ epc \in {"read", "record", "publish", "select", "returned"}
  /\ status \in Statuses
  /\ lastPkt \in 0..MaxDrops /\ metric \in Nat
  /\ emitterCtx \in {"live", "cancelled"}
  /\ peak \in 0..MaxDrops /\ seen \in Nat

StatusInit ==
  /\ table = "absent" /\ kernel = 0 /\ rebuilds = 0 /\ failures = 0
  /\ epc = "read" /\ status = Idle
  /\ lastPkt = 0 /\ metric = 0 /\ emitterCtx = "live" /\ peak = 0 /\ seen = 0

(***************************************************************************)
(* The kernel, and the firewall subscriber: a valid update replaces the    *)
(* whole table in one netlink batch, which starts a new counter.  A bad    *)
(* message or a failed batch changes nothing.                              *)
(***************************************************************************)
KernelDrops ==
  /\ table = "installed" /\ kernel < MaxDrops
  /\ kernel' = kernel + 1
  /\ UNCHANGED <<table, rebuilds, failures, epc, status, lastPkt, metric, emitterCtx, peak, seen>>

ApplyFirewall ==
  /\ rebuilds < MaxRebuilds
  /\ rebuilds' = rebuilds + 1
  /\ table' = "installed" /\ kernel' = 0 /\ peak' = 0
  /\ UNCHANGED <<failures, epc, status, lastPkt, metric, emitterCtx, seen>>

(***************************************************************************)
(* Emitter.Run: publishOnce at entry and on every tick.                    *)
(***************************************************************************)
ReadStatus ==
  /\ epc = "read"
  /\ \/ /\ status' = [overall |-> "Healthy", drops |-> kernel]
        /\ seen' = seen + (kernel - peak)
        /\ peak' = kernel
        /\ UNCHANGED failures
     \/ /\ failures < MaxFailures
        /\ failures' = failures + 1
        /\ status' = [overall |-> "Degraded", drops |-> 0]
        /\ UNCHANGED <<peak, seen>>
  /\ epc' = "record"
  /\ UNCHANGED <<table, kernel, rebuilds, lastPkt, metric, emitterCtx>>

\* Faulty variants of RecordFirewallDrops: a reset is not recognised (the
\* uint64 subtraction wraps, here to the bound), or the last reading is not kept.
RecordDropsNoReset ==
  /\ epc = "record"
  /\ metric' = metric + (IF status.drops >= lastPkt THEN status.drops - lastPkt ELSE MaxDrops + 1)
  /\ lastPkt' = status.drops
  /\ epc' = "publish"
  /\ UNCHANGED <<table, kernel, rebuilds, failures, status, emitterCtx, peak, seen>>

RecordDropsForgets ==
  /\ epc = "record"
  /\ metric' = metric + status.drops
  /\ epc' = "publish"
  /\ UNCHANGED <<table, kernel, rebuilds, failures, status, lastPkt, emitterCtx, peak, seen>>

\* The ReadHook: the delta to the last reading, or all of a reading that is
\* below it.  The hook does not see whether the reading was Healthy.
RecordFirewallDrops ==
  /\ epc = "record"
  /\ LET base == IF status.drops < lastPkt THEN 0 ELSE lastPkt
     IN metric' = metric + (status.drops - base)
  /\ lastPkt' = status.drops
  /\ epc' = "publish"
  /\ UNCHANGED <<table, kernel, rebuilds, failures, status, emitterCtx, peak, seen>>

\* Marshal, publish and the PublishHook; an error is logged and the ticker
\* goes on.
Publish ==
  /\ epc = "publish"
  /\ epc' = "select"
  /\ UNCHANGED <<table, kernel, rebuilds, failures, status, lastPkt, metric, emitterCtx, peak, seen>>

Select ==
  /\ epc = "select"
  /\ \/ epc' = "read"
     \/ emitterCtx = "cancelled" /\ epc' = "returned"
  /\ UNCHANGED <<table, kernel, rebuilds, failures, status, lastPkt, metric, emitterCtx, peak, seen>>

Cancel ==
  /\ emitterCtx = "live" /\ emitterCtx' = "cancelled"
  /\ UNCHANGED <<table, kernel, rebuilds, failures, epc, status, lastPkt, metric, peak, seen>>

Emitter == ReadStatus \/ RecordFirewallDrops \/ Publish \/ Select

StatusNext == Emitter \/ KernelDrops \/ ApplyFirewall \/ Cancel

StatusSpec == StatusInit /\ [][StatusNext]_statusVars

-----------------------------------------------------------------------------
(***************************************************************************)
(* Properties.                                                             *)
(***************************************************************************)
\* RecordFirewallDrops counts no drop twice, wherever rebuilds fall between
\* reading, recording and the next reading: the counter never exceeds what the
\* healthy readings of all tables have shown, except that each failed reading
\* makes it count one table's reading again.
NeverOvercounts == metric <= seen + failures * MaxDrops

\* While the first table lives and no reading fails, the published counter is
\* exactly what was read.
ExactWithoutRebuild ==
  (rebuilds <= 1 /\ failures = 0 /\ epc # "record") => metric = seen

\* "accumulated across kernel-table rebuilds (counter resets handled by the
\* recorder)": every reading that was taken is in the counter.
AccumulatesAcrossRebuilds == epc # "record" => metric = seen

\* The recorder is fed "on every successful read": failed readings do not
\* move the counter past what the kernel dropped.
OnlySuccessfulReadsCount == metric <= seen
=============================================================================
