------------------------------ MODULE SshKeys ------------------------------
(***************************************************************************)
(* What the agent keeps for SSH: the authorised keys pushed over the event *)
(* bus, written to the embedded server's AuthStore and to authorized_keys, *)
(* and the server's host key, created on the first start.                  *)
(*                                                                         *)
(* startSSHKeys subscribes before startSSHD loads the host key, so pushes  *)
(* are applied while the key is being made.  Both files are written as a   *)
(* temporary that is renamed; neither is synced, so a power loss can drop  *)
(* what an end of the process alone cannot.                                *)
(***************************************************************************)
EXTENDS Naturals, Sequences, FiniteSets

CONSTANTS Lines,        \* key lines that pass KeySet.Validate
          Unparseable,  \* those of them ParseAuthorizedKey rejects
          Malformed,    \* a message that does not decode or validate
          Absent, Partial,
          MaxPublished, \* bound: messages published
          MaxStarts     \* bound: starts of the agent

ASSUME SshKeysAssumption ==
  /\ Unparseable \subseteq Lines
  /\ MaxPublished \in Nat /\ MaxStarts \in Nat \ {0}
  /\ Absent # Partial /\ \A ks \in SUBSET Lines : ks # Malformed /\ ks # Absent /\ ks # Partial
  /\ {Absent, Partial} \cap (1..MaxStarts) = {}

VARIABLES up,        \* whether the agent runs
          queue,     \* pushes delivered to the subscription
          apc,       \* where the composed apply is
          cur,       \* the push it applies
          store,     \* AuthStore: the accepted keys
          ak,        \* authorized_keys, as a reader sees it
          akTmp,     \* authorized_keys.tmp
          akDisk,    \* authorized_keys, as written back
          lastErr,   \* the error the last apply returned
          hpc,       \* where startSSHD is
          key,       \* the host key it has in hand, 0 for none
          hk,        \* the host key file, as a reader sees it
          hkTmp,     \* its temporary
          hkDisk,    \* the host key file, as written back
          made,      \* host keys generated so far
          starts,    \* history: starts of the agent
          pushes,    \* history: messages published
          handled,   \* history: last valid push taken since the start
          filed,     \* history: last push renamed onto authorized_keys
          served,    \* history: host keys the server listened with
          lost       \* history: whether the guest has lost power

pushVars  == <<queue, apc, cur, store, lastErr, pushes, handled>>
akVars    == <<ak, akTmp, akDisk, filed>>
hostVars  == <<hpc, key, hkTmp, made, served>>
hkVars    == <<hk, hkDisk>>
keysVars  == <<up, starts, lost, pushVars, akVars, hostVars, hkVars>>

KeySets == SUBSET Lines
HostKey == 1..MaxStarts

KeysTypeOK ==
  /\ up \in BOOLEAN /\ queue \in Seq({Malformed} \cup KeySets) /\ cur \in KeySets /\ store \in KeySets
  /\ apc \in {"idle", "replaced", "tmp", "chowned"} /\ lastErr \in BOOLEAN
  /\ {ak, akTmp, akDisk} \subseteq {Absent, Partial} \cup KeySets
  /\ hpc \in {"load", "generate", "tmp", "listen", "serve", "failed"} /\ key \in {0} \cup HostKey
  /\ {hk, hkTmp, hkDisk} \subseteq HostKey \cup {Absent, Partial}
  /\ made \in 0..MaxStarts /\ starts \in 1..MaxStarts /\ pushes \in 0..MaxPublished
  /\ handled \in {Absent} \cup KeySets /\ filed \in {Absent} \cup KeySets /\ served \subseteq HostKey
  /\ lost \in BOOLEAN

KeysInit ==
  /\ up = TRUE /\ queue = <<>> /\ apc = "idle" /\ cur = {} /\ store = {} /\ lastErr = FALSE
  /\ ak = Absent /\ akTmp = Absent /\ akDisk = Absent
  /\ hpc = "load" /\ key = 0 /\ hk = Absent /\ hkTmp = Absent /\ hkDisk = Absent
  /\ made = 0 /\ starts = 1 /\ pushes = 0 /\ handled = Absent /\ filed = Absent /\ served = {}
  /\ lost = FALSE

(***************************************************************************)
(* A push: Validate, AuthStore.Replace, then the file.                     *)
(***************************************************************************)
\* Replace: unparseable lines are dropped; the set is swapped under the lock.
Replace(ks) == store' = ks \ Unparseable

\* HandleMessage of the next message; a malformed one changes nothing.
Handle ==
  /\ up /\ apc = "idle" /\ queue # <<>>
  /\ queue' = Tail(queue)
  /\ \/ /\ Head(queue) = Malformed
        /\ UNCHANGED <<apc, cur, store, handled>>
     \/ /\ Head(queue) # Malformed
        /\ Replace(Head(queue))
        /\ apc' = "replaced" /\ cur' = Head(queue) /\ handled' = Head(queue)
  /\ UNCHANGED <<up, starts, lost, lastErr, pushes, akVars, hostVars, hkVars>>

\* The apply returns to the subscription.
Applied(err) ==
  /\ apc' = "idle" /\ lastErr' = err
  /\ UNCHANGED <<queue, cur, store, pushes, handled>>

\* Faulty variant: the file itself is truncated and written.
WriteKeysInPlace ==
  /\ up /\ apc = "replaced" /\ apc' = "tmp"
  /\ ak' = Partial
  /\ UNCHANGED <<up, starts, lost, queue, cur, store, lastErr, pushes, handled, akTmp, akDisk, filed, hostVars, hkVars>>

\* MkdirAll, then os.WriteFile truncates the temporary...
WriteKeys ==
  /\ up /\ apc = "replaced" /\ apc' = "tmp"
  /\ akTmp' = Partial
  /\ UNCHANGED <<up, starts, lost, queue, cur, store, lastErr, pushes, handled, ak, akDisk, filed, hostVars, hkVars>>

\* ...and fills it.
KeysWritten ==
  /\ up /\ apc = "tmp" /\ apc' = "chowned"
  /\ akTmp' = cur
  /\ UNCHANGED <<up, starts, lost, queue, cur, store, lastErr, pushes, handled, ak, akDisk, filed, hostVars, hkVars>>

\* The rename is what readers of authorized_keys see.
RenameKeys ==
  /\ up /\ apc = "chowned"
  /\ ak' = akTmp /\ akTmp' = Absent /\ filed' = cur
  /\ Applied(FALSE)
  /\ UNCHANGED <<up, starts, lost, akDisk, hostVars, hkVars>>

\* Faulty variant: the file's error is not returned.
FileFailsSilently ==
  /\ up /\ apc # "idle"
  /\ akTmp' = IF apc = "chowned" THEN Absent ELSE akTmp
  /\ Applied(FALSE)
  /\ UNCHANGED <<up, starts, lost, ak, akDisk, filed, hostVars, hkVars>>

\* MkdirAll or WriteFile fails, leaving the temporary; or Rename fails, and
\* the temporary is removed.
FileFails ==
  /\ up /\ apc # "idle"
  /\ akTmp' = IF apc = "chowned" THEN Absent ELSE akTmp
  /\ Applied(TRUE)
  /\ UNCHANGED <<up, starts, lost, ak, akDisk, filed, hostVars, hkVars>>

Push == Handle \/ WriteKeys \/ KeysWritten \/ RenameKeys \/ FileFails

(***************************************************************************)
(* startSSHD: LoadOrCreateHostKey, then the listener.                      *)
(***************************************************************************)
\* Faulty variant: a file that cannot be read or parsed counts as missing.
LoadHostKeyAnyError ==
  /\ up /\ hpc = "load"
  /\ \/ hpc' = "generate" /\ UNCHANGED key
     \/ hk \in HostKey /\ hpc' = "listen" /\ key' = hk
  /\ UNCHANGED <<up, starts, lost, hkTmp, made, served, pushVars, akVars, hkVars>>

LoadHostKey ==
  /\ up /\ hpc = "load"
  /\ \/ hk = Absent /\ hpc' = "generate" /\ UNCHANGED key
     \/ hk \in HostKey /\ hpc' = "listen" /\ key' = hk
     \/ hk # Absent /\ hpc' = "failed" /\ UNCHANGED key     \* unreadable, or
                                                             \* not a PEM block
  /\ UNCHANGED <<up, starts, lost, hkTmp, made, served, pushVars, akVars, hkVars>>

\* A fresh key; os.WriteFile truncates the temporary...
GenerateHostKey ==
  /\ up /\ hpc = "generate" /\ hpc' = "tmp"
  /\ made' = made + 1 /\ key' = made + 1
  /\ hkTmp' = Partial
  /\ UNCHANGED <<up, starts, lost, served, pushVars, akVars, hkVars>>

\* ...fills it, and the rename commits it.
CommitHostKey ==
  /\ up /\ hpc = "tmp"
  /\ \/ hkTmp = Partial /\ hkTmp' = key /\ UNCHANGED <<hpc, hk>>
     \/ hkTmp = key /\ hk' = key /\ hkTmp' = Absent /\ hpc' = "listen"
  /\ UNCHANGED <<up, starts, lost, key, made, served, hkDisk, pushVars, akVars>>

\* Faulty variant: a key that could not be saved is used all the same.
HostKeyUnsaved ==
  /\ up /\ hpc \in {"generate", "tmp"}
  /\ hpc' = IF hpc = "tmp" THEN "listen" ELSE "failed"
  /\ hkTmp' = IF hkTmp = key THEN Absent ELSE hkTmp
  /\ UNCHANGED <<up, starts, lost, key, made, served, pushVars, akVars, hkVars>>

\* Any step of creating it fails; a failed rename removes the temporary.
HostKeyFails ==
  /\ up /\ hpc \in {"generate", "tmp"} /\ hpc' = "failed"
  /\ hkTmp' = IF hpc = "tmp" /\ hkTmp = key THEN Absent ELSE hkTmp
  /\ UNCHANGED <<up, starts, lost, key, made, served, pushVars, akVars, hkVars>>

Listen ==
  /\ up /\ hpc = "listen"
  /\ \/ hpc' = "serve" /\ served' = served \cup {key}
     \/ hpc' = "failed" /\ UNCHANGED served
  /\ UNCHANGED <<up, starts, lost, key, hkTmp, made, pushVars, akVars, hkVars>>

StartSSHD == LoadHostKey \/ GenerateHostKey \/ CommitHostKey \/ HostKeyFails \/ Listen

(***************************************************************************)
(* The environment: publishes, write-back, and the three ways to end.      *)
(***************************************************************************)
\* Core NATS: a push made while the agent is down is lost.
Publish(m) ==
  /\ pushes < MaxPublished /\ pushes' = pushes + 1
  /\ queue' = IF up THEN Append(queue, m) ELSE queue
  /\ UNCHANGED <<up, starts, lost, apc, cur, store, lastErr, handled, akVars, hostVars, hkVars>>

WriteBack ==
  /\ akDisk' = ak /\ hkDisk' = hk
  /\ UNCHANGED <<up, starts, lost, pushVars, ak, akTmp, filed, hostVars, hk>>

\* The agent ends: at any time, or because startSSHD failed.
Stop ==
  /\ up /\ up' = FALSE
  /\ UNCHANGED <<starts, lost, pushVars, akVars, hostVars, hkVars>>

\* The guest loses power: a file that was not written back is as it was, or
\* is there with its new content or without it.
LosePower ==
  /\ up /\ up' = FALSE /\ lost' = TRUE
  /\ ak' \in (IF ak = akDisk THEN {ak} ELSE {ak, akDisk, Partial}) /\ akDisk' = ak'
  /\ hk' \in (IF hk = hkDisk THEN {hk} ELSE {hk, hkDisk, Partial}) /\ hkDisk' = hk'
  /\ UNCHANGED <<starts, pushVars, akTmp, filed, hostVars>>

Restart ==
  /\ ~up /\ starts < MaxStarts /\ starts' = starts + 1
  /\ up' = TRUE /\ queue' = <<>> /\ apc' = "idle" /\ cur' = {} /\ store' = {} /\ lastErr' = FALSE
  /\ handled' = Absent /\ hpc' = "load" /\ key' = 0
  /\ UNCHANGED <<lost, pushes, akVars, hkTmp, made, served, hkVars>>

\* hpc = "failed" makes run return: only Stop is left to the agent.
KeysNext ==
  \/ hpc # "failed" /\ Push
  \/ StartSSHD
  \/ \E m \in KeySets \cup {Malformed} : Publish(m)
  \/ WriteBack \/ Stop \/ LosePower \/ Restart

KeysSpec == KeysInit /\ [][KeysNext]_keysVars

(***************************************************************************)
(* Properties.                                                             *)
(***************************************************************************)
\* A reader of authorized_keys finds one whole push, the last that was
\* renamed into place, wherever the agent stopped; a power loss aside.
FileIsAPush == lost \/ ak = filed

\* An apply that reported no error left both places with the same push.
SuccessMeansBoth ==
  (up /\ apc = "idle" /\ ~lastErr /\ handled # Absent) =>
    ak = handled /\ store = ak \ Unparseable

\* However often the agent is stopped and started, and wherever that happens in
\* LoadOrCreateHostKey, the server only ever shows one host key; a power loss
\* aside.
HostKeyStable == lost \/ Cardinality(served) <= 1

\* Once the host key has been written back nothing replaces it: not a power
\* loss, not a start that cannot read it.
HostKeyKept == [][(hkDisk \in HostKey) => hkDisk' = hkDisk]_keysVars

\* What sshkeys_linux.go says of its write: "Atomic write : tmp file in the same
\* directory, fsync, rename over the target".  A reader, after a power loss
\* too, finds some whole file.
FileIsWhole == ak # Partial
=============================================================================
