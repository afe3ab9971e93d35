----------------------------- MODULE SshProofs -----------------------------
(***************************************************************************)
(* Proofs for the SSH part: SshKeys, for any key lines and any number of   *)
(* pushes and starts; SshSession, for any client and any amount of input   *)
(* and output; SshServer, for any clients, keys and pushed sets.           *)
(***************************************************************************)
EXTENDS SshServer, SshKeys, FiniteSetTheorems, WellFoundedInduction, TLAPS

(***************************************************************************)
(* SshKeys.                                                                *)
(***************************************************************************)
\* What the composed apply holds between AuthStore.Replace and the rename.
ApplyInv ==
  /\ apc # "idle" => handled = cur /\ store = cur \ Unparseable
  /\ apc = "chowned" => akTmp = cur

\* A host key is generated at most once for each start, and only while there is
\* no file; a listener that is about to start has the key of the file.
CreateInv ==
  /\ made <= starts /\ (hpc \in {"load", "generate"} => made < starts)
  /\ hpc = "tmp" => key \in HostKey
  /\ up /\ hpc \in {"generate", "tmp"} => hk = Absent
  /\ up /\ hpc = "listen" => key = hk /\ hk \in HostKey

\* The file has the key that was shown, and the disk no other key than the file.
HostKeyInv ==
  /\ lost \/ served = {} \/ (hk \in HostKey /\ served = {hk})
  /\ hkDisk \in HostKey => hk = hkDisk

KeysInv == KeysTypeOK /\ FileIsAPush /\ SuccessMeansBoth /\ ApplyInv /\ CreateInv /\ HostKeyInv

LEMMA KeysInitHolds == KeysInit => KeysInv
<1> SUFFICES ASSUME KeysInit PROVE KeysInv
  OBVIOUS
<1> USE SshKeysAssumption DEF KeysInit
<1>1. KeysTypeOK
  <2>1. up \in BOOLEAN /\ lost \in BOOLEAN /\ lastErr \in BOOLEAN
    BY Zenon
  <2>2. /\ queue \in Seq({Malformed} \cup KeySets) /\ apc = "idle" /\ hpc = "load" /\ key = 0
        /\ cur \in KeySets /\ store \in KeySets /\ {ak, akTmp, akDisk} = {Absent}
        /\ {hk, hkTmp, hkDisk} = {Absent} /\ handled = Absent /\ filed = Absent /\ served = {}
    BY DEF KeySets
  <2>3. made \in 0..MaxStarts /\ starts \in 1..MaxStarts /\ pushes \in 0..MaxPublished
    OBVIOUS
  <2> QED BY <2>1, <2>2, <2>3 DEF KeysTypeOK
<1>2. FileIsAPush /\ SuccessMeansBoth /\ ApplyInv
  BY DEF FileIsAPush, SuccessMeansBoth, ApplyInv
<1>3. CreateInv /\ HostKeyInv
  BY DEF CreateInv, HostKeyInv, HostKey
<1> QED BY <1>1, <1>2, <1>3 DEF KeysInv

LEMMA KeysTyped == KeysInv /\ [KeysNext]_keysVars => KeysTypeOK'
<1> SUFFICES ASSUME KeysInv, [KeysNext]_keysVars PROVE KeysTypeOK'
  OBVIOUS
<1> USE SshKeysAssumption DEF KeysInv, KeysTypeOK, KeySets, pushVars, akVars, hostVars, hkVars
<1>1. CASE Handle
  BY <1>1 DEF Handle, Replace
<1>2. CASE WriteKeys \/ KeysWritten
  BY <1>2 DEF WriteKeys, KeysWritten
<1>3. CASE RenameKeys \/ FileFails
  BY <1>3, Zenon DEF RenameKeys, FileFails, Applied
<1>4. CASE LoadHostKey
  BY <1>4 DEF LoadHostKey
<1>5. CASE GenerateHostKey
  BY <1>5 DEF GenerateHostKey, CreateInv, HostKey
<1>6. CASE CommitHostKey
  BY <1>6 DEF CommitHostKey, CreateInv
<1>7. CASE HostKeyFails
  BY <1>7 DEF HostKeyFails
<1>8. CASE Listen
  BY <1>8 DEF Listen, CreateInv
<1>9. ASSUME NEW m \in KeySets \cup {Malformed}, Publish(m) PROVE KeysTypeOK'
  BY <1>9 DEF Publish
<1>10. CASE WriteBack
  BY <1>10 DEF WriteBack
<1>11. CASE LosePower
  BY <1>11, Zenon DEF LosePower
<1>12. CASE Restart
  <2>1. starts' \in 1..MaxStarts /\ pushes' \in 0..MaxPublished /\ made' \in 0..MaxStarts
    BY <1>12 DEF Restart
  <2>2. queue' \in Seq({Malformed} \cup KeySets) /\ cur' \in KeySets /\ store' \in KeySets
    BY <1>12 DEF Restart
  <2> QED BY <1>12, <2>1, <2>2, Zenon DEF Restart
<1>13. CASE Stop
  BY <1>13, Zenon DEF Stop
<1>14. CASE UNCHANGED keysVars
  BY <1>14 DEF keysVars
<1> QED BY <1>1, <1>2, <1>3, <1>4, <1>5, <1>6, <1>7, <1>8, <1>9, <1>10, <1>11, <1>12,
            <1>14, <1>13, Zenon
         DEF KeysNext, Push, StartSSHD

\* The steps of an apply: Replace, the temporary, the rename.
LEMMA PushPreserves ==
  ASSUME KeysInv, [KeysNext]_keysVars
  PROVE  (FileIsAPush /\ SuccessMeansBoth /\ ApplyInv)'
<1> USE SshKeysAssumption
    DEF KeysInv, KeysTypeOK, KeySets, FileIsAPush, SuccessMeansBoth, ApplyInv, pushVars, akVars
<1>1. CASE Handle
  BY <1>1 DEF Handle, Replace
<1>2. CASE WriteKeys \/ KeysWritten
  BY <1>2 DEF WriteKeys, KeysWritten
<1>3. CASE RenameKeys
  BY <1>3 DEF RenameKeys, Applied
<1>4. CASE FileFails
  BY <1>4 DEF FileFails, Applied
<1>5. CASE StartSSHD
  BY <1>5 DEF StartSSHD, LoadHostKey, GenerateHostKey, CommitHostKey, HostKeyFails, Listen
<1>6. ASSUME NEW m \in KeySets \cup {Malformed}, Publish(m)
      PROVE  (FileIsAPush /\ SuccessMeansBoth /\ ApplyInv)'
  BY <1>6 DEF Publish
<1>7. CASE WriteBack \/ Stop \/ LosePower
  BY <1>7 DEF WriteBack, Stop, LosePower
<1>8. CASE Restart
  BY <1>8 DEF Restart
<1>9. CASE UNCHANGED keysVars
  BY <1>9 DEF keysVars
<1> QED BY <1>1, <1>2, <1>3, <1>4, <1>5, <1>6, <1>7, <1>8, <1>9, Zenon DEF KeysNext, Push

\* The steps of startSSHD, and the ways to end.
LEMMA HostKeyPreserves ==
  ASSUME KeysInv, [KeysNext]_keysVars
  PROVE  (CreateInv /\ HostKeyInv)'
<1> USE SshKeysAssumption DEF KeysInv, KeysTypeOK, HostKey, CreateInv, HostKeyInv, hostVars, hkVars
<1>1. CASE Push
  BY <1>1, Zenon DEF Push, Handle, WriteKeys, KeysWritten, RenameKeys, FileFails
<1>2. CASE LoadHostKey
  BY <1>2 DEF LoadHostKey
<1>3. CASE GenerateHostKey
  BY <1>3 DEF GenerateHostKey
<1>4. CASE CommitHostKey
  BY <1>4 DEF CommitHostKey
<1>5. CASE HostKeyFails
  BY <1>5 DEF HostKeyFails
<1>6. CASE Listen
  BY <1>6, Zenon DEF Listen
<1>7. ASSUME NEW m \in KeySets \cup {Malformed}, Publish(m) PROVE (CreateInv /\ HostKeyInv)'
  BY <1>7 DEF Publish
<1>8. CASE WriteBack
  BY <1>8 DEF WriteBack
<1>9. CASE Stop
  BY <1>9, Zenon DEF Stop
<1>10. CASE LosePower
  BY <1>10 DEF LosePower
<1>11. CASE Restart
  BY <1>11 DEF Restart
<1>12. CASE UNCHANGED keysVars
  BY <1>12 DEF keysVars
<1> QED BY <1>1, <1>2, <1>3, <1>4, <1>5, <1>6, <1>7, <1>8, <1>10, <1>11, <1>12, <1>9, Zenon
         DEF KeysNext, StartSSHD

LEMMA KeysInvariant == KeysSpec => []KeysInv
<1>1. KeysInv /\ [KeysNext]_keysVars => KeysInv'
  BY KeysTyped, PushPreserves, HostKeyPreserves, Zenon DEF KeysInv
<1> QED BY <1>1, KeysInitHolds, PTL DEF KeysSpec

\* The variables of SshKeys keep their types.
THEOREM KeysTypeCorrect == KeysSpec => []KeysTypeOK
<1>1. KeysInv => KeysTypeOK
  BY DEF KeysInv
<1> QED BY <1>1, KeysInvariant, PTL

\* writeAuthorizedKeys never leaves a reader anything but a whole push, for any
\* pushes, failures and restarts; a power loss aside.
THEOREM FileWhole == KeysSpec => []FileIsAPush
<1>1. KeysInv => FileIsAPush
  BY DEF KeysInv
<1> QED BY <1>1, KeysInvariant, PTL

\* The composed apply of startSSHKeys returns nil only when AuthStore and
\* authorized_keys have the same push.
THEOREM ApplyAgrees == KeysSpec => []SuccessMeansBoth
<1>1. KeysInv => SuccessMeansBoth
  BY DEF KeysInv
<1> QED BY <1>1, KeysInvariant, PTL

\* LoadOrCreateHostKey gives every start the same key, however often it was
\* interrupted; a power loss aside.
THEOREM OneHostKey == KeysSpec => []HostKeyStable
<1>1. KeysInv => HostKeyStable
  <2>1. ASSUME NEW k, served = {k} PROVE Cardinality(served) <= 1
    BY <2>1, FS_Singleton
  <2>2. served = {} => Cardinality(served) <= 1
    BY FS_EmptySet
  <2> QED BY <2>1, <2>2 DEF KeysInv, HostKeyInv, HostKeyStable
<1> QED BY <1>1, KeysInvariant, PTL

\* A host key that reached the disk is never replaced by LoadOrCreateHostKey, nor
\* undone by a power loss.
THEOREM HostKeyOnDiskStays == KeysSpec => HostKeyKept
<1>1. KeysInv /\ [KeysNext]_keysVars => [(hkDisk \in HostKey) => hkDisk' = hkDisk]_keysVars
  <2> SUFFICES ASSUME KeysInv, KeysNext, hkDisk \in HostKey PROVE hkDisk' = hkDisk
    OBVIOUS
  <2> USE DEF KeysInv, HostKeyInv, hkVars
  <2>1. CASE Push
    BY <2>1, Zenon DEF Push, Handle, WriteKeys, KeysWritten, RenameKeys, FileFails
  <2>2. CASE StartSSHD
    BY <2>2 DEF StartSSHD, LoadHostKey, GenerateHostKey, CommitHostKey, HostKeyFails, Listen
  <2>3. CASE WriteBack \/ LosePower
    BY <2>3 DEF WriteBack, LosePower
  <2>4. CASE (\E m \in KeySets \cup {Malformed} : Publish(m)) \/ Stop \/ Restart
    BY <2>4 DEF Publish, Stop, Restart
  <2> QED BY <2>1, <2>2, <2>3, <2>4 DEF KeysNext
<1> QED BY <1>1, KeysInvariant, PTL DEF KeysSpec, HostKeyKept

-----------------------------------------------------------------------------
(***************************************************************************)
(* SshPayload.                                                             *)
(***************************************************************************)
\* Induction up to n, as a fact about sets.
LEMMA UpTo ==
  ASSUME NEW n \in Nat, NEW S, 0 \in S, \A i \in 1..n : i - 1 \in S => i \in S
  PROVE  0..n \subseteq S
<1> SUFFICES ASSUME NEW x \in 0..n, x \notin S PROVE FALSE
  OBVIOUS
<1> DEFINE T == {y \in 0..n : y \notin S}
           R == {p \in Nat \X Nat : p[1] < p[2]}
<1>1. T \subseteq Nat /\ x \in T
  OBVIOUS
<1>2. IsWellFoundedOn(R, Nat)
  BY NatLessThanWellFounded, Zenon DEF OpToRel
<1> HIDE DEF R, T
<1>3. PICK m \in T : \A y \in T : <<y, m>> \notin R
  BY <1>1, <1>2, WFMin, Zenon
<1>4. ASSUME NEW y \in T PROVE m <= y
  <2>1. <<y, m>> \in Nat \X Nat /\ <<y, m>> \notin R
    BY <1>1, <1>3
  <2> QED BY <2>1, <1>1 DEF R
<1>5. m \in 1..n /\ m - 1 \in 0..n /\ m \notin S
  BY <1>3 DEF T
<1>6. m - 1 \in S
  <2>1. m - 1 \notin T
    BY <1>4, <1>5
  <2> QED BY <1>5, <2>1 DEF T
<1> QED BY <1>5, <1>6

\* f is the function that Horner's rule computes from start c and digits d.
Horner(f, c, d) ==
  /\ f = [i \in 0..Width |-> f[i]] /\ f[0] = c
  /\ \A i \in 1..Width : f[i] = f[i - 1] * Base + d[i]

LEMMA HornerExists ==
  ASSUME NEW c, NEW d
  PROVE  \E f : Horner(f, c, d)
<1> DEFINE Upto(f, k) == /\ f = [i \in 0..k |-> f[i]] /\ f[0] = c
                         /\ \A i \in 1..k : f[i] = f[i - 1] * Base + d[i]
           S == {k \in 0..Width : \E f : Upto(f, k)}
<1>1. 0 \in S
  <2>1. 0 \in 0..Width
    BY SshPayloadAssumption
  <2> DEFINE f == [i \in 0..0 |-> c]
  <2>2. Upto(f, 0)
    OBVIOUS
  <2> QED BY <2>1, <2>2, Zenon
<1>2. ASSUME NEW k \in 1..Width, k - 1 \in S PROVE k \in S
  <2>1. PICK f : Upto(f, k - 1)
    BY <1>2
  <2> DEFINE g == [i \in 0..k |-> IF i = k THEN f[k - 1] * Base + d[k] ELSE f[i]]
  <2>a. f[0] = c /\ \A i \in 1..(k - 1) : f[i] = f[i - 1] * Base + d[i]
    BY <2>1, Zenon
  <2>2. g[0] = c /\ \A i \in 0..(k - 1) : g[i] = f[i]
    <3>1. 0 \in 0..(k - 1) /\ \A i \in 0..(k - 1) : i \in 0..k /\ i # k
      OBVIOUS
    <3>2. \A i \in 0..(k - 1) : g[i] = f[i]
      BY <3>1, Zenon
    <3> QED BY <2>a, <3>1, <3>2, Zenon
  <2>3. ASSUME NEW i \in 1..k PROVE g[i] = g[i - 1] * Base + d[i]
    <3>1. i - 1 \in 0..(k - 1) /\ (i # k => i \in 1..(k - 1))
      OBVIOUS
    <3>2. g[i - 1] = f[i - 1]
      BY <2>2, <3>1
    <3>3. CASE i = k
      BY <3>2, <3>3
    <3>4. CASE i # k
      <4>1. f[i] = f[i - 1] * Base + d[i] /\ g[i] = f[i]
        <5>1. i \in 1..(k - 1) /\ i \in 0..(k - 1)
          BY <3>1, <3>4
        <5> QED BY <2>a, <2>2, <5>1, Zenon
      <4> QED BY <3>2, <4>1
    <3> QED BY <3>3, <3>4
  <2>4. g = [i \in 0..k |-> g[i]]
    OBVIOUS
  <2> HIDE DEF g
  <2>5. k \in 0..Width
    BY SshPayloadAssumption
  <2> QED BY <2>2, <2>3, <2>4, <2>5, Zenon
<1> HIDE DEF S
<1>3. 0..Width \subseteq S
  BY <1>1, <1>2, SshPayloadAssumption, UpTo
<1>4. Width \in S
  BY <1>3, SshPayloadAssumption
<1> QED BY <1>4 DEF S, Horner

\* What beUint32 computes.
LEMMA NumberValue ==
  ASSUME NEW b
  PROVE  \E f : Horner(f, 0, b) /\ beUint32(b) = f[Width]
<1> DEFINE Def(f) == f = [i \in 0..Width |-> IF i = 0 THEN 0 ELSE f[i - 1] * Base + b[i]]
<1>1. ASSUME NEW f PROVE Horner(f, 0, b) <=> Def(f)
  <2>1. ASSUME Horner(f, 0, b) PROVE Def(f)
    <3>1. f = [i \in 0..Width |-> f[i]]
      BY <2>1, Zenon DEF Horner
    <3>2. f[0] = 0 /\ \A i \in 1..Width : f[i] = f[i - 1] * Base + b[i]
      BY <2>1, Zenon DEF Horner
    <3>3. \A i \in 0..Width : f[i] = IF i = 0 THEN 0 ELSE f[i - 1] * Base + b[i]
      BY <3>2, SshPayloadAssumption
    <3> QED BY <3>1, <3>3, Zenon
  <2>2. ASSUME Def(f) PROVE Horner(f, 0, b)
    <3>1. \A i \in 0..Width : f[i] = IF i = 0 THEN 0 ELSE f[i - 1] * Base + b[i]
      BY <2>2, Zenon
    <3>2. f[0] = 0 /\ \A i \in 1..Width : f[i] = f[i - 1] * Base + b[i]
      BY <3>1, SshPayloadAssumption
    <3>3. f = [i \in 0..Width |-> f[i]]
      BY <2>2, <3>1, Zenon
    <3> QED BY <3>2, <3>3, Zenon DEF Horner
  <2> QED BY <2>1, <2>2
<1>2. \E f : Def(f)
  BY <1>1, HornerExists
<1>3. \E f : Def(f) /\ beUint32(b) = f[Width]
  BY <1>2, Zenon DEF beUint32
<1> QED BY <1>1, <1>3, Zenon

\* Equal digits make equal numbers.
LEMMA NumberUnique ==
  ASSUME NEW b, NEW d, \A i \in 1..Width : b[i] = d[i]
  PROVE  beUint32(b) = beUint32(d)
<1>1. PICK f : Horner(f, 0, b) /\ beUint32(b) = f[Width]
  BY NumberValue
<1>2. PICK g : Horner(g, 0, d) /\ beUint32(d) = g[Width]
  BY NumberValue
<1> DEFINE S == {i \in 0..Width : f[i] = g[i]}
<1>3. 0 \in S
  BY <1>1, <1>2, SshPayloadAssumption DEF Horner
<1>a. \A i \in 1..Width : f[i] = f[i - 1] * Base + b[i] /\ g[i] = g[i - 1] * Base + d[i]
  BY <1>1, <1>2, Zenon DEF Horner
<1>4. ASSUME NEW i \in 1..Width, i - 1 \in S PROVE i \in S
  BY <1>a, <1>4, SshPayloadAssumption
<1> HIDE DEF S
<1>5. Width \in S
  BY <1>3, <1>4, UpTo, SshPayloadAssumption
<1> QED BY <1>1, <1>2, <1>5 DEF S

\* The powers of Base.
LEMMA PowerValue == Power[0] = 1 /\ \A i \in 1..Width : Power[i] = Power[i - 1] * Base
<1> DEFINE zeros == [i \in 1..Width |-> 0]
           Def(f) == f = [i \in 0..Width |-> IF i = 0 THEN 1 ELSE f[i - 1] * Base]
<1>1. PICK f : Horner(f, 1, zeros)
  BY HornerExists
<1>2. \A i \in 1..Width : zeros[i] = 0
  OBVIOUS
<1> HIDE DEF zeros
<1> DEFINE S == {i \in 0..Width : f[i] \in Nat}
<1>3. 0 \in S
  BY <1>1, SshPayloadAssumption DEF Horner
<1>a. f[0] = 1 /\ \A i \in 1..Width : f[i] = f[i - 1] * Base + 0
  BY <1>1, <1>2, Zenon DEF Horner
<1>4. ASSUME NEW i \in 1..Width, i - 1 \in S PROVE i \in S
  <2>1. f[i - 1] \in Nat /\ Base \in Nat /\ i \in 0..Width
    BY <1>4, SshPayloadAssumption
  <2>2. f[i - 1] * Base + 0 \in Nat
    BY <2>1
  <2> QED BY <1>a, <2>1, <2>2
<1>5. \A i \in 0..Width : f[i] \in Nat
  <2> HIDE DEF S
  <2>1. 0..Width \subseteq S
    BY <1>3, <1>4, UpTo, SshPayloadAssumption
  <2> QED BY <2>1 DEF S
<1>6. \A i \in 1..Width : f[i] = f[i - 1] * Base
  BY <1>a, <1>5, SshPayloadAssumption
<1>7. Def(f)
  <2>1. f = [i \in 0..Width |-> f[i]]
    BY <1>1, Zenon DEF Horner
  <2>2. \A i \in 0..Width : f[i] = IF i = 0 THEN 1 ELSE f[i - 1] * Base
    BY <1>a, <1>6, SshPayloadAssumption
  <2> QED BY <2>1, <2>2, Zenon
<1>8. Def(Power)
  BY <1>7, Zenon DEF Power
<1>9. \A i \in 0..Width : Power[i] = IF i = 0 THEN 1 ELSE Power[i - 1] * Base
  BY <1>8, Zenon
<1> QED BY <1>9, SshPayloadAssumption

LEMMA Grows ==
  ASSUME NEW p \in Nat, NEW n \in Nat, p > n, NEW x \in 0..(p - 1), NEW y \in Byte
  PROVE  p * Base \in Nat /\ p * Base > n + 1 /\ x * Base + y \in 0..(p * Base - 1)
<1>1. Base \in Nat /\ Base >= 2 /\ y \in Nat /\ y < Base
  BY SshPayloadAssumption DEF Byte
<1>2. p * Base >= p * 2
  BY <1>1
<1>3. x * Base <= (p - 1) * Base
  BY <1>1
<1>4. (p - 1) * Base = p * Base - Base
  BY <1>1
<1>5. x * Base \in Nat /\ p * Base \in Nat
  BY <1>1
<1> QED BY <1>1, <1>2, <1>3, <1>4, <1>5

LEMMA PowerGrows == \A i \in 0..Width : Power[i] \in Nat /\ Power[i] > i
<1> DEFINE S == {i \in 0..Width : Power[i] \in Nat /\ Power[i] > i}
<1>1. 0 \in S
  BY PowerValue, SshPayloadAssumption
<1>2. ASSUME NEW i \in 1..Width, i - 1 \in S PROVE i \in S
  <2>1. 0 \in 0..(Power[i - 1] - 1) /\ 0 \in Byte /\ i - 1 \in Nat
    BY <1>2, SshPayloadAssumption DEF Byte
  <2>2. Power[i - 1] * Base \in Nat /\ Power[i - 1] * Base > (i - 1) + 1
    BY <1>2, <2>1, Grows, Zenon
  <2> QED BY <2>2, PowerValue, SshPayloadAssumption
<1> HIDE DEF S
<1>3. 0..Width \subseteq S
  BY <1>1, <1>2, UpTo, SshPayloadAssumption
<1> QED BY <1>3 DEF S

LEMMA NumberBound ==
  ASSUME NEW b \in Seq(Byte), Len(b) >= Width
  PROVE  beUint32(b) \in 0..(Power[Width] - 1)
<1>1. PICK f : Horner(f, 0, b) /\ beUint32(b) = f[Width]
  BY NumberValue
<1> DEFINE S == {i \in 0..Width : f[i] \in 0..(Power[i] - 1)}
<1>2. 0 \in S
  BY <1>1, PowerValue, SshPayloadAssumption DEF Horner
<1>3. ASSUME NEW i \in 1..Width, i - 1 \in S PROVE i \in S
  <2>1. b[i] \in Byte /\ i - 1 \in 0..Width
    BY SshPayloadAssumption
  <2>2. f[i - 1] \in 0..(Power[i - 1] - 1) /\ Power[i - 1] \in Nat /\ Power[i - 1] > i - 1
    BY <1>3, <2>1, PowerGrows
  <2>3. f[i - 1] * Base + b[i] \in 0..(Power[i - 1] * Base - 1)
    <3>1. i - 1 \in Nat
      OBVIOUS
    <3> QED BY <2>1, <2>2, <3>1, Grows, Zenon
  <2>4. f[i] = f[i - 1] * Base + b[i] /\ Power[i] = Power[i - 1] * Base
    BY <1>1, PowerValue, Zenon DEF Horner
  <2> QED BY <2>3, <2>4, SshPayloadAssumption
<1> HIDE DEF S
<1>4. 0..Width \subseteq S
  BY <1>2, <1>3, UpTo, SshPayloadAssumption, Zenon
<1> QED BY <1>1, <1>4, SshPayloadAssumption DEF S

\* Wrapping, on the lengths that occur.
LEMMA WrapValue ==
  ASSUME NEW x \in Nat, x < 2 * Power[Width]
  PROVE  Wrap(x) = IF x < Power[Width] THEN x ELSE x - Power[Width]
<1> DEFINE m == Power[Width]
<1>1. m \in Nat /\ m > 0
  BY PowerGrows, SshPayloadAssumption
<1> HIDE DEF m
<1>2. x % m = IF x < m THEN x ELSE x - m
  <2>1. x % m \in 0..(m - 1) /\ x \div m \in Int /\ x = m * (x \div m) + (x % m)
    BY <1>1
  <2>2. PICK q \in Int : q = x \div m
    BY <2>1
  <2>3. q = 0 \/ q = 1
    <3>1. x = m * q + (x % m) /\ x < 2 * m
      BY <2>1, <2>2 DEF m
    <3>2. ASSUME q >= 2 PROVE FALSE
      <4>1. m * q >= m * 2
        BY <1>1, <3>2
      <4> QED BY <1>1, <2>1, <3>1, <4>1
    <3>3. ASSUME q <= -1 PROVE FALSE
      <4>1. m * q <= -m
        BY <1>1, <3>3
      <4> QED BY <1>1, <2>1, <3>1, <4>1
    <3> QED BY <3>2, <3>3
  <2>4. CASE q = 0
    BY <1>1, <2>1, <2>2, <2>4
  <2>5. CASE q = 1
    BY <1>1, <2>1, <2>2, <2>5
  <2> QED BY <2>3, <2>4, <2>5
<1> QED BY <1>2 DEF Wrap, m

\* b holds a string: its length, and at least so many bytes.
HoldsString(b) == Len(b) >= Width /\ Width + beUint32(b) <= Len(b)

LEMMA RefusalIsNo == NotOk.ok = "no" /\ NotOk.ok # "yes"
  BY DEF NotOk

LEMMA UnmarshalExact ==
  ASSUME NEW b \in Payload
  PROVE  IF HoldsString(b)
         THEN unmarshalString(b) = [ok |-> "yes", s |-> SubSeq(b, Width + 1, Width + beUint32(b)),
                                    rest |-> Drop(b, Width + beUint32(b))]
         ELSE unmarshalString(b).ok \in {"no", "panic"}
<1>1. Width \in Nat /\ Width > 0 /\ Power[Width] \in Nat /\ Power[Width] > Width /\ Len(b) \in Nat
        /\ Len(b) < Power[Width]
  BY PowerGrows, SshPayloadAssumption DEF Payload
<1>2. CASE Len(b) < Width
  <2>1. ~HoldsString(b)
    BY <1>1, <1>2 DEF HoldsString
  <2>2. unmarshalString(b) = NotOk
    BY <1>2, Zenon DEF unmarshalString
  <2> QED BY <2>1, <2>2, RefusalIsNo, Zenon
<1>3. CASE Len(b) >= Width
  <2> DEFINE n == beUint32(b)
  <2>1. n \in 0..(Power[Width] - 1)
    BY <1>3, NumberBound DEF Payload
  <2> HIDE DEF n
  <2>2. Wrap(Len(b)) = Len(b)
    BY <1>1, WrapValue
  <2>3. Wrap(Width + n) = IF Width + n < Power[Width] THEN Width + n ELSE Width + n - Power[Width]
    BY <1>1, <2>1, WrapValue
  <2>4. CASE Width + n <= Len(b)
    <3>1. Wrap(Width + n) = Width + n
      BY <1>1, <2>1, <2>3, <2>4
    <3>2. ~(Len(b) < Width) /\ ~(Len(b) < Width + n) /\ ~(Width + n < Width) /\ HoldsString(b)
      BY <1>1, <1>3, <2>1, <2>4 DEF HoldsString, n
    <3> QED BY <2>2, <3>1, <3>2, Zenon DEF unmarshalString, n
  <2>5. CASE ~(Width + n <= Len(b))
    <3>1. Len(b) < Wrap(Width + n) \/ Wrap(Width + n) < Width
      BY <1>1, <2>1, <2>3, <2>5
    <3>2. ~HoldsString(b)
      BY <2>5 DEF HoldsString, n
    <3> QED BY <1>1, <1>3, <2>2, <3>1, <3>2, Zenon DEF unmarshalString, NotOk, n
  <2> QED BY <2>4, <2>5, Zenon
<1>4. Len(b) < Width \/ Len(b) >= Width
  BY <1>1
<1> QED BY <1>2, <1>3, <1>4, Zenon

LEMMA DropIsPayload ==
  ASSUME NEW b \in Payload, NEW k \in 0..Len(b)
  PROVE  Drop(b, k) \in Payload /\ Len(Drop(b, k)) = Len(b) - k
         /\ \A i \in 1..(Len(b) - k) : Drop(b, k)[i] = b[k + i]
<1>1. b \in Seq(Byte) /\ Len(b) \in Nat /\ Len(b) < Power[Width] /\ Power[Width] \in Nat
  BY PowerGrows, SshPayloadAssumption DEF Payload
<1> QED BY <1>1 DEF Drop, Payload

\* The wire format's readings of a payload: one when it holds a string.
LEMMA ReadingsAre ==
  ASSUME NEW b \in Payload
  PROVE  Readings(b) = IF HoldsString(b)
                       THEN {<<SubSeq(b, Width + 1, Width + beUint32(b)), Drop(b, Width + beUint32(b))>>}
                       ELSE {}
<1>1. Width \in Nat /\ Width > 0 /\ Len(b) \in Nat /\ b \in Seq(Byte)
  BY SshPayloadAssumption DEF Payload
<1>2. CASE Len(b) < Width
  <2>1. Width .. Len(b) = {}
    BY <1>1, <1>2
  <2>2. ~HoldsString(b)
    BY <1>1, <1>2 DEF HoldsString
  <2> QED BY <2>1, <2>2, Zenon DEF Readings
<1>3. CASE Len(b) >= Width
  <2> DEFINE h == SubSeq(b, 1, Width)
             n == beUint32(b)
             K == {j \in Width .. Len(b) : IsNumber(h, j - Width)}
  <2>1. Len(h) = Width /\ \A i \in 1..Width : h[i] = b[i]
    BY <1>1, <1>3
  <2>2. beUint32(h) = n
    BY <2>1, NumberUnique, Zenon
  <2>3. n \in Nat
    BY <1>3, <1>1, NumberBound
  <2> HIDE DEF h, n
  <2>4. \A j \in Width .. Len(b) : IsNumber(h, j - Width) <=> j = Width + n
    BY <1>1, <2>1, <2>2, <2>3 DEF IsNumber
  <2>5. K = IF Width + n <= Len(b) THEN {Width + n} ELSE {}
    BY <1>1, <1>3, <2>3, <2>4
  <2>6. Readings(b) = {<<SubSeq(b, Width + 1, k), Drop(b, k)>> : k \in K}
    BY DEF Readings, h
  <2> HIDE DEF K
  <2>7. HoldsString(b) <=> Width + n <= Len(b)
    BY <1>1, <1>3 DEF HoldsString, n
  <2>8. CASE Width + n <= Len(b)
    BY <2>5, <2>6, <2>7, <2>8 DEF n
  <2>9. CASE ~(Width + n <= Len(b))
    BY <2>5, <2>6, <2>7, <2>9 DEF n
  <2> QED BY <2>8, <2>9
<1> QED BY <1>1, <1>2, <1>3

\* One reader's result is its only reading.
LEMMA StringRead ==
  ASSUME NEW b \in Payload
  PROVE  \/ /\ HoldsString(b)
            /\ \E s, rest : /\ unmarshalString(b) = [ok |-> "yes", s |-> s, rest |-> rest]
                            /\ Readings(b) = {<<s, rest>>}
                            /\ rest \in Payload
         \/ unmarshalString(b).ok \in {"no", "panic"} /\ Readings(b) = {}
<1>1. CASE HoldsString(b)
  <2> DEFINE n == beUint32(b)
  <2>1. n \in Nat /\ Width + n \in 0..Len(b)
    <3>1. b \in Seq(Byte) /\ Len(b) \in Nat /\ Width \in Nat
      BY SshPayloadAssumption DEF Payload
    <3>2. n \in Nat
      BY <1>1, <3>1, NumberBound DEF HoldsString
    <3> QED BY <1>1, <3>1, <3>2 DEF HoldsString
  <2>2. Drop(b, Width + n) \in Payload
    BY <2>1, DropIsPayload
  <2> QED BY <1>1, <2>2, UnmarshalExact, ReadingsAre, Zenon
<1>2. CASE ~HoldsString(b)
  BY <1>2, UnmarshalExact, ReadingsAre, Zenon
<1> QED BY <1>1, <1>2

LEMMA SizeExact ==
  ASSUME NEW b \in Payload, Len(b) >= 4 * Width
  PROVE  StartsWithSize(b, Size(b))
<1>1. Width \in Nat /\ Len(b) \in Nat /\ b \in Seq(Byte)
  BY SshPayloadAssumption DEF Payload
<1>2. ASSUME NEW k \in {0, Width, 2 * Width, 3 * Width}
      PROVE  IsNumber(SubSeq(b, k + 1, k + Width), beUint32(Drop(b, k)))
  <2>1. k \in 0..Len(b) /\ k + Width <= Len(b) /\ k \in Nat
    BY <1>1
  <2>2. Len(SubSeq(b, k + 1, k + Width)) = Width
        /\ \A i \in 1..Width : SubSeq(b, k + 1, k + Width)[i] = b[k + i]
    <3>1. k + Width \in Nat /\ k + Width - (k + 1) + 1 = Width
      BY <1>1, <2>1
    <3>2. Len(SubSeq(b, k + 1, k + Width)) = Width
      BY <1>1, <2>1, <3>1
    <3>3. ASSUME NEW i \in 1..Width PROVE SubSeq(b, k + 1, k + Width)[i] = b[k + i]
      <4>1. k + 1 + i - 1 = k + i /\ i \in 1..(k + Width - (k + 1) + 1)
        BY <1>1, <2>1
      <4> QED BY <1>1, <2>1, <3>1, <4>1
    <3> QED BY <3>2, <3>3, Zenon
  <2>3. \A i \in 1..Width : Drop(b, k)[i] = b[k + i]
    BY <1>1, <2>1, DropIsPayload
  <2> QED BY <2>2, <2>3, NumberUnique, Zenon DEF IsNumber
<1>3. Drop(b, 0) = b
  BY <1>1 DEF Drop
<1> DEFINE F == SizeFields(Size(b))
<1>4. F[1] = beUint32(b) /\ F[2] = beUint32(Drop(b, Width))
      /\ F[3] = beUint32(Drop(b, 2 * Width)) /\ F[4] = beUint32(Drop(b, 3 * Width))
  BY Zenon DEF SizeFields, Size
<1> HIDE DEF F
<1>5. ASSUME NEW i \in 1..4
      PROVE  IsNumber(SubSeq(b, (i - 1) * Width + 1, i * Width), F[i])
  <2>1. CASE i = 1
    <3>1. (i - 1) * Width + 1 = 0 + 1 /\ i * Width = 0 + Width
      BY <1>1, <2>1
    <3> QED BY <1>2, <1>3, <1>4, <2>1, <3>1
  <2>2. CASE i = 2
    <3>1. (i - 1) * Width + 1 = Width + 1 /\ i * Width = Width + Width
      BY <1>1, <2>2
    <3> QED BY <1>2, <1>4, <2>2, <3>1
  <2>3. CASE i = 3
    <3>1. (i - 1) * Width + 1 = 2 * Width + 1 /\ i * Width = 2 * Width + Width
      BY <1>1, <2>3
    <3> QED BY <1>2, <1>4, <2>3, <3>1
  <2>4. CASE i = 4
    <3>1. (i - 1) * Width + 1 = 3 * Width + 1 /\ i * Width = 3 * Width + Width
      BY <1>1, <2>4
    <3> QED BY <1>2, <1>4, <2>4, <3>1
  <2> QED BY <2>1, <2>2, <2>3, <2>4
<1> QED BY <1>5 DEF StartsWithSize, F

LEMMA ExactOne ==
  ASSUME NEW x, x.ok = "yes", NEW R, R = {x} PROVE Exact(x, R)
  BY DEF Exact

LEMMA ExactNone ==
  ASSUME NEW x, x.ok # "yes", NEW R, R = {} PROVE Exact(x, R)
  BY DEF Exact

\* What the readings of a payload make of a request.
LEMMA OneLine ==
  ASSUME NEW p, NEW s, NEW rest, Readings(p) = {<<s, rest>>}
  PROVE  LineReadings(p) = {[ok |-> "yes", line |-> s]}
  BY DEF LineReadings

LEMMA OneKey ==
  ASSUME NEW p, NEW s, NEW rest, Readings(p) = {<<s, rest>>}
  PROVE  PairReadings(p) = KeyedReadings(s, rest)
  BY DEF PairReadings

LEMMA NoReading ==
  ASSUME NEW p, Readings(p) = {}
  PROVE  LineReadings(p) = {} /\ PairReadings(p) = {} /\ \A k : KeyedReadings(k, p) = {}
  BY DEF LineReadings, PairReadings, KeyedReadings

LEMMA TermRead ==
  ASSUME NEW p, NEW s, NEW rest, unmarshalString(p) = [ok |-> "yes", s |-> s, rest |-> rest]
  PROVE  parsePtyReq(p) = IF Len(rest) < 4 * Width THEN NotOk
                          ELSE [ok |-> "yes", term |-> s, size |-> Size(rest)]
<1>1. unmarshalString(p).ok = "yes" /\ unmarshalString(p).s = s /\ unmarshalString(p).rest = rest
  OBVIOUS
<1> QED BY <1>1, Zenon DEF parsePtyReq

\* parseExecReq, parseEnvReq, parseWinChReq and parsePtyReq accept a payload exactly
\* when the wire format has a reading of it, and give that reading: for every payload
\* of every length a uint32 holds, with every Base and Width, 256 and 4 among them.
\* The wrapped sum in unmarshalString is less than 4 or more than the length whenever
\* the true sum is more than the length, so it never passes the check with a wrong end;
\* but where it is less than 4 the slice panics, which is no acceptance either.
THEOREM ParsersExact ==
  ASSUME NEW p \in Payload
  PROVE  ParsedExactly(p)
<1>1. Exact(parseExecReq(p), LineReadings(p))
  <2>1. CASE unmarshalString(p).ok \in {"no", "panic"} /\ Readings(p) = {}
    <3>1. parseExecReq(p).ok # "yes"
      BY <2>1 DEF parseExecReq
    <3> QED BY <2>1, <3>1, NoReading, ExactNone, Zenon
  <2>2. CASE ~(unmarshalString(p).ok \in {"no", "panic"} /\ Readings(p) = {})
    <3>1. PICK s, rest : /\ unmarshalString(p) = [ok |-> "yes", s |-> s, rest |-> rest]
                         /\ Readings(p) = {<<s, rest>>}
      BY <2>2, StringRead, Zenon
    <3>2. parseExecReq(p) = [ok |-> "yes", line |-> s]
      BY <3>1 DEF parseExecReq
    <3>3. LineReadings(p) = {[ok |-> "yes", line |-> s]}
      BY <3>1, OneLine, Zenon
    <3>4. parseExecReq(p).ok = "yes"
      BY <3>2
    <3> QED BY <3>2, <3>3, <3>4, ExactOne, Zenon
  <2> QED BY <2>1, <2>2, Zenon
<1>2. Exact(parseEnvReq(p), PairReadings(p))
  <2>1. CASE unmarshalString(p).ok \in {"no", "panic"} /\ Readings(p) = {}
    <3>1. parseEnvReq(p).ok # "yes"
      BY <2>1 DEF parseEnvReq
    <3> QED BY <2>1, <3>1, NoReading, ExactNone, Zenon
  <2>2. CASE ~(unmarshalString(p).ok \in {"no", "panic"} /\ Readings(p) = {})
    <3>1. PICK s, rest : /\ unmarshalString(p) = [ok |-> "yes", s |-> s, rest |-> rest]
                         /\ Readings(p) = {<<s, rest>>}
                         /\ rest \in Payload
      BY <2>2, StringRead, Zenon
    <3>2. PairReadings(p) = KeyedReadings(s, rest)
      BY <3>1, OneKey, Zenon
    <3>3. CASE unmarshalString(rest).ok \in {"no", "panic"} /\ Readings(rest) = {}
      <4>1. parseEnvReq(p).ok # "yes"
        BY <3>1, <3>3 DEF parseEnvReq
      <4>2. PairReadings(p) = {}
        BY <3>2, <3>3, NoReading, Zenon
      <4> QED BY <4>1, <4>2, ExactNone, Zenon
    <3>4. CASE ~(unmarshalString(rest).ok \in {"no", "panic"} /\ Readings(rest) = {})
      <4>1. PICK v, more : /\ unmarshalString(rest) = [ok |-> "yes", s |-> v, rest |-> more]
                           /\ Readings(rest) = {<<v, more>>}
        BY <3>1, <3>4, StringRead, Zenon
      <4>2. parseEnvReq(p) = [ok |-> "yes", key |-> s, value |-> v]
        BY <3>1, <4>1 DEF parseEnvReq
      <4>3. KeyedReadings(s, rest) = {[ok |-> "yes", key |-> s, value |-> v]}
        <5>1. Readings(rest) = {<<v, more>>}
          BY <4>1, Zenon
        <5>2. <<v, more>>[1] = v
          OBVIOUS
        <5> QED BY <5>1, <5>2, Zenon DEF KeyedReadings
      <4>4. PairReadings(p) = {[ok |-> "yes", key |-> s, value |-> v]}
        BY <3>2, <4>3, Zenon
      <4>5. parseEnvReq(p).ok = "yes"
        BY <4>2
      <4> QED BY <4>2, <4>4, <4>5, ExactOne, Zenon
    <3> QED BY <3>3, <3>4, Zenon
  <2> QED BY <2>1, <2>2, Zenon
<1>3. IF parseWinChReq(p).ok = "yes" THEN StartsWithSize(p, parseWinChReq(p).size)
      ELSE Len(p) < 4 * Width
  <2>0. 4 * Width \in Nat /\ Len(p) \in Nat
    BY SshPayloadAssumption DEF Payload
  <2>1. CASE Len(p) < 4 * Width
    BY <2>1, Zenon DEF parseWinChReq, NotOk
  <2>2. CASE ~(Len(p) < 4 * Width)
    <3>1. StartsWithSize(p, Size(p))
      BY <2>0, <2>2, SizeExact
    <3>2. parseWinChReq(p) = [ok |-> "yes", size |-> Size(p)]
      BY <2>2 DEF parseWinChReq
    <3> QED BY <3>1, <3>2
  <2> QED BY <2>1, <2>2
<1>4. LET q == parsePtyReq(p)
      IN  IF q.ok = "yes"
          THEN \E r \in PtyReadings(p) : r[1] = q.term /\ StartsWithSize(r[2], q.size)
          ELSE PtyReadings(p) = {}
  <2>1. CASE unmarshalString(p).ok \in {"no", "panic"} /\ Readings(p) = {}
    <3>1. parsePtyReq(p).ok # "yes"
      BY <2>1, Zenon DEF parsePtyReq
    <3> QED BY <2>1, <3>1, Zenon DEF PtyReadings
  <2>2. CASE ~(unmarshalString(p).ok \in {"no", "panic"} /\ Readings(p) = {})
    <3>1. PICK s, rest : /\ unmarshalString(p) = [ok |-> "yes", s |-> s, rest |-> rest]
                         /\ Readings(p) = {<<s, rest>>}
                         /\ rest \in Payload
      BY <2>2, StringRead
    <3>2. CASE Len(rest) < 4 * Width
      <4>1. parsePtyReq(p).ok # "yes"
        BY <3>1, <3>2, TermRead, RefusalIsNo, Zenon
      <4>2. 4 * Width \in Nat /\ Len(rest) \in Nat
        BY <3>1, SshPayloadAssumption DEF Payload
      <4>3. PtyReadings(p) = {}
        BY <3>1, <3>2, <4>2 DEF PtyReadings
      <4> QED BY <4>1, <4>3
    <3>3. CASE ~(Len(rest) < 4 * Width)
      <4>1. parsePtyReq(p) = [ok |-> "yes", term |-> s, size |-> Size(rest)]
        BY <3>1, <3>3, TermRead, Zenon
      <4>2. 4 * Width \in Nat /\ Len(rest) \in Nat
        BY <3>1, SshPayloadAssumption DEF Payload
      <4>3. StartsWithSize(rest, Size(rest))
        BY <3>1, <3>3, <4>2, SizeExact
      <4>4. <<s, rest>> \in PtyReadings(p)
        BY <3>1, <3>3, <4>2 DEF PtyReadings
      <4> QED BY <4>1, <4>3, <4>4
    <3> QED BY <3>2, <3>3, Zenon
  <2> QED BY <2>1, <2>2, Zenon
<1> QED BY <1>1, <1>2, <1>3, <1>4, Zenon DEF ParsedExactly

-----------------------------------------------------------------------------
(***************************************************************************)
(* SshSession: the goroutines.                                             *)
(***************************************************************************)
\* What startShell makes exists together, once; the third goroutine closes the PTY
\* first and reports last; the descriptor goes with its last user.
ShellInv ==
  /\ (child = "none") <=> (waiter = "none")
  /\ (child = "none") <=> (pty = "none")
  /\ (child = "none") <=> (copyIn = "none")
  /\ (child = "none") <=> (copyOut = "none")
  /\ child # "none" \/ loop = "starting" => started
  /\ loop = "starting" => child = "none"
  /\ (child = "reaped") <=> (waiter \in {"report", "done"})
  /\ (waiter = "first") <=> (pty = "open")
  /\ pty = "closing" => copyOut = "read" \/ copyIn = "write"
  /\ pty = "closed" => copyOut # "read" /\ copyIn # "write"
  /\ status => waiter = "done"

\* Tokens of the done channel the third goroutine has received.
Received == CASE waiter \in {"none", "first"} -> 0
              [] waiter = "second" -> 1
              [] OTHER -> 2

Ended(copy) == IF copy = "done" THEN 1 ELSE 0
InHand == IF copyOut = "write" THEN 1 ELSE 0

\* Each copy puts one token in, when it ends; no chunk is made up.
CountsInv ==
  /\ done + Received = Ended(copyIn) + Ended(copyOut)
  /\ sent + printed + InHand <= wrote /\ typed <= typedAll

\* The output's copy gives up a chunk only on a closed channel, on which no status
\* is sent; before the input's copy has ended, it ends otherwise only when all
\* output was read.
OrderInv ==
  /\ sent + printed + InHand < wrote => copyOut = "done" /\ chan = "closed" /\ ~status
  /\ copyIn = "done" /\ copyOut # "done" => inputFirst
  /\ inputFirst => copyIn = "done"
  /\ copyOut = "done" /\ ~inputFirst =>
       \/ printed = 0 /\ child \in {"exited", "reaped"}
       \/ chan = "closed" /\ ~status

SessionInv == ShellTypeOK /\ ShellInv /\ CountsInv /\ OrderInv

LEMMA SessionInitHolds == Init => SessionInv
<1> SUFFICES ASSUME Init PROVE SessionInv
  OBVIOUS
<1>1. ShellTypeOK
  <2>1. started \in BOOLEAN /\ status \in BOOLEAN /\ inputFirst \in BOOLEAN
    BY Zenon DEF Init
  <2> QED BY <2>1, SshSessionAssumption DEF Init, ShellTypeOK
<1>2. ShellInv /\ CountsInv /\ OrderInv
  BY DEF Init, ShellInv, CountsInv, OrderInv, Received, Ended, InHand
<1> QED BY <1>1, <1>2 DEF SessionInv

\* A request starts a shell at most, and only the first time.
LEMMA RequestShape ==
  ASSUME Request, started \in BOOLEAN
  PROVE  /\ loop = "run" /\ reqs < MaxRequests /\ reqs' = reqs + 1
         /\ started' \in BOOLEAN /\ (started => started')
         /\ loop' = "run" \/ (loop' = "starting" /\ ~started /\ started')
         /\ UNCHANGED <<chan, child, pty, ioVars, goVars, status, inputFirst>>
<1>1. PICK r \in Requests : PtyReq(r) \/ EnvReq(r) \/ StartReq(r) \/ WindowChange(r)
  BY Zenon DEF Request
<1>2. CASE PtyReq(r)
  BY <1>2, Zenon DEF PtyReq, Take
<1>3. CASE EnvReq(r)
  BY <1>3, Zenon DEF EnvReq, Take
<1>4. CASE StartReq(r)
  <2>1. CASE started
    BY <1>4, <2>1, Zenon DEF StartReq, Take
  <2>2. CASE ~started
    BY <1>4, <2>2, Zenon DEF StartReq, Take
  <2> QED BY <2>1, <2>2
<1>5. CASE WindowChange(r)
  BY <1>5, Zenon DEF WindowChange, Take
<1> QED BY <1>1, <1>2, <1>3, <1>4, <1>5, Zenon

LEMMA SessionStep == SessionInv /\ [Next]_vars => SessionInv'
<1> SUFFICES ASSUME SessionInv, [Next]_vars PROVE SessionInv'
  OBVIOUS
<1> USE SshSessionAssumption
    DEF SessionInv, ShellTypeOK, ShellInv, CountsInv, OrderInv, Received, Ended, InHand,
        still, askVars, ioVars, goVars
<1>1. CASE Request
  BY <1>1, RequestShape
<1>2. CASE StartShell
  <2>1. CASE child' = "run"
    BY <1>2, <2>1 DEF StartShell
  <2>2. CASE child' # "run"
    BY <1>2, <2>2 DEF StartShell
  <2> QED BY <2>1, <2>2
<1>3. CASE SessionEnds
  BY <1>3 DEF SessionEnds
<1>4. CASE ReadChan
  <2>1. CASE InputEnds
    <3>1. inputFirst' \in BOOLEAN /\ (inputFirst' <=> copyOut # "done")
      BY <2>1, Zenon DEF InputEnds
    <3>2. copyIn' = "done" /\ done' = done + 1
      BY <2>1, Zenon DEF InputEnds
    <3>3. ShellTypeOK'
      BY <1>4, <3>1, <3>2 DEF ReadChan
    <3>4. ShellInv' /\ CountsInv'
      BY <1>4, <3>2 DEF ReadChan
    <3>5. OrderInv'
      BY <1>4, <3>1, <3>2 DEF ReadChan
    <3> QED BY <3>3, <3>4, <3>5, Zenon
  <2>2. CASE ~InputEnds
    BY <1>4, <2>2 DEF ReadChan
  <2> QED BY <2>1, <2>2
<1>5. CASE WritePty
  <2>1. CASE InputEnds
    <3>1. inputFirst' \in BOOLEAN /\ (inputFirst' <=> copyOut # "done")
      BY <2>1, Zenon DEF InputEnds
    <3>2. copyIn' = "done" /\ done' = done + 1
      BY <2>1, Zenon DEF InputEnds
    <3>3. ShellTypeOK'
      BY <1>5, <3>1, <3>2 DEF WritePty, Released
    <3>4. ShellInv' /\ CountsInv'
      BY <1>5, <3>2 DEF WritePty, Released
    <3>5. OrderInv'
      BY <1>5, <3>1, <3>2 DEF WritePty, Released
    <3> QED BY <3>3, <3>4, <3>5, Zenon
  <2>2. CASE ~InputEnds
    BY <1>5, <2>2 DEF WritePty, Released
  <2> QED BY <2>1, <2>2
<1>6. CASE ReadPty
  BY <1>6 DEF ReadPty
<1>7. CASE ReadReturns
  BY <1>7 DEF ReadReturns, Released
<1>8. CASE WriteChan
  BY <1>8 DEF WriteChan
<1>9. CASE ClosePty
  BY <1>9 DEF ClosePty
<1>10. CASE SecondDone
  BY <1>10 DEF SecondDone
<1>11. CASE WaitChild
  BY <1>11 DEF WaitChild
<1>12. CASE Report
  BY <1>12 DEF Report
<1>13. CASE ChildPrints
  BY <1>13 DEF ChildPrints
<1>14. CASE ChildExits
  BY <1>14 DEF ChildExits
<1>15. CASE Type
  BY <1>15 DEF Type
<1>16. ASSUME NEW how \in {"eof", "closed"}, ClientEnds(how) PROVE SessionInv'
  BY <1>16 DEF ClientEnds
<1>17. CASE UNCHANGED vars
  BY <1>17 DEF vars
<1> QED BY <1>1, <1>2, <1>3, <1>4, <1>5, <1>6, <1>7, <1>8, <1>9, <1>10, <1>11, <1>12, <1>13,
            <1>14, <1>15, <1>16, <1>17, Zenon
         DEF Next, Server, Environment, CopyIn, CopyOut, Waiter

LEMMA SessionInvariant == Spec => []SessionInv
BY SessionInitHolds, SessionStep, PTL DEF Spec

LEMMA SessionInvImplies == SessionInv => StatusIsFinal /\ OutputBeforeStatus
<1> SUFFICES ASSUME SessionInv, status PROVE StatusIsFinal /\ OutputBeforeStatus
  BY DEF StatusIsFinal, OutputBeforeStatus
<1>1. child = "reaped" /\ copyIn = "done" /\ copyOut = "done"
  BY DEF SessionInv, ShellTypeOK, ShellInv, CountsInv, Received, Ended
<1>2. ~inputFirst => sent = wrote
  BY <1>1 DEF SessionInv, ShellTypeOK, CountsInv, OrderInv, InHand
<1> QED BY <1>1, <1>2 DEF StatusIsFinal, OutputBeforeStatus

\* startShell's third goroutine sends the exit status of a child it has reaped,
\* after both copies have ended: for any client.
THEOREM StatusLast == Spec => []StatusIsFinal
BY SessionInvariant, SessionInvImplies, PTL

\* Output that the child printed is in the channel before its exit status, unless
\* the copy of the input ended first: for any amount of output and input.
THEOREM OutputFirst == Spec => []OutputBeforeStatus
BY SessionInvariant, SessionInvImplies, PTL

\* The guards of the session's fair steps, when the client has gone.
CanGoOn ==
  \/ loop \in {"run", "starting"}
  \/ copyIn = "run" \/ (copyIn = "write" /\ child # "run")
  \/ copyOut \in {"run", "write"}
  \/ copyOut = "read" /\ (printed > 0 \/ child \in {"exited", "reaped"})
  \/ waiter \in {"first", "second"} /\ done > 0
  \/ waiter = "wait" /\ child = "exited"
  \/ waiter = "report"
  \/ pty = "closed" /\ child = "run"

\* The one thing that a read or a write of the PTY waits for.
WaitsForChild == child = "run" /\ ((copyOut = "read" /\ printed = 0) \/ copyIn = "write")

\* What is left to do in a session whose client has gone.
Work ==
  LET ofLoop   == CASE loop = "starting" -> 30 [] loop = "run" -> 1 [] OTHER -> 0
      ofCopies == (CASE copyIn = "run" -> 1 [] copyIn = "write" -> 2 [] OTHER -> 0)
                  + (CASE copyOut = "run" -> 3 [] copyOut = "read" -> 2 [] copyOut = "write" -> 1
                       [] OTHER -> 0)
      ofWaiter == CASE waiter = "first" -> 5 [] waiter = "second" -> 4 [] waiter = "wait" -> 3
                    [] waiter = "report" -> 2 [] OTHER -> 0
      ofChild  == CASE child = "run" -> 2 [] child = "exited" -> 1 [] OTHER -> 0
  IN  40 * (MaxRequests - reqs) + 2 * typed + ofLoop + ofCopies + ofWaiter + ofChild

\* A session whose client has gone is cleaned up, or can go on, or has a copy that
\* waits for a running child to print or to read: nothing else holds it up.
GoneNeverStuck ==
  chan = "closed" => /\ CleanedUp \/ CanGoOn \/ WaitsForChild
                     /\ LetGo /\ copyIn # "write" => CleanedUp \/ CanGoOn

\* A session whose client has gone does less and less: no step but the child's
\* printing leaves as much to do, and the client does not come back.
GoneAlwaysCloser ==
  [][chan = "closed" => /\ chan' = "closed"
                        /\ Work' < Work \/ (Work' = Work /\ ChildPrints)]_vars

\* GoneNeverStuck holds: of the goroutines of startShell and the child, after the
\* client has gone, none waits for another in a circle.
THEOREM NeverStuck == Spec => []GoneNeverStuck
<1>1. SessionInv => GoneNeverStuck
  <2> SUFFICES ASSUME SessionInv, chan = "closed", ~CleanedUp, ~CanGoOn
               PROVE  WaitsForChild /\ (LetGo => copyIn = "write")
    BY Zenon DEF GoneNeverStuck
  <2> USE DEF SessionInv, ShellTypeOK, ShellInv, CanGoOn, CleanedUp
  <2>1. child = "run"
    <3>1. CASE child = "none"
      BY <3>1
    <3>2. CASE child = "exited"
      BY <3>2 DEF CountsInv, Received, Ended
    <3>3. CASE child = "reaped"
      BY <3>3
    <3> QED BY <3>1, <3>2, <3>3
  <2>2. (copyOut = "read" /\ printed = 0) \/ copyIn = "write"
    BY <2>1 DEF CountsInv, Received, Ended
  <2> QED BY <2>1, <2>2 DEF WaitsForChild, LetGo
<1> QED BY <1>1, SessionInvariant, PTL

\* GoneAlwaysCloser holds; with NeverStuck, and steps that can be taken being
\* taken, this is why a session whose client has gone is cleaned up once its child
\* lets go.
THEOREM AlwaysCloser == Spec => GoneAlwaysCloser
<1>1. SessionInv /\ [Next]_vars =>
        [chan = "closed" => /\ chan' = "closed"
                            /\ Work' < Work \/ (Work' = Work /\ ChildPrints)]_vars
  <2> SUFFICES ASSUME SessionInv, Next, chan = "closed"
               PROVE  chan' = "closed" /\ (Work' < Work \/ (Work' = Work /\ ChildPrints))
    OBVIOUS
  <2> USE SshSessionAssumption
      DEF SessionInv, ShellTypeOK, ShellInv, Work, still, askVars, ioVars, goVars
  <2>1. CASE StartShell \/ SessionEnds
    <3>1. CASE SessionEnds
      BY <3>1 DEF SessionEnds
    <3>2. CASE StartShell
      <4>1. /\ loop = "starting" /\ reqs' = reqs /\ typed' = typed
            /\ \/ loop' = "run" /\ child' = "run" /\ copyIn' = "run" /\ copyOut' = "run"
                  /\ waiter' = "first" /\ chan' = chan
               \/ loop' = "done" /\ chan' = "closed" /\ child' = child /\ copyIn' = copyIn
                  /\ copyOut' = copyOut /\ waiter' = waiter
        BY <3>2, Zenon DEF StartShell
      <4> QED BY <4>1
    <3> QED BY <2>1, <3>1, <3>2
  <2>2. CASE CopyIn
    BY <2>2 DEF CopyIn, ReadChan, WritePty, InputEnds
  <2>3. CASE CopyOut
    <3>1. CASE ReadPty
      BY <3>1 DEF ReadPty
    <3>2. CASE ReadReturns
      BY <3>2 DEF ReadReturns
    <3>3. CASE WriteChan
      BY <3>3 DEF WriteChan
    <3> QED BY <2>3, <3>1, <3>2, <3>3, Zenon DEF CopyOut
  <2>4. CASE ClosePty \/ SecondDone
    BY <2>4 DEF ClosePty, SecondDone
  <2>5. CASE WaitChild \/ Report
    BY <2>5 DEF WaitChild, Report
  <2>6. CASE ChildPrints
    BY <2>6 DEF ChildPrints
  <2>7. CASE ChildExits
    BY <2>7 DEF ChildExits
  <2>8. CASE Request
    BY <2>8, RequestShape
  <2>9. CASE Type \/ \E how \in {"eof", "closed"} : ClientEnds(how)
    BY <2>9 DEF Type, ClientEnds
  <2> QED BY <2>1, <2>2, <2>3, <2>4, <2>5, <2>6, <2>7, <2>8, <2>9, Zenon
          DEF Next, Server, Environment, Waiter
<1> QED BY <1>1, SessionInvariant, PTL DEF Spec, GoneAlwaysCloser

(***************************************************************************)
(* SshSession: the requests.                                               *)
(***************************************************************************)
LEMMA ReadingTyped ==
  ASSUME NEW b \in Payload, NEW r \in Readings(b)
  PROVE  r[1] \in Seq(Byte) /\ r[2] \in Payload
<1> DEFINE n == beUint32(b)
<1>1. HoldsString(b) /\ r = <<SubSeq(b, Width + 1, Width + n), Drop(b, Width + n)>>
  BY ReadingsAre
<1>2. b \in Seq(Byte) /\ Len(b) \in Nat /\ Width \in Nat
  BY SshPayloadAssumption DEF Payload
<1>3. n \in Nat
  BY <1>1, <1>2, NumberBound DEF HoldsString
<1> HIDE DEF n
<1>4. Width + n \in 0..Len(b) /\ Width + 1 \in Nat
  BY <1>1, <1>2, <1>3 DEF HoldsString, n
<1>5. Drop(b, Width + n) \in Payload
  BY <1>4, DropIsPayload
<1>6. SubSeq(b, Width + 1, Width + n) \in Seq(Byte)
  BY <1>2, <1>3, <1>4
<1> QED BY <1>1, <1>5, <1>6

\* Four numbers give a window, cut to half their width.
LEMMA SizeGiven ==
  ASSUME NEW b \in Payload, NEW size, StartsWithSize(b, size)
  PROVE  GivesSize(b, WindowSize(size)) /\ WindowSize(size) \in [rows : Nat, cols : Nat]
<1>1. Width \in Nat /\ Len(b) \in Nat /\ b \in Seq(Byte) /\ 4 * Width <= Len(b)
  BY SshPayloadAssumption DEF Payload, StartsWithSize
<1>2. SizeFields(size)[1] = size.cols /\ SizeFields(size)[2] = size.rows
  BY Zenon DEF SizeFields
<1>3. (1 - 1) * Width + 1 = 1 /\ 1 * Width = Width /\ (2 - 1) * Width + 1 = Width + 1
      /\ 1 \in 1..4 /\ 2 \in 1..4
  BY <1>1
<1>4. IsNumber(SubSeq(b, 1, Width), size.cols)
      /\ IsNumber(SubSeq(b, Width + 1, 2 * Width), size.rows)
  BY <1>2, <1>3, Zenon DEF StartsWithSize
<1>5. SubSeq(b, 1, Width) \in Seq(Byte) /\ SubSeq(b, Width + 1, 2 * Width) \in Seq(Byte)
  BY <1>1
<1>6. ASSUME NEW s \in Seq(Byte), NEW m, IsNumber(s, m) PROVE m \in 0..(Power[Width] - 1)
  <2>1. Len(s) >= Width
    BY <1>1, <1>6 DEF IsNumber
  <2> QED BY <1>6, <2>1, NumberBound DEF IsNumber
<1>7. size.cols \in 0..(Power[Width] - 1) /\ size.rows \in 0..(Power[Width] - 1)
  BY <1>4, <1>5, <1>6
<1>8. Width \div 2 \in 0..Width
  BY <1>1
<1>9. Power[Width \div 2] \in Nat /\ Power[Width \div 2] > 0 /\ Power[Width] \in Nat
  BY <1>1, <1>8, PowerGrows
<1>10. Short(size.cols) \in Nat /\ Short(size.rows) \in Nat
  BY <1>7, <1>9 DEF Short
<1> QED BY <1>4, <1>7, <1>10, Zenon DEF GivesSize, WindowSize

LEMMA SizeTyped ==
  ASSUME NEW b \in Payload, Len(b) >= 4 * Width
  PROVE  Size(b) \in [cols : Nat, rows : Nat, xPx : Nat, yPx : Nat]
<1>1. Width \in Nat /\ Len(b) \in Nat /\ b \in Seq(Byte)
  BY SshPayloadAssumption DEF Payload
<1>2. ASSUME NEW k \in {0, Width, 2 * Width, 3 * Width} PROVE beUint32(Drop(b, k)) \in Nat
  <2>1. k \in 0..Len(b) /\ Len(b) - k >= Width
    BY <1>1
  <2>2. Drop(b, k) \in Payload /\ Len(Drop(b, k)) = Len(b) - k
    BY <2>1, DropIsPayload
  <2>3. beUint32(Drop(b, k)) \in 0..(Power[Width] - 1)
    BY <2>1, <2>2, NumberBound DEF Payload
  <2> QED BY <2>3
<1>3. Drop(b, 0) = b
  BY <1>1 DEF Drop
<1> QED BY <1>2, <1>3 DEF Size

\* What the parsers make of a payload, in terms of its readings.
LEMMA EnvParsed ==
  ASSUME NEW p \in Payload
  PROVE  IF parseEnvReq(p).ok = "yes"
         THEN parseEnvReq(p) \in PairReadings(p) /\ parseEnvReq(p) \in EnvRecord
         ELSE PairReadings(p) = {}
<1>1. Exact(parseEnvReq(p), PairReadings(p))
  BY ParsersExact, Zenon DEF ParsedExactly
<1>2. PairReadings(p) \subseteq EnvRecord
  <2> SUFFICES ASSUME NEW e \in PairReadings(p) PROVE e \in EnvRecord
    OBVIOUS
  <2>1. PICK r \in Readings(p) : e \in KeyedReadings(r[1], r[2])
    BY Zenon DEF PairReadings
  <2>2. PICK q \in Readings(r[2]) : e = [ok |-> "yes", key |-> r[1], value |-> q[1]]
    BY <2>1, Zenon DEF KeyedReadings
  <2>3. r[1] \in Seq(Byte) /\ q[1] \in Seq(Byte)
    BY ReadingTyped
  <2> QED BY <2>2, <2>3 DEF EnvRecord
<1> QED BY <1>1, <1>2, Zenon DEF Exact

LEMMA LineTyped ==
  ASSUME NEW b \in Seq(Byte) PROVE [ok |-> "yes", line |-> b] \in LineRecord
BY DEF LineRecord

LEMMA LineParsed ==
  ASSUME NEW p \in Payload
  PROVE  IF parseExecReq(p).ok = "yes"
         THEN parseExecReq(p) \in LineReadings(p) /\ parseExecReq(p) \in LineRecord
         ELSE LineReadings(p) = {}
<1>1. Exact(parseExecReq(p), LineReadings(p))
  BY ParsersExact, Zenon DEF ParsedExactly
<1>2. ASSUME NEW x \in LineReadings(p) PROVE x \in LineRecord
  <2>1. PICK r \in Readings(p) : x = [ok |-> "yes", line |-> r[1]]
    BY Zenon DEF LineReadings
  <2>2. r[1] \in Seq(Byte)
    BY ReadingTyped, Zenon
  <2> QED BY <2>1, <2>2, LineTyped, Zenon
<1> QED BY <1>1, <1>2, Zenon DEF Exact

LEMMA WindowParsed ==
  ASSUME NEW p \in Payload
  PROVE  IF parseWinChReq(p).ok = "yes"
         THEN /\ Len(p) >= 4 * Width /\ GivesSize(p, WindowSize(parseWinChReq(p).size))
              /\ WindowSize(parseWinChReq(p).size) \in [rows : Nat, cols : Nat]
         ELSE ~(Len(p) >= 4 * Width)
<1>1. IF parseWinChReq(p).ok = "yes" THEN StartsWithSize(p, parseWinChReq(p).size)
      ELSE Len(p) < 4 * Width
  BY ParsersExact, Zenon DEF ParsedExactly
<1>2. Len(p) \in Nat /\ 4 * Width \in Nat
  BY SshPayloadAssumption DEF Payload
<1>3. CASE parseWinChReq(p).ok = "yes"
  BY <1>1, <1>3, SizeGiven, Zenon DEF StartsWithSize
<1>4. CASE parseWinChReq(p).ok # "yes"
  BY <1>1, <1>2, <1>4
<1> QED BY <1>3, <1>4

\* The terminal and the window a pty-req's payload gives.
Terminal(p, q) == \E r \in PtyReadings(p) : q.term = r[1] /\ GivesSize(r[2], WindowSize(q.size))

LEMMA TermTyped ==
  ASSUME NEW s \in Seq(Byte), NEW z \in [cols : Nat, rows : Nat, xPx : Nat, yPx : Nat]
  PROVE  [ok |-> "yes", term |-> s, size |-> z] \in PtyRecord
BY DEF PtyRecord

LEMMA PtyParsed ==
  ASSUME NEW p \in Payload
  PROVE  IF parsePtyReq(p).ok = "yes"
         THEN /\ Terminal(p, parsePtyReq(p)) /\ PtyReadings(p) # {}
              /\ parsePtyReq(p) \in PtyRecord
              /\ WindowSize(parsePtyReq(p).size) \in [rows : Nat, cols : Nat]
         ELSE PtyReadings(p) = {}
<1> DEFINE q == parsePtyReq(p)
<1>1. IF q.ok = "yes" THEN \E r \in PtyReadings(p) : r[1] = q.term /\ StartsWithSize(r[2], q.size)
      ELSE PtyReadings(p) = {}
  BY ParsersExact, Zenon DEF ParsedExactly
<1>2. CASE q.ok # "yes"
  BY <1>1, <1>2
<1>3. CASE q.ok = "yes"
  <2>1. PICK r \in PtyReadings(p) : r[1] = q.term /\ StartsWithSize(r[2], q.size)
    BY <1>1, <1>3, Zenon
  <2>2. r \in Readings(p)
    BY DEF PtyReadings
  <2>3. r[1] \in Seq(Byte) /\ r[2] \in Payload
    BY <2>2, ReadingTyped
  <2>4. GivesSize(r[2], WindowSize(q.size)) /\ WindowSize(q.size) \in [rows : Nat, cols : Nat]
    BY <2>1, <2>3, SizeGiven, Zenon
  <2>5. PICK s, rest : unmarshalString(p) = [ok |-> "yes", s |-> s, rest |-> rest]
                       /\ Readings(p) = {<<s, rest>>} /\ rest \in Payload
    BY <2>2, StringRead, Zenon
  <2>6. q = [ok |-> "yes", term |-> s, size |-> Size(rest)] /\ ~(Len(rest) < 4 * Width)
    BY <1>3, <2>5, TermRead, RefusalIsNo, Zenon
  <2>7. s \in Seq(Byte) /\ Len(rest) >= 4 * Width
    <3>1. s = r[1] /\ Len(rest) \in Nat /\ 4 * Width \in Nat
      BY <2>2, <2>5, SshPayloadAssumption DEF Payload
    <3> QED BY <2>3, <2>6, <3>1
  <2>8. q \in PtyRecord
    <3>1. Size(rest) \in [cols : Nat, rows : Nat, xPx : Nat, yPx : Nat]
      BY <2>5, <2>7, SizeTyped, Zenon
    <3>2. [ok |-> "yes", term |-> s, size |-> Size(rest)] \in PtyRecord
      BY <2>7, <3>1, TermTyped, Zenon
    <3> QED BY <2>6, <3>2, Zenon
  <2> HIDE DEF q
  <2>9. Terminal(p, q)
    BY <2>1, <2>4, Zenon DEF Terminal
  <2> QED BY <1>3, <2>1, <2>4, <2>8, <2>9, Zenon DEF q
<1> QED BY <1>2, <1>3, Zenon

\* What handleSession has noted before the start is what was asked.
NotedAsAsked ==
  /\ Len(envVars) = Len(asked.env)
  /\ \A i \in 1..Len(asked.env) : envVars[i] \in PairReadings(asked.env[i])
  /\ IF asked.pty = <<>> THEN ptyReq = NotOk
     ELSE /\ ptyReq # NotOk /\ Terminal(asked.pty[1], ptyReq)
          /\ WindowSize(ptyReq.size) \in [rows : Nat, cols : Nat]

\* It is noted until the child is started with it; the line comes with the flag, and
\* a size after the child.
AskInv ==
  /\ AskTypeOK /\ RequestsReadExactly
  /\ ~started \/ loop = "starting" => NotedAsAsked
  /\ ~started => asked.line = <<>> /\ execLine = NotOk
  /\ child = "none" => asked.size = <<>>

\* A step that takes no request and starts no child.
LEMMA OtherSteps ==
  ASSUME AskInv, UNCHANGED <<askVars, runVars>>, child = "none" <=> child' = "none",
         pty' = "open" => pty = "open", loop' = "starting" => loop = "starting"
  PROVE  AskInv'
<1> USE DEF askVars, runVars
<1>1. AskTypeOK'
  BY Zenon DEF AskInv, AskTypeOK
<1>2. NotedAsAsked' <=> NotedAsAsked
  BY Zenon DEF NotedAsAsked
<1>3. RunsAsAsked => RunsAsAsked'
  BY Zenon DEF RunsAsAsked
<1>4. RequestsReadExactly'
  BY <1>3, Zenon DEF AskInv, RequestsReadExactly
<1> QED BY <1>1, <1>2, <1>4, Zenon DEF AskInv

LEMMA CmdTyped ==
  ASSUME NEW E, NEW B, NEW e \in E, NEW b \in B
  PROVE  [env |-> e, term |-> b] \in [env : E, term : B]
OBVIOUS

LEMMA NoItems == (\A S : <<>> \in Seq(S)) /\ 1..Len(<<>>) = {}
OBVIOUS

LEMMA FreshTyped ==
  ASSUME NEW S, NEW e \in S
  PROVE  [env |-> e, pty |-> e, line |-> e, size |-> e] \in [env : S, pty : S, line : S, size : S]
OBVIOUS

LEMMA AskInit == Init => AskInv
<1> SUFFICES ASSUME Init PROVE AskInv
  OBVIOUS
<1>0. asked.env = <<>> /\ asked.pty = <<>> /\ asked.line = <<>> /\ asked.size = <<>>
  BY DEF Init, NothingAsked
<1>1. AskTypeOK
  <2>1. asked \in AskedRecord
    BY NoItems, FreshTyped, Zenon DEF Init, NothingAsked, AskedRecord
  <2>2. cmd \in [env : Seq(EnvRecord), term : Seq(Byte)]
    BY NoItems, CmdTyped, Zenon DEF Init
  <2>3. winsize \in [rows : Nat, cols : Nat]
    BY DEF Init, DefaultSize
  <2> QED BY NoItems, <2>1, <2>2, <2>3, Zenon DEF Init, AskTypeOK
<1>2. RequestsReadExactly
  BY <1>0, NoItems, Zenon DEF Init, RequestsReadExactly
<1>3. NotedAsAsked
  BY <1>0, NoItems, Zenon DEF Init, NotedAsAsked
<1> QED BY <1>0, <1>1, <1>2, <1>3, Zenon DEF Init, AskInv

\* Noting a payload.
LEMMA AskedTyped ==
  ASSUME NEW a \in AskedRecord, NEW p \in Payload
  PROVE  /\ [a EXCEPT !.pty = <<p>>] \in AskedRecord /\ [a EXCEPT !.line = <<p>>] \in AskedRecord
         /\ [a EXCEPT !.size = <<p>>] \in AskedRecord
         /\ [a EXCEPT !.env = Append(a.env, p)] \in AskedRecord
<1> DEFINE S == Seq(Payload)
<1>1. <<p>> \in S
  OBVIOUS
<1>2. Append(a.env, p) \in S
  <2>1. a.env \in Seq(Payload)
    BY DEF AskedRecord
  <2> QED BY <2>1
<1>3. a \in [env : S, pty : S, line : S, size : S]
  BY DEF AskedRecord
<1> HIDE DEF S
<1>4. ASSUME NEW x \in S
      PROVE  /\ [a EXCEPT !.pty = x] \in [env : S, pty : S, line : S, size : S]
             /\ [a EXCEPT !.line = x] \in [env : S, pty : S, line : S, size : S]
             /\ [a EXCEPT !.size = x] \in [env : S, pty : S, line : S, size : S]
             /\ [a EXCEPT !.env = x] \in [env : S, pty : S, line : S, size : S]
  BY <1>3
<1> QED BY <1>1, <1>2, <1>4, Zenon DEF AskedRecord, S

LEMMA PtyReqStep ==
  ASSUME SessionInv, AskInv, NEW r \in Requests, PtyReq(r) PROVE AskInv'
<1> DEFINE p == parsePtyReq(r.payload)
<1>1. r.payload \in Payload
  BY SshSessionAssumption
<1>2. Readable(r) <=> PtyReadings(r.payload) # {}
  BY DEF PtyReq, Readable
<1>3. /\ p.ok = "yes" => /\ Readable(r) /\ Terminal(r.payload, p) /\ p \in PtyRecord
                         /\ WindowSize(p.size) \in [rows : Nat, cols : Nat]
      /\ p.ok # "yes" => ~Readable(r)
  BY <1>1, <1>2, PtyParsed, Zenon
<1>4. p.ok = "yes" => p # NotOk
  BY RefusalIsNo, Zenon
<1> HIDE DEF p
<1>5. /\ loop = "run" /\ fatal' = IF p.ok = "panic" THEN <<r>> ELSE <<>>
      /\ ptyReq' = IF p.ok = "yes" THEN p ELSE ptyReq
      /\ asked' = IF ~started /\ Readable(r) THEN [asked EXCEPT !.pty = <<r.payload>>] ELSE asked
      /\ UNCHANGED <<loop, started, envVars, execLine, cmd, winsize, child, pty>>
  BY Zenon DEF PtyReq, Take, Parsed, p, runVars
<1>6. AskTypeOK'
  <2>1. asked' \in AskedRecord
    BY <1>1, <1>5, AskedTyped, Zenon DEF AskInv, AskTypeOK
  <2> QED BY <1>3, <1>5, <2>1, Zenon DEF AskInv, AskTypeOK
<1>7. asked'.env = asked.env /\ asked'.line = asked.line /\ asked'.size = asked.size
      /\ (started => asked' = asked)
      /\ (~started /\ Readable(r) => asked'.pty = <<r.payload>>)
      /\ (~started /\ ~Readable(r) => asked'.pty = asked.pty)
  BY <1>5 DEF AskInv, AskTypeOK, AskedRecord
<1>8. child # "none" => started
  BY Zenon DEF SessionInv, ShellInv
<1>9. child' # "none" => RunsAsAsked'
  BY <1>5, <1>7, <1>8, Zenon DEF AskInv, RequestsReadExactly, RunsAsAsked
<1>10. \A i \in 1..Len(fatal') : ~Readable(fatal'[i])
  BY <1>3, <1>5
<1>11. RequestsReadExactly'
  BY <1>5, <1>7, <1>9, <1>10, Zenon DEF AskInv, RequestsReadExactly
<1>12. ~started => NotedAsAsked'
  <2>1. CASE Readable(r)
    <3>1. <<r.payload>>[1] = r.payload /\ <<r.payload>> # <<>>
      OBVIOUS
    <3> QED BY <1>3, <1>4, <1>5, <1>7, <2>1, <3>1, Zenon DEF AskInv, NotedAsAsked
  <2>2. CASE ~Readable(r)
    BY <1>3, <1>5, <1>7, <2>2, Zenon DEF AskInv, NotedAsAsked
  <2> QED BY <2>1, <2>2
<1> QED BY <1>5, <1>6, <1>7, <1>11, <1>12, Zenon DEF AskInv

LEMMA OneMoreRead ==
  ASSUME NEW s \in Seq(EnvRecord), NEW x \in EnvRecord
  PROVE  /\ Len(Append(s, x)) = Len(s) + 1 /\ Append(s, x)[Len(s) + 1] = x
         /\ \A i \in 1..Len(s) : Append(s, x)[i] = s[i]
OBVIOUS

LEMMA OneMoreAsked ==
  ASSUME NEW t \in Seq(Payload), NEW p \in Payload
  PROVE  /\ Len(t) \in Nat /\ Len(Append(t, p)) = Len(t) + 1 /\ Append(t, p)[Len(t) + 1] = p
         /\ \A i \in 1..Len(t) : Append(t, p)[i] = t[i]
OBVIOUS

\* Two sequences that agree item by item still do with one item more.
LEMMA BothLonger ==
  ASSUME NEW s \in Seq(EnvRecord), NEW t \in Seq(Payload), Len(s) = Len(t),
         \A i \in 1..Len(t) : s[i] \in PairReadings(t[i]),
         NEW x \in EnvRecord, NEW p \in Payload, x \in PairReadings(p)
  PROVE  /\ Len(Append(s, x)) = Len(Append(t, p))
         /\ \A i \in 1..Len(Append(t, p)) : Append(s, x)[i] \in PairReadings(Append(t, p)[i])
<1>1. /\ Len(Append(s, x)) = Len(s) + 1 /\ Append(s, x)[Len(s) + 1] = x
      /\ \A i \in 1..Len(s) : Append(s, x)[i] = s[i]
  BY OneMoreRead, Zenon
<1>2. /\ Len(t) \in Nat /\ Len(Append(t, p)) = Len(t) + 1 /\ Append(t, p)[Len(t) + 1] = p
      /\ \A i \in 1..Len(t) : Append(t, p)[i] = t[i]
  BY OneMoreAsked, Zenon
<1>3. \A i \in 1..(Len(t) + 1) : i \in 1..Len(t) \/ i = Len(t) + 1
  BY <1>2
<1> QED BY <1>1, <1>2, <1>3, Zenon

LEMMA EnvReqStep ==
  ASSUME SessionInv, AskInv, NEW r \in Requests, EnvReq(r) PROVE AskInv'
<1> DEFINE e == parseEnvReq(r.payload)
<1>1. r.payload \in Payload
  BY SshSessionAssumption
<1>2. Readable(r) <=> PairReadings(r.payload) # {}
  BY DEF EnvReq, Readable
<1>3. /\ e.ok = "yes" => Readable(r) /\ e \in PairReadings(r.payload) /\ e \in EnvRecord
      /\ e.ok # "yes" => ~Readable(r)
  BY <1>1, <1>2, EnvParsed, Zenon
<1> HIDE DEF e
<1>4. /\ loop = "run" /\ fatal' = IF e.ok = "panic" THEN <<r>> ELSE <<>>
      /\ envVars' = IF e.ok = "yes" THEN Append(envVars, e) ELSE envVars
      /\ asked' = IF ~started /\ Readable(r)
                  THEN [asked EXCEPT !.env = Append(asked.env, r.payload)] ELSE asked
      /\ UNCHANGED <<loop, started, ptyReq, execLine, cmd, winsize, child, pty>>
  BY Zenon DEF EnvReq, Take, Parsed, e, runVars
<1>5. AskTypeOK'
  <2>1. asked' \in AskedRecord
    BY <1>1, <1>4, AskedTyped, Zenon DEF AskInv, AskTypeOK
  <2>2. envVars' \in Seq(EnvRecord)
    BY <1>3, <1>4 DEF AskInv, AskTypeOK
  <2> QED BY <1>4, <2>1, <2>2, Zenon DEF AskInv, AskTypeOK
<1>6. asked'.pty = asked.pty /\ asked'.line = asked.line /\ asked'.size = asked.size
      /\ (started => asked' = asked)
      /\ (~started /\ Readable(r) => asked'.env = Append(asked.env, r.payload))
      /\ (~started /\ ~Readable(r) => asked'.env = asked.env)
  BY <1>4 DEF AskInv, AskTypeOK, AskedRecord
<1>7. child # "none" => started
  BY Zenon DEF SessionInv, ShellInv
<1>8. child' # "none" => RunsAsAsked'
  BY <1>4, <1>6, <1>7, Zenon DEF AskInv, RequestsReadExactly, RunsAsAsked
<1>9. \A i \in 1..Len(fatal') : ~Readable(fatal'[i])
  BY <1>3, <1>4
<1>10. RequestsReadExactly'
  BY <1>4, <1>6, <1>8, <1>9, Zenon DEF AskInv, RequestsReadExactly
<1>11. ~started => NotedAsAsked'
  <2>1. CASE Readable(r)
    <3> SUFFICES ASSUME ~started PROVE NotedAsAsked'
      OBVIOUS
    <3>1. envVars' = Append(envVars, e) /\ asked'.env = Append(asked.env, r.payload)
      BY <1>3, <1>4, <1>6, <2>1, Zenon
    <3>2. envVars \in Seq(EnvRecord) /\ asked.env \in Seq(Payload) /\ Len(envVars) = Len(asked.env)
          /\ \A i \in 1..Len(asked.env) : envVars[i] \in PairReadings(asked.env[i])
      <4>1. envVars \in Seq(EnvRecord) /\ asked \in AskedRecord
        BY DEF AskInv, AskTypeOK
      <4>2. asked.env \in Seq(Payload)
        BY <4>1 DEF AskedRecord
      <4> QED BY <4>1, <4>2, Zenon DEF AskInv, NotedAsAsked
    <3>3. Len(envVars') = Len(asked'.env)
          /\ \A i \in 1..Len(asked'.env) : envVars'[i] \in PairReadings(asked'.env[i])
      <4>1. e \in EnvRecord /\ e \in PairReadings(r.payload)
        BY <1>3, <2>1, Zenon
      <4>2. /\ Len(Append(envVars, e)) = Len(Append(asked.env, r.payload))
            /\ \A i \in 1..Len(Append(asked.env, r.payload)) :
                 Append(envVars, e)[i] \in PairReadings(Append(asked.env, r.payload)[i])
        BY <1>1, <3>2, <4>1, BothLonger, Zenon
      <4> QED BY <3>1, <4>2, Zenon
    <3> QED BY <1>4, <1>6, <3>3, Zenon DEF AskInv, NotedAsAsked
  <2>2. CASE ~Readable(r)
    BY <1>3, <1>4, <1>6, <2>2, Zenon DEF AskInv, NotedAsAsked
  <2> QED BY <2>1, <2>2
<1> QED BY <1>4, <1>5, <1>6, <1>10, <1>11, Zenon DEF AskInv

LEMMA StartReqStep ==
  ASSUME SessionInv, AskInv, NEW r \in Requests, StartReq(r) PROVE AskInv'
<1> DEFINE l == IF r.type = "exec" THEN parseExecReq(r.payload) ELSE ShellLine
<1>1. r.payload \in Payload
  BY SshSessionAssumption
<1>2. /\ loop = "run" /\ started'
      /\ UNCHANGED <<ptyReq, envVars, cmd, winsize, child, pty>>
  BY Zenon DEF StartReq, Take, runVars
<1>3. CASE started
  <2>1. UNCHANGED <<loop, execLine, fatal, asked>> /\ loop' # "starting"
    BY <1>2, <1>3, Zenon DEF StartReq
  <2>2. AskTypeOK'
    BY <1>2, <2>1, Zenon DEF AskInv, AskTypeOK
  <2>3. RunsAsAsked => RunsAsAsked'
    BY <1>2, <2>1, Zenon DEF RunsAsAsked
  <2>4. RequestsReadExactly'
    BY <1>2, <2>1, <2>3, Zenon DEF AskInv, RequestsReadExactly
  <2> QED BY <1>2, <1>3, <2>1, <2>2, <2>4, Zenon DEF AskInv
<1>4. CASE ~started
  <2>1. child = "none" /\ child' = "none"
    BY <1>2, <1>4, Zenon DEF SessionInv, ShellInv
  <2>2. ShellLine \in LineRecord /\ ShellLine.ok = "yes"
    <3>1. ShellLine.ok = "yes"
      BY DEF ShellLine
    <3> QED BY <3>1, NoItems, LineTyped, Zenon DEF ShellLine
  <2>3. /\ r.type = "exec" => (Readable(r) <=> LineReadings(r.payload) # {})
        /\ r.type # "exec" => l = ShellLine
        /\ r.type = "exec" => l = parseExecReq(r.payload)
    BY DEF Readable
  <2>4. /\ l.ok = "yes" => l \in LineRecord
        /\ l.ok # "yes" => r.type = "exec" /\ ~Readable(r)
        /\ r.type = "exec" /\ l.ok = "yes" => Readable(r) /\ l \in LineReadings(r.payload)
    BY <1>1, <2>2, <2>3, LineParsed, Zenon
  <2>5. /\ fatal' = IF l.ok = "panic" THEN <<r>> ELSE <<>>
        /\ execLine' = IF l.ok = "yes" THEN l ELSE execLine
        /\ asked' = IF r.type = "exec" /\ Readable(r)
                    THEN [asked EXCEPT !.line = <<r.payload>>] ELSE asked
    BY <1>4, Zenon DEF StartReq, Parsed
  <2> HIDE DEF l
  <2>6. AskTypeOK'
    <3>1. asked' \in AskedRecord
      BY <1>1, <2>5, AskedTyped, Zenon DEF AskInv, AskTypeOK
    <3> QED BY <1>2, <2>4, <2>5, <3>1, Zenon DEF AskInv, AskTypeOK
  <2>7. asked'.pty = asked.pty /\ asked'.env = asked.env /\ asked'.size = asked.size
        /\ asked'.line = IF r.type = "exec" /\ Readable(r) THEN <<r.payload>> ELSE asked.line
    BY <2>5 DEF AskInv, AskTypeOK, AskedRecord
  <2>8. \A i \in 1..Len(fatal') : ~Readable(fatal'[i])
    BY <2>4, <2>5
  <2>9. IF asked'.line = <<>> THEN execLine' \in {NotOk, ShellLine}
        ELSE execLine' \in LineReadings(asked'.line[1])
    <3>1. asked.line = <<>> /\ execLine = NotOk
      BY <1>4, Zenon DEF AskInv
    <3>2. <<r.payload>>[1] = r.payload /\ <<r.payload>> # <<>>
      OBVIOUS
    <3> QED BY <2>3, <2>4, <2>5, <2>7, <3>1, <3>2, Zenon
  <2>10. RequestsReadExactly'
    BY <2>1, <2>8, <2>9, Zenon DEF RequestsReadExactly
  <2>11. NotedAsAsked'
    BY <1>2, <1>4, <2>7, Zenon DEF AskInv, NotedAsAsked
  <2> QED BY <1>2, <2>1, <2>6, <2>7, <2>10, <2>11, Zenon DEF AskInv
<1> QED BY <1>3, <1>4

LEMMA WindowChangeStep ==
  ASSUME SessionInv, AskInv, NEW r \in Requests, WindowChange(r) PROVE AskInv'
<1> DEFINE w == parseWinChReq(r.payload)
<1>1. r.payload \in Payload
  BY SshSessionAssumption
<1>2. Readable(r) <=> Len(r.payload) >= 4 * Width
  BY DEF WindowChange, Readable
<1>3. /\ w.ok = "yes" => /\ Readable(r) /\ GivesSize(r.payload, WindowSize(w.size))
                         /\ WindowSize(w.size) \in [rows : Nat, cols : Nat]
      /\ w.ok # "yes" => ~Readable(r)
  BY <1>1, <1>2, WindowParsed, Zenon
<1> HIDE DEF w
<1>4. /\ loop = "run"
      /\ winsize' = IF child # "none" /\ w.ok = "yes" /\ pty # "closed"
                    THEN WindowSize(w.size) ELSE winsize
      /\ asked' = IF child # "none" /\ Readable(r)
                  THEN [asked EXCEPT !.size = <<r.payload>>] ELSE asked
      /\ UNCHANGED <<loop, started, ptyReq, envVars, execLine, fatal, cmd, child, pty>>
  BY Zenon DEF WindowChange, Take, w
<1>5. AskTypeOK'
  <2>1. asked' \in AskedRecord
    BY <1>1, <1>4, AskedTyped, Zenon DEF AskInv, AskTypeOK
  <2>2. winsize' \in [rows : Nat, cols : Nat]
    BY <1>3, <1>4, Zenon DEF AskInv, AskTypeOK
  <2> QED BY <1>4, <2>1, <2>2, Zenon DEF AskInv, AskTypeOK
<1>6. asked'.pty = asked.pty /\ asked'.line = asked.line /\ asked'.env = asked.env
      /\ asked'.size = IF child # "none" /\ Readable(r) THEN <<r.payload>> ELSE asked.size
  BY <1>4 DEF AskInv, AskTypeOK, AskedRecord
<1>7. child' # "none" => RunsAsAsked'
  <2> SUFFICES ASSUME child # "none" PROVE RunsAsAsked'
    BY <1>4, Zenon
  <2>1. RunsAsAsked
    BY Zenon DEF AskInv, RequestsReadExactly
  <2>2. CASE Readable(r)
    <3>1. <<r.payload>>[1] = r.payload /\ <<r.payload>> # <<>>
      OBVIOUS
    <3>2. asked'.size = <<r.payload>>
      BY <1>6, <2>2, Zenon
    <3>3. pty = "open" => GivesSize(asked'.size[1], winsize')
      <4>1. pty = "open" => winsize' = WindowSize(w.size)
        BY <1>3, <1>4, <2>2
      <4> QED BY <1>3, <2>2, <3>1, <3>2, <4>1, Zenon
    <3> QED BY <1>4, <1>6, <2>1, <3>1, <3>2, <3>3, Zenon DEF RunsAsAsked
  <2>3. CASE ~Readable(r)
    BY <1>3, <1>4, <1>6, <2>1, <2>3, Zenon DEF RunsAsAsked
  <2> QED BY <2>2, <2>3
<1>8. RequestsReadExactly'
  BY <1>4, <1>6, <1>7, Zenon DEF AskInv, RequestsReadExactly
<1>9. NotedAsAsked => NotedAsAsked'
  BY <1>4, <1>6, Zenon DEF NotedAsAsked
<1> QED BY <1>4, <1>5, <1>6, <1>8, <1>9, Zenon DEF AskInv

LEMMA StartShellAsAsked ==
  ASSUME SessionInv, AskInv, StartShell PROVE AskInv'
<1>1. loop = "starting" /\ UNCHANGED askVars
  BY Zenon DEF StartShell
<1>2. NotedAsAsked /\ asked.size = <<>> /\ started
  BY <1>1, Zenon DEF SessionInv, ShellInv, AskInv
<1>3. CASE UNCHANGED <<child, pty, runVars>> /\ loop' = "done"
  BY <1>1, <1>3, OtherSteps, Zenon
<1>4. CASE /\ loop' = "run" /\ child' = "run" /\ pty' = "open"
           /\ cmd' = [env |-> envVars, term |-> IF ptyReq = NotOk THEN <<>> ELSE ptyReq.term]
           /\ winsize' = IF ptyReq = NotOk THEN DefaultSize ELSE WindowSize(ptyReq.size)
  <2> USE DEF askVars
  <2>1. cmd'.env = envVars /\ cmd'.term = IF ptyReq = NotOk THEN <<>> ELSE ptyReq.term
    BY <1>4
  <2>2. CASE asked.pty = <<>>
    <3>1. ptyReq = NotOk /\ cmd'.term = <<>> /\ winsize' = DefaultSize
      BY <1>2, <1>4, <2>1, <2>2, Zenon DEF NotedAsAsked
    <3>2. AskTypeOK'
      <4>1. <<>> \in Seq(Byte) /\ DefaultSize \in [rows : Nat, cols : Nat]
        BY DEF DefaultSize
      <4>2. envVars \in Seq(EnvRecord) /\ cmd' = [env |-> envVars, term |-> <<>>]
        BY <1>4, <3>1, Zenon DEF AskInv, AskTypeOK
      <4>3. cmd' \in [env : Seq(EnvRecord), term : Seq(Byte)]
        BY <4>1, <4>2, CmdTyped, Zenon
      <4> QED BY <1>1, <3>1, <4>1, <4>3, Zenon DEF AskInv, AskTypeOK
    <3>3. RunsAsAsked'
      BY <1>1, <1>2, <2>1, <2>2, <3>1, Zenon DEF NotedAsAsked, RunsAsAsked
    <3>4. RequestsReadExactly'
      BY <1>1, <3>3, Zenon DEF AskInv, RequestsReadExactly
    <3> QED BY <1>1, <1>2, <1>4, <3>2, <3>4, Zenon DEF AskInv
  <2>3. CASE asked.pty # <<>>
    <3>1. /\ ptyReq # NotOk /\ Terminal(asked.pty[1], ptyReq)
          /\ WindowSize(ptyReq.size) \in [rows : Nat, cols : Nat]
      BY <1>2, <2>3, Zenon DEF NotedAsAsked
    <3>2. cmd'.term = ptyReq.term /\ winsize' = WindowSize(ptyReq.size)
      BY <1>4, <2>1, <3>1, Zenon
    <3>3. ptyReq \in PtyRecord /\ envVars \in Seq(EnvRecord)
      BY <3>1, Zenon DEF AskInv, AskTypeOK
    <3>4. cmd' \in [env : Seq(EnvRecord), term : Seq(Byte)]
      BY <1>4, <3>1, <3>3 DEF PtyRecord
    <3>5. AskTypeOK'
      BY <1>1, <3>1, <3>2, <3>4, Zenon DEF AskInv, AskTypeOK
    <3>6. RunsAsAsked'
      BY <1>1, <1>2, <2>1, <2>3, <3>1, <3>2, Zenon DEF NotedAsAsked, RunsAsAsked, Terminal
    <3>7. RequestsReadExactly'
      BY <1>1, <3>6, Zenon DEF AskInv, RequestsReadExactly
    <3> QED BY <1>1, <1>2, <1>4, <3>5, <3>7, Zenon DEF AskInv
  <2> QED BY <2>2, <2>3
<1> QED BY <1>3, <1>4, Zenon DEF StartShell

LEMMA AskStep == SessionInv /\ AskInv /\ [Next]_vars => AskInv'
<1> SUFFICES ASSUME SessionInv, AskInv, [Next]_vars PROVE AskInv'
  OBVIOUS
<1>1. CASE Request
  BY <1>1, PtyReqStep, EnvReqStep, StartReqStep, WindowChangeStep, Zenon DEF Request
<1>2. CASE StartShell
  BY <1>2, StartShellAsAsked, Zenon
<1>3. ASSUME UNCHANGED <<askVars, runVars>>, UNCHANGED child \/ (child # "none" /\ child' # "none"),
             pty' = "open" => pty = "open", loop' = "starting" => loop = "starting"
      PROVE  AskInv'
  BY <1>3, OtherSteps, Zenon
<1>4. CASE SessionEnds
  BY <1>3, <1>4, Zenon DEF SessionEnds
<1> USE DEF still
<1>5. CASE CopyIn
  <2>1. pty' = "open" => pty = "open"
    BY <1>5, Zenon DEF CopyIn, ReadChan, WritePty, Released
  <2> QED BY <1>3, <1>5, <2>1, Zenon DEF CopyIn, ReadChan, WritePty
<1>6. CASE CopyOut
  <2>1. pty' = "open" => pty = "open"
    BY <1>6, Zenon DEF CopyOut, ReadPty, ReadReturns, WriteChan, Released
  <2> QED BY <1>3, <1>6, <2>1, Zenon DEF CopyOut, ReadPty, ReadReturns, WriteChan
<1>7. CASE Waiter
  <2>1. pty' = "open" => pty = "open"
    BY <1>7 DEF Waiter, ClosePty, SecondDone, WaitChild, Report
  <2>2. UNCHANGED child \/ (child # "none" /\ child' # "none")
    BY <1>7 DEF Waiter, ClosePty, SecondDone, WaitChild, Report
  <2> QED BY <1>3, <1>7, <2>1, <2>2, Zenon DEF Waiter, ClosePty, SecondDone, WaitChild, Report
<1>8. CASE Environment
  <2>1. UNCHANGED child \/ (child # "none" /\ child' # "none")
    BY <1>8 DEF Environment, ChildPrints, ChildExits, Type, ClientEnds
  <2> QED BY <1>3, <1>8, <2>1, Zenon DEF Environment, ChildPrints, ChildExits, Type, ClientEnds
<1>9. CASE UNCHANGED vars
  BY <1>3, <1>9, Zenon DEF vars
<1> QED BY <1>1, <1>2, <1>4, <1>5, <1>6, <1>7, <1>8, <1>9, Zenon DEF Next, Server

LEMMA AskInvariant == Spec => []AskInv
BY AskInit, AskStep, SessionInvariant, PTL DEF Spec

\* The variables of SshSession keep their types.
THEOREM SessionTypeCorrect == Spec => []TypeOK
<1>1. SessionInv /\ AskInv => TypeOK
  BY Zenon DEF SessionInv, AskInv, TypeOK
<1> QED BY <1>1, SessionInvariant, AskInvariant, PTL

\* handleSession and startShell give the child what the requests say, for every
\* sequence of requests with every payload: what the parsers take is what the wire
\* format says (ParsersExact), and nothing is lost, added or applied out of turn on
\* the way to the child.  Only a payload with no reading ends the agent.
THEOREM RequestsExact == Spec => []RequestsReadExactly
<1>1. AskInv => RequestsReadExactly
  BY Zenon DEF AskInv
<1> QED BY <1>1, AskInvariant, PTL

-----------------------------------------------------------------------------
(***************************************************************************)
(* SshServer.                                                              *)
(***************************************************************************)
\* The keys of a set.
KeysOf(set) == {k \in Keys : set[k] # None}

\* The two maps of the AuthStore agree whenever the lock is free for readers.
StoreInv ==
  /\ pusher = "idle" => byFingerprint = KeysOf(names)
  /\ pusher = "half" => byFingerprint = KeysOf(fresh)

\* What a handshake knows: the set in force is among those it has seen, what it
\* found under the lock still holds while it has it, and one set gave its name.
ClientInv(c) ==
  /\ conn[c] \in {"handshake", "found", "checked"} => offered[c] \in Keys /\ names \in inForce[c]
  /\ conn[c] = "found" => pusher = "idle" /\ (found[c] => offered[c] \in byFingerprint)
  /\ conn[c] = "checked" =>
       keyName[c] # None /\ \E set \in inForce[c] : set[offered[c]] = keyName[c]

ServerInv == ServerTypeOK /\ StoreInv /\ \A c \in Clients : ClientInv(c)

\* The session of a server is a session as SshSession describes it: a step of the
\* server is one of its steps, a dropped connection included, or leaves it alone.
THEOREM ServerRunsASession == ServerSpec => Spec
<1>1. ServerInit => Init
  BY DEF ServerInit
<1>2. [ServerNext]_allVars => [Next]_vars
  <2> SUFFICES ASSUME [ServerNext]_allVars PROVE Next \/ UNCHANGED vars
    OBVIOUS
  <2>1. CASE InSession(Server) \/ InSession(Environment)
    BY <2>1, Zenon DEF InSession, Next
  <2>2. CASE ReplaceNames \/ AcceptReturns \/ AcceptFails \/ CloseListener
    BY <2>2, Zenon DEF ReplaceNames, AcceptReturns, AcceptFails, CloseListener
  <2>3. CASE \E push \in Pushes : ReplaceKeys(push)
    BY <2>3, Zenon DEF ReplaceKeys
  <2>4. ASSUME NEW c \in Clients, Handshake(c) \/ OpenSession(c) \/ \E k \in Keys : Accept(c, k)
        PROVE  UNCHANGED vars
    BY <2>4, Zenon DEF Handshake, FindKey, FindName, HandshakeDone, OpenSession, Accept
  <2>5. ASSUME NEW c \in Clients, Up, ClientDrops(c) PROVE Next \/ UNCHANGED vars
    <3>1. ClientEnds("closed") \/ UNCHANGED vars
      BY <2>5, Zenon DEF ClientDrops
    <3>2. ClientEnds("closed") => Environment
      BY Zenon DEF Environment
    <3> QED BY <2>5, <3>1, <3>2, Zenon DEF Next
  <2>6. CASE UNCHANGED allVars
    BY <2>6, Zenon DEF allVars
  <2> QED BY <2>1, <2>2, <2>3, <2>4, <2>5, <2>6, Zenon DEF ServerNext, Around
<1> QED BY <1>1, <1>2, PTL DEF ServerSpec, Spec

\* So the server reads requests exactly, and sends an exit status last and after
\* the output, whoever connects and whatever is pushed meanwhile.
THEOREM ServerKeepsSession ==
  ServerSpec => [](StatusIsFinal /\ OutputBeforeStatus /\ RequestsReadExactly)
BY ServerRunsASession, StatusLast, OutputFirst, RequestsExact, PTL

LEMMA ServerInitHolds == ServerInit => ServerInv
<1> SUFFICES ASSUME ServerInit PROVE ServerInv
  OBVIOUS
<1>1. ServerTypeOK
  <2>1. /\ names \in [Keys -> KeyNames \cup {None}] /\ fresh \in [Keys -> KeyNames \cup {None}]
        /\ offered \in [Clients -> Keys \cup {None}] /\ keyName \in [Clients -> KeyNames \cup {None}]
        /\ inForce \in [Clients -> SUBSET [Keys -> KeyNames \cup {None}]]
    BY DEF ServerInit, NoKeys
  <2>2. found \in [Clients -> BOOLEAN]
    BY Zenon DEF ServerInit
  <2>3. /\ conn \in [Clients -> {"none", "handshake", "found", "checked", "up", "gone"}]
        /\ pushed \in 0..MaxPushes
    BY SshServerAssumption DEF ServerInit
  <2> QED BY <2>1, <2>2, <2>3, Zenon DEF ServerInit, ServerTypeOK
<1>2. StoreInv
  BY DEF ServerInit, StoreInv, KeysOf, NoKeys
<1>3. \A c \in Clients : ClientInv(c)
  BY DEF ServerInit, ClientInv
<1> QED BY <1>1, <1>2, <1>3 DEF ServerInv

LEMMA EntryTyped ==
  ASSUME NEW S, NEW T, NEW f \in [S -> T], NEW c \in S, NEW v \in T
  PROVE  [f EXCEPT ![c] = v] \in [S -> T]
OBVIOUS

LEMMA ServerTyped == ServerInv /\ [ServerNext]_allVars => ServerTypeOK'
<1> SUFFICES ASSUME ServerInv, [ServerNext]_allVars PROVE ServerTypeOK'
  OBVIOUS
<1> USE DEF ServerInv, ServerTypeOK, storeVars, authVars, connVars
<1>1. CASE InSession(Server) \/ InSession(Environment)
  BY <1>1, Zenon DEF InSession
<1>2. CASE ReplaceNames
  <2>1. /\ pusher' = "idle" /\ names' = fresh /\ fresh' = NoKeys
        /\ UNCHANGED <<byFingerprint, pushed, listener, accept, conn, offered, found, keyName, owner>>
    BY <1>2, Zenon DEF ReplaceNames
  <2>2. /\ inForce' \in [Clients -> SUBSET [Keys -> KeyNames \cup {None}]]
        /\ fresh' \in [Keys -> KeyNames \cup {None}]
    BY <1>2 DEF ReplaceNames, NoKeys
  <2> QED BY <2>1, <2>2, Zenon
<1>3. CASE AcceptReturns \/ AcceptFails \/ CloseListener
  BY <1>3, Zenon DEF AcceptReturns, AcceptFails, CloseListener
<1>4. ASSUME NEW push \in Pushes, ReplaceKeys(push) PROVE ServerTypeOK'
  <2>1. /\ pusher' = "half" /\ fresh' = push /\ byFingerprint' = {k \in Keys : push[k] # None}
        /\ UNCHANGED <<names, listener, accept, conn, offered, found, keyName, inForce, owner>>
    BY <1>4, Zenon DEF ReplaceKeys
  <2>2. pushed' \in 0..MaxPushes
    <3>1. pushed \in 0..MaxPushes /\ pushed < MaxPushes /\ pushed' = pushed + 1 /\ MaxPushes \in Nat
      BY <1>4, SshServerAssumption, Zenon DEF ReplaceKeys
    <3> HIDE DEF ServerInv, ServerTypeOK
    <3> QED BY <3>1
  <2>3. push \in [Keys -> KeyNames \cup {None}]
    BY SshServerAssumption, Zenon
  <2> QED BY <2>1, <2>2, <2>3, Zenon
<1>5. ASSUME NEW c \in Clients, FindKey(c) PROVE ServerTypeOK'
  <2>1. found' \in [Clients -> BOOLEAN]
    <3>1. (offered[c] \in byFingerprint) \in BOOLEAN
      OBVIOUS
    <3> QED BY <1>5, <3>1, EntryTyped, Zenon DEF FindKey
  <2>2. conn' \in [Clients -> {"none", "handshake", "found", "checked", "up", "gone"}]
    BY <1>5, Zenon DEF FindKey
  <2> QED BY <1>5, <2>1, <2>2, Zenon DEF FindKey
<1>6. ASSUME NEW c \in Clients, FindName(c) PROVE ServerTypeOK'
  <2>1. CASE found[c]
    <3>1. offered[c] \in Keys
      BY <1>6, <2>1, Zenon DEF FindName, ClientInv
    <3>2. /\ conn' \in [Clients -> {"none", "handshake", "found", "checked", "up", "gone"}]
          /\ keyName' \in [Clients -> KeyNames \cup {None}]
      <4>1. names[offered[c]] \in KeyNames \cup {None}
        BY <3>1, Zenon
      <4> QED BY <1>6, <2>1, <4>1, EntryTyped, Zenon DEF FindName
    <3> QED BY <1>6, <2>1, <3>2, Zenon DEF FindName
  <2>2. CASE ~found[c]
    BY <1>6, <2>2, Zenon DEF FindName, Gone
  <2> QED BY <2>1, <2>2
<1>7. ASSUME NEW c \in Clients, HandshakeDone(c) \/ OpenSession(c) PROVE ServerTypeOK'
  <2>1. CASE HandshakeDone(c)
    <3>1. /\ conn' \in [Clients -> {"none", "handshake", "found", "checked", "up", "gone"}]
          /\ offered' \in [Clients -> Keys \cup {None}]
          /\ inForce' \in [Clients -> SUBSET [Keys -> KeyNames \cup {None}]]
      BY <2>1 DEF HandshakeDone
    <3>2. found' \in [Clients -> BOOLEAN]
      BY <2>1, Zenon DEF HandshakeDone
    <3> QED BY <2>1, <3>1, <3>2, Zenon DEF HandshakeDone
  <2>2. CASE OpenSession(c)
    BY <2>2, Zenon DEF OpenSession
  <2> QED BY <1>7, <2>1, <2>2
<1>8. ASSUME NEW c \in Clients, ClientDrops(c) PROVE ServerTypeOK'
  <2>1. /\ conn' \in [Clients -> {"none", "handshake", "found", "checked", "up", "gone"}]
        /\ offered' \in [Clients -> Keys \cup {None}] /\ keyName' \in [Clients -> KeyNames \cup {None}]
        /\ inForce' \in [Clients -> SUBSET [Keys -> KeyNames \cup {None}]]
    BY <1>8 DEF ClientDrops, Gone
  <2>2. found' \in [Clients -> BOOLEAN]
    BY <1>8, Zenon DEF ClientDrops, Gone
  <2> QED BY <1>8, <2>1, <2>2, Zenon DEF ClientDrops
<1>9. ASSUME NEW c \in Clients, NEW k \in Keys, Accept(c, k) PROVE ServerTypeOK'
  <2>1. /\ conn' \in [Clients -> {"none", "handshake", "found", "checked", "up", "gone"}]
        /\ offered' \in [Clients -> Keys \cup {None}]
        /\ inForce' \in [Clients -> SUBSET [Keys -> KeyNames \cup {None}]]
    BY <1>9 DEF Accept
  <2> QED BY <1>9, <2>1, Zenon DEF Accept
<1>10. CASE UNCHANGED allVars
  BY <1>10, Zenon DEF allVars
<1> QED BY <1>1, <1>2, <1>3, <1>4, <1>5, <1>6, <1>7, <1>8, <1>9, <1>10, Zenon
         DEF ServerNext, Around, Handshake

LEMMA StorePreserved == ServerInv /\ [ServerNext]_allVars => StoreInv'
<1> SUFFICES ASSUME ServerInv, [ServerNext]_allVars PROVE StoreInv'
  OBVIOUS
<1> USE SshServerAssumption DEF ServerInv, StoreInv, storeVars, KeysOf
<1>1. CASE ReplaceNames
  BY <1>1, Zenon DEF ReplaceNames
<1>2. ASSUME NEW push \in Pushes, ReplaceKeys(push) PROVE StoreInv'
  BY <1>2, Zenon DEF ReplaceKeys
<1>3. CASE UNCHANGED storeVars
  BY <1>3, Zenon
<1>4. ASSUME NEW c \in Clients,
             Handshake(c) \/ OpenSession(c) \/ ClientDrops(c) \/ \E k \in Keys : Accept(c, k)
      PROVE  UNCHANGED storeVars
  BY <1>4, Zenon DEF Handshake, FindKey, FindName, HandshakeDone, OpenSession, ClientDrops, Accept
<1>5. CASE InSession(Server) \/ InSession(Environment) \/ AcceptReturns \/ AcceptFails
           \/ CloseListener \/ UNCHANGED allVars
  BY <1>3, <1>5, Zenon DEF InSession, AcceptReturns, AcceptFails, CloseListener, allVars
<1> QED BY <1>1, <1>2, <1>3, <1>4, <1>5, Zenon DEF ServerNext, Around

\* A step that touches neither the handshake of a client nor the store.
LEMMA OtherClients ==
  ASSUME ServerInv, UNCHANGED storeVars, NEW c \in Clients,
         conn'[c] = conn[c], offered'[c] = offered[c], found'[c] = found[c],
         keyName'[c] = keyName[c], inForce'[c] = inForce[c]
  PROVE  ClientInv(c)'
  BY Zenon DEF ServerInv, ClientInv, storeVars

LEMMA ClientPreserved == ServerInv /\ [ServerNext]_allVars => (\A c \in Clients : ClientInv(c))'
<1> SUFFICES ASSUME ServerInv, [ServerNext]_allVars, NEW c \in Clients PROVE ClientInv(c)'
  OBVIOUS
<1> USE DEF storeVars, authVars, connVars
<1>1. CASE ReplaceNames
  BY <1>1 DEF ReplaceNames, ServerInv, ServerTypeOK, ClientInv, InHandshake
<1>2. ASSUME NEW push \in Pushes, ReplaceKeys(push) PROVE ClientInv(c)'
  BY <1>2 DEF ReplaceKeys, ServerInv, ServerTypeOK, ClientInv, Readers
<1>3. ASSUME NEW d \in Clients, FindKey(d) PROVE ClientInv(c)'
  <2>1. CASE d # c
    BY <1>3, <2>1, OtherClients DEF FindKey, ServerInv, ServerTypeOK
  <2>2. CASE d = c
    BY <1>3, <2>2, Zenon DEF FindKey, ServerInv, ServerTypeOK, ClientInv
  <2> QED BY <2>1, <2>2
<1>4. ASSUME NEW d \in Clients, FindName(d) PROVE ClientInv(c)'
  <2>1. CASE d # c
    BY <1>4, <2>1, OtherClients DEF FindName, Gone, ServerInv, ServerTypeOK
  <2>2. CASE d = c
    <3>1. CASE found[d]
      <4>1. keyName'[c] = names[offered[c]] /\ names[offered[c]] # None
        BY <1>4, <2>2, <3>1 DEF FindName, ServerInv, ServerTypeOK, ClientInv, StoreInv, KeysOf
      <4> QED BY <1>4, <2>2, <3>1, <4>1 DEF FindName, ServerInv, ServerTypeOK, ClientInv
    <3>2. CASE ~found[d]
      <4>1. conn'[c] = "gone" /\ keyName'[c] = None /\ offered'[c] = None /\ inForce'[c] = {}
        BY <1>4, <2>2, <3>2 DEF FindName, Gone, ServerInv, ServerTypeOK
      <4> QED BY <4>1, Zenon DEF ClientInv
    <3> QED BY <3>1, <3>2
  <2> QED BY <2>1, <2>2
<1>5. ASSUME NEW d \in Clients, HandshakeDone(d) \/ ClientDrops(d) PROVE ClientInv(c)'
  <2>1. CASE d # c
    BY <1>5, <2>1, OtherClients DEF HandshakeDone, ClientDrops, Gone, ServerInv, ServerTypeOK
  <2>2. CASE d = c
    BY <1>5, <2>2 DEF HandshakeDone, ClientDrops, Gone, ServerInv, ServerTypeOK, ClientInv
  <2> QED BY <2>1, <2>2
<1>6. ASSUME NEW d \in Clients, NEW k \in Keys, Accept(d, k) PROVE ClientInv(c)'
  <2>1. CASE d # c
    BY <1>6, <2>1, OtherClients DEF Accept, ServerInv, ServerTypeOK
  <2>2. CASE d = c
    BY <1>6, <2>2 DEF Accept, ServerInv, ServerTypeOK, ClientInv
  <2> QED BY <2>1, <2>2
<1>7. ASSUME UNCHANGED <<storeVars, authVars>> PROVE ClientInv(c)'
  BY <1>7, OtherClients, Zenon
<1>8. CASE InSession(Server) \/ InSession(Environment) \/ AcceptReturns \/ AcceptFails
           \/ CloseListener \/ (\E d \in Clients : OpenSession(d)) \/ UNCHANGED allVars
  <2>1. UNCHANGED <<storeVars, authVars>>
    BY <1>8, Zenon DEF InSession, AcceptReturns, AcceptFails, CloseListener, OpenSession, allVars
  <2> QED BY <1>7, <2>1, Zenon
<1> QED BY <1>1, <1>2, <1>3, <1>4, <1>5, <1>6, <1>8, Zenon DEF ServerNext, Around, Handshake

LEMMA ServerInvariant == ServerSpec => []ServerInv
<1>1. ServerInv /\ [ServerNext]_allVars => ServerInv'
  BY ServerTyped, StorePreserved, ClientPreserved, Zenon DEF ServerInv
<1> QED BY <1>1, ServerInitHolds, PTL DEF ServerSpec

\* The variables of SshServer keep their types.
THEOREM ServerTypeCorrect == ServerSpec => []ServerTypeOK
<1>1. ServerInv => ServerTypeOK
  BY DEF ServerInv
<1> QED BY <1>1, ServerInvariant, PTL

\* AuthStore.Authorize answers from one set, in force during the handshake: for
\* any number of clients and pushes, and any sets of keys.
THEOREM OneSetLetsIn == ServerSpec => []LetInByOneSet
<1>1. ServerInv => LetInByOneSet
  BY Zenon DEF ServerInv, ClientInv, LetInByOneSet
<1> QED BY <1>1, ServerInvariant, PTL

=============================================================================
