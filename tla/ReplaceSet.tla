---------------------------- MODULE ReplaceSet ----------------------------
(***************************************************************************)
(* What the agent promises of state that is "pushed whole": the publisher  *)
(* sends the complete set of named items, and the agent replaces what the  *)
(* guest has by it, item by item.  Readers look at the items at any time.  *)
(*                                                                         *)
(* The properties subscriber (PropertyTree) and the container reconciler   *)
(* (Containers) implement this specification.                              *)
(***************************************************************************)
CONSTANTS Names,   \* of the items
          Values,  \* what an item can be
          None     \* no item under that name

VARIABLES want,    \* the set accepted last
          have,    \* what a reader finds
          base,    \* while a set is applied: the set in force before, if the
                   \* agent reported that it was
          lost,    \* names the agent does not answer for: the item went by
                   \* itself, putting it there failed and was reported, or it
                   \* stayed unnoticed
          status   \* of the set accepted last

vars == <<want, have, base, lost, status>>

Sets  == [Names -> Values \cup {None}]
Empty == [n \in Names |-> None]
Busy  == status \in {"applying", "failing"}

Init ==
  /\ want = Empty /\ base = Empty /\ have \in Sets /\ lost \in SUBSET Names
  /\ status = "idle"

Accept ==
  /\ ~Busy
  /\ want' \in Sets /\ status' = "applying"
  /\ base' = IF status = "applied" THEN want ELSE Empty
  /\ UNCHANGED <<have, lost>>

\* The item is in the set that was in force and in the new one, unchanged.
Kept(n) == base[n] = want[n] /\ want[n] # None

\* An item only ever becomes what the set says, or nothing; an item that was
\* in force and stays the same is not touched.
Replace(n) ==
  /\ Busy /\ ~Kept(n)
  /\ \E v \in {None, want[n]} : have' = [have EXCEPT ![n] = v]
  /\ lost' \in {lost, lost \ {n}}
  /\ UNCHANGED <<want, base, status>>

\* An item could not be replaced: the set will be reported as failed.
Miss(n) ==
  /\ Busy /\ ~Kept(n)
  /\ status' = "failing" /\ lost' = lost \cup {n}
  /\ UNCHANGED <<want, have, base>>

\* An item that was to be replaced stays, and that goes unnoticed.
Stay(n) ==
  /\ Busy /\ ~Kept(n)
  /\ lost' = lost \cup {n}
  /\ UNCHANGED <<want, have, base, status>>

\* Success is reported only when the guest has what was asked for.
Succeed ==
  /\ status = "applying"
  /\ \A n \in Names \ lost : have[n] = want[n]
  /\ status' = "applied" /\ base' = Empty
  /\ UNCHANGED <<want, have, lost>>

Fail ==
  /\ Busy
  /\ status' = "failed" /\ base' = Empty
  /\ UNCHANGED <<want, have, lost>>

\* An item goes by itself.
Lose(n) ==
  /\ have' = [have EXCEPT ![n] = None] /\ lost' = lost \cup {n}
  /\ UNCHANGED <<want, base, status>>

\* The agent ends and forgets; the items stay, or go with the guest.
Restart ==
  /\ want' = Empty /\ base' = Empty /\ status' = "idle" /\ lost' \in SUBSET Names
  /\ have' \in {have, Empty}

Next ==
  \/ Accept \/ Succeed \/ Fail \/ Restart
  \/ \E n \in Names : Replace(n) \/ Miss(n) \/ Stay(n) \/ Lose(n)

Spec == Init /\ [][Next]_vars
=============================================================================
