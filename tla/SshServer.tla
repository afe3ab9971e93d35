----------------------------- MODULE SshServer -----------------------------
(***************************************************************************)
(* The embedded SSH server around its sessions: the accept loop, the       *)
(* handshake of every connection with AuthStore.Authorize in it, a pusher  *)
(* that replaces the store meanwhile, and one session, of the first        *)
(* connection to open one, as in SshSession.  The store is two maps behind *)
(* a read-write lock; each access to one of them is a step.                *)
(***************************************************************************)
EXTENDS SshSession

CONSTANTS Clients, Keys,
          KeyNames,  \* comments of keys
          None,
          Pushes,    \* the key sets that are pushed: key -> comment or None
          MaxPushes  \* bound: pushes

ASSUME SshServerAssumption == Pushes \subseteq [Keys -> KeyNames \cup {None}] /\ MaxPushes \in Nat

VARIABLES
  listener,       \* "open", "closed"
  accept,         \* Serve: "loop", "returned"
  conn,           \* per client: "none", "handshake", "found" (in Authorize, lock
                  \* held), "checked", "up", "gone"
  offered,        \* the key the client authenticates with
  found,          \* Authorize's locals: is the key in byFingerprint,
  keyName,        \*   its name, later the connection's
  byFingerprint, names,  \* the AuthStore
  pusher,         \* Replace: "idle", "half" (lock held, one map assigned)
  fresh,          \* its new set
  pushed,         \* bound: pushes so far
  inForce,        \* history: the sets in force since the client's handshake began
  owner           \* the client whose session is modelled, or None

storeVars == <<byFingerprint, names, pusher, fresh, pushed>>
authVars  == <<conn, offered, found, keyName, inForce>>
connVars  == <<listener, accept, authVars, owner>>
allVars   == <<vars, storeVars, connVars>>

ServerTypeOK ==
  /\ listener \in {"open", "closed"} /\ accept \in {"loop", "returned"}
  /\ conn \in [Clients -> {"none", "handshake", "found", "checked", "up", "gone"}]
  /\ offered \in [Clients -> Keys \cup {None}] /\ found \in [Clients -> BOOLEAN]
  /\ keyName \in [Clients -> KeyNames \cup {None}]
  /\ byFingerprint \subseteq Keys /\ names \in [Keys -> KeyNames \cup {None}]
  /\ pusher \in {"idle", "half"} /\ fresh \in [Keys -> KeyNames \cup {None}]
  /\ pushed \in 0..MaxPushes /\ inForce \in [Clients -> SUBSET [Keys -> KeyNames \cup {None}]]
  /\ owner \in Clients \cup {None}

NoKeys == [k \in Keys |-> None]

ServerInit ==
  /\ Init
  /\ listener = "open" /\ accept = "loop"
  /\ conn = [c \in Clients |-> "none"] /\ offered = [c \in Clients |-> None]
  /\ found = [c \in Clients |-> FALSE] /\ keyName = [c \in Clients |-> None]
  /\ byFingerprint = {} /\ names = NoKeys /\ pusher = "idle" /\ fresh = NoKeys /\ pushed = 0
  /\ inForce = [c \in Clients |-> {}] /\ owner = None

(***************************************************************************)
(* AuthStore.Replace.  The maps are built before the lock is taken.        *)
(***************************************************************************)
Readers == {c \in Clients : conn[c] = "found"}

InHandshake == {c \in Clients : conn[c] \in {"handshake", "found", "checked"}}

ReplaceKeys(push) ==
  /\ pusher = "idle" /\ Readers = {} /\ pushed < MaxPushes
  /\ pusher' = "half" /\ fresh' = push /\ pushed' = pushed + 1
  /\ byFingerprint' = {k \in Keys : push[k] # None}
  /\ UNCHANGED <<vars, names, connVars>>

ReplaceNames ==
  /\ pusher = "half"
  /\ pusher' = "idle" /\ names' = fresh /\ fresh' = NoKeys
  /\ inForce' = [c \in Clients |-> IF c \in InHandshake THEN inForce[c] \cup {fresh} ELSE {}]
  /\ UNCHANGED <<vars, byFingerprint, pushed, listener, accept, conn, offered, found,
                 keyName, owner>>

(***************************************************************************)
(* Serve and handleConn.  When handleConn returns its locals go.           *)
(***************************************************************************)
Gone(c) ==
  /\ conn' = [conn EXCEPT ![c] = "gone"] /\ offered' = [offered EXCEPT ![c] = None]
  /\ found' = [found EXCEPT ![c] = FALSE] /\ keyName' = [keyName EXCEPT ![c] = None]
  /\ inForce' = [inForce EXCEPT ![c] = {}]

\* ln.Accept; while a push is half done, the set it replaces still counts.
Accept(c, k) ==
  /\ listener = "open" /\ accept = "loop" /\ conn[c] = "none"
  /\ conn' = [conn EXCEPT ![c] = "handshake"] /\ offered' = [offered EXCEPT ![c] = k]
  /\ inForce' = [inForce EXCEPT ![c] = {names}]
  /\ UNCHANGED <<vars, storeVars, listener, accept, found, keyName, owner>>

\* Any error of Accept ends the loop; a closed listener is one.
AcceptReturns ==
  /\ listener = "closed" /\ accept = "loop"
  /\ accept' = "returned"
  /\ UNCHANGED <<vars, storeVars, listener, authVars, owner>>

AcceptFails ==
  /\ listener = "open" /\ accept = "loop"
  /\ accept' = "returned"
  /\ UNCHANGED <<vars, storeVars, listener, authVars, owner>>

CloseListener ==
  /\ listener = "open" /\ listener' = "closed"
  /\ UNCHANGED <<vars, storeVars, accept, authVars, owner>>

\* Faulty variant: Authorize does not take the lock.
FindKeyUnlocked(c) ==
  /\ conn[c] = "handshake"
  /\ conn' = [conn EXCEPT ![c] = "found"]
  /\ found' = [found EXCEPT ![c] = offered[c] \in byFingerprint]
  /\ UNCHANGED <<vars, storeVars, listener, accept, offered, keyName, inForce, owner>>

\* Authorize: under the read lock, the key,
FindKey(c) ==
  /\ conn[c] = "handshake" /\ pusher # "half"
  /\ conn' = [conn EXCEPT ![c] = "found"]
  /\ found' = [found EXCEPT ![c] = offered[c] \in byFingerprint]
  /\ UNCHANGED <<vars, storeVars, listener, accept, offered, keyName, inForce, owner>>

\* and its name.
FindName(c) ==
  /\ conn[c] = "found"
  /\ IF found[c]
     THEN /\ conn' = [conn EXCEPT ![c] = "checked"]
          /\ keyName' = [keyName EXCEPT ![c] = names[offered[c]]]
          /\ UNCHANGED <<offered, found, inForce>>
     ELSE Gone(c)
  /\ UNCHANGED <<vars, storeVars, listener, accept, owner>>

\* The client proves that it has the key; of the handshake only the name is left.
HandshakeDone(c) ==
  /\ conn[c] = "checked"
  /\ conn' = [conn EXCEPT ![c] = "up"] /\ offered' = [offered EXCEPT ![c] = None]
  /\ found' = [found EXCEPT ![c] = FALSE] /\ inForce' = [inForce EXCEPT ![c] = {}]
  /\ UNCHANGED <<vars, storeVars, listener, accept, keyName, owner>>

OpenSession(c) ==
  /\ conn[c] = "up" /\ owner = None
  /\ owner' = c
  /\ UNCHANGED <<vars, storeVars, listener, accept, authVars>>

\* The connection drops; its session's channel is closed with it.
ClientDrops(c) ==
  /\ conn[c] \in {"handshake", "checked", "up"}
  /\ Gone(c)
  /\ IF owner = c /\ chan # "closed" THEN ClientEnds("closed") ELSE UNCHANGED vars
  /\ UNCHANGED <<storeVars, listener, accept, owner>>

\* A step of the session or of its client.
InSession(step) == owner # None /\ Up /\ step /\ UNCHANGED <<storeVars, connVars>>

Handshake(c) == FindKey(c) \/ FindName(c) \/ HandshakeDone(c)

Around ==
  \/ ReplaceNames \/ AcceptReturns \/ AcceptFails \/ CloseListener
  \/ \E push \in Pushes : ReplaceKeys(push)
  \/ \E c \in Clients : \/ Handshake(c) \/ OpenSession(c) \/ ClientDrops(c)
                        \/ \E k \in Keys : Accept(c, k)

ServerNext == InSession(Server) \/ InSession(Environment) \/ (Up /\ Around)

ServerSpec == ServerInit /\ [][ServerNext]_allVars

\* What SshSession's FairSpec assumes of the session; nothing is assumed of the rest.
FairServerSpec ==
  /\ ServerSpec
  /\ WF_allVars(InSession(StartShell)) /\ WF_allVars(InSession(SessionEnds))
  /\ WF_allVars(InSession(CopyInGoesOn)) /\ WF_allVars(InSession(CopyOutGoesOn))
  /\ WF_allVars(InSession(Waiter)) /\ WF_allVars(InSession(HangUp))

-----------------------------------------------------------------------------
(***************************************************************************)
(* Properties.                                                             *)
(***************************************************************************)
\* "concurrent Authorize calls either see the old or the new set, never a
\* partial mix": a client is let in with a key and a name that one set, in
\* force at some moment of its handshake, gives together; a key that was
\* withdrawn before the handshake began is refused.
LetInByOneSet ==
  \A c \in Clients : conn[c] = "checked" =>
    keyName[c] # None /\ \E set \in inForce[c] : set[offered[c]] = keyName[c]
=============================================================================
