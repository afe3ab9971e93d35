---------------------------- MODULE MCSshServer ----------------------------
(***************************************************************************)
(* Two keys that change hands, and requests over a byte of four values and *)
(* numbers of two bytes.                                                   *)
(***************************************************************************)
EXTENDS SshServer, TLC

\* One key; or both, the first under another name.
MCPushes == {("k1" :> "ann" @@ "k2" :> None), ("k1" :> "bob" @@ "k2" :> "ann")}

\* The session shares no variable with the store and the listener, so it is
\* opened only when these have come to one of their ends.
SessionLast ==
  owner' # owner =>
    /\ accept = "returned" /\ listener = "closed"
    /\ pushed = MaxPushes /\ pusher = "idle" /\ byFingerprint = Keys

Of(type, payloads) == {[type |-> type, payload |-> p] : p \in payloads}

\* Two columns, and seven rows, of which half a number holds three.
Window == <<0, 2, 1, 3, 0, 0, 0, 0>>

\* Of every type: a payload that can be read; one that is cut short, between two
\* strings or in one; and a length that wraps, at the start and after a string.
MCRequests ==
  Of("shell", {<<>>})
  \cup Of("exec", {<<0, 1, 2>>, <<0, 2, 1>>, <<3, 3>>})
  \cup Of("env", {<<0, 0, 0, 1, 3>>, <<0, 1, 1>>, <<0, 2, 1>>, <<0, 0, 3, 3>>})
  \cup Of("pty-req", {<<0, 1, 1>> \o Window, <<0, 1, 1, 0>>})
  \cup Of("window-change", {Window, <<0, 1>>})
=============================================================================
