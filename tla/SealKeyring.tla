----------------------------- MODULE SealKeyring -----------------------------
(***************************************************************************)
(* The rotation of the OpenBao seal key: scripts/keyring.sh (rotate,       *)
(* retire) on the operator's keyring file, keyring-to-cluster.sh, and the  *)
(* start command of the openbao container, which writes the seal stanza.   *)
(*                                                                         *)
(* OpenBao keeps several wrapped entries under core/hsm.  Each holds the   *)
(* id of the key that wrapped it; the static seal unwraps an entry with    *)
(* the key of that id, and wraps again, one entry after the other, what is *)
(* not under the current key.  A store from an earlier chart has the fixed *)
(* id LEGACY.                                                              *)
(***************************************************************************)
CONSTANTS SealKeys,    \* the values OPENBAO_SEAL_KEY takes
          Entries      \* the wrapped entries of core/hsm

VARIABLES keyring,   \* the file: [key, previous]
          made,      \* the keys generated so far
          secret,    \* the same members in the Secret bringup-keyring
          mounted,   \* the files of the pod's volume
          wrapped,   \* for each entry [id, key]
          seal,      \* the stanza of the running container, and the files it names
          server,    \* "down", "configured", "starting", "unsealed" or "sealed"
          hasty      \* the keys that were retired before the cluster had left them

NONE == "none"
LEGACY == "bringup-keyring"

seal_id(k) == <<"keyring", k>>
legacy_id == <<LEGACY, NONE>>
no_id == <<NONE, NONE>>
Wrap(id, k) == [id |-> id, key |-> k]

-----------------------------------------------------------------------------
(* keyring.sh                                                              *)

\* Mutant: a rotation does not look for a previous key.
RotateAgain(k) ==
    /\ k \notin made /\ made' = made \cup {k}
    /\ keyring' = [key |-> k, previous |-> keyring.key]
    /\ UNCHANGED <<secret, mounted, wrapped, seal, server, hasty>>

\* cmd_rotate
Rotate(k) ==
    /\ keyring.previous = NONE
    /\ k \notin made /\ made' = made \cup {k}
    /\ keyring' = [key |-> k, previous |-> keyring.key]
    /\ UNCHANGED <<secret, mounted, wrapped, seal, server, hasty>>

\* Step 3 of the header tells the operator to wait until OpenBao runs unsealed
\* on the new key.
Left == server = "unsealed" /\ seal.current.key = keyring.key

\* cmd_retire.  The command itself does not ask the cluster.
Retire ==
    /\ keyring.previous # NONE
    /\ keyring' = [keyring EXCEPT !.previous = NONE]
    /\ hasty' = IF Left THEN hasty ELSE hasty \cup {keyring.previous}
    /\ UNCHANGED <<made, secret, mounted, wrapped, seal, server>>

(* keyring-to-cluster.sh: both members in one server-side apply. *)
ToCluster ==
    /\ secret # keyring /\ secret' = keyring
    /\ UNCHANGED <<keyring, made, mounted, wrapped, seal, server, hasty>>

-----------------------------------------------------------------------------
(* The openbao container.                                                  *)

\* Mutant: the legacy id always goes to the current key.
stanza_legacy_current(files) ==
    LET legacy == \E e \in Entries : wrapped[e].id = legacy_id
    IN [current |-> Wrap(IF legacy THEN legacy_id ELSE seal_id(files.key), files.key),
        previous |-> Wrap(IF files.previous = NONE THEN no_id ELSE seal_id(files.previous), files.previous),
        from |-> files]

\* The start command: the ids follow the keys, and a key that wrapped a
\* legacy store keeps the legacy id.
stanza(files) ==
    LET legacy == \E e \in Entries : wrapped[e].id = legacy_id
        rotating == files.previous # NONE
    IN [current |-> Wrap(IF legacy /\ ~rotating THEN legacy_id ELSE seal_id(files.key), files.key),
        previous |-> Wrap(IF ~rotating THEN no_id
                          ELSE IF legacy THEN legacy_id ELSE seal_id(files.previous), files.previous),
        from |-> files]

\* The start command hashes the files and writes the stanza, which names them.
StartServer ==
    /\ server = "down"
    /\ seal' = stanza(mounted) /\ server' = "configured"
    /\ UNCHANGED <<keyring, made, secret, mounted, wrapped, hasty>>

\* bao reads the keys from the files of that moment.
ReadKeys ==
    /\ server = "configured" /\ server' = "starting"
    /\ seal' = [current |-> Wrap(seal.current.id, mounted.key),
                previous |-> Wrap(seal.previous.id,
                                  IF seal.previous.id = no_id THEN NONE ELSE mounted.previous),
                from |-> seal.from]
    /\ UNCHANGED <<keyring, made, secret, mounted, wrapped, hasty>>

\* The kubelet refreshed the volume between the two.
Torn == seal.current.key # seal.from.key

\* The static seal finds the key of each entry by its id.
Opens(s, w) == w \in {s.current, s.previous}

\* Each step of a start opens every entry or none, and wraps one of them with
\* the current key; the server is unsealed when no other key wraps one.
Unwrap ==
    LET open == \A e \in Entries : Opens(seal, wrapped[e])
        old == {e \in Entries : wrapped[e] # seal.current}
    IN /\ server = "starting"
       /\ wrapped' \in IF ~open \/ old = {} THEN {wrapped}
                       ELSE {[wrapped EXCEPT ![e] = seal.current] : e \in old}
       /\ server' = IF ~open THEN "sealed" ELSE IF old = {} THEN "unsealed" ELSE "starting"
       /\ UNCHANGED <<keyring, made, secret, mounted, seal, hasty>>

\* The container stops at any moment and starts again on the same volume.
ServerStops ==
    /\ server # "down" /\ server' = "down"
    /\ UNCHANGED <<keyring, made, secret, mounted, wrapped, seal, hasty>>

\* The kubelet refreshes the volume, at once for a new pod.
Project ==
    /\ mounted # secret /\ mounted' = secret
    /\ UNCHANGED <<keyring, made, secret, wrapped, seal, server, hasty>>

-----------------------------------------------------------------------------
(* A store that runs, of this chart or of an earlier one. *)
SealInit ==
    \E k \in SealKeys, id \in {"new", "legacy"} :
        /\ keyring = [key |-> k, previous |-> NONE]
        /\ made = {k} /\ secret = keyring /\ mounted = keyring
        /\ wrapped = [e \in Entries |-> Wrap(IF id = "new" THEN seal_id(k) ELSE legacy_id, k)]
        /\ seal = stanza(mounted) /\ server = "down" /\ hasty = {}

SealNext == \/ \E k \in SealKeys : Rotate(k)
            \/ Retire \/ ToCluster
            \/ StartServer \/ ReadKeys \/ Unwrap \/ ServerStops \/ Project

-----------------------------------------------------------------------------
\* While the operator retires no key that the cluster still runs on, which
\* keyring.sh leaves to step 3 of its header: the keyring file, the Secret and
\* the mounted files each open every entry at every moment, so that a pod, a
\* new pod and a new cluster of the same keyring can start; and the store is
\* sealed only where the volume changed between the hash of a key and bao's
\* read of it, until the next start (the seal stanza of
\* openbao-deployment.yaml).
StoreOpens == hasty = {} =>
    /\ server = "sealed" => Torn
    /\ \A files \in {keyring, secret, mounted}, e \in Entries : Opens(stanza(files), wrapped[e])

-----------------------------------------------------------------------------
(* Why the store opens.  Old is the key the cluster may still run on, and  *)
(* id the id it has in the store: its own, or the legacy one until the     *)
(* first rotation is over.                                                 *)

Old == IF keyring.previous = NONE THEN keyring.key ELSE keyring.previous
OldWrap(id) == Wrap(id, Old)
NewWrap == Wrap(seal_id(keyring.key), keyring.key)
AllOld(id) == \A e \in Entries : wrapped[e] = OldWrap(id)

(* The files of the time before the rotation.                              *)
Behind(f, id) == f.key = Old /\ f.previous # Old /\ (id = legacy_id => f.previous = NONE)

(* The files reach the pod in order, and only a pod with the new ones      *)
(* wraps an entry with the new key.                                        *)
FilesFollow(id) ==
    /\ Behind(secret, id) \/ secret = keyring
    /\ Behind(mounted, id) \/ (mounted = keyring /\ secret = keyring)
    /\ Behind(mounted, id) => AllOld(id)
    /\ \A e \in Entries : wrapped[e] \in {OldWrap(id), NewWrap}

(* The ids of a stanza whose keys are not read yet.                        *)
IdsFit(id) ==
    \/ /\ Behind(seal.from, id) /\ AllOld(id)
       /\ seal.current.id = id /\ seal.previous.id # id
    \/ /\ seal.from = keyring /\ mounted = keyring /\ keyring.previous # NONE
       /\ seal.current.id = seal_id(keyring.key) /\ seal.previous.id # no_id
       /\ \A e \in Entries : wrapped[e] = NewWrap \/ seal.previous.id = id

(* A running container has the stanza of the old key, or that of a         *)
(* rotation, which opens the entries it has not wrapped again, or a torn   *)
(* one that opens nothing.                                                 *)
StanzaFits(id) ==
    \/ seal.current = OldWrap(id) /\ AllOld(id)
    \/ /\ mounted = keyring /\ keyring.previous # NONE /\ seal.current = NewWrap
       /\ \A e \in Entries : Opens(seal, wrapped[e])
    \/ /\ mounted = keyring /\ keyring.previous # NONE /\ AllOld(id)
       /\ Torn /\ ~Opens(seal, OldWrap(id)) /\ server # "unsealed"

StoreHeld(id) ==
    /\ id \in {seal_id(Old), legacy_id}
    /\ FilesFollow(id)
    /\ server = "configured" => IdsFit(id)
    /\ server \notin {"down", "configured"} => StanzaFits(id)

SealInv == hasty = {} =>
    /\ keyring \in [key : SealKeys, previous : SealKeys \cup {NONE}]
    /\ wrapped = [e \in Entries |-> wrapped[e]]
    /\ {keyring.key, keyring.previous} \subseteq made \cup {NONE}
    /\ keyring.key # keyring.previous
    /\ server = "sealed" => Torn
    /\ server = "unsealed" => \A e \in Entries : wrapped[e] = seal.current
    /\ \E id \in {seal_id(Old), legacy_id} : StoreHeld(id)
=============================================================================
