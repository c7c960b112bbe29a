---------------------------- MODULE PairedDevices ----------------------------
(***************************************************************************)
(* Pairing tokens, device rows and session tokens (bridge-core/src/         *)
(* pairing.rs, storage.rs).  The rows are in the database; both kinds of    *)
(* token are in memory.  Every operation runs under the pairing mutex and   *)
(* is one step.  A device has one session token here: a newer one works     *)
(* exactly when an older one does, but for its time to live.                *)
(***************************************************************************)
CONSTANT Devices

VARIABLES pairing,  \* the pairing token: none, fresh, used or expired
          row,      \* the row of each device: none, paired or revoked
          token     \* its session token: none, live or expired

PairingInit == /\ pairing = "none"
               /\ row = [d \in Devices |-> "none"]
               /\ token = [d \in Devices |-> "none"]

CreateToken == pairing' = "fresh" /\ UNCHANGED <<row, token>>

\* register_device_with_origin: a token is good once and before it expires; the
\* row is inserted or taken back from its revocation, and a session begins.
RegisterDevice(d) == /\ pairing = "fresh"
                     /\ pairing' = "used"
                     /\ row' = [row EXCEPT ![d] = "paired"]
                     /\ token' = [token EXCEPT ![d] = "live"]

\* create_session: for a device that shows its secret and is not revoked.
CreateSession(d) == /\ row[d] = "paired"
                    /\ token' = [token EXCEPT ![d] = "live"]
                    /\ UNCHANGED <<pairing, row>>

\* The clock passes the end of a time to live.
Expires == \/ pairing = "fresh" /\ pairing' = "expired" /\ UNCHANGED <<row, token>>
           \/ \E d \in Devices : /\ token[d] = "live"
                                 /\ token' = [token EXCEPT ![d] = "expired"]
                                 /\ UNCHANGED <<pairing, row>>

\* validate_session_token: the row decides, whatever the token is worth.
Valid(d) == token[d] = "live" /\ row[d] = "paired"

RevokeRow(d) == /\ row[d] # "none"
                /\ row' = [row EXCEPT ![d] = "revoked"]
                /\ UNCHANGED <<pairing, token>>

\* What tokens and rows may be.
PairingTypeOK == /\ pairing \in {"none", "fresh", "used", "expired"}
                 /\ row \in [Devices -> {"none", "paired", "revoked"}]
                 /\ token \in [Devices -> {"none", "live", "expired"}]
=============================================================================
