----------------------------- MODULE MCRegistry -----------------------------
(***************************************************************************)
(* Instances of DeviceRegistry for TLC.                                    *)
(***************************************************************************)
EXTENDS DeviceRegistry, TLC

CONSTANTS blade, bio, card      \* a Blade and a BIO over Bluetooth, a Lite card

NoPeers == <<>>
\* Addresses and names are interchangeable.
Interchangeable == Permutations(Pointer) \cup Permutations(Name)

OneOfEach == (blade :> "BLE_BLD") @@ (bio :> "BLE_BIO") @@ (card :> "NFC_LITE")
=============================================================================
